----------------------------- MODULE PowerProofs -----------------------------
(***************************************************************************)
(* Sleep and the numbers of the captures for every calendar, every number  *)
(* of boots and of presses: what a sleeping device has switched off, when  *)
(* sleep begins, and what a client_job_id and rtc_valid are worth.         *)
(***************************************************************************)
EXTENDS PowerMgr, SequenceTheorems, TLAPS

-----------------------------------------------------------------------------
(* The registers of the clock.                                             *)

\* Two decimal digits go into a byte and come out again.
LEMMA TwoDigits ==
  ASSUME NEW v \in 0..99
  PROVE  /\ Digits(v) \in 0..255 /\ DecToBcd(v) = Digits(v) /\ v % 256 = v
         /\ BcdToDec(Digits(v)) = v
<1>1. \A t \in 0..9, u \in 0..9 : /\ (10 * t + u) \div 10 = t /\ (10 * t + u) % 10 = u
                                  /\ (16 * t + u) \div 16 = t /\ (16 * t + u) % 16 = u
  OBVIOUS
<1>2. PICK t \in 0..9, u \in 0..9 : v = 10 * t + u
  <2>1. v \div 10 \in 0..9 /\ v % 10 \in 0..9 /\ v = 10 * (v \div 10) + (v % 10)
    OBVIOUS
  <2> QED
    BY <2>1
<1>3. v \div 10 = t /\ v % 10 = u /\ (16 * t + u) \div 16 = t /\ (16 * t + u) % 16 = u
  BY <1>1, <1>2
<1>4. Digits(v) = 16 * t + u
  BY <1>3 DEF Digits
<1>5. \A x \in 0..255 : x % 256 = x
  OBVIOUS
<1>6. DecToBcd(v) = Digits(v)
  BY <1>3, <1>4, <1>5 DEF DecToBcd
<1>7. BcdToDec(Digits(v)) = v
  BY <1>2, <1>3, <1>4, <1>5 DEF BcdToDec
<1> QED
  BY <1>4, <1>5, <1>6, <1>7

\* The masks take nothing from what a field of a date holds.
LEMMA MasksKeep ==
  ASSUME NEW v \in 0..59
  PROVE  /\ Digits(v) % 128 = Digits(v) /\ (Digits(v) + 128) % 128 = Digits(v)
         /\ v <= 31 => Digits(v) % 64 = Digits(v)
         /\ v <= 12 => Digits(v) % 32 = Digits(v)
<1>1. PICK t \in 0..5, u \in 0..9 : v = 10 * t + u /\ v \div 10 = t /\ v % 10 = u
  <2>1. v \div 10 \in 0..5 /\ v % 10 \in 0..9 /\ v = 10 * (v \div 10) + (v % 10)
    OBVIOUS
  <2> QED
    BY <2>1
<1>2. Digits(v) = 16 * t + u
  BY <1>1 DEF Digits
<1>3. /\ \A x \in 0..127 : x % 128 = x /\ (x + 128) % 128 = x
      /\ \A x \in 0..63 : x % 64 = x
      /\ \A x \in 0..31 : x % 32 = x
  OBVIOUS
<1>4. /\ 16 * t + u \in 0..127
      /\ v <= 31 => 16 * t + u \in 0..63
      /\ v <= 12 => 16 * t + u \in 0..31
  BY <1>1
<1> QED
  BY <1>2, <1>3, <1>4

\* rtc_get reads from the chip the date it counts, whatever the bit OS is, and
\* rtc_set puts a date where the chip counts on from it.
LEMMA ChipTellsTheDate ==
  ASSUME NEW i \in 1..Len(Moments), NEW os \in BOOLEAN
  PROVE  /\ RtcGet(Registers(i, os)) = Moments[i]
         /\ RtcSet(Moments[i]) = Registers(i, FALSE)
<1>1. Moments[i] \in Times
  BY ClockAssumption, ElementOfSeq
<1>2. PICK s \in 0..59, m \in 0..59, h \in 0..23, d \in 1..31, n \in 0..11, y \in 100..199 :
        Moments[i] = [sec |-> s, min |-> m, hour |-> h, mday |-> d, mon |-> n, year |-> y]
  BY <1>1 DEF Times
<1> DEFINE n1 == n + 1
           y0 == y - 100
<1>3. /\ s \in 0..99 /\ m \in 0..99 /\ h \in 0..99 /\ d \in 0..99 /\ n1 \in 0..99 /\ y0 \in 0..99
      /\ h \in 0..59 /\ d \in 0..59 /\ n1 \in 0..59 /\ h <= 31 /\ d <= 31 /\ n1 <= 12
      /\ n1 - 1 = n /\ y0 + 100 = y
  OBVIOUS
<1>4. Registers(i, os) =
        [sec |-> IF os THEN Digits(s) + 128 ELSE Digits(s), min |-> Digits(m), hour |-> Digits(h),
         mday |-> Digits(d), mon |-> Digits(n1), year |-> Digits(y0)]
  BY <1>2 DEF Registers
<1>5. Registers(i, FALSE) =
        [sec |-> Digits(s), min |-> Digits(m), hour |-> Digits(h),
         mday |-> Digits(d), mon |-> Digits(n1), year |-> Digits(y0)]
  BY <1>2 DEF Registers
<1>6. RtcSet(Moments[i]) =
        [sec |-> DecToBcd(s % 256), min |-> DecToBcd(m % 256), hour |-> DecToBcd(h % 256),
         mday |-> DecToBcd(d % 256), mon |-> DecToBcd(n1 % 256), year |-> DecToBcd(y0 % 256)]
  BY <1>2 DEF RtcSet
<1> HIDE DEF n1, y0
<1>7. RtcSet(Moments[i]) = Registers(i, FALSE)
  <2>1. \A v \in 0..99 : DecToBcd(v % 256) = Digits(v)
    BY TwoDigits
  <2> QED
    BY <1>3, <1>5, <1>6, <2>1
<1>8. /\ (IF os THEN Digits(s) + 128 ELSE Digits(s)) % 128 = Digits(s)
      /\ Digits(m) % 128 = Digits(m) /\ Digits(h) % 64 = Digits(h)
      /\ Digits(d) % 64 = Digits(d) /\ Digits(n1) % 32 = Digits(n1)
  BY <1>3, MasksKeep
<1>9. /\ BcdToDec(Digits(s)) = s /\ BcdToDec(Digits(m)) = m /\ BcdToDec(Digits(h)) = h
      /\ BcdToDec(Digits(d)) = d /\ BcdToDec(Digits(n1)) = n1 /\ BcdToDec(Digits(y0)) = y0
  BY <1>3, TwoDigits
<1>10. RtcGet(Registers(i, os)) =
         [sec |-> BcdToDec(Digits(s)), min |-> BcdToDec(Digits(m)), hour |-> BcdToDec(Digits(h)),
          mday |-> BcdToDec(Digits(d)), mon |-> BcdToDec(Digits(n1)) - 1,
          year |-> BcdToDec(Digits(y0)) + 100]
  BY <1>4, <1>8 DEF RtcGet
<1>11. RtcGet(Registers(i, os)) = Moments[i]
  BY <1>2, <1>3, <1>9, <1>10
<1> QED
  BY <1>7, <1>11

-----------------------------------------------------------------------------
(* The calendar.                                                           *)

\* mktime gives a number of seconds.
LEMMA TimesAreNumbers ==
  ASSUME NEW i \in 1..Len(Moments)
  PROVE  TimeOf[i] = Mktime(Moments[i]) /\ TimeOf[i] \in Int
<1>1. Moments[i] \in Times
  BY ClockAssumption, ElementOfSeq
<1>3. ASSUME NEW tm \in Times PROVE Mktime(tm) \in Int
  <2>1. PICK sc \in 0..59, mi \in 0..59, h \in 0..23, d \in 1..31, n \in 0..11, y \in 100..199 :
          tm = [sec |-> sc, min |-> mi, hour |-> h, mday |-> d, mon |-> n, year |-> y]
    BY DEF Times
  <2> DEFINE days == Days(y + 1900, n + 1, d)
             first == Days(2000, 1, 1)
  <2>2. days \in Int /\ first \in Int
    BY DEF Days
  <2>3. Mktime(tm) = 86400 * (days - first) + 3600 * h + 60 * mi + sc
    BY <2>1 DEF Mktime
  <2> HIDE DEF days, first
  <2>4. 86400 * (days - first) + 3600 * h + 60 * mi + sc \in Int
    BY <2>2
  <2> QED
    BY <2>3, <2>4
<1> QED
  BY <1>1, <1>3 DEF TimeOf

\* Later moments have later times; from one to the next, but for the leap from one
\* stretch to the other, it is three hours.
LEMMA Calendar ==
  /\ Len(Moments) \in Nat /\ Era \in 2..Len(Moments) /\ BuildTime \in Era..Len(Moments)
  /\ Today \in BuildTime..Len(Moments)
  /\ \A i \in 1..Len(Moments) : TimeOf[i] \in Int
  /\ \A i, j \in 1..Len(Moments) : i < j => TimeOf[i] < TimeOf[j]
  /\ \A i \in 1..Len(Moments) \ {Era - 1, Len(Moments)} : TimeOf[i + 1] = TimeOf[i] + 3 * Hour
<1>1. /\ Len(Moments) \in Nat /\ Era \in 2..Len(Moments) /\ BuildTime \in Era..Len(Moments)
      /\ Today \in BuildTime..Len(Moments)
  BY ClockAssumption, LenProperties
<1>2. \A i \in 1..Len(Moments) : TimeOf[i] \in Int
  BY TimesAreNumbers
<1>3. /\ \A i \in 1..Era-1 : TimeOf[i] = TimeOf[1] + 10800 * (i - 1)
      /\ \A i \in Era..Len(Moments) : TimeOf[i] = TimeOf[Era] + 10800 * (i - Era)
      /\ TimeOf[Era - 1] < TimeOf[Era]
  <2>1. ASSUME NEW i \in 1..Era-1 PROVE TimeOf[i] = TimeOf[1] + 10800 * (i - 1)
    <3>1. TimeOf[i] = TimeOf[1] + 3 * Hour * (i - 1)
      BY ClockAssumption
    <3>2. i \in Int
      BY <1>1
    <3> QED
      BY <3>1, <3>2 DEF Hour
  <2>2. ASSUME NEW i \in Era..Len(Moments) PROVE TimeOf[i] = TimeOf[Era] + 10800 * (i - Era)
    <3>1. TimeOf[i] = TimeOf[Era] + 3 * Hour * (i - Era)
      BY ClockAssumption
    <3>2. i \in Int /\ Era \in Int
      BY <1>1
    <3> QED
      BY <3>1, <3>2 DEF Hour
  <2> QED
    BY <2>1, <2>2, ClockAssumption
<1>4. ASSUME NEW i \in 1..Len(Moments), NEW j \in 1..Len(Moments), i < j
      PROVE  TimeOf[i] < TimeOf[j]
  <2>0. /\ TimeOf[1] \in Int /\ TimeOf[Era] \in Int /\ TimeOf[Era - 1] \in Int
        /\ TimeOf[Era - 1] = TimeOf[1] + 10800 * ((Era - 1) - 1)
    <3>1. 1 \in 1..Len(Moments) /\ Era \in 1..Len(Moments) /\ Era - 1 \in 1..Len(Moments)
          /\ Era - 1 \in 1..Era-1
      BY <1>1
    <3> QED
      BY <1>2, <1>3, <3>1
  <2>1. CASE j < Era
    <3>1. i \in 1..Era-1 /\ j \in 1..Era-1
      BY <1>1, <1>4, <2>1
    <3>2. TimeOf[i] = TimeOf[1] + 10800 * (i - 1) /\ TimeOf[j] = TimeOf[1] + 10800 * (j - 1)
      BY <1>3, <3>1
    <3> QED
      BY <1>4, <2>0, <3>2
  <2>2. CASE i < Era /\ Era <= j
    <3>1. i \in 1..Era-1 /\ j \in Era..Len(Moments)
      BY <1>1, <2>2
    <3>2. TimeOf[i] = TimeOf[1] + 10800 * (i - 1) /\ TimeOf[j] = TimeOf[Era] + 10800 * (j - Era)
      BY <1>3, <3>1
    <3> QED
      BY <1>1, <1>3, <2>0, <2>2, <3>2
  <2>3. CASE Era <= i
    <3>1. i \in Era..Len(Moments) /\ j \in Era..Len(Moments)
      BY <1>1, <1>4, <2>3
    <3>2. TimeOf[i] = TimeOf[Era] + 10800 * (i - Era) /\ TimeOf[j] = TimeOf[Era] + 10800 * (j - Era)
      BY <1>3, <3>1
    <3> QED
      BY <1>1, <1>4, <2>0, <3>2
  <2> QED
    BY <1>1, <2>1, <2>2, <2>3
<1>5. ASSUME NEW i \in 1..Len(Moments), i # Era - 1, i # Len(Moments)
      PROVE  TimeOf[i + 1] = TimeOf[i] + 3 * Hour
  <2>0. TimeOf[1] \in Int /\ TimeOf[Era] \in Int
    BY <1>1, <1>2
  <2>1. CASE i < Era
    <3>1. i \in 1..Era-1 /\ i + 1 \in 1..Era-1
      BY <1>1, <1>5, <2>1
    <3>2. TimeOf[i] = TimeOf[1] + 10800 * (i - 1) /\ TimeOf[i + 1] = TimeOf[1] + 10800 * ((i + 1) - 1)
      BY <1>3, <3>1
    <3> QED
      BY <2>0, <3>2 DEF Hour
  <2>2. CASE Era <= i
    <3>1. i \in Era..Len(Moments) /\ i + 1 \in Era..Len(Moments)
      BY <1>1, <1>5, <2>2
    <3>2. TimeOf[i] = TimeOf[Era] + 10800 * (i - Era) /\ TimeOf[i + 1] = TimeOf[Era] + 10800 * ((i + 1) - Era)
      BY <1>3, <3>1
    <3> QED
      BY <1>1, <2>0, <3>2 DEF Hour
  <2> QED
    BY <1>1, <2>1, <2>2
<1> QED
  BY <1>1, <1>2, <1>4, <1>5

\* What the device reads from the chip is the time the chip has come to.
LEMMA ReadIsTime ==
  ASSUME NEW i \in 1..Len(Moments), NEW os \in BOOLEAN
  PROVE  Read[i][os] = TimeOf[i]
<1>1. Read[i][os] = Mktime(RtcGet(Registers(i, os)))
  BY DEF Read
<1> QED
  BY <1>1, ChipTellsTheDate, TimesAreNumbers

\* A refreshed chip counts on from the time of the build, and only one that was
\* more than two hours behind it is refreshed.
LEMMA RefreshGoesAhead ==
  ASSUME chip \in 1..Len(Moments), stopped \in BOOLEAN
  PROVE  /\ Refreshed \in {chip, BuildTime} /\ Refreshed \in 1..Len(Moments)
         /\ TimeOf[Refreshed] >= TimeOf[BuildTime] - 2 * Hour
         /\ TimeOf[Refreshed] >= TimeOf[chip]
         /\ Read[Refreshed][FALSE] = TimeOf[Refreshed]
<1>1. BuildTime \in 1..Len(Moments) /\ TimeOf[BuildTime] \in Int /\ TimeOf[chip] \in Int
  BY Calendar
<1>2. Built = BuildTime
  <2>1. Registers(BuildTime, FALSE) = RtcSet(Moments[BuildTime])
    BY <1>1, ChipTellsTheDate
  <2>2. PICK i \in 1..Len(Moments) : i = Built /\ Registers(i, FALSE) = RtcSet(Moments[BuildTime])
    BY <1>1, <2>1 DEF Built
  <2>3. Moments[i] = Moments[BuildTime]
    BY <1>1, <2>1, <2>2, ChipTellsTheDate
  <2>4. TimeOf[i] = TimeOf[BuildTime]
    BY <1>1, <2>3, TimesAreNumbers
  <2>5. ~(i < BuildTime) /\ ~(BuildTime < i)
    BY <1>1, <2>4, Calendar
  <2> QED
    BY <1>1, <2>2, <2>5
<1>3. Read[chip][stopped] = TimeOf[chip]
  BY ReadIsTime
<1>4. Refreshed = IF TimeOf[BuildTime] - TimeOf[chip] > 2 * Hour THEN BuildTime ELSE chip
  BY <1>2, <1>3 DEF Refreshed, Stale
<1>5. Refreshed \in 1..Len(Moments)
  BY <1>1, <1>4
<1>6. Read[Refreshed][FALSE] = TimeOf[Refreshed]
  BY <1>5, ReadIsTime
<1>7. CASE Refreshed = chip /\ ~(TimeOf[BuildTime] - TimeOf[chip] > 2 * Hour)
  BY <1>1, <1>5, <1>6, <1>7 DEF Hour
<1>8. CASE Refreshed = BuildTime /\ TimeOf[BuildTime] - TimeOf[chip] > 2 * Hour
  BY <1>1, <1>5, <1>6, <1>8 DEF Hour
<1> QED
  BY <1>4, <1>7, <1>8

-----------------------------------------------------------------------------
(* The steps to sleep and the queue of events.                             *)

Rest(i) == SubSeq(Steps, i, 5)

\* The steps that are left are a tail of them all.
LEMMA RestOfSteps ==
  /\ Rest(1) = Steps /\ Rest(6) = <<>>
  /\ \A i \in 1..5 : Rest(i) # <<>> /\ Head(Rest(i)) = Steps[i] /\ Tail(Rest(i)) = Rest(i + 1)
<1>1. Steps \in Seq({"drop", "unmount", "rails", "latch", "start"}) /\ Len(Steps) = 5
  BY DEF Steps
<1>2. Rest(1) = Steps
  BY <1>1, SubSeqFull DEF Rest
<1>3. Rest(6) = <<>>
  BY <1>1, SubSeqEmpty DEF Rest
<1>4. ASSUME NEW i \in 1..5
      PROVE  Rest(i) # <<>> /\ Head(Rest(i)) = Steps[i] /\ Tail(Rest(i)) = Rest(i + 1)
  <2>1. i \in 1..Len(Steps) /\ 5 \in i..Len(Steps)
    BY <1>1
  <2>2. Head(SubSeq(Steps, i, 5)) = Steps[i] /\ Tail(SubSeq(Steps, i, 5)) = SubSeq(Steps, i + 1, 5)
    BY <1>1, <2>1, HeadTailOfSubSeq
  <2>3. Len(SubSeq(Steps, i, 5)) = 6 - i
    BY <1>1, <2>1, SubSeqProperties
  <2>4. SubSeq(Steps, i, 5) # <<>>
    <3>1. Len(SubSeq(Steps, i, 5)) # 0 /\ Len(<<>>) = 0
      BY <2>3
    <3> QED
      BY <3>1, Zenon
  <2> QED
    BY <2>2, <2>4, Zenon DEF Rest
<1> QED
  BY <1>2, <1>3, <1>4

\* Appending to a queue of events keeps it one and adds one event at the end.
LEMMA PostingKeeps ==
  ASSUME NEW S, NEW q \in Seq(S), NEW e \in S
  PROVE  /\ Append(q, e) \in Seq(S)
         /\ \A i \in DOMAIN q : i \in DOMAIN Append(q, e) /\ Append(q, e)[i] = q[i]
         /\ \A i \in DOMAIN Append(q, e) : i \in DOMAIN q \/ (i = Len(q) + 1 /\ Append(q, e)[i] = e)
         /\ Len(q) + 1 \in DOMAIN Append(q, e) /\ Append(q, e)[Len(q) + 1] = e
         /\ \A i \in DOMAIN q : i \in 1..Len(q)
         /\ DOMAIN Append(q, e) = 1..Len(q) + 1 /\ Len(q) \in Nat
<1>1. DOMAIN q = 1..Len(q) /\ Len(q) \in Nat
  BY LenProperties
<1>2. /\ Append(q, e) \in Seq(S) /\ Len(Append(q, e)) = Len(q) + 1
      /\ \A i \in 1..Len(q) : Append(q, e)[i] = q[i]
      /\ Append(q, e)[Len(q) + 1] = e
  BY AppendProperties
<1>3. DOMAIN Append(q, e) = 1..Len(q) + 1
  BY <1>2, LenProperties
<1> QED
  BY <1>1, <1>2, <1>3

\* The other way round: taking the first event away moves the others up by one.
LEMMA TakingMoves ==
  ASSUME NEW S, NEW q \in Seq(S), q # <<>>
  PROVE  /\ Tail(q) \in Seq(S) /\ Head(q) \in S /\ Head(q) = q[1]
         /\ DOMAIN q = 1..Len(q) /\ DOMAIN Tail(q) = 1..Len(q) - 1 /\ Len(q) \in Nat \ {0}
         /\ \A i \in DOMAIN Tail(q) : Tail(q)[i] = q[i + 1]
<1>1. DOMAIN q = 1..Len(q) /\ Len(q) \in Nat /\ Len(q) # 0
  BY LenProperties, EmptySeq
<1>2. /\ Tail(q) \in Seq(S) /\ Head(q) \in S /\ Len(Tail(q)) = Len(q) - 1
      /\ \A i \in 1..Len(Tail(q)) : Tail(q)[i] = q[i + 1]
  BY HeadTailProperties
<1>3. DOMAIN Tail(q) = 1..Len(q) - 1
  BY <1>2, LenProperties
<1>4. Head(q) = q[1]
  OBVIOUS
<1> QED
  BY <1>1, <1>2, <1>3, <1>4

-----------------------------------------------------------------------------
(* The invariants.                                                         *)

\* What the steps to sleep have switched off stays off until the CPU stops, and
\* while it sleeps.
GoesInOrder ==
  /\ going # <<>> => phase \in {"decide", "run"}
  /\ going # <<>> /\ Head(going) \in {"rails", "latch", "start"} => ~mounted
  /\ going # <<>> /\ Head(going) \in {"latch", "start"} => rails = {}
  /\ going # <<>> /\ Head(going) = "start" => latch
  /\ phase = "asleep" => latch /\ ~mounted /\ rails = {}

\* The last change of state on the queue is to the state of the machine; with none
\* on it the bridge has heard of that state.
LastNamed ==
  \/ prevState = state /\ \A i \in DOMAIN events : events[i] \notin States
  \/ \E i \in DOMAIN events : /\ events[i] = state
                              /\ \A j \in DOMAIN events : j > i => events[j] \notin States

\* The idle timer runs only if the last state the bridge heard of is IDLE.
TimerIsOfIdle == idleTimer # "stopped" => prevState = "IDLE"

\* Where the time of the device comes from: the phases after the clock was read.
Lit == {"decide", "run", "asleep"}

\* A chip that never lost its power is not ahead of the time, and the device goes
\* by it; otherwise it counts from 1970, for as long as it has been used.
ChipKeepsTime ==
  /\ ~stopped => chip <= now
  /\ phase \in Lit => (rtcValid <=> ~stopped)
  /\ phase \in Lit /\ ~stopped => sys = TimeOf[chip] /\ sys >= TimeOf[BuildTime] - 2 * Hour
  /\ phase # "off" /\ stopped => sys <= Epoch + 3 * Hour * (now - Today)

\* What the captures so far have to do with the clock as it is: those without a
\* valid time lie as far back as the system clock says, if the power stayed on,
\* and those with one at least as far back as the chip says.
CapturesPast ==
  \A c \in captures :
    /\ c.real <= now /\ c.boot <= powered
    /\ c.boot = powered => phase # "off"
    /\ ~c.valid => stopped /\ c.id.at <= Epoch + 3 * Hour * (now - Today)
    /\ ~c.valid /\ c.boot = powered => sys - c.id.at = 3 * Hour * (now - c.real)
    /\ c.valid /\ ~stopped => c.id.at + 3 * Hour * (now - c.real) <= TimeOf[chip]

PowerInv ==
  /\ TypeOK /\ GoesInOrder /\ LastNamed /\ TimerIsOfIdle
  /\ ChipKeepsTime /\ CapturesPast /\ IdsApart /\ ValidIsPlausible

-----------------------------------------------------------------------------
(* Types.                                                                  *)

\* The names of the events, and of the work.
Works == {"RECORDING", "FINALIZING"}
Named == Events \cup States

\* A clock without power begins at a number of seconds.
LEMMA EpochIsNumber == Epoch \in Int
BY SMT DEF Epoch

\* The device is off, and nothing has been recorded.
LEMMA TypeInit ==
  ASSUME Init
  PROVE  TypeOK
<1>1. ClockTypeOK
  <2>1. now \in Today..Len(Moments) /\ chip \in 1..Len(Moments) /\ captures \subseteq Captures
    BY Calendar DEF Init, ClockInit
  <2>2. stopped \in BOOLEAN /\ rtcValid \in BOOLEAN
    BY Zenon DEF Init, ClockInit
  <2>3. sys \in Int
    BY EpochIsNumber DEF Init, ClockInit
  <2> QED
    BY <2>1, <2>2, <2>3 DEF ClockTypeOK
<1>2. going = Rest(6)
  BY RestOfSteps DEF Init
<1>3. events \in Seq(Named) /\ work \in Seq({"RECORDING", "FINALIZING"})
  BY EmptySeq DEF Init
<1>4. boots \in 0..MaxBoots /\ presses \in 0..MaxPresses /\ powered \in Nat
  BY PowerAssumption DEF Init
<1>5. /\ usb \in BOOLEAN /\ held \in BOOLEAN /\ card \in BOOLEAN /\ mounted \in BOOLEAN
      /\ latch \in BOOLEAN /\ confirmTimer \in BOOLEAN /\ syncing \in BOOLEAN
      /\ pending \in BOOLEAN /\ postponed \in BOOLEAN
  BY Zenon DEF Init
<1>6. /\ phase \in {"off", "init", "decide", "run", "asleep"} /\ wake \in Causes
      /\ idleTimer \in {"stopped", "armed", "due"} /\ rails \subseteq {"epd", "audio"}
      /\ state \in States /\ prevState \in States
  BY DEF Init, Causes, States
<1>7. going \in Remaining
  BY <1>2 DEF Rest, Remaining
<1> QED
  BY <1>1, <1>3, <1>4, <1>5, <1>6, <1>7 DEF TypeOK, Named

\* The steps that read, set or lose the time; the others leave it alone.
LEMMA ClockSteps ==
  ASSUME [Next]_vars
  PROVE  \/ UNCHANGED clockVars
         \/ TimePasses \/ PowerFails \/ InitDone \/ PowerOn \/ (Record /\ DrawId(powered))
<1>1. ASSUME UNCHANGED vars PROVE UNCHANGED clockVars
  BY <1>1 DEF vars
<1>2. ASSUME Boot PROVE UNCHANGED clockVars \/ InitDone \/ PowerOn
  BY <1>2 DEF Boot, WakeUp, InitFails, Decide
<1>3. ASSUME EventLoop PROVE UNCHANGED clockVars
  <2>1. ASSUME NEW s \in States, Transition(s) PROVE UNCHANGED clockVars
    BY <2>1 DEF Transition
  <2>2. ASSUME NEW s \in States, Bridge(s) PROVE UNCHANGED clockVars
    BY <2>2 DEF Bridge
  <2> QED
    BY <1>3, <2>1, <2>2 DEF EventLoop, Ignore
<1>4. ASSUME Worker PROVE UNCHANGED clockVars \/ (Record /\ DrawId(powered))
  BY <1>4 DEF Worker, Record, Finalize
<1>5. ASSUME SyncFinishes PROVE UNCHANGED clockVars
  BY <1>5 DEF SyncFinishes
<1>6. ASSUME Timers PROVE UNCHANGED clockVars
  <2>1. ASSUME NEW i \in 1..5, Go(Steps[i]) PROVE UNCHANGED clockVars
    BY <2>1 DEF Go
  <2> QED
    BY <1>6, <2>1 DEF Timers, ConfirmTimer, IdleTimePasses, IdleTimerFires
<1>7. ASSUME Surroundings PROVE UNCHANGED clockVars \/ TimePasses \/ PowerFails
  BY <1>7 DEF Surroundings, Reset, Press, Release, Plug
<1> QED
  BY <1>1, <1>2, <1>3, <1>4, <1>5, <1>6, <1>7 DEF Next

\* The steps that boot the device or put it to sleep; the others leave it as it is.
LEMMA OtherSteps ==
  ASSUME [Next]_vars
  PROVE  \/ \E raw : Start(raw)
         \/ InitDone \/ Decide \/ IdleTimerFires \/ (\E i \in 1..5 : Go(Steps[i])) \/ PowerFails
         \/ UNCHANGED <<phase, mounted, rails, latch, going>>
<1>1. ASSUME UNCHANGED vars PROVE UNCHANGED <<phase, mounted, rails, latch, going>>
  BY <1>1 DEF vars, hardware
<1>2. ASSUME Boot PROVE (\E raw : Start(raw)) \/ InitDone \/ Decide
  BY <1>2 DEF Boot, PowerOn, WakeUp, InitFails
<1>3. ASSUME EventLoop PROVE UNCHANGED <<phase, mounted, rails, latch, going>>
  <2>1. ASSUME NEW s \in States, Transition(s) PROVE UNCHANGED <<phase, mounted, rails, latch, going>>
    BY <2>1 DEF Transition, hardware
  <2>2. ASSUME NEW s \in States, Bridge(s) PROVE UNCHANGED <<phase, mounted, rails, latch, going>>
    BY <2>2 DEF Bridge, hardware
  <2> QED
    BY <1>3, <2>1, <2>2 DEF EventLoop, Ignore, hardware
<1>4. ASSUME Worker \/ SyncFinishes PROVE UNCHANGED <<phase, mounted, rails, latch, going>>
  BY <1>4 DEF Worker, Record, Finalize, SyncFinishes, hardware
<1>5. ASSUME Timers
      PROVE  \/ IdleTimerFires \/ (\E i \in 1..5 : Go(Steps[i]))
             \/ UNCHANGED <<phase, mounted, rails, latch, going>>
  BY <1>5 DEF Timers, ConfirmTimer, IdleTimePasses, hardware
<1>6. ASSUME Surroundings
      PROVE  \/ (\E raw : Start(raw)) \/ PowerFails \/ UNCHANGED <<phase, mounted, rails, latch, going>>
  BY <1>6 DEF Surroundings, Reset, Press, Release, Plug, TimePasses, hardware
<1> QED
  BY <1>1, <1>2, <1>3, <1>4, <1>5, <1>6 DEF Next

\* The clock keeps its types.
LEMMA ClockTypePreserves ==
  ASSUME TypeOK, [Next]_vars
  PROVE  ClockTypeOK'
<1> USE DEF TypeOK, ClockTypeOK
<1>1. ASSUME UNCHANGED clockVars PROVE ClockTypeOK'
  BY <1>1 DEF clockVars
<1>2. ASSUME Tick PROVE ClockTypeOK'
  BY <1>2, Calendar DEF Tick, Hour
<1>3. ASSUME ClockLosesPower PROVE ClockTypeOK'
  BY <1>3, Calendar DEF ClockLosesPower
<1>4. ASSUME ClockBoots PROVE ClockTypeOK'
  <2>1. Refreshed \in 1..Len(Moments) /\ Read[Refreshed][FALSE] \in Int
    <3>1. Refreshed \in 1..Len(Moments) /\ Read[Refreshed][FALSE] = TimeOf[Refreshed]
      BY RefreshGoesAhead
    <3> QED
      BY <3>1, Calendar
  <2> QED
    BY <1>4, <2>1 DEF ClockBoots
<1>5. ASSUME DrawId(powered) PROVE ClockTypeOK'
  <2>1. PICK r \in Random :
          captures' = captures \cup
            {[real |-> now, id |-> GenerateId(r), valid |-> rtcValid, boot |-> powered]}
    BY <1>5 DEF DrawId
  <2>2. [real |-> now, id |-> GenerateId(r), valid |-> rtcValid, boot |-> powered] \in Captures
    BY Calendar DEF Captures, GenerateId
  <2> QED
    BY <1>5, <2>1, <2>2 DEF DrawId
<1>6. ASSUME PowerOn PROVE ClockTypeOK'
  BY <1>6, EpochIsNumber DEF PowerOn
<1> QED
  BY <1>1, <1>2, <1>3, <1>4, <1>5, <1>6, ClockSteps, Zenon DEF TimePasses, PowerFails, InitDone

\* Every step keeps the types.
LEMMA TypePreserves ==
  ASSUME TypeOK, [Next]_vars
  PROVE  TypeOK'
<1> USE PowerAssumption DEF hardware, loop, tasks, counts
<1>0. ClockTypeOK'
  BY ClockTypePreserves
<1>a. \A e \in Named : Append(events, e) \in Seq(Named)
  BY AppendProperties DEF TypeOK, Named
<1>b. \A e \in Works : Append(work, e) \in Seq(Works)
  BY AppendProperties DEF TypeOK, Works, Named
<1>c. events # <<>> => Tail(events) \in Seq(Named) /\ Head(events) \in Named
  BY HeadTailProperties DEF TypeOK, Named
<1>d. work # <<>> => Tail(work) \in Seq(Works)
  BY HeadTailProperties DEF TypeOK, Works, Named
<1>e. /\ <<>> \in Seq(Named) /\ <<>> \in Seq(Works)
      /\ <<>> \in Remaining /\ Steps \in Remaining
  <2>1. <<>> = Rest(6) /\ Steps = Rest(1) /\ 1 \in 1..6 /\ 6 \in 1..6
    BY RestOfSteps
  <2> QED
    BY <2>1, EmptySeq DEF Rest, Remaining
<1>f. /\ States \subseteq Named /\ BootAction # "sleep" => BootAction \in Named
      /\ \A e \in {"REC_PRESS", "REC_RELEASE", "FINALIZE_DONE", "CONFIRM_DONE", "SYNC_REQUEST",
                  "SYNC_DONE", "ERROR"} : e \in Named
  BY DEF Named, Events, BootAction
<1>1. ASSUME NEW raw, Start(raw) PROVE TypeOK'
  <2>1. wake' \in Causes
    BY <1>1 DEF Start, MapWake, Causes
  <2>2. boots' \in 0..MaxBoots
    BY <1>1 DEF Start, TypeOK
  <2>3. /\ phase' = "init" /\ rails' = {} /\ idleTimer' = "stopped" /\ going' = <<>>
        /\ state' = "BOOT" /\ prevState' = "BOOT" /\ events' = <<>> /\ work' = <<>>
        /\ mounted' = FALSE /\ latch' = FALSE /\ confirmTimer' = FALSE /\ syncing' = FALSE
        /\ postponed' = FALSE /\ UNCHANGED <<usb, held, card, pending, presses, powered>>
    BY <1>1, Zenon DEF Start, Loaded
  <2> QED
    BY <1>0, <1>e, <2>1, <2>2, <2>3 DEF TypeOK, States, Works, Named
<1>2. ASSUME InitDone PROVE TypeOK'
  BY <1>0, <1>2 DEF InitDone, TypeOK
<1>3. ASSUME Decide PROVE TypeOK'
  <2>2. UNCHANGED <<wake, usb, held, card, latch, mounted, rails, idleTimer, work, syncing, pending,
                    postponed, boots, presses, powered>>
    BY <1>3, Zenon DEF Decide
  <2>3. CASE going' = Steps /\ UNCHANGED <<phase, state, events, prevState, confirmTimer>>
    BY <1>0, <1>e, <2>2, <2>3 DEF TypeOK
  <2>4. CASE /\ phase' = "run" /\ events' = Append(events, BootAction)
             /\ BootAction # "sleep" /\ UNCHANGED <<state, prevState, confirmTimer, going>>
    BY <1>0, <1>a, <1>f, <2>2, <2>4 DEF TypeOK, Named
  <2> QED
    BY <1>3, <2>3, <2>4, Zenon DEF Decide, Post
<1>4. ASSUME NEW s \in States, Transition(s) PROVE TypeOK'
  <2>1. confirmTimer' \in BOOLEAN
    BY <1>4, Zenon DEF Transition
  <2>2. events' \in Seq(Named)
    <3>1. events # <<>> /\ events' = Append(Tail(events), s)
      BY <1>4, Zenon DEF Transition
    <3>2. s \in Named
      BY DEF Named
    <3> QED
      BY <1>c, <3>1, <3>2, AppendProperties
  <2>3. /\ state' = s
        /\ UNCHANGED <<phase, wake, usb, held, card, latch, mounted, rails, prevState, idleTimer, going,
                       work, syncing, pending, postponed, boots, presses, powered>>
    BY <1>4, Zenon DEF Transition
  <2> QED
    BY <1>0, <2>1, <2>2, <2>3 DEF TypeOK, Named
<1>5. ASSUME NEW s \in States, Bridge(s) PROVE TypeOK'
  <2>1. syncing' \in BOOLEAN
    BY <1>5, Zenon DEF Bridge
  <2>2. idleTimer' \in {"stopped", "armed", "due"} /\ postponed' \in BOOLEAN
    <3>1. \/ idleTimer' = "stopped" /\ postponed' = postponed
          \/ idleTimer' \in {idleTimer, "armed"} /\ postponed' = usb
      BY <1>5 DEF Bridge, IdleSleep
    <3>2. idleTimer \in {"stopped", "armed", "due"} /\ postponed \in BOOLEAN /\ usb \in BOOLEAN
      BY DEF TypeOK
    <3> QED
      BY <3>1, <3>2
  <2>3. events' \in Seq(Named)
    <3>1. Follow(s) \in Seq(Named)
      BY <1>e, <1>f DEF Follow
    <3>2. events # <<>> /\ events' = Tail(events) \o Follow(s)
      BY <1>5 DEF Bridge
    <3> QED
      BY <1>c, <3>1, <3>2, ConcatProperties
  <2>4. work' \in Seq(Works)
    <3>1. work' = IF s \in Works THEN Append(work, s) ELSE work
      BY <1>5 DEF Bridge, Works
    <3> QED
      BY <1>b, <3>1 DEF TypeOK, Works, Named
  <2>5. /\ prevState' = s
        /\ UNCHANGED <<phase, wake, usb, held, card, latch, mounted, rails, state, confirmTimer, going,
                       pending, boots, presses, powered>>
    BY <1>5, Zenon DEF Bridge
  <2> QED
    BY <1>0, <2>1, <2>2, <2>3, <2>4, <2>5 DEF TypeOK, Works, Named
<1>6. ASSUME Ignore PROVE TypeOK'
  BY <1>0, <1>6, <1>c DEF Ignore, TypeOK, Named
<1>7. ASSUME Record \/ Finalize PROVE TypeOK'
  <2>1. /\ work # <<>> /\ work' = Tail(work)
        /\ UNCHANGED <<phase, wake, usb, held, card, latch, mounted, rails, state, prevState,
                       confirmTimer, idleTimer, going, syncing, postponed, boots, presses, powered>>
    BY <1>7, Zenon DEF Record, Finalize, Post
  <2>2. events' \in Seq(Named) /\ work' \in Seq(Works)
    <3>1. events' \in {events, Append(events, "ERROR"), Append(events, "FINALIZE_DONE")}
      BY <1>7 DEF Record, Finalize, Post
    <3> QED
      BY <1>a, <1>d, <1>f, <2>1, <3>1 DEF TypeOK, Named
  <2>3. pending' \in BOOLEAN
    BY <1>7, Zenon DEF Record, Finalize, TypeOK
  <2> QED
    BY <1>0, <2>1, <2>2, <2>3 DEF TypeOK, Works, Named
<1>8. ASSUME SyncFinishes PROVE TypeOK'
  <2>1. /\ syncing' = FALSE /\ events' = Append(events, "SYNC_DONE")
        /\ UNCHANGED <<phase, wake, usb, held, card, latch, mounted, rails, state, prevState,
                       confirmTimer, idleTimer, going, work, postponed, boots, presses, powered>>
    BY <1>8, Zenon DEF SyncFinishes, Post
  <2>2. pending' \in BOOLEAN
    <3>1. pending' \in {pending, FALSE} /\ pending \in BOOLEAN
      BY <1>8, Zenon DEF SyncFinishes, TypeOK
    <3> QED
      BY <3>1
  <2> QED
    BY <1>0, <1>a, <1>f, <2>1, <2>2 DEF TypeOK, Named
<1>9. ASSUME ConfirmTimer \/ IdleTimePasses PROVE TypeOK'
  <2>1. ASSUME ConfirmTimer PROVE TypeOK'
    BY <1>0, <1>a, <1>f, <2>1 DEF ConfirmTimer, TypeOK, Named
  <2>2. ASSUME IdleTimePasses PROVE TypeOK'
    BY <1>0, <2>2 DEF IdleTimePasses, TypeOK
  <2> QED
    BY <1>9, <2>1, <2>2
<1>10. ASSUME IdleTimerFires PROVE TypeOK'
  BY <1>0, <1>10, <1>e DEF IdleTimerFires, TypeOK
<1>11. ASSUME NEW i \in 1..5, Go(Steps[i]) PROVE TypeOK'
  <2>1. going' \in Remaining
    <3>1. PICK k \in 1..6 : going = Rest(k)
      BY DEF TypeOK, Remaining, Rest
    <3>2. going # <<>> /\ going' = Tail(going)
      BY <1>11, Zenon DEF Go
    <3>3. k \in 1..5 /\ k + 1 \in 1..6
      BY <3>1, <3>2, RestOfSteps
    <3>4. going' = Rest(k + 1)
      BY <3>1, <3>2, <3>3, RestOfSteps
    <3> QED
      BY <3>3, <3>4 DEF Rest, Remaining
  <2>2. mounted' \in BOOLEAN /\ latch' \in BOOLEAN
    BY <1>11, Zenon DEF Go
  <2>3. rails' \subseteq {"epd", "audio"} /\ phase' \in {phase, "asleep"}
    BY <1>11 DEF Go, TypeOK
  <2>4. UNCHANGED <<wake, usb, held, card, state, events, prevState, confirmTimer, idleTimer, work,
                    syncing, pending, postponed, boots, presses, powered>>
    BY <1>11, Zenon DEF Go
  <2> QED
    BY <1>0, <2>1, <2>2, <2>3, <2>4 DEF TypeOK
<1>12. ASSUME Press \/ Release PROVE TypeOK'
  <2>1. held' \in BOOLEAN
    BY <1>12, Zenon DEF Press, Release
  <2>2. presses' \in 0..MaxPresses
    BY <1>12 DEF Press, Release, TypeOK
  <2>3. UNCHANGED <<phase, wake, usb, card, latch, mounted, rails, state, prevState, confirmTimer,
                    idleTimer, going, work, syncing, pending, postponed, boots, powered>>
    BY <1>12, Zenon DEF Press, Release, Post
  <2>4. events' \in {events, Append(events, "REC_PRESS"), Append(events, "REC_RELEASE")}
    BY <1>12 DEF Press, Release, Post
  <2> QED
    BY <1>0, <1>a, <1>f, <2>1, <2>2, <2>3, <2>4 DEF TypeOK, Named
<1>13. ASSUME Plug \/ PowerFails \/ TimePasses PROVE TypeOK'
  <2>1. ASSUME Plug PROVE TypeOK'
    <3>1. usb' \in BOOLEAN
      BY <2>1, Zenon DEF Plug
    <3> QED
      BY <1>0, <2>1, <3>1 DEF Plug, TypeOK
  <2>2. ASSUME PowerFails PROVE TypeOK'
    <3>1. /\ phase' = "off" /\ rails' = {} /\ idleTimer' = "stopped" /\ going' = <<>>
          /\ state' = "BOOT" /\ prevState' = "BOOT" /\ events' = <<>> /\ work' = <<>>
          /\ mounted' = FALSE /\ latch' = FALSE /\ confirmTimer' = FALSE /\ syncing' = FALSE
          /\ postponed' = FALSE
          /\ UNCHANGED <<wake, usb, held, card, pending, boots, presses>>
      BY <2>2, Zenon DEF PowerFails, Loaded
    <3>2. powered' \in Nat
      BY <2>2 DEF PowerFails, TypeOK
    <3> QED
      BY <1>0, <1>e, <3>1, <3>2 DEF TypeOK, States, Works, Named
  <2>3. ASSUME TimePasses PROVE TypeOK'
    BY <1>0, <2>3 DEF TimePasses, TypeOK
  <2> QED
    BY <1>13, <2>1, <2>2, <2>3
<1>14. ASSUME UNCHANGED vars PROVE TypeOK'
  <2>1. UNCHANGED <<phase, wake, usb, held, card, latch, mounted, rails, state, events, prevState,
                    confirmTimer, idleTimer, going, work, syncing, pending, postponed, boots, presses,
                    powered>>
    BY <1>14, Zenon DEF vars
  <2> QED
    BY <1>0, <2>1 DEF TypeOK
<1> HIDE DEF hardware, loop, tasks, counts
<1>15. Boot => (\E raw : Start(raw)) \/ InitDone \/ Decide
  BY DEF Boot, PowerOn, WakeUp, InitFails
<1>16. Surroundings => (\E raw : Start(raw)) \/ Press \/ Release \/ Plug \/ PowerFails \/ TimePasses
  BY DEF Surroundings, Reset
<1>17. Timers => ConfirmTimer \/ IdleTimePasses \/ IdleTimerFires \/ \E i \in 1..5 : Go(Steps[i])
  BY DEF Timers
<1>18. EventLoop => (\E s \in States : Transition(s) \/ Bridge(s)) \/ Ignore
  BY DEF EventLoop
<1>19. Worker => Record \/ Finalize
  BY DEF Worker
<1>20. ASSUME Boot PROVE TypeOK'
  BY <1>1, <1>2, <1>3, <1>15, <1>20
<1>21. ASSUME EventLoop PROVE TypeOK'
  BY <1>4, <1>5, <1>6, <1>18, <1>21
<1>22. ASSUME Timers PROVE TypeOK'
  BY <1>9, <1>10, <1>11, <1>17, <1>22
<1>23. ASSUME Surroundings PROVE TypeOK'
  BY <1>1, <1>12, <1>13, <1>16, <1>23
<1> QED
  BY <1>7, <1>8, <1>14, <1>19, <1>20, <1>21, <1>22, <1>23 DEF Next

-----------------------------------------------------------------------------
(* Going to sleep.                                                         *)

\* The steps to sleep come in their order and nothing undoes one before the CPU
\* stops: the boot that mounts the card has come first, and a reset forgets them.
LEMMA GoesPreserves ==
  ASSUME TypeOK, GoesInOrder, [Next]_vars
  PROVE  GoesInOrder'
<1> USE DEF GoesInOrder
<1>1. ASSUME NEW raw, Start(raw) PROVE GoesInOrder'
  BY <1>1 DEF Start, Loaded
<1>2. ASSUME InitDone PROVE GoesInOrder'
  BY <1>2 DEF InitDone
<1>3. ASSUME Decide PROVE GoesInOrder'
  <2>1. Head(Steps) = "drop" /\ Steps # <<>>
    BY DEF Steps
  <2> QED
    BY <1>3, <2>1 DEF Decide
<1>4. ASSUME IdleTimerFires PROVE GoesInOrder'
  <2>1. Head(Steps) = "drop" /\ Steps # <<>>
    BY DEF Steps
  <2> QED
    BY <1>4, <2>1 DEF IdleTimerFires, hardware
<1>5. ASSUME NEW i \in 1..5, Go(Steps[i]) PROVE GoesInOrder'
  <2>1. PICK k \in 1..5 : going = Rest(k) /\ k + 1 \in 1..6
    <3>1. PICK k \in 1..6 : going = Rest(k)
      BY DEF TypeOK, Remaining, Rest
    <3>2. k # 6
      BY <1>5, <3>1, RestOfSteps DEF Go
    <3> QED
      BY <3>1, <3>2
  <2>2. Head(going) = Steps[k] /\ Steps[k] = Steps[i] /\ going # <<>> /\ going' = Rest(k + 1)
    BY <1>5, <2>1, RestOfSteps DEF Go
  <2>3. phase \in {"decide", "run"} /\ phase' = IF Steps[k] = "start" THEN "asleep" ELSE phase
    BY <1>5, <2>2 DEF Go
  <2>4. /\ mounted' = (mounted /\ Steps[k] # "unmount")
        /\ rails' = IF Steps[k] = "rails" THEN {} ELSE rails
        /\ latch' = (latch \/ Steps[k] = "latch")
    BY <1>5, <2>2 DEF Go
  <2>5. /\ Steps[1] = "drop" /\ Steps[2] = "unmount" /\ Steps[3] = "rails" /\ Steps[4] = "latch"
        /\ Steps[5] = "start"
    BY DEF Steps
  <2>6. ASSUME k <= 4 PROVE Head(going') = Steps[k + 1]
    <3>1. k + 1 \in 1..5
      BY <2>1, <2>6
    <3> QED
      BY <2>2, <3>1, RestOfSteps
  <2>7. k = 5 => going' = <<>>
    BY <2>1, <2>2, RestOfSteps
  <2>8. CASE k = 1
    BY <2>2, <2>3, <2>4, <2>5, <2>6, <2>8
  <2>9. CASE k = 2
    <3>1. Head(going') = "rails" /\ phase' = phase
      BY <2>2, <2>3, <2>5, <2>6, <2>9
    <3>2. ~mounted'
      BY <2>4, <2>5, <2>9
    <3> QED
      BY <2>3, <3>1, <3>2
  <2>10. CASE k = 3
    <3>1. Head(going') = "latch" /\ phase' = phase /\ rails' = {}
      BY <2>2, <2>3, <2>4, <2>5, <2>6, <2>10
    <3>2. ~mounted'
      BY <2>2, <2>4, <2>5, <2>10
    <3> QED
      BY <2>3, <3>1, <3>2
  <2>11. CASE k = 4
    BY <2>2, <2>3, <2>4, <2>5, <2>6, <2>11
  <2>12. CASE k = 5
    BY <2>2, <2>3, <2>4, <2>5, <2>7, <2>12
  <2> QED
    BY <2>8, <2>9, <2>10, <2>11, <2>12
<1>6. ASSUME PowerFails PROVE GoesInOrder'
  BY <1>6 DEF PowerFails, Loaded
<1>7. ASSUME UNCHANGED <<phase, mounted, rails, latch, going>> PROVE GoesInOrder'
  BY <1>7
<1>8. \/ \E raw : Start(raw)
      \/ InitDone \/ Decide \/ IdleTimerFires \/ (\E i \in 1..5 : Go(Steps[i])) \/ PowerFails
      \/ UNCHANGED <<phase, mounted, rails, latch, going>>
  BY OtherSteps
<1> QED
  BY <1>1, <1>2, <1>3, <1>4, <1>5, <1>6, <1>7, <1>8

-----------------------------------------------------------------------------
(* What the bridge has heard of.                                           *)

Resets == state' = "BOOT" /\ prevState' = "BOOT" /\ events' = <<>> /\ idleTimer' = "stopped"
Posts(e) == events' = Append(events, e) /\ UNCHANGED <<state, prevState, idleTimer>>

\* What a step does to the queue of events and to what hangs on it.
LEMMA LoopSteps ==
  ASSUME [Next]_vars
  PROVE  \/ Resets
         \/ \E e \in Events : Posts(e)
         \/ \E s \in States : Transition(s) \/ Bridge(s)
         \/ Ignore
         \/ /\ UNCHANGED <<state, events, prevState>>
            /\ idleTimer' # "stopped" => idleTimer # "stopped"
<1> DEFINE Same == /\ UNCHANGED <<state, events, prevState>>
                   /\ idleTimer' # "stopped" => idleTimer # "stopped"
<1>0. /\ "REC_PRESS" \in Events /\ "REC_RELEASE" \in Events /\ "FINALIZE_DONE" \in Events
      /\ "CONFIRM_DONE" \in Events /\ "SYNC_DONE" \in Events /\ "ERROR" \in Events
      /\ BootAction # "sleep" => BootAction \in Events
  BY DEF Events, BootAction
<1>1. ASSUME UNCHANGED vars PROVE Same
  BY <1>1 DEF vars, loop
<1>2. ASSUME Boot PROVE Resets \/ (\E e \in Events : Posts(e)) \/ Same
  <2>1. ASSUME NEW raw, Start(raw) PROVE Resets
    BY <2>1 DEF Start, Loaded, Resets
  <2>2. ASSUME InitDone PROVE Same
    BY <2>2 DEF InitDone, loop
  <2>3. ASSUME Decide PROVE (\E e \in Events : Posts(e)) \/ Same
    BY <1>0, <2>3 DEF Decide, Post, Posts, loop
  <2> QED
    BY <1>2, <2>1, <2>2, <2>3 DEF Boot, PowerOn, WakeUp, InitFails
<1>3. ASSUME Worker PROVE (\E e \in Events : Posts(e)) \/ Same
  BY <1>0, <1>3 DEF Worker, Record, Finalize, Post, Posts, loop
<1>4. ASSUME SyncFinishes PROVE \E e \in Events : Posts(e)
  BY <1>0, <1>4 DEF SyncFinishes, Post, Posts
<1>5. ASSUME Timers PROVE (\E e \in Events : Posts(e)) \/ Same
  <2>1. ASSUME ConfirmTimer PROVE \E e \in Events : Posts(e)
    BY <1>0, <2>1 DEF ConfirmTimer, Posts
  <2>2. ASSUME IdleTimePasses \/ IdleTimerFires PROVE Same
    BY <2>2 DEF IdleTimePasses, IdleTimerFires, loop
  <2>3. ASSUME NEW i \in 1..5, Go(Steps[i]) PROVE Same
    BY <2>3 DEF Go, loop
  <2> QED
    BY <1>5, <2>1, <2>2, <2>3 DEF Timers
<1>6. ASSUME Surroundings PROVE Resets \/ (\E e \in Events : Posts(e)) \/ Same
  <2>1. ASSUME Reset \/ PowerFails PROVE Resets
    BY <2>1 DEF Reset, PowerFails, Start, Loaded, Resets
  <2>2. ASSUME Press \/ Release PROVE (\E e \in Events : Posts(e)) \/ Same
    BY <1>0, <2>2 DEF Press, Release, Post, Posts, loop
  <2>3. ASSUME Plug \/ TimePasses PROVE Same
    BY <2>3 DEF Plug, TimePasses, loop
  <2> QED
    BY <1>6, <2>1, <2>2, <2>3 DEF Surroundings
<1> QED
  BY <1>1, <1>2, <1>3, <1>4, <1>5, <1>6 DEF Next, EventLoop

\* The bridge hears of every change of state, in their order, and of no other.
LEMMA NamesPreserve ==
  ASSUME TypeOK, LastNamed, TimerIsOfIdle, [Next]_vars
  PROVE  LastNamed' /\ TimerIsOfIdle'
<1>0. \A e \in Events : e \notin States
  BY DEF Events, States
<1>1. ASSUME Resets PROVE LastNamed' /\ TimerIsOfIdle'
  <2>1. DOMAIN <<>> = {}
    OBVIOUS
  <2> QED
    BY <1>1, <2>1 DEF Resets, LastNamed, TimerIsOfIdle
<1>2. ASSUME NEW e \in Events, Posts(e) PROVE LastNamed' /\ TimerIsOfIdle'
  <2>1. events \in Seq(Named) /\ e \in Named
    BY DEF TypeOK, Named
  <2>2. /\ \A i \in DOMAIN events : i \in DOMAIN events' /\ events'[i] = events[i]
        /\ \A i \in DOMAIN events' : i \in DOMAIN events \/ events'[i] = e
    BY <1>2, <2>1, PostingKeeps DEF Posts
  <2>3. UNCHANGED <<state, prevState, idleTimer>> /\ e \notin States
    BY <1>0, <1>2 DEF Posts
  <2>4. CASE prevState = state /\ \A i \in DOMAIN events : events[i] \notin States
    BY <2>2, <2>3, <2>4 DEF LastNamed, TimerIsOfIdle
  <2>5. CASE \E i \in DOMAIN events : /\ events[i] = state
                                      /\ \A j \in DOMAIN events : j > i => events[j] \notin States
    BY <2>2, <2>3, <2>5 DEF LastNamed, TimerIsOfIdle
  <2> QED
    BY <2>4, <2>5 DEF LastNamed
<1>3. ASSUME NEW s \in States, Transition(s) PROVE LastNamed' /\ TimerIsOfIdle'
  <2>1. /\ events # <<>> /\ events' = Append(Tail(events), s) /\ state' = s
        /\ UNCHANGED <<prevState, idleTimer>>
    BY <1>3, Zenon DEF Transition
  <2>2. Tail(events) \in Seq(Named) /\ s \in Named
    BY <2>1, TakingMoves DEF TypeOK, Named
  <2>3. /\ Len(Tail(events)) + 1 \in DOMAIN events' /\ events'[Len(Tail(events)) + 1] = s
        /\ DOMAIN events' = 1..Len(Tail(events)) + 1 /\ Len(Tail(events)) \in Nat
    BY <2>1, <2>2, PostingKeeps
  <2>4. \A j \in DOMAIN events' : ~(j > Len(Tail(events)) + 1)
    BY <2>3
  <2> QED
    BY <2>1, <2>3, <2>4 DEF LastNamed, TimerIsOfIdle
<1>4. ASSUME events # <<>>
      PROVE  /\ DOMAIN events = 1..Len(events) /\ DOMAIN Tail(events) = 1..Len(events) - 1
             /\ Len(events) \in Nat \ {0} /\ events[1] = Head(events)
             /\ \A i \in DOMAIN Tail(events) : Tail(events)[i] = events[i + 1]
             /\ \A i \in DOMAIN Tail(events) : i + 1 \in DOMAIN events /\ i + 1 > 1
  <2>1. /\ DOMAIN events = 1..Len(events) /\ DOMAIN Tail(events) = 1..Len(events) - 1
        /\ Len(events) \in Nat \ {0} /\ events[1] = Head(events)
        /\ \A i \in DOMAIN Tail(events) : Tail(events)[i] = events[i + 1]
    BY <1>4, TakingMoves DEF TypeOK
  <2> QED
    BY <2>1
<1>5. ASSUME events # <<>>, NEW i \in DOMAIN events, i # 1, events[i] = state,
             \A j \in DOMAIN events : j > i => events[j] \notin States
      PROVE  \E k \in DOMAIN Tail(events) :
               /\ Tail(events)[k] = state
               /\ \A j \in DOMAIN Tail(events) : j > k => Tail(events)[j] \notin States
  <2>1. i - 1 \in DOMAIN Tail(events) /\ (i - 1) + 1 = i
    BY <1>4, <1>5
  <2>2. Tail(events)[i - 1] = state
    BY <1>4, <1>5, <2>1
  <2>3. ASSUME NEW j \in DOMAIN Tail(events), j > i - 1 PROVE Tail(events)[j] \notin States
    <3>1. j + 1 \in DOMAIN events /\ j + 1 > i
      BY <1>4, <1>5, <2>1, <2>3
    <3>2. Tail(events)[j] = events[j + 1]
      BY <1>4, <1>5
    <3> QED
      BY <1>5, <3>1, <3>2
  <2> QED
    BY <2>1, <2>2, <2>3
<1>6. ASSUME Ignore PROVE LastNamed' /\ TimerIsOfIdle'
  <2>1. /\ events # <<>> /\ events' = Tail(events) /\ Head(events) \notin States
        /\ UNCHANGED <<state, prevState, idleTimer>>
    BY <1>6, Zenon DEF Ignore
  <2>2. CASE prevState = state /\ \A i \in DOMAIN events : events[i] \notin States
    <3>1. \A i \in DOMAIN Tail(events) : Tail(events)[i] \notin States
      BY <1>4, <2>1, <2>2
    <3> QED
      BY <2>1, <2>2, <3>1 DEF LastNamed, TimerIsOfIdle
  <2>3. ASSUME NEW i \in DOMAIN events, events[i] = state,
               \A j \in DOMAIN events : j > i => events[j] \notin States
        PROVE  LastNamed' /\ TimerIsOfIdle'
    <3>1. i # 1
      BY <1>4, <2>1, <2>3 DEF TypeOK
    <3> QED
      BY <1>5, <2>1, <2>3, <3>1 DEF LastNamed, TimerIsOfIdle
  <2> QED
    BY <2>2, <2>3 DEF LastNamed
<1>7. ASSUME NEW s \in States, Bridge(s) PROVE LastNamed' /\ TimerIsOfIdle'
  <2>1. /\ events # <<>> /\ Head(events) = s /\ events' = Tail(events) \o Follow(s)
        /\ state' = state /\ prevState' = s /\ (s # "IDLE" => idleTimer' = "stopped")
    BY <1>7, Zenon DEF Bridge, IdleSleep
  <2>2. /\ Tail(events) \in Seq(Named) /\ Follow(s) \in Seq(Named)
        /\ Follow(s) = <<>> \/ Follow(s) = <<"SYNC_REQUEST">>
    <3>1. "SYNC_REQUEST" \in Named
      BY DEF Named, Events
    <3>2. Tail(events) \in Seq(Named)
      BY <2>1, TakingMoves DEF TypeOK, Named
    <3>3. Follow(s) = <<>> \/ Follow(s) = <<"SYNC_REQUEST">>
      BY Zenon DEF Follow
    <3>4. <<>> \in Seq(Named) /\ <<"SYNC_REQUEST">> \in Seq(Named)
      BY <3>1
    <3> QED
      BY <3>2, <3>3, <3>4, Zenon
  <2>3. /\ DOMAIN Tail(events) \subseteq DOMAIN events'
        /\ \A i \in DOMAIN Tail(events) : events'[i] = Tail(events)[i]
        /\ \A i \in DOMAIN events' : i \in DOMAIN Tail(events) \/ events'[i] \notin States
    <3>1. "SYNC_REQUEST" \notin States
      BY DEF States
    <3>2. CASE Follow(s) = <<>>
      <4>1. events' = Tail(events)
        BY <2>1, <2>2, <3>2, ConcatEmptySeq
      <4> QED
        BY <4>1
    <3>3. CASE Follow(s) = <<"SYNC_REQUEST">>
      <4>1. "SYNC_REQUEST" \in Named
        BY DEF Named, Events
      <4>2. events' = Append(Tail(events), "SYNC_REQUEST")
        BY <2>1, <2>2, <3>3, <4>1, AppendIsConcat
      <4>3. /\ \A i \in DOMAIN Tail(events) : i \in DOMAIN events' /\ events'[i] = Tail(events)[i]
            /\ \A i \in DOMAIN events' : i \in DOMAIN Tail(events) \/ events'[i] = "SYNC_REQUEST"
        BY <2>2, <4>1, <4>2, PostingKeeps
      <4> QED
        BY <3>1, <4>3
    <3> QED
      BY <2>2, <3>2, <3>3
  <2>4. TimerIsOfIdle'
    BY <2>1 DEF TimerIsOfIdle
  <2>5. PICK i \in DOMAIN events : /\ events[i] = state
                                   /\ \A j \in DOMAIN events : j > i => events[j] \notin States
    <3>1. 1 \in DOMAIN events /\ events[1] \in States
      BY <1>4, <2>1
    <3> QED
      BY <3>1, Zenon DEF LastNamed
  <2>6. CASE i = 1
    <3>1. \A j \in DOMAIN Tail(events) : Tail(events)[j] \notin States
      BY <1>4, <2>1, <2>5, <2>6
    <3>2. prevState' = state'
      BY <1>4, <2>1, <2>5, <2>6
    <3> QED
      BY <2>3, <2>4, <3>1, <3>2 DEF LastNamed
  <2>7. CASE i # 1
    <3>1. PICK k \in DOMAIN Tail(events) :
            /\ Tail(events)[k] = state
            /\ \A j \in DOMAIN Tail(events) : j > k => Tail(events)[j] \notin States
      BY <1>5, <2>1, <2>5, <2>7
    <3> QED
      BY <2>1, <2>3, <2>4, <3>1 DEF LastNamed
  <2> QED
    BY <2>6, <2>7
<1>8. ASSUME UNCHANGED <<state, events, prevState>>, idleTimer' # "stopped" => idleTimer # "stopped"
      PROVE  LastNamed' /\ TimerIsOfIdle'
  BY <1>8 DEF LastNamed, TimerIsOfIdle
<1> QED
  BY <1>1, <1>2, <1>3, <1>6, <1>7, <1>8, LoopSteps

-----------------------------------------------------------------------------
(* What the clock shows.                                                   *)

\* A step that goes neither through a boot nor through a loss of power.
StaysLit ==
  /\ powered' = powered /\ (phase' = "off" <=> phase = "off")
  /\ phase' \in Lit => phase \in Lit

\* The other steps than those of the clock stay in the phases in which it was read.
LEMMA ClockAndPhase ==
  ASSUME GoesInOrder, [Next]_vars
  PROVE  \/ UNCHANGED clockVars /\ StaysLit
         \/ TimePasses \/ PowerFails \/ InitDone \/ PowerOn \/ (Record /\ DrawId(powered))
<1> USE DEF Lit
<1>1. \/ StaysLit \/ InitDone \/ PowerFails \/ PowerOn
  <2>1. ASSUME UNCHANGED vars PROVE StaysLit
    BY <2>1 DEF vars, counts, StaysLit
  <2>2. ASSUME Boot PROVE StaysLit \/ InitDone \/ PowerOn
    BY <2>2 DEF Boot, WakeUp, InitFails, Decide, Start, counts, StaysLit
  <2>3. ASSUME EventLoop PROVE StaysLit
    <3>1. ASSUME NEW s \in States, Transition(s) PROVE StaysLit
      BY <3>1 DEF Transition, counts, StaysLit
    <3>2. ASSUME NEW s \in States, Bridge(s) PROVE StaysLit
      BY <3>2 DEF Bridge, counts, StaysLit
    <3> QED
      BY <2>3, <3>1, <3>2 DEF EventLoop, Ignore, counts, StaysLit
  <2>4. ASSUME Worker \/ SyncFinishes PROVE StaysLit
    BY <2>4 DEF Worker, Record, Finalize, SyncFinishes, counts, StaysLit
  <2>5. ASSUME Timers PROVE StaysLit
    <3>1. ASSUME NEW i \in 1..5, Go(Steps[i]) PROVE StaysLit
      <4>1. phase \in {"decide", "run"} /\ phase' \in {phase, "asleep"} /\ powered' = powered
        BY <3>1 DEF Go, GoesInOrder, counts
      <4> QED
        BY <4>1 DEF StaysLit
    <3> QED
      BY <2>5, <3>1 DEF Timers, ConfirmTimer, IdleTimePasses, IdleTimerFires, counts, StaysLit
  <2>6. ASSUME Surroundings PROVE StaysLit \/ PowerFails
    BY <2>6 DEF Surroundings, Reset, Start, Press, Release, Plug, TimePasses, counts, StaysLit
  <2> QED
    BY <2>1, <2>2, <2>3, <2>4, <2>5, <2>6 DEF Next
<1> QED
  BY <1>1, ClockSteps

\* The lengths of time, in seconds.
LEMMA Seconds ==
  /\ 3 * Hour = 10800 /\ 2 * Hour = 7200
  /\ \A x \in Int : 3 * Hour * x = 10800 * x
BY DEF Hour

\* Nothing but a loss of power takes the time from the chip, and the boot sets the
\* system clock by it.
LEMMA ChipPreserves ==
  ASSUME TypeOK, GoesInOrder, ChipKeepsTime, [Next]_vars
  PROVE  ChipKeepsTime'
<1>0. /\ now \in Today..Len(Moments) /\ chip \in 1..Len(Moments) /\ sys \in Int
      /\ now \in Int /\ Today \in Int /\ now >= Today /\ now >= BuildTime /\ BuildTime \in Int
      /\ stopped \in BOOLEAN /\ rtcValid \in BOOLEAN /\ chip \in Int
      /\ BuildTime \in 1..Len(Moments) /\ TimeOf[BuildTime] \in Int /\ TimeOf[chip] \in Int
  BY Calendar DEF TypeOK, ClockTypeOK
<1>1. ASSUME UNCHANGED clockVars, StaysLit PROVE ChipKeepsTime'
  <2>1. UNCHANGED <<now, chip, stopped, rtcValid, sys>>
    BY <1>1 DEF clockVars
  <2> QED
    BY <1>1, <2>1 DEF ChipKeepsTime, StaysLit
<1>2. ASSUME TimePasses PROVE ChipKeepsTime'
  <2>1. /\ now' = now + 1 /\ chip' = chip + 1 /\ sys' = sys + 10800
        /\ UNCHANGED <<phase, stopped, rtcValid>>
        /\ TimeOf[chip'] = TimeOf[chip] + 10800
    <3>1. /\ now' = now + 1 /\ chip' = chip + 1 /\ sys' = sys + 3 * Hour
          /\ chip \in 1..Len(Moments) \ {Era - 1, Len(Moments)}
          /\ UNCHANGED <<phase, stopped, rtcValid>>
      BY <1>0, <1>2 DEF TimePasses, Tick
    <3>2. TimeOf[chip + 1] = TimeOf[chip] + 3 * Hour
      BY <3>1, Calendar
    <3>3. 3 * Hour = 10800
      BY Seconds
    <3> QED
      BY <3>1, <3>2, <3>3
  <2>2. ~stopped' => chip' <= now'
    BY <1>0, <2>1 DEF ChipKeepsTime
  <2>3. phase' \in Lit => (rtcValid' <=> ~stopped')
    <3>1. phase' = phase /\ stopped' = stopped /\ rtcValid' = rtcValid
      BY <2>1
    <3> QED
      BY <3>1, Zenon DEF ChipKeepsTime
  <2>4. phase' \in Lit /\ ~stopped' => sys' = TimeOf[chip'] /\ sys' >= TimeOf[BuildTime] - 2 * Hour
    <3>1. ASSUME phase' \in Lit, ~stopped' PROVE sys = TimeOf[chip] /\ sys >= TimeOf[BuildTime] - 2 * Hour
      BY <2>1, <3>1 DEF ChipKeepsTime
    <3>2. 2 * Hour = 7200
      BY Seconds
    <3> QED
      BY <1>0, <2>1, <3>1, <3>2
  <2>5. ASSUME phase' # "off", stopped' PROVE sys' <= Epoch + 3 * Hour * (now' - Today)
    <3>1. sys <= Epoch + 3 * Hour * (now - Today)
      BY <2>1, <2>5 DEF ChipKeepsTime
    <3>2. /\ 3 * Hour * (now - Today) = 10800 * (now - Today)
          /\ 3 * Hour * (now' - Today) = 10800 * (now' - Today)
      <4>1. now - Today \in Int /\ now' - Today \in Int
        BY <1>0, <2>1
      <4> QED
        BY <4>1, Seconds
    <3> QED
      BY <1>0, <2>1, <3>1, <3>2, EpochIsNumber
  <2> QED
    BY <2>2, <2>3, <2>4, <2>5, Zenon DEF ChipKeepsTime
<1>3. ASSUME PowerFails PROVE ChipKeepsTime'
  <2>1. phase' = "off" /\ now' = now /\ (~stopped' => ~stopped /\ chip' = chip)
    BY <1>3 DEF PowerFails, ClockLosesPower, clockVars
  <2> QED
    BY <2>1 DEF ChipKeepsTime, Lit
<1>4. ASSUME InitDone PROVE ChipKeepsTime'
  <2>1. phase = "init" /\ phase' = "decide" /\ ClockBoots /\ now' = now /\ stopped' = stopped
    BY <1>4 DEF InitDone, ClockBoots
  <2>2. CASE stopped /\ rtcValid' = FALSE /\ UNCHANGED <<chip, sys>>
    BY <2>1, <2>2 DEF ChipKeepsTime
  <2>3. CASE ~stopped /\ rtcValid' = TRUE /\ chip' = Refreshed /\ sys' = Read[Refreshed][FALSE]
    <3>1. /\ Refreshed \in {chip, BuildTime} /\ TimeOf[Refreshed] >= TimeOf[BuildTime] - 2 * Hour
          /\ Read[Refreshed][FALSE] = TimeOf[Refreshed]
      BY <1>0, RefreshGoesAhead
    <3>2. chip' <= now'
      BY <1>0, <2>1, <2>3, <3>1 DEF ChipKeepsTime
    <3> QED
      BY <2>1, <2>3, <3>1, <3>2 DEF ChipKeepsTime
  <2> QED
    BY <2>1, <2>2, <2>3, Zenon DEF ClockBoots, CheckOs
<1>5. ASSUME PowerOn PROVE ChipKeepsTime'
  <2>1. phase' = "init" /\ sys' = Epoch /\ UNCHANGED <<now, chip, stopped>>
    BY <1>5, Zenon DEF PowerOn, Start
  <2>2. Epoch <= Epoch + 3 * Hour * (now - Today)
    <3>1. 3 * Hour * (now - Today) = 10800 * (now - Today)
      BY <1>0, Seconds
    <3> QED
      BY <1>0, <3>1, EpochIsNumber
  <2> QED
    BY <2>1, <2>2 DEF ChipKeepsTime, Lit
<1>6. ASSUME Record, DrawId(powered) PROVE ChipKeepsTime'
  <2>1. UNCHANGED <<phase, now, chip, stopped, rtcValid, sys>>
    BY <1>6 DEF Record, DrawId
  <2> QED
    BY <2>1 DEF ChipKeepsTime
<1> QED
  BY <1>1, <1>2, <1>3, <1>4, <1>5, <1>6, ClockAndPhase

-----------------------------------------------------------------------------
(* What the captures are called.                                           *)

\* What CapturesPast says of one of them.
Past(c) ==
  /\ c.real <= now /\ c.boot <= powered
  /\ c.boot = powered => phase # "off"
  /\ ~c.valid => stopped /\ c.id.at <= Epoch + 3 * Hour * (now - Today)
  /\ ~c.valid /\ c.boot = powered => sys - c.id.at = 3 * Hour * (now - c.real)
  /\ c.valid /\ ~stopped => c.id.at + 3 * Hour * (now - c.real) <= TimeOf[chip]

\* The fields of a capture, and the clock, are numbers.
LEMMA CaptureFields ==
  ASSUME TypeOK, NEW c \in captures
  PROVE  /\ c.real \in 1..Len(Moments) /\ c.real \in Int /\ c.id.at \in Int /\ c.boot \in Nat
         /\ c.valid \in BOOLEAN /\ now \in Int /\ sys \in Int /\ powered \in Nat /\ Today \in Int
         /\ now - Today \in Int /\ now - c.real \in Int
         /\ chip \in 1..Len(Moments) /\ TimeOf[chip] \in Int
         /\ stopped \in BOOLEAN
<1>1. c \in Captures
  BY DEF TypeOK, ClockTypeOK
<1>2. c.real \in 1..Len(Moments) /\ c.id.at \in Int /\ c.boot \in Nat /\ c.valid \in BOOLEAN
  BY <1>1 DEF Captures
<1>3. /\ now \in Today..Len(Moments) /\ sys \in Int /\ powered \in Nat
      /\ chip \in 1..Len(Moments) /\ stopped \in BOOLEAN
  BY DEF TypeOK, ClockTypeOK
<1> QED
  BY <1>2, <1>3, Calendar

\* The steps keep what holds of each earlier capture.
LEMMA PastPreserves ==
  ASSUME TypeOK, GoesInOrder, ChipKeepsTime, [Next]_vars, NEW c \in captures, Past(c)
  PROVE  Past(c)'
<1>0. /\ c.real \in 1..Len(Moments) /\ c.real \in Int /\ c.id.at \in Int /\ c.boot \in Nat
      /\ c.valid \in BOOLEAN /\ now \in Int /\ sys \in Int /\ powered \in Nat /\ Today \in Int
      /\ now - Today \in Int /\ now - c.real \in Int
      /\ chip \in 1..Len(Moments) /\ TimeOf[chip] \in Int
      /\ stopped \in BOOLEAN
  BY CaptureFields
<1>a. PICK real \in Int, at \in Int : c.real = real /\ c.id.at = at
  BY <1>0
<1>1. ASSUME UNCHANGED clockVars, StaysLit PROVE Past(c)'
  <2>1. UNCHANGED <<now, chip, stopped, rtcValid, sys>>
    BY <1>1 DEF clockVars
  <2> QED
    BY <1>1, <2>1 DEF Past, StaysLit
<1>2. ASSUME TimePasses PROVE Past(c)'
  <2>1. /\ now' = now + 1 /\ sys' = sys + 10800
        /\ UNCHANGED <<phase, stopped, powered>>
    BY <1>0, <1>2, Seconds DEF TimePasses, Tick, counts
  <2>2. TimeOf[chip'] = TimeOf[chip] + 10800
    <3>1. chip \in 1..Len(Moments) \ {Era - 1, Len(Moments)} /\ chip' = chip + 1
      BY <1>0, <1>2 DEF TimePasses, Tick
    <3>2. 3 * Hour = 10800
      BY Seconds
    <3> QED
      BY <3>1, <3>2, Calendar
  <2>3. /\ 3 * Hour * (now - Today) = 10800 * (now - Today)
        /\ 3 * Hour * (now' - Today) = 10800 * (now' - Today)
        /\ 3 * Hour * (now - real) = 10800 * (now - real)
        /\ 3 * Hour * (now' - real) = 10800 * (now' - real)
    <3>1. now \in Int /\ now' = now + 1
      BY <1>0, <2>1
    <3>2. now \in Int /\ now' \in Int /\ Today \in Int
      BY <1>0, <3>1
    <3> QED
      BY <1>a, <3>2 DEF Hour
  <2>4. c.real <= now' /\ c.boot <= powered' /\ (c.boot = powered' => phase' # "off")
    BY <1>0, <2>1 DEF Past
  <2>5. ASSUME ~c.valid PROVE stopped' /\ c.id.at <= Epoch + 3 * Hour * (now' - Today)
    <3>1. stopped /\ at <= Epoch + 10800 * (now - Today)
      BY <1>a, <2>3, <2>5 DEF Past
    <3>2. now \in Int /\ now' = now + 1 /\ Today \in Int
      BY <1>0, <2>1
    <3>3. at <= Epoch + 10800 * (now' - Today)
      BY <1>a, <3>1, <3>2, EpochIsNumber
    <3> QED
      BY <1>a, <2>1, <2>3, <3>1, <3>3
  <2>6. ASSUME ~c.valid, c.boot = powered' PROVE sys' - c.id.at = 3 * Hour * (now' - c.real)
    <3>1. sys - at = 10800 * (now - real)
      BY <1>a, <2>1, <2>3, <2>6 DEF Past
    <3>2. now \in Int /\ now' = now + 1 /\ sys \in Int /\ sys' = sys + 10800
      BY <1>0, <2>1
    <3>3. sys' - at = 10800 * (now' - real)
      BY <1>a, <3>1, <3>2
    <3> QED
      BY <1>a, <2>3, <3>3
  <2>7. ASSUME c.valid, ~stopped' PROVE c.id.at + 3 * Hour * (now' - c.real) <= TimeOf[chip']
    <3>1. at + 10800 * (now - real) <= TimeOf[chip]
      BY <1>a, <2>1, <2>3, <2>7 DEF Past
    <3>2. at + 10800 * (now' - real) <= TimeOf[chip']
      BY <1>0, <1>a, <2>1, <2>2, <3>1
    <3> QED
      BY <1>a, <2>3, <3>2
  <2> QED
    BY <2>4, <2>5, <2>6, <2>7, Zenon DEF Past
<1>3. ASSUME PowerFails PROVE Past(c)'
  <2>1. /\ powered' = powered + 1 /\ now' = now
        /\ stopped' \/ (~stopped' /\ ~stopped /\ chip' = chip)
        /\ stopped => stopped'
    BY <1>0, <1>3 DEF PowerFails, ClockLosesPower, clockVars
  <2>2. c.boot <= powered' /\ c.boot # powered'
    BY <1>0, <2>1 DEF Past
  <2> QED
    BY <2>1, <2>2 DEF Past
<1>4. ASSUME InitDone PROVE Past(c)'
  <2>1. /\ phase' = "decide" /\ UNCHANGED <<now, stopped, powered>>
    BY <1>4 DEF InitDone, ClockBoots, counts
  <2>2. CASE stopped /\ UNCHANGED <<chip, sys>>
    BY <2>1, <2>2 DEF Past
  <2>3. CASE ~stopped /\ chip' = Refreshed
    <3>1. TimeOf[Refreshed] >= TimeOf[chip] /\ Refreshed \in 1..Len(Moments)
      BY <1>0, RefreshGoesAhead
    <3>2. TimeOf[chip'] \in Int /\ TimeOf[chip'] >= TimeOf[chip]
      BY <2>3, <3>1, Calendar
    <3>3. 3 * Hour * (now - real) = 10800 * (now - real)
      BY <1>0, <1>a DEF Hour
    <3>4. ASSUME c.valid PROVE c.id.at + 3 * Hour * (now' - c.real) <= TimeOf[chip']
      <4>1. at + 3 * Hour * (now - real) <= TimeOf[chip] /\ now' = now
        BY <1>a, <2>1, <2>3, <3>4 DEF Past
      <4>2. at + 3 * Hour * (now - real) <= TimeOf[chip']
        BY <1>0, <1>a, <3>2, <3>3, <4>1
      <4> QED
        BY <1>a, <4>1, <4>2
    <3>5. c.valid
      BY <1>0, <2>3 DEF Past
    <3> QED
      BY <2>1, <3>4, <3>5 DEF Past
  <2> QED
    BY <1>4, <2>2, <2>3, Zenon DEF InitDone, ClockBoots, CheckOs
<1>5. ASSUME PowerOn PROVE Past(c)'
  <2>1. phase = "off" /\ UNCHANGED <<now, chip, stopped, powered>>
    BY <1>5, Zenon DEF PowerOn, Start
  <2>2. c.boot # powered
    BY <2>1 DEF Past
  <2> QED
    BY <2>1, <2>2 DEF Past
<1>6. ASSUME Record, DrawId(powered) PROVE Past(c)'
  <2>1. UNCHANGED <<phase, now, chip, stopped, rtcValid, sys, powered>>
    BY <1>6 DEF Record, DrawId, counts
  <2> QED
    BY <2>1 DEF Past
<1> QED
  BY <1>1, <1>2, <1>3, <1>4, <1>5, <1>6, ClockAndPhase

\* The second of a capture tells it from those before it: a valid time is later
\* than the valid ones, and no time of a clock that lost it is as late as that.
LEMMA NewIsApart ==
  ASSUME PowerInv, Record, DrawId(powered), NEW r \in Random,
         NEW c, c = [real |-> now, id |-> GenerateId(r), valid |-> rtcValid, boot |-> powered]
  PROVE  /\ Past(c)
         /\ c.valid => c.id.at \in (TimeOf[BuildTime] - 2 * Hour)..TimeOf[c.real]
         /\ \A d \in captures : c.id = d.id => ~c.valid /\ ~d.valid /\ c.boot # d.boot
<1>0. /\ c.real = now /\ c.id.at = sys /\ c.valid = rtcValid /\ c.boot = powered
      /\ phase = "run" /\ TypeOK /\ \A d \in captures : d.real # now
  BY DEF Record, DrawId, GenerateId, PowerInv
<1>1. /\ now \in Today..Len(Moments) /\ chip \in 1..Len(Moments) /\ sys \in Int
      /\ now \in Int /\ Today \in Int /\ now \in 1..Len(Moments) /\ powered \in Nat
      /\ BuildTime \in 1..Len(Moments) /\ TimeOf[BuildTime] \in Int /\ TimeOf[chip] \in Int
      /\ TimeOf[now] \in Int /\ Len(Moments) \in Int
  BY <1>0, Calendar DEF TypeOK, ClockTypeOK
<1>2. /\ rtcValid <=> ~stopped
      /\ ~stopped => sys = TimeOf[chip] /\ sys >= TimeOf[BuildTime] - 2 * Hour /\ chip <= now
      /\ stopped => sys <= Epoch + 3 * Hour * (now - Today)
  BY <1>0 DEF PowerInv, ChipKeepsTime, Lit
<1>3. /\ 2 * Hour = 7200 /\ 3 * Hour * (now - now) = 0
      /\ 3 * Hour * (now - Today) = 10800 * (now - Today)
      /\ 3 * Hour * (Len(Moments) - Today) = 10800 * (Len(Moments) - Today)
  <2>1. now - now = 0 /\ now - Today \in Int /\ Len(Moments) - Today \in Int
    BY <1>1
  <2>2. 3 * Hour * 0 = 0
    BY DEF Hour
  <2> QED
    BY <2>1, <2>2, Seconds
<1>4. TimeOf[chip] <= TimeOf[now] \/ ~(chip <= now)
  <2>1. CASE chip = now
    BY <1>1, <2>1
  <2>2. CASE chip < now
    <3>1. TimeOf[chip] < TimeOf[now]
      BY <1>1, <2>2, Calendar
    <3> QED
      BY <1>1, <3>1
  <2> QED
    BY <1>1, <2>1, <2>2
<1>5. stopped => sys < TimeOf[BuildTime] - 2 * Hour
  <2>1. Epoch + 3 * Hour * (Len(Moments) - Today) < TimeOf[BuildTime] - 2 * Hour
    BY ClockAssumption
  <2> QED
    BY <1>1, <1>2, <1>3, <2>1, EpochIsNumber
<1>6. Past(c)
  <2>1. CASE stopped
    BY <1>0, <1>1, <1>2, <1>3, <2>1 DEF Past
  <2>2. CASE ~stopped
    <3>1. sys + 3 * Hour * (now - now) <= TimeOf[chip]
      BY <1>1, <1>2, <1>3, <2>2
    <3> QED
      BY <1>0, <1>1, <1>2, <2>2, <3>1 DEF Past
  <2> QED
    BY <2>1, <2>2
<1>7. c.valid => c.id.at \in (TimeOf[BuildTime] - 2 * Hour)..TimeOf[c.real]
  BY <1>0, <1>1, <1>2, <1>3, <1>4
<1>8. ASSUME NEW d \in captures, c.id = d.id PROVE ~c.valid /\ ~d.valid /\ c.boot # d.boot
  <2>1. Past(d) /\ d.real # now /\ d.id.at = sys
    BY <1>0, <1>8 DEF PowerInv, CapturesPast, Past
  <2>2. d.real \in Int /\ d.valid \in BOOLEAN /\ d.real <= now /\ now - d.real \in Int
    BY <1>0, <2>1, CaptureFields DEF Past
  <2>3. 3 * Hour * (now - d.real) = 10800 * (now - d.real) /\ now - d.real > 0
    <3>1. PICK real \in Int : d.real = real
      BY <2>2
    <3>2. 3 * Hour * (now - real) = 10800 * (now - real)
      BY <1>1, <3>1 DEF Hour
    <3>3. now - d.real > 0
      BY <1>1, <2>1, <2>2
    <3> QED
      BY <3>1, <3>2, <3>3
  <2>4. CASE stopped
    <3>1. ~d.valid
      <4>1. ASSUME d.valid PROVE FALSE
        <5>1. d.id.at \in (TimeOf[BuildTime] - 2 * Hour)..TimeOf[d.real]
          BY <4>1 DEF PowerInv, ValidIsPlausible
        <5> QED
          BY <1>1, <1>3, <1>5, <2>1, <2>4, <5>1
      <4> QED
        BY <4>1
    <3>2. d.boot # powered
      <4>1. ASSUME d.boot = powered PROVE FALSE
        <5>1. sys - d.id.at = 3 * Hour * (now - d.real)
          BY <2>1, <3>1, <4>1 DEF Past
        <5> QED
          BY <1>1, <2>1, <2>2, <2>3, <5>1
      <4> QED
        BY <4>1
    <3> QED
      BY <1>0, <1>2, <2>4, <3>1, <3>2
  <2>5. CASE ~stopped
    <3>1. d.valid
      BY <2>1, <2>2, <2>5 DEF Past
    <3>2. d.id.at + 3 * Hour * (now - d.real) <= TimeOf[chip]
      BY <2>1, <2>5, <3>1 DEF Past
    <3> QED
      BY <1>1, <1>2, <2>1, <2>2, <2>3, <2>5, <3>2
  <2> QED
    BY <2>4, <2>5
<1> QED
  BY <1>6, <1>7, <1>8

\* Only the recording of a capture adds one.
LEMMA CapturesStay ==
  ASSUME GoesInOrder, [Next]_vars
  PROVE  captures' = captures \/ (Record /\ DrawId(powered))
<1>1. ASSUME UNCHANGED clockVars PROVE captures' = captures
  BY <1>1 DEF clockVars
<1>2. ASSUME TimePasses PROVE captures' = captures
  BY <1>2 DEF TimePasses, Tick
<1>3. ASSUME PowerFails PROVE captures' = captures
  BY <1>3 DEF PowerFails, ClockLosesPower, clockVars
<1>4. ASSUME InitDone PROVE captures' = captures
  BY <1>4 DEF InitDone, ClockBoots
<1>5. ASSUME PowerOn PROVE captures' = captures
  BY <1>5 DEF PowerOn
<1> QED
  BY <1>1, <1>2, <1>3, <1>4, <1>5, ClockAndPhase

\* What is known of the captures stays, and holds of a new one.
LEMMA CapturesPreserve ==
  ASSUME PowerInv, [Next]_vars
  PROVE  CapturesPast' /\ IdsApart' /\ ValidIsPlausible'
<1>0. TypeOK /\ GoesInOrder /\ ChipKeepsTime /\ CapturesPast /\ IdsApart /\ ValidIsPlausible
  BY DEF PowerInv
<1>1. \A c \in captures : Past(c)'
  <2>1. ASSUME NEW c \in captures PROVE Past(c)'
    <3>1. Past(c)
      BY <1>0 DEF CapturesPast, Past
    <3> QED
      BY <1>0, <3>1, PastPreserves
  <2> QED
    BY <2>1
<1>2. CASE captures' = captures
  <2>1. CapturesPast'
    BY <1>1, <1>2 DEF CapturesPast, Past
  <2>2. IdsApart' /\ ValidIsPlausible'
    BY <1>0, <1>2 DEF IdsApart, ValidIsPlausible
  <2> QED
    BY <2>1, <2>2
<1>3. ASSUME Record, DrawId(powered) PROVE CapturesPast' /\ IdsApart' /\ ValidIsPlausible'
  <2>1. PICK r \in Random :
          captures' = captures \cup
            {[real |-> now, id |-> GenerateId(r), valid |-> rtcValid, boot |-> powered]}
    BY <1>3 DEF DrawId
  <2>2. PICK n : n = [real |-> now, id |-> GenerateId(r), valid |-> rtcValid, boot |-> powered]
    OBVIOUS
  <2>3. /\ Past(n)
        /\ n.valid => n.id.at \in (TimeOf[BuildTime] - 2 * Hour)..TimeOf[n.real]
        /\ \A d \in captures : n.id = d.id => ~n.valid /\ ~d.valid /\ n.boot # d.boot
    BY <1>3, <2>2, NewIsApart
  <2>4. captures' = captures \cup {n}
    BY <2>1, <2>2
  <2>5. Past(n)'
    <3>1. UNCHANGED <<phase, now, chip, stopped, sys, powered>>
      BY <1>3 DEF Record, DrawId, counts
    <3> QED
      BY <2>3, <3>1 DEF Past
  <2>6. CapturesPast'
    <3>1. \A c \in captures' : Past(c)'
      BY <1>1, <2>4, <2>5
    <3> QED
      BY <3>1 DEF CapturesPast, Past
  <2>7. IdsApart'
    <3>1. ASSUME NEW c \in captures', NEW d \in captures', c # d, c.id = d.id
          PROVE  ~c.valid /\ ~d.valid /\ c.boot # d.boot
      <4>1. CASE c \in captures /\ d \in captures
        BY <1>0, <3>1, <4>1 DEF IdsApart
      <4>2. CASE c = n /\ d \in captures
        BY <2>3, <3>1, <4>2
      <4>3. CASE c \in captures /\ d = n
        BY <2>3, <3>1, <4>3
      <4> QED
        BY <2>4, <3>1, <4>1, <4>2, <4>3
    <3> QED
      BY <3>1 DEF IdsApart
  <2>8. ValidIsPlausible'
    <3>1. \A c \in captures' : c.valid => c.id.at \in (TimeOf[BuildTime] - 2 * Hour)..TimeOf[c.real]
      BY <1>0, <2>3, <2>4 DEF ValidIsPlausible
    <3> QED
      BY <3>1 DEF ValidIsPlausible
  <2> QED
    BY <2>6, <2>7, <2>8
<1> QED
  BY <1>0, <1>2, <1>3, CapturesStay

-----------------------------------------------------------------------------
(* What holds in every reachable state.                                    *)

\* The first state is that of a device that is off.
LEMMA PowerInit ==
  ASSUME Init
  PROVE  PowerInv
<1>1. TypeOK
  BY TypeInit
<1>2. /\ phase = "off" /\ going = <<>> /\ events = <<>> /\ state = "BOOT" /\ prevState = "BOOT"
      /\ idleTimer = "stopped" /\ captures = {} /\ now = Today
      /\ (stopped = FALSE /\ chip \in {1} \cup (Era..Today)) \/ stopped = TRUE
  BY Zenon DEF Init, ClockInit
<1>3. GoesInOrder /\ TimerIsOfIdle
  BY <1>2 DEF GoesInOrder, TimerIsOfIdle
<1>4. LastNamed
  <2>1. DOMAIN <<>> = {}
    OBVIOUS
  <2> QED
    BY <1>2, <2>1 DEF LastNamed
<1>5. ChipKeepsTime
  <2>1. ~stopped => chip <= now
    BY <1>2, Calendar
  <2> QED
    BY <1>2, <2>1 DEF ChipKeepsTime, Lit
<1>6. CapturesPast /\ IdsApart /\ ValidIsPlausible
  BY <1>2 DEF CapturesPast, IdsApart, ValidIsPlausible
<1> QED
  BY <1>1, <1>3, <1>4, <1>5, <1>6 DEF PowerInv

\* The conjuncts of the invariant keep one another.
LEMMA PowerInvariant == Spec => []PowerInv
<1>1. Init => PowerInv
  BY PowerInit
<1>2. PowerInv /\ [Next]_vars => PowerInv'
  <2> SUFFICES ASSUME PowerInv, [Next]_vars PROVE PowerInv'
    OBVIOUS
  <2>1. TypeOK /\ GoesInOrder /\ LastNamed /\ TimerIsOfIdle /\ ChipKeepsTime
    BY DEF PowerInv
  <2>2. TypeOK' /\ GoesInOrder' /\ LastNamed' /\ TimerIsOfIdle' /\ ChipKeepsTime'
    BY <2>1, TypePreserves, GoesPreserves, NamesPreserve, ChipPreserves
  <2>3. CapturesPast' /\ IdsApart' /\ ValidIsPlausible'
    BY CapturesPreserve
  <2> QED
    BY <2>2, <2>3 DEF PowerInv
<1> QED
  BY <1>1, <1>2, PTL DEF Spec

\* The variables of the boot, of the tasks and of the clock keep their types,
\* whatever the calendar and however often the device is switched off and on.
THEOREM PowerTypes == Spec => []TypeOK
<1>1. PowerInv => TypeOK
  BY DEF PowerInv
<1> QED
  BY <1>1, PowerInvariant, PTL

\* A device that sleeps has its supply latched and neither a mounted card nor a
\* display under power: power_mgr_enter_deep_sleep takes its steps in their
\* order, and nothing that runs meanwhile undoes one.
THEOREM SleepIsSafe == Spec => []AsleepIsSafe
<1>1. PowerInv => AsleepIsSafe
  BY DEF PowerInv, GoesInOrder, AsleepIsSafe
<1> QED
  BY <1>1, PowerInvariant, PTL

\* Only a change of state that the bridge has not heard of yet lets the idle
\* timer put a device to sleep that does something else (idle_sleep_timer_cb).
THEOREM SleepComesToIdle == Spec => SleepCutsOnlyTheUnheard
<1> DEFINE Unheard == phase = "run" /\ going = <<>> /\ going' # <<>> =>
                        state = "IDLE" \/ \E i \in DOMAIN events : events[i] = state
<1>1. PowerInv /\ [Next]_vars => [Unheard]_vars
  <2> SUFFICES ASSUME PowerInv, [Next]_vars, phase = "run", going = <<>>, going' # <<>>
               PROVE  state = "IDLE" \/ \E i \in DOMAIN events : events[i] = state
    OBVIOUS
  <2>1. ASSUME NEW raw, Start(raw) PROVE FALSE
    BY <2>1 DEF Start, Loaded
  <2>2. ASSUME InitDone \/ Decide PROVE FALSE
    BY <2>2 DEF InitDone, Decide
  <2>3. ASSUME NEW i \in 1..5, Go(Steps[i]) PROVE FALSE
    BY <2>3 DEF Go
  <2>4. ASSUME PowerFails PROVE FALSE
    BY <2>4 DEF PowerFails, Loaded
  <2>5. idleTimer = "due"
    BY <2>1, <2>2, <2>3, <2>4, OtherSteps DEF IdleTimerFires
  <2>6. prevState = "IDLE"
    BY <2>5 DEF PowerInv, TimerIsOfIdle
  <2> QED
    BY <2>6 DEF PowerInv, LastNamed
<1> QED
  BY <1>1, PowerInvariant, PTL DEF Spec, SleepCutsOnlyTheUnheard

\* Two captures share a client_job_id only if the power went off between them
\* and the clock was valid for neither (generate_client_job_id).
THEOREM IdsTellApart == Spec => []IdsApart
<1>1. PowerInv => IdsApart
  BY DEF PowerInv
<1> QED
  BY <1>1, PowerInvariant, PTL

\* A capture whose time is marked as valid is not from the future, and not from
\* more than two hours before the build (rtc_refresh_if_stale).
THEOREM ValidTimesArePlausible == Spec => []ValidIsPlausible
<1>1. PowerInv => ValidIsPlausible
  BY DEF PowerInv
<1> QED
  BY <1>1, PowerInvariant, PTL
=============================================================================
