------------------------------- MODULE Clock --------------------------------
(***************************************************************************)
(* The time on the device: the PCF85063 that runs from the battery         *)
(* (rtc/pcf85063.c), the system clock that forgets with the power, and the *)
(* client_job_id that queue.c draws from it.                               *)
(*                                                                         *)
(* Moments is a calendar, three hours from each moment to the next.  It   *)
(* has two stretches: the time after 2000, where a chip begins that has    *)
(* lost its power, and the time in which the device is used.               *)
(***************************************************************************)
EXTENDS Integers, Sequences, FiniteSets

CONSTANTS
  Moments,      \* [sec, min, hour, mday, mon, year], as in struct tm
  Era,          \* the first moment of the second stretch
  BuildTime,    \* __DATE__ and __TIME__
  Today,        \* when the firmware is started first
  Random        \* the bytes esp_random gives

VARIABLES
  now,          \* the moment it is
  chip,         \* the moment the chip counts
  stopped,      \* its bit OS
  rtcValid,     \* s_rtc_valid
  sys,          \* time(NULL), in seconds since 2000
  captures      \* what was recorded, and under which client_job_id

clockVars == <<now, chip, stopped, rtcValid, sys, captures>>

Hour == 3600

-----------------------------------------------------------------------------
(* The registers hold two decimal digits in a byte.  The day of the week,  *)
(* which nothing reads, is left out.                                       *)

\* A mistake: the tens are read as sixteens.
BinaryToDec(val) == val % 256

DecToBcd(val) == ((val \div 10) * 16 + (val % 10)) % 256
BcdToDec(val) == ((val \div 16) * 10 + (val % 16)) % 256

\* The bytes rtc_set sends; a cast to uint8_t of each field.
RtcSet(tm) ==
  [sec |-> DecToBcd(tm.sec % 256), min |-> DecToBcd(tm.min % 256),
   hour |-> DecToBcd(tm.hour % 256), mday |-> DecToBcd(tm.mday % 256),
   mon |-> DecToBcd((tm.mon + 1) % 256), year |-> DecToBcd((tm.year - 100) % 256)]

\* What rtc_get makes of the bytes; the masks take away bits with another use.
RtcGet(r) ==
  [sec |-> BcdToDec(r.sec % 128), min |-> BcdToDec(r.min % 128),
   hour |-> BcdToDec(r.hour % 64), mday |-> BcdToDec(r.mday % 64),
   mon |-> BcdToDec(r.mon % 32) - 1, year |-> BcdToDec(r.year) + 100]

Times == [sec : 0..59, min : 0..59, hour : 0..23, mday : 1..31, mon : 0..11, year : 100..199]

\* The chip's side: its counters in the same form, the seconds with OS on top.
Digits(v) == 16 * (v \div 10) + (v % 10)
Registers(i, os) ==
  LET tm == Moments[i] IN
  [sec |-> IF os THEN Digits(tm.sec) + 128 ELSE Digits(tm.sec), min |-> Digits(tm.min),
   hour |-> Digits(tm.hour), mday |-> Digits(tm.mday), mon |-> Digits(tm.mon + 1),
   year |-> Digits(tm.year - 100)]

\* mktime, counted from 2000-01-01 00:00.
Days(y, m, d) ==
  LET a == IF m <= 2 THEN y - 1 ELSE y
      b == IF m <= 2 THEN m + 9 ELSE m - 3
  IN  365 * a + a \div 4 - a \div 100 + a \div 400 + (153 * b + 2) \div 5 + d
Mktime(tm) ==
  86400 * (Days(tm.year + 1900, tm.mon + 1, tm.mday) - Days(2000, 1, 1))
    + 3600 * tm.hour + 60 * tm.min + tm.sec

Epoch == -946684800   \* 1970-01-01 00:00, where a system clock without power begins

TimeOf == [i \in 1..Len(Moments) |-> Mktime(Moments[i])]

\* Three hours from each moment to the next within a stretch, and the second
\* begins after the first.  The device is in use for a shorter time than has
\* passed from 1970 to the build, so that a clock that has lost its time does
\* not come to believe in one that could be.  That today is not before the build
\* takes the firmware to be built in the zone it runs in: __TIME__ is the local
\* time of the build machine, and build_time_struct and mktime read it as BRT3.
ASSUME ClockAssumption ==
  /\ Moments \in Seq(Times)
  /\ Era \in 2..Len(Moments) /\ BuildTime \in Era..Len(Moments)
  /\ Today \in BuildTime..Len(Moments)
  /\ \A i \in 1..Era-1 : TimeOf[i] = TimeOf[1] + 3 * Hour * (i - 1)
  /\ \A i \in Era..Len(Moments) : TimeOf[i] = TimeOf[Era] + 3 * Hour * (i - Era)
  /\ TimeOf[Era - 1] < TimeOf[Era]
  /\ Epoch + 3 * Hour * (Len(Moments) - Today) < TimeOf[BuildTime] - 2 * Hour

Captures ==
  [real : 1..Len(Moments), id : [at : Int, rnd : Random], valid : BOOLEAN, boot : Nat]

ClockTypeOK ==
  /\ now \in Today..Len(Moments) /\ chip \in 1..Len(Moments)
  /\ stopped \in BOOLEAN /\ rtcValid \in BOOLEAN
  /\ sys \in Int
  /\ captures \subseteq Captures

\* The chip has been set, perhaps too early and some time ago, or never.
ClockInit ==
  /\ now = Today
  /\ \/ chip \in {1} \cup (Era..Today) /\ stopped = FALSE
     \/ chip = 1 /\ stopped = TRUE
  /\ rtcValid = FALSE /\ sys = Epoch
  /\ captures = {}

Tick ==
  /\ now < Len(Moments) /\ now' = now + 1
  /\ chip \notin {Era - 1, Len(Moments)} /\ chip' = chip + 1
  /\ sys' = sys + 3 * Hour
  /\ UNCHANGED <<stopped, rtcValid, captures>>

\* The battery is taken out, and the chip loses its power too.
ClockLosesPower ==
  chip' = 1 /\ stopped' = TRUE /\ UNCHANGED <<now, rtcValid, sys, captures>>

\* A mistake: the bit OS is not looked at.
NeverStopped == FALSE

\* rtc_check_os
CheckOs == stopped

Stale(t) == TimeOf[BuildTime] - t > 2 * Hour

\* rtc_get and mktime
Read == [i \in 1..Len(Moments) |-> [os \in BOOLEAN |-> Mktime(RtcGet(Registers(i, os)))]]

\* The chip after rtc_set of the time of the build.
Built == CHOOSE i \in 1..Len(Moments) : Registers(i, FALSE) = RtcSet(Moments[BuildTime])

\* rtc_refresh_if_stale: where the chip counts on from.
Refreshed == IF Stale(Read[chip][stopped]) THEN Built ELSE chip

\* pcf85063_init, and the refresh and rtc_sync_system_time in app_main.  The
\* transfers on the bus succeed.
ClockBoots ==
  /\ \/ CheckOs /\ rtcValid' = FALSE /\ UNCHANGED <<chip, sys>>
     \/ ~CheckOs /\ rtcValid' = TRUE /\ chip' = Refreshed /\ sys' = Read[Refreshed][FALSE]
  /\ UNCHANGED <<now, stopped, captures>>

\* generate_client_job_id: the second and a random byte.
GenerateId(r) == [at |-> sys, rnd |-> r]

\* queue_prepare_capture and the metadata of queue_enqueue.  Two recordings
\* that are kept are more than a second apart: half a second for each of the
\* shortest press and of CONFIRM, and the beeps.
DrawId(boot) ==
  /\ \A c \in captures : c.real # now
  /\ \E r \in Random :
       captures' = captures \cup
         {[real |-> now, id |-> GenerateId(r), valid |-> rtcValid, boot |-> boot]}
  /\ UNCHANGED <<now, chip, stopped, rtcValid, sys>>
=============================================================================
