---------------------------- MODULE ScreensProofs ----------------------------
(* What holds of the screen for every length of the queue, every voltage and *)
(* every number of changes.                                                 *)
EXTENDS Screens, SequenceTheorems, TLAPS

-----------------------------------------------------------------------------
(* The battery.                                                            *)

Segments == 1 .. 6

\* Every voltage within the curve lies on a segment.
LEMMA OnASegment ==
  ASSUME NEW mv \in Int, 3000 < mv, mv < 4200
  PROVE  \E i \in Segments : Curve[i+1].mv <= mv /\ mv < Curve[i].mv
<1>1. CASE 3850 <= mv  BY <1>1 DEF Curve, Segments
<1>2. CASE 3700 <= mv /\ mv < 3850  BY <1>2 DEF Curve, Segments
<1>3. CASE 3550 <= mv /\ mv < 3700  BY <1>3 DEF Curve, Segments
<1>4. CASE 3400 <= mv /\ mv < 3550  BY <1>4 DEF Curve, Segments
<1>5. CASE 3300 <= mv /\ mv < 3400  BY <1>5 DEF Curve, Segments
<1>6. CASE mv < 3300  BY <1>6 DEF Curve, Segments
<1> QED  BY <1>1, <1>2, <1>3, <1>4, <1>5, <1>6

LEMMA OnTheLine ==
  ASSUME NEW mv \in Int, 3000 < mv, mv < 4200
  PROVE  \E i \in Segments : Curve[i+1].mv <= mv /\ mv < Curve[i].mv /\ MvToPercent(mv) = Line(i, mv)
<1> DEFINE On(i) == Curve[i+1].mv <= mv /\ mv < Curve[i].mv
<1>1. \E i \in Segments : On(i)  BY OnASegment
<1>2. Len(Curve) = 7 /\ 1 .. Len(Curve) - 1 = Segments  BY DEF Curve, Segments
<1>3. Segment(mv) \in Segments /\ On(Segment(mv))
  <2>1. \E j \in 1 .. Len(Curve) - 1 : Curve[j+1].mv <= mv /\ mv < Curve[j].mv  BY <1>1, <1>2
  <2> QED  BY <1>2, <2>1 DEF Segment
<1>4. ~(mv >= Curve[1].mv) /\ ~(mv <= Curve[Len(Curve)].mv)  BY <1>2 DEF Curve
<1>5. MvToPercent(mv) = Line(Segment(mv), mv)
  BY <1>4 DEF MvToPercent
<1> QED  BY <1>3, <1>5

\* A segment's line stays between the percentages of its ends and never falls.
LEMMA LineRises ==
  ASSUME NEW i \in Segments, NEW mv \in Int, NEW more \in Int,
         Curve[i+1].mv <= mv, mv <= more, more < Curve[i].mv
  PROVE  /\ Line(i, mv) \in Curve[i+1].pct .. Curve[i].pct
         /\ Line(i, mv) <= Line(i, more)
<1>1. CASE i = 1  BY <1>1, SMTT(30) DEF Curve, Line
<1>2. CASE i = 2  BY <1>2, SMTT(30) DEF Curve, Line
<1>3. CASE i = 3  BY <1>3, SMTT(30) DEF Curve, Line
<1>4. CASE i = 4  BY <1>4, SMTT(30) DEF Curve, Line
<1>5. CASE i = 5  BY <1>5, SMTT(30) DEF Curve, Line
<1>6. CASE i = 6  BY <1>6, SMTT(30) DEF Curve, Line
<1> QED  BY <1>1, <1>2, <1>3, <1>4, <1>5, <1>6 DEF Segments

\* Whatever the battery measures, the status bar has a percentage of at most three digits.
LEMMA PercentInRange == ASSUME NEW mv \in Int PROVE MvToPercent(mv) \in 0 .. 100
<1>1. CASE mv >= 4200  BY <1>1 DEF MvToPercent, Curve
<1>2. CASE mv <= 3000  BY <1>2 DEF MvToPercent, Curve
<1>3. CASE 3000 < mv /\ mv < 4200
  <2>1. PICK i \in Segments : Curve[i+1].mv <= mv /\ mv < Curve[i].mv /\ MvToPercent(mv) = Line(i, mv)
    BY <1>3, OnTheLine
  <2>2. Line(i, mv) \in Curve[i+1].pct .. Curve[i].pct  BY <2>1, LineRises
  <2>3. 0 <= Curve[i+1].pct /\ Curve[i].pct <= 100 /\ Curve[i].pct \in Int /\ Curve[i+1].pct \in Int
    BY DEF Curve, Segments
  <2> QED  BY <2>1, <2>2, <2>3
<1> QED  BY <1>1, <1>2, <1>3

\* A fuller battery never shows less: the curve of battery.c:29 has no dent where
\* its segments meet, for all the rounding.
THEOREM PercentRises ==
  ASSUME NEW mv \in Int, NEW more \in Int, mv <= more
  PROVE  MvToPercent(mv) <= MvToPercent(more)
<1>1. MvToPercent(mv) \in 0 .. 100 /\ MvToPercent(more) \in 0 .. 100  BY PercentInRange
<1>2. CASE more >= 4200
  BY <1>1, <1>2 DEF MvToPercent, Curve
<1>3. CASE mv <= 3000
  BY <1>1, <1>3 DEF MvToPercent, Curve
<1>4. CASE 3000 < mv /\ more < 4200
  <2>1. PICK i \in Segments : Curve[i+1].mv <= mv /\ mv < Curve[i].mv /\ MvToPercent(mv) = Line(i, mv)
    BY <1>4, OnTheLine
  <2>2. PICK j \in Segments : Curve[j+1].mv <= more /\ more < Curve[j].mv /\ MvToPercent(more) = Line(j, more)
    BY <1>4, OnTheLine
  <2>3. j <= i  BY <2>1, <2>2 DEF Curve, Segments
  <2>4. CASE j = i  BY <2>1, <2>2, <2>4, LineRises
  <2>5. CASE j < i
    <3>1. Line(i, mv) <= Curve[i].pct  BY <2>1, LineRises DEF Curve, Segments
    <3>2. Line(j, more) >= Curve[j+1].pct  BY <2>2, LineRises DEF Curve, Segments
    <3>3. Curve[i].pct <= Curve[j+1].pct  BY <2>5 DEF Curve, Segments
    <3>4. Line(i, mv) \in Int /\ Line(j, more) \in Int /\ Curve[i].pct \in Int /\ Curve[j+1].pct \in Int
      BY <1>1, <2>1, <2>2 DEF Curve, Segments
    <3> QED  BY <2>1, <2>2, <3>1, <3>2, <3>3, <3>4
  <2> QED  BY <2>3, <2>4, <2>5 DEF Segments
<1> QED  BY <1>2, <1>3, <1>4

-----------------------------------------------------------------------------
(* The pixels.                                                             *)

Coordinate == 0 .. 199

LEMMA InTheBuffer ==
  ASSUME NEW x \in Coordinate, NEW y \in Coordinate
  PROVE  Address(x, y) \in Bits
<1>1. x \div 8 \in 0 .. 24 /\ x % 8 \in 0 .. 7  BY DEF Coordinate
<1>2. (y * 25) + (x \div 8) \in 0 .. 4999  BY <1>1 DEF Coordinate
<1> QED  BY <1>1, <1>2 DEF Address, Bits, RowBytes, W, H

\* No two pixels share a bit of the buffer.
LEMMA PixelsApart ==
  ASSUME NEW x \in Coordinate, NEW y \in Coordinate, NEW u \in Coordinate, NEW v \in Coordinate,
         Address(x, y) = Address(u, v)
  PROVE  x = u /\ y = v
<1>1. (y * 25) + (x \div 8) = (v * 25) + (u \div 8) /\ 7 - (x % 8) = 7 - (u % 8)
  BY DEF Address, RowBytes, W
<1>2. x \div 8 \in 0 .. 24 /\ u \div 8 \in 0 .. 24 /\ x % 8 \in 0 .. 7 /\ u % 8 \in 0 .. 7
  BY DEF Coordinate
<1>3. y = v /\ x \div 8 = u \div 8  BY <1>1, <1>2 DEF Coordinate
<1>4. x % 8 = u % 8  BY <1>1, <1>2
<1>5. x = 8 * (x \div 8) + (x % 8) /\ u = 8 * (u \div 8) + (u % 8)  BY DEF Coordinate
<1> QED  BY <1>3, <1>4, <1>5

\* The orientation moves the panel onto itself, whatever its knobs.
LEMMA Orientation ==
  ASSUME NEW k \in Knobs, NEW x \in Coordinate, NEW y \in Coordinate
  PROVE  /\ ToPanel(k, x, y)[1] \in Coordinate /\ ToPanel(k, x, y)[2] \in Coordinate
         /\ \A u, v \in Coordinate :
              /\ ToPanel(k, u, v)[1] = ToPanel(k, x, y)[1]
              /\ ToPanel(k, u, v)[2] = ToPanel(k, x, y)[2]
              => u = x /\ v = y
<1> DEFINE M(mirror, z) == IF mirror THEN 199 - z ELSE z
<1>1. \A u, v \in Coordinate :
        /\ ToPanel(k, u, v)[1] = M(k.mirrorX, IF k.swap THEN v ELSE u)
        /\ ToPanel(k, u, v)[2] = M(k.mirrorY, IF k.swap THEN u ELSE v)
  BY DEF ToPanel, W, H
<1>2. \A z \in Coordinate, mirror \in BOOLEAN : M(mirror, z) \in Coordinate
  BY DEF Coordinate
<1>3. \A z, t \in Coordinate, mirror \in BOOLEAN : M(mirror, z) = M(mirror, t) => z = t
  BY DEF Coordinate
<1>4. k.mirrorX \in BOOLEAN /\ k.mirrorY \in BOOLEAN /\ k.swap \in BOOLEAN  BY DEF Knobs
<1> HIDE DEF M
<1>5. ToPanel(k, x, y)[1] \in Coordinate /\ ToPanel(k, x, y)[2] \in Coordinate
  BY <1>1, <1>2, <1>4
<1>6. ASSUME NEW u \in Coordinate, NEW v \in Coordinate,
             ToPanel(k, u, v)[1] = ToPanel(k, x, y)[1], ToPanel(k, u, v)[2] = ToPanel(k, x, y)[2]
      PROVE  u = x /\ v = y
  <2>1. (IF k.swap THEN v ELSE u) = (IF k.swap THEN y ELSE x)
    <3>1. M(k.mirrorX, IF k.swap THEN v ELSE u) = M(k.mirrorX, IF k.swap THEN y ELSE x)  BY <1>1, <1>6
    <3> QED  BY <1>3, <1>4, <3>1
  <2>2. (IF k.swap THEN u ELSE v) = (IF k.swap THEN x ELSE y)
    <3>1. M(k.mirrorY, IF k.swap THEN u ELSE v) = M(k.mirrorY, IF k.swap THEN x ELSE y)  BY <1>1, <1>6
    <3> QED  BY <1>3, <1>4, <3>1
  <2> QED  BY <2>1, <2>2
<1> QED  BY <1>5, <1>6

\* build_tx_from_logical puts every pixel of the picture to its place on the panel
\* and no other pixel there: the black ones are those drawn, for each of the eight
\* orientations of epaper_cfg.h.
THEOREM PanelShowsThePicture ==
  ASSUME NEW k \in Knobs, NEW buf, NEW x \in Coordinate, NEW y \in Coordinate
  PROVE  IsBlack(Flush(k, buf), ToPanel(k, x, y)[1], ToPanel(k, x, y)[2]) <=> IsBlack(buf, x, y)
<1> DEFINE A(u, v) == Address(ToPanel(k, u, v)[1], ToPanel(k, u, v)[2])
<1>1. <<x, y>> \in Pixels  BY DEF Pixels, Coordinate, W, H
<1>2. ASSUME IsBlack(buf, x, y) PROVE A(x, y) \in Flush(k, buf)
  BY <1>1, <1>2 DEF Flush
<1>3. ASSUME A(x, y) \in Flush(k, buf) PROVE IsBlack(buf, x, y)
  <2>1. PICK p \in Pixels : IsBlack(buf, p[1], p[2]) /\ A(x, y) = A(p[1], p[2])
    BY <1>3 DEF Flush
  <2>2. p[1] \in Coordinate /\ p[2] \in Coordinate  BY DEF Pixels, Coordinate, W, H
  <2>3. /\ ToPanel(k, p[1], p[2])[1] = ToPanel(k, x, y)[1]
        /\ ToPanel(k, p[1], p[2])[2] = ToPanel(k, x, y)[2]
    <3>1. /\ ToPanel(k, x, y)[1] \in Coordinate /\ ToPanel(k, x, y)[2] \in Coordinate
          /\ ToPanel(k, p[1], p[2])[1] \in Coordinate /\ ToPanel(k, p[1], p[2])[2] \in Coordinate
      BY <2>2, Orientation
    <3> QED  BY <2>1, <3>1, PixelsApart
  <2>4. p[1] = x /\ p[2] = y  BY <2>2, <2>3, Orientation
  <2> QED  BY <2>1, <2>4
<1> QED  BY <1>2, <1>3 DEF IsBlack

-----------------------------------------------------------------------------
(* The screen follows the state.                                           *)

LEMMA ScreenName == ASSUME NEW s \in States PROVE ScreenOf(s) \in ScreenNames
BY DEF ScreenOf, ScreenNames, States

LEMMA ReadingType == ASSUME NEW mv \in Int PROVE Reading(mv) \in [valid : BOOLEAN, percent : 0 .. 100]
BY PercentInRange DEF Reading, Plausible

Last(s) == s[Len(s)]

LEMMA LastOfAppend ==
  ASSUME NEW S, NEW s \in Seq(S), NEW e \in S
  PROVE  Append(s, e) \in Seq(S) /\ Append(s, e) # <<>> /\ Last(Append(s, e)) = e
BY DEF Last

LEMMA LastOfTail ==
  ASSUME NEW S, NEW s \in Seq(S), s # <<>>
  PROVE  /\ Head(s) \in S /\ Tail(s) \in Seq(S)
         /\ Tail(s) = <<>> => Last(s) = Head(s)
         /\ Tail(s) # <<>> => Last(Tail(s)) = Last(s)
<1>1. Head(s) \in S /\ Tail(s) \in Seq(S) /\ Len(Tail(s)) = Len(s) - 1 /\ Len(s) \in Nat \ {0}
  OBVIOUS
<1>2. ASSUME Tail(s) = <<>> PROVE Last(s) = Head(s)
  <2>1. Len(s) = 1
    <3>1. Len(Tail(s)) = 0  BY <1>2, EmptySeq
    <3>2. Len(s) - 1 = 0  BY <1>1, <3>1, Zenon
    <3>3. Len(s) \in Nat  OBVIOUS
    <3> QED  BY <3>2, <3>3
  <2>2. s[1] = Head(s)  OBVIOUS
  <2> QED  BY <2>1, <2>2 DEF Last
<1>3. ASSUME Tail(s) # <<>> PROVE Last(Tail(s)) = Last(s)
  <2>1. Len(s) - 1 \in 1 .. Len(s) - 1  BY <1>1, <1>3
  <2>2. Tail(s)[Len(s) - 1] = s[Len(s)]  BY <1>1, <2>1
  <2> QED  BY <1>1, <2>2 DEF Last
<1> QED  BY <1>1, <1>2, <1>3

\* The state announced last, which is still to be shown or is shown.
Latest ==
  IF posted # <<>> THEN Last(posted)
  ELSE IF announcing.at # "rest" THEN announcing.arg
  ELSE IF uiQueue # <<>> THEN Last(uiQueue) ELSE visible

LatestIsState == Latest = state
SendsToEmpty == announcing.at = "send" => uiQueue = <<>>
CanvasFollows == ui = "refresh" => canvas.screen = ScreenOf(visible)
PanelFollows == ui = "wait" /\ visible # "BOOT" => panel.screen = ScreenOf(visible)
CountFollows ==
  posted = <<>> /\ announcing.at = "rest" /\ uiQueue = <<>> /\ state = "IDLE" =>
    /\ ui = "refresh" => canvas.count = hint
    /\ ui = "wait" => panel.count = hint

IInv == TypeOK /\ LatestIsState /\ SendsToEmpty /\ CanvasFollows /\ PanelFollows /\ CountFollows

LEMMA Initially == Init => IInv
<1> SUFFICES ASSUME Init PROVE IInv  OBVIOUS
<1>1. TypeOK  BY ScreensAssumption DEF Init, TypeOK, Drawn, ScreenNames, States
<1> QED  BY <1>1 DEF Init, IInv, Latest, LatestIsState, SendsToEmpty, CanvasFollows, PanelFollows, CountFollows

Rest == LatestIsState /\ SendsToEmpty /\ CanvasFollows /\ PanelFollows /\ CountFollows

LEMMA TransitionKeeps == ASSUME IInv, NEW s \in States, Transition(s) PROVE IInv'
<1> USE DEF IInv
<1>1. Append(posted, s) \in Seq(States) /\ Append(posted, s) # <<>> /\ Last(Append(posted, s)) = s
  BY LastOfAppend DEF TypeOK
<1>2. changes' \in 0 .. MaxChanges  BY ScreensAssumption DEF Transition, TypeOK
<1>3. TypeOK'  BY <1>1, <1>2 DEF Transition, display, TypeOK
<1>4. Latest' = s  BY <1>1 DEF Transition, Latest
<1>5. Rest'  BY <1>1, <1>4 DEF Transition, display, Rest, LatestIsState, SendsToEmpty, CanvasFollows, PanelFollows, CountFollows
<1> QED  BY <1>3, <1>5 DEF Rest

LEMMA AnnounceKeeps == ASSUME IInv, Announce PROVE IInv'
<1> USE DEF IInv
<1>1. /\ Head(posted) \in States /\ Tail(posted) \in Seq(States)
      /\ Tail(posted) = <<>> => Last(posted) = Head(posted)
      /\ Tail(posted) # <<>> => Last(Tail(posted)) = Last(posted)
  BY LastOfTail DEF TypeOK, Announce
<1>2. TypeOK'  BY <1>1 DEF Announce, display, TypeOK
<1>3. Latest' = Latest  BY <1>1 DEF Announce, Latest
<1>4. Rest'  BY <1>3 DEF Announce, display, Rest, LatestIsState, SendsToEmpty, CanvasFollows, PanelFollows, CountFollows
<1> QED  BY <1>2, <1>4 DEF Rest

LEMMA DrainKeeps == ASSUME IInv, Drain PROVE IInv'
<1> USE DEF IInv
<1>1. uiQueue # <<>> => Tail(uiQueue) \in Seq(States) /\ Len(Tail(uiQueue)) <= QueueLen
  <2> SUFFICES ASSUME uiQueue # <<>>
               PROVE  Tail(uiQueue) \in Seq(States) /\ Len(Tail(uiQueue)) <= QueueLen
    OBVIOUS
  <2>1. Tail(uiQueue) \in Seq(States)  BY LastOfTail DEF TypeOK
  <2>2. Len(Tail(uiQueue)) = Len(uiQueue) - 1 /\ Len(uiQueue) \in Nat  BY DEF TypeOK
  <2> QED  BY <2>1, <2>2, ScreensAssumption DEF TypeOK
<1>2. TypeOK'  BY <1>1 DEF Drain, display, TypeOK
<1>3. Latest' = Latest  BY DEF Drain, TypeOK, Latest
<1>4. Rest'  BY <1>3 DEF Drain, display, TypeOK, Rest, LatestIsState, SendsToEmpty, CanvasFollows, PanelFollows, CountFollows
<1> QED  BY <1>2, <1>4 DEF Rest

LEMMA SendKeeps == ASSUME IInv, Send PROVE IInv'
<1> USE DEF IInv
<1>1. uiQueue = <<>> /\ announcing.arg \in States  BY DEF Send, SendsToEmpty, TypeOK
<1>2. uiQueue' = Append(uiQueue, announcing.arg)  BY <1>1, ScreensAssumption DEF Send
<1>3. uiQueue' \in Seq(States) /\ uiQueue' # <<>> /\ Last(uiQueue') = announcing.arg
  <2>1. uiQueue \in Seq(States)  BY DEF TypeOK
  <2> QED  BY <1>1, <1>2, <2>1, LastOfAppend, Zenon
<1>4. Len(uiQueue') <= QueueLen
  <2>1. Len(Append(<<>>, announcing.arg)) = 1  BY <1>1, EmptySeq, AppendProperties
  <2>2. uiQueue' = Append(<<>>, announcing.arg)  BY <1>1, <1>2
  <2> QED  BY <2>1, <2>2, ScreensAssumption
<1>5. TypeOK'  BY <1>3, <1>4 DEF Send, display, TypeOK
<1>6. Latest' = Latest  BY <1>3 DEF Send, TypeOK, Latest
<1>7. Rest'  BY <1>3, <1>6 DEF Send, display, TypeOK, Rest, LatestIsState, SendsToEmpty, CanvasFollows, PanelFollows, CountFollows
<1> QED  BY <1>5, <1>7 DEF Rest

LEMMA HintKeeps == ASSUME IInv, HintChanges PROVE IInv'
<1> USE DEF IInv
<1>1. TypeOK'  BY DEF HintChanges, loop, display, TypeOK
<1>2. Latest' = Latest  BY DEF HintChanges, loop, display, Latest
<1>3. state # "IDLE" /\ state' = state  BY DEF HintChanges, loop
<1>4. Rest'  BY <1>2, <1>3 DEF HintChanges, loop, display, Rest, LatestIsState, SendsToEmpty, CanvasFollows, PanelFollows, CountFollows
<1> QED  BY <1>1, <1>4 DEF Rest

\* The one refresh that is saved is for a screen that the panel shows, in a state
\* that is not IDLE.
LEMMA ReceiveKeeps == ASSUME IInv, Receive PROVE IInv'
<1> USE DEF IInv
<1>1. /\ Head(uiQueue) \in States /\ Tail(uiQueue) \in Seq(States)
      /\ Tail(uiQueue) = <<>> => Last(uiQueue) = Head(uiQueue)
      /\ Tail(uiQueue) # <<>> => Last(Tail(uiQueue)) = Last(uiQueue)
  BY LastOfTail DEF TypeOK, Receive
<1>2. Len(Tail(uiQueue)) <= QueueLen  BY ScreensAssumption DEF TypeOK, Receive
<1>3. TypeOK'  BY <1>1, <1>2 DEF Receive, loop, TypeOK
<1>4. Latest' = Latest  BY <1>1 DEF Receive, loop, Latest
<1>5. LatestIsState' /\ SendsToEmpty'
  BY <1>4 DEF Receive, loop, LatestIsState, SendsToEmpty
<1>6. CanvasFollows' /\ PanelFollows'
  BY DEF Receive, loop, CanvasFollows, PanelFollows, ScreenOf
<1>7. CountFollows'
  <2> SUFFICES ASSUME posted' = <<>>, announcing'.at = "rest", uiQueue' = <<>>, state' = "IDLE"
               PROVE  ui' = "draw"
    BY DEF CountFollows
  <2>1. Head(uiQueue) = state  BY <1>1 DEF Receive, loop, Latest, LatestIsState
  <2> QED  BY <2>1 DEF Receive, loop
<1> QED  BY <1>3, <1>5, <1>6, <1>7

LEMMA DrawKeeps == ASSUME IInv, Draw PROVE IInv'
<1> USE DEF IInv
<1>1. \A mv \in Voltages : Reading(mv) \in [valid : BOOLEAN, percent : 0 .. 100]
  BY ReadingType, ScreensAssumption
<1>2. canvas'.screen = ScreenOf(visible) /\ canvas'.count = hint  BY DEF Draw
<1>3. canvas' \in Drawn  BY <1>1, ScreenName DEF Draw, Drawn, TypeOK
<1>4. TypeOK'  BY <1>3 DEF Draw, loop, TypeOK
<1>5. Latest' = Latest  BY DEF Draw, loop, Latest
<1>6. Rest'  BY <1>2, <1>5 DEF Draw, loop, Rest, LatestIsState, SendsToEmpty, CanvasFollows, PanelFollows, CountFollows
<1> QED  BY <1>4, <1>6 DEF Rest

LEMMA RefreshKeeps == ASSUME IInv, Refresh PROVE IInv'
<1> USE DEF IInv
<1>1. canvas.screen \in ScreenNames /\ canvas.count \in Counts
  BY ScreenName DEF Refresh, CanvasFollows, TypeOK, Drawn
<1>2. TypeOK'  BY <1>1 DEF Refresh, loop, TypeOK
<1>3. Latest' = Latest  BY DEF Refresh, loop, Latest
<1>4. Rest'  BY <1>3 DEF Refresh, loop, Rest, LatestIsState, SendsToEmpty, CanvasFollows, PanelFollows, CountFollows
<1> QED  BY <1>2, <1>4 DEF Rest

LEMMA Inductive == IInv /\ [Next]_vars => IInv'
<1> SUFFICES ASSUME IInv, [Next]_vars PROVE IInv'  OBVIOUS
<1>1. CASE UNCHANGED vars
  BY <1>1 DEF IInv, vars, loop, display, TypeOK, Latest, LatestIsState, SendsToEmpty, CanvasFollows, PanelFollows, CountFollows
<1>2. CASE EventLoop  BY <1>2, AnnounceKeeps, DrainKeeps, SendKeeps DEF EventLoop
<1>3. CASE Ui  BY <1>3, ReceiveKeeps, DrawKeeps, RefreshKeeps DEF Ui
<1>4. CASE HintChanges  BY <1>4, HintKeeps
<1>5. CASE \E s \in States : Transition(s)  BY <1>5, TransitionKeeps
<1> QED  BY <1>1, <1>2, <1>3, <1>4, <1>5 DEF Next

\* Every variable of the screen keeps its type, for any queue and any number of changes.
THEOREM TypeCorrect == Spec => []TypeOK
<1>1. IInv => TypeOK  BY DEF IInv
<1> QED  BY Initially, Inductive, <1>1, PTL DEF Spec

\* At rest the panel shows the state's screen and, at home, the count of the queue:
\* however many changes the refreshes fall behind.
THEOREM ScreenStaysTrue == Spec => []ScreenIsTrue
<1>1. IInv => ScreenIsTrue
  BY DEF IInv, Latest, LatestIsState, PanelFollows, CountFollows, ScreenIsTrue, AtRest
<1> QED  BY Initially, Inductive, <1>1, PTL DEF Spec

-----------------------------------------------------------------------------
(* The layout.  A band is a row of boxes that are apart from each other and *)
(* lie within the panel between two heights; bands at different heights are *)
(* apart.                                                                   *)

Area == Int \X Int \X Int \X Int

Fits(boxes) ==
  \A i, j \in DOMAIN boxes : Inside(boxes[i]) /\ (i < j => Apart(boxes[i], boxes[j]))

Band(boxes, top, bottom) ==
  /\ boxes \in Seq(Area) /\ Fits(boxes)
  /\ \A i \in DOMAIN boxes : top <= boxes[i][2] /\ boxes[i][4] <= bottom

\* The corners of a box are numbers.
LEMMA Corners ==
  ASSUME NEW a \in Area
  PROVE  a[1] \in Int /\ a[2] \in Int /\ a[3] \in Int /\ a[4] \in Int
BY DEF Area

LEMMA OneBox ==
  ASSUME NEW a \in Area, Inside(a), NEW top \in Int, NEW bottom \in Int, top <= a[2], a[4] <= bottom
  PROVE  Band(<<a>>, top, bottom)
<1>1. DOMAIN <<a>> = {1} /\ <<a>>[1] = a /\ <<a>> \in Seq(Area)  OBVIOUS
<1> QED  BY <1>1 DEF Band, Fits

\* Boxes that fit, after boxes that fit and are all apart from them.
LEMMA Together ==
  ASSUME NEW a \in Seq(Area), NEW b \in Seq(Area), Fits(a), Fits(b),
         \A i \in DOMAIN a, j \in DOMAIN b : Apart(a[i], b[j])
  PROVE  Fits(a \o b)
<1> DEFINE n == Len(a)
<1>1. n \in Nat /\ Len(b) \in Nat /\ DOMAIN a = 1 .. n /\ DOMAIN b = 1 .. Len(b)  OBVIOUS
<1>2. DOMAIN (a \o b) = 1 .. n + Len(b)  OBVIOUS
<1>3. \A i \in DOMAIN (a \o b) :
        (a \o b)[i] = IF i <= n THEN a[i] ELSE b[i - n]
  OBVIOUS
<1> HIDE DEF n
<1> SUFFICES ASSUME NEW i \in DOMAIN (a \o b), NEW j \in DOMAIN (a \o b)
             PROVE  Inside((a \o b)[i]) /\ (i < j => Apart((a \o b)[i], (a \o b)[j]))
  BY DEF Fits
<1>4. i \in Int /\ j \in Int /\ (i <= n => i \in DOMAIN a) /\ (~(i <= n) => i - n \in DOMAIN b)
      /\ (j <= n => j \in DOMAIN a) /\ (~(j <= n) => j - n \in DOMAIN b)
  BY <1>1, <1>2
<1>5. CASE i <= n /\ j <= n  BY <1>3, <1>4, <1>5 DEF Fits
<1>6. CASE i <= n /\ ~(j <= n)  BY <1>3, <1>4, <1>6 DEF Fits
<1>7. CASE ~(i <= n) /\ j <= n
  <2>1. ~(i < j)  BY <1>1, <1>4, <1>7
  <2> QED  BY <1>3, <1>4, <1>7, <2>1 DEF Fits
<1>8. CASE ~(i <= n) /\ ~(j <= n)
  <2>1. i < j <=> i - n < j - n  BY <1>1, <1>4
  <2> QED  BY <1>3, <1>4, <1>8, <2>1 DEF Fits
<1> QED  BY <1>5, <1>6, <1>7, <1>8

LEMMA Beside ==
  ASSUME NEW a, NEW b, NEW top \in Int, NEW bottom \in Int, Band(a, top, bottom), Band(b, top, bottom),
         \A i \in DOMAIN a, j \in DOMAIN b : Apart(a[i], b[j])
  PROVE  Band(a \o b, top, bottom)
<1>1. a \in Seq(Area) /\ b \in Seq(Area) /\ Fits(a) /\ Fits(b)  BY DEF Band
<1>2. Fits(a \o b) /\ a \o b \in Seq(Area)  BY <1>1, Together
<1>3. ASSUME NEW i \in DOMAIN (a \o b)
      PROVE  top <= (a \o b)[i][2] /\ (a \o b)[i][4] <= bottom
  <2>1. i \in 1 .. Len(a) + Len(b) /\ Len(a) \in Nat /\ Len(b) \in Nat  BY <1>1
  <2>2. CASE i \in DOMAIN a
    <3>1. (a \o b)[i] = a[i]  BY <1>1, <2>2
    <3> QED  BY <2>2, <3>1 DEF Band
  <2>3. CASE i \notin DOMAIN a
    <3>1. (a \o b)[i] = b[i - Len(a)] /\ i - Len(a) \in DOMAIN b  BY <1>1, <2>1, <2>3
    <3> QED  BY <3>1 DEF Band
  <2> QED  BY <2>2, <2>3
<1> QED  BY <1>2, <1>3 DEF Band

\* A band may be taken for a higher one.
LEMMA Wider ==
  ASSUME NEW a, NEW top \in Int, NEW bottom \in Int, Band(a, top, bottom),
         NEW t \in Int, NEW b \in Int, t <= top, bottom <= b
  PROVE  Band(a, t, b)
<1>1. \A i \in DOMAIN a : a[i] \in Area  BY DEF Band
<1>2. ASSUME NEW i \in DOMAIN a PROVE t <= a[i][2] /\ a[i][4] <= b
  <2>1. a[i][2] \in Int /\ a[i][4] \in Int  BY <1>1, Corners
  <2> QED  BY <2>1 DEF Band
<1> QED  BY <1>2 DEF Band

\* A band under a band.
LEMMA Under ==
  ASSUME NEW a, NEW b, NEW t \in Int, NEW m \in Int, NEW n \in Int, NEW e \in Int,
         Band(a, t, m), Band(b, n, e), t <= n, m < n, m <= e
  PROVE  Band(a \o b, t, e)
<1>1. Band(a, t, e) /\ Band(b, t, e)  BY Wider
<1>2. ASSUME NEW i \in DOMAIN a, NEW j \in DOMAIN b PROVE Apart(a[i], b[j])
  <2>1. a[i] \in Area /\ b[j] \in Area  BY DEF Band
  <2>2. a[i][4] \in Int /\ b[j][2] \in Int  BY <2>1, Corners
  <2>3. a[i][4] <= m /\ n <= b[j][2]  BY DEF Band
  <2>4. a[i][4] < b[j][2]  BY <2>2, <2>3
  <2> QED  BY <2>4 DEF Apart
<1> QED  BY <1>1, <1>2, Beside

-----------------------------------------------------------------------------
(* The boxes of each element, and the bands that they make.                 *)

Fonts == {g_font_sm, g_font_md, g_font_hd, g_font_tt, g_font_xl}

LEMMA EightDigits ==
  MaxCount \in Int /\ 100 <= MaxCount /\ \A n \in Int : n <= MaxCount => n < 100000000
BY SMT DEF MaxCount

\* A count has at most eight digits and a percentage at most three.
LEMMA HasDigits ==
  ASSUME NEW n \in 0 .. MaxCount
  PROVE  Digits(n) \in 1 .. 8 /\ (n <= 100 => Digits(n) <= 3)
<1> DEFINE Is(d) == n < Tens[d] /\ (d > 1 => Tens[d-1] <= n)
<1>0. n \in Int /\ 0 <= n /\ n < 100000000  BY EightDigits
<1>1. Is(1) \/ Is(2) \/ Is(3) \/ Is(4) \/ Is(5) \/ Is(6) \/ Is(7) \/ Is(8)
  BY <1>0, SMT DEF Tens
<1>2. \A d \in 1 .. 8 : Is(d) /\ n <= 100 => d <= 3
  BY <1>0, SMT DEF Tens
<1> HIDE DEF Is
<1>3. \E d \in 1 .. 8 : Is(d)  BY <1>1, SMT
<1>4. Digits(n) = CHOOSE d \in 1 .. 8 : Is(d)  BY DEF Digits, Is
<1>5. Digits(n) \in 1 .. 8 /\ Is(Digits(n))  BY <1>3, <1>4, Zenon
<1> QED  BY <1>2, <1>5

\* The clock is left of everything else in the status bar, the Wi-Fi icon left of
\* the battery's and the battery's left of the percentage, which has room for 100%.
LEMMA StatusBand ==
  ASSUME NEW battery \in [valid : BOOLEAN, percent : 0 .. 100]
  PROVE  /\ Band(StatusBar(battery), 8, 23)
         /\ \A i \in DOMAIN StatusBar(battery) :
              LET box == StatusBar(battery)[i] IN box[3] <= 47 \/ box[4] <= 19 \/ box[1] >= 160
<1> DEFINE d == Digits(battery.percent) + 1
           right == IF battery.valid THEN 192 - (TextWidth(g_font_sm, d) + 4) ELSE 192
           icons == <<ClockBox, BatteryBox(right), WifiBox(right - (g_img_batt.size + 5))>>
           known == IF battery.valid THEN <<TextRight(g_font_sm, 192, STATUS_Y, d)>> ELSE <<>>
<1>1. StatusBar(battery) = icons \o known  BY DEF StatusBar
<1>2. d \in 2 .. 4
  <2>1. battery.percent \in 0 .. 100  OBVIOUS
  <2>2. battery.percent \in 0 .. MaxCount
    BY <2>1, EightDigits
  <2>3. Digits(battery.percent) \in 1 .. 8 /\ Digits(battery.percent) <= 3  BY <2>1, <2>2, HasDigits
  <2> QED  BY <2>3
<1> HIDE DEF d
<1>3. right \in Int /\ right <= 192 /\ right >= 156 /\ (battery.valid => right = 188 - 8 * d)
  BY <1>2 DEF TextWidth, g_font_sm, Font
<1> HIDE DEF right
<1>4. /\ ClockBox = <<8, 9, 47, 23>>
      /\ BatteryBox(right) = <<right - 15, 9, right - 2, 18>>
      /\ WifiBox(right - (g_img_batt.size + 5)) = <<right - 36, 8, right - 23, 19>>
      /\ TextRight(g_font_sm, 192, STATUS_Y, d) = <<192 - 8 * d, 9, 191, 23>>
  BY <1>2, <1>3 DEF ClockBox, BatteryBox, WifiBox, TextRight, Text, TextWidth, Picture, STATUS_Y, g_font_sm, Font,
     g_img_batt, g_img_wifi, Image
<1>5. Band(icons, 8, 23) /\ \A i \in DOMAIN icons : icons[i][3] <= 47 \/ icons[i][4] <= 19
  <2> DEFINE a == <<8, 9, 47, 23>>
             b == <<right - 15, 9, right - 2, 18>>
             c == <<right - 36, 8, right - 23, 19>>
  <2>1. icons = <<a, b, c>>  BY <1>4
  <2>2. a \in Area /\ b \in Area /\ c \in Area  BY <1>3 DEF Area
  <2>3. /\ Inside(a) /\ Inside(b) /\ Inside(c)
        /\ Apart(a, b) /\ Apart(a, c) /\ Apart(b, c)
    BY <1>3 DEF Inside, Apart, W, H
  <2>4. /\ 8 <= a[2] /\ a[4] <= 23 /\ 8 <= b[2] /\ b[4] <= 23 /\ 8 <= c[2] /\ c[4] <= 23
        /\ a[3] <= 47 /\ b[4] <= 19 /\ c[4] <= 19
    BY <1>3
  <2> HIDE DEF a, b, c
  <2>5. DOMAIN <<a, b, c>> = 1 .. 3 /\ <<a, b, c>> \in Seq(Area)  BY <2>2
  <2>6. Fits(<<a, b, c>>)  BY <2>3, <2>5 DEF Fits
  <2>7. \A i \in 1 .. 3 : 8 <= <<a, b, c>>[i][2] /\ <<a, b, c>>[i][4] <= 23  BY <2>4
  <2>8. \A i \in 1 .. 3 : <<a, b, c>>[i][3] <= 47 \/ <<a, b, c>>[i][4] <= 19  BY <2>4
  <2> QED  BY <2>1, <2>5, <2>6, <2>7, <2>8 DEF Band
<1>6. CASE ~battery.valid
  <2>1. known = <<>> /\ icons \in Seq(Area)  BY <1>5, <1>6 DEF Band
  <2> HIDE DEF icons, known
  <2>2. StatusBar(battery) = icons  BY <1>1, <2>1
  <2> QED  BY <1>5, <2>2
<1>7. CASE battery.valid
  <2> DEFINE e == <<192 - 8 * d, 9, 191, 23>>
  <2>1. known = <<e>>  BY <1>4, <1>7
  <2>2. e \in Area /\ Inside(e) /\ 8 <= e[2] /\ e[4] <= 23 /\ e[1] >= 160  BY <1>2 DEF Area, Inside, W, H
  <2>3. Band(<<e>>, 8, 23)  BY <2>2, OneBox
  <2>4. Apart(<<8, 9, 47, 23>>, e) /\ Apart(<<right - 15, 9, right - 2, 18>>, e)
        /\ Apart(<<right - 36, 8, right - 23, 19>>, e)
    BY <1>2, <1>3, <1>7 DEF Apart
  <2> HIDE DEF e
  <2>5. \A i \in DOMAIN icons, j \in DOMAIN <<e>> : Apart(icons[i], <<e>>[j])
    BY <1>4, <2>4
  <2> HIDE DEF icons, known
  <2>6. Band(icons \o <<e>>, 8, 23)  BY <1>5, <2>3, <2>5, Beside
  <2>7. \A i \in DOMAIN (icons \o <<e>>) :
          (icons \o <<e>>)[i] = e \/ (i \in DOMAIN icons /\ (icons \o <<e>>)[i] = icons[i])
    <3>1. icons \in Seq(Area) /\ <<e>> \in Seq(Area)  BY <1>5, <2>3 DEF Band
    <3>2. Len(icons) \in Nat /\ DOMAIN icons = 1 .. Len(icons) /\ Len(<<e>>) = 1 /\ <<e>>[1] = e
      BY <3>1
    <3>3. DOMAIN (icons \o <<e>>) = 1 .. Len(icons) + 1  BY <3>1, <3>2
    <3>4. \A i \in 1 .. Len(icons) : (icons \o <<e>>)[i] = icons[i]  BY <3>1, <3>2
    <3>5. (icons \o <<e>>)[Len(icons) + 1] = e  BY <3>1, <3>2
    <3>6. \A i \in 1 .. Len(icons) + 1 : i \in 1 .. Len(icons) \/ i = Len(icons) + 1  BY <3>2
    <3> TAKE i \in DOMAIN (icons \o <<e>>)
    <3>7. i \in 1 .. Len(icons) + 1  BY <3>3, Zenon
    <3>8. CASE i \in 1 .. Len(icons)
      <4>1. i \in DOMAIN icons  BY <3>2, <3>8, Zenon
      <4> QED  BY <3>4, <3>8, <4>1, Zenon
    <3>9. CASE i = Len(icons) + 1  BY <3>5, <3>9
    <3> QED  BY <3>6, <3>7, <3>8, <3>9, Zenon
  <2> QED  BY <1>1, <1>5, <2>1, <2>2, <2>6, <2>7
<1> QED  BY <1>6, <1>7

\* A text of n characters in the middle of the panel.
LEMMA CenterBox ==
  ASSUME NEW font \in Fonts, NEW y \in Int, NEW n \in Nat, TextWidth(font, n) <= W,
         0 <= y + font.first, y + font.last < H
  PROVE  /\ Band(<<TextCenter(font, y, n)>>, y + font.first, y + font.last)
<1> DEFINE x == (200 - TextWidth(font, n)) \div 2
<1>1. font.advance \in 1 .. 24 /\ font.first \in Nat /\ font.last \in Nat
  BY DEF Fonts, g_font_sm, g_font_md, g_font_hd, g_font_tt, g_font_xl, Font
<1>2. TextWidth(font, n) \in 0 .. 200
  <2>1. TextWidth(font, n) = n * font.advance  BY DEF TextWidth
  <2>2. n * font.advance \in Nat  BY <1>1, <2>1
  <2> QED  BY <2>1, <2>2 DEF W
<1>3. x \in Int /\ 0 <= x /\ x + TextWidth(font, n) - 1 < 200  BY <1>2
<1>4. TextCenter(font, y, n) = <<x, y + font.first, x + TextWidth(font, n) - 1, y + font.last>>
  <2>1. x = (W - TextWidth(font, n)) \div 2  BY DEF W
  <2> HIDE DEF x
  <2>2. ~(x < 0)  BY <1>3
  <2> QED  BY <2>1, <2>2 DEF TextCenter, Text
<1> HIDE DEF x
<1> DEFINE a == <<x, y + font.first, x + TextWidth(font, n) - 1, y + font.last>>
<1>5. a \in Area /\ Inside(a)  BY <1>1, <1>2, <1>3 DEF Area, Inside, W, H
<1>6. y + font.first \in Int /\ y + font.last \in Int  BY <1>1
<1>7. y + font.first <= a[2] /\ a[4] <= y + font.last  BY <1>6
<1> HIDE DEF a
<1> QED  BY <1>4, <1>5, <1>6, <1>7, OneBox DEF a

Mascots == {g_img_mascot_default, g_img_mascot_happy, g_img_mascot_sleeping, g_img_mascot_angry}

LEMMA MascotBox ==
  ASSUME NEW image \in Mascots, NEW y \in Int, 0 <= y, y <= 90
  PROVE  /\ Band(<<PictureCenter(image, y)>>, y + 1, y + 102)
         /\ PictureCenter(image, y)[1] >= 62 /\ PictureCenter(image, y)[3] <= 138
<1>1. /\ PictureCenter(g_img_mascot_default, y) = <<65, y + 1, 134, y + 102>>
      /\ PictureCenter(g_img_mascot_happy, y) = <<65, y + 1, 134, y + 102>>
      /\ PictureCenter(g_img_mascot_sleeping, y) = <<62, y + 1, 138, y + 102>>
      /\ PictureCenter(g_img_mascot_angry, y) = <<66, y + 1, 134, y + 102>>
  BY DEF PictureCenter, Picture, g_img_mascot_default, g_img_mascot_happy, g_img_mascot_sleeping,
     g_img_mascot_angry, Image, W
<1>2. PICK l \in 62 .. 66, r \in 134 .. 138 : PictureCenter(image, y) = <<l, y + 1, r, y + 102>>
  BY <1>1 DEF Mascots
<1> DEFINE a == <<l, y + 1, r, y + 102>>
<1>3. a \in Area /\ Inside(a) /\ y + 1 <= a[2] /\ a[4] <= y + 102 /\ a[1] >= 62 /\ a[3] <= 138
  BY DEF Area, Inside, W, H
<1>4. y + 1 \in Int /\ y + 102 \in Int  OBVIOUS
<1> HIDE DEF a
<1> QED  BY <1>2, <1>3, <1>4, OneBox DEF a

SmallIcons == {g_img_cloud_sm, g_img_mic_sm, g_img_check_sm}

\* An icon and its label stand beside each other when their width is that of the panel.
LEMMA LabelBand ==
  ASSUME NEW icon \in SmallIcons, NEW n \in Nat, NEW y \in Int, NEW gap \in Nat,
         icon.size + gap + 11 * n <= 200, 0 <= y, y <= 170
  PROVE  Band(IconLabel(icon, g_font_hd, n, y, gap), y + 4, y + 24)
<1> DEFINE w == icon.size + gap + 11 * n
           x == (200 - w) \div 2
           Is(size, left, up, right, down) ==
             /\ icon.size = size /\ right < size
             /\ \A u, v \in Int :
                  Picture(icon, u, v + (28 - size) \div 2) = <<u + left, v + up, u + right, v + down>>
<1>0. \E size \in 16 .. 22, left \in 1 .. 4, up \in 4 .. 9, right \in 14 .. 17, down \in 18 .. 23 :
        Is(size, left, up, right, down)
  <2>1. CASE icon = g_img_cloud_sm
    <3>1. \A u, v \in Int : Picture(icon, u, v + (28 - 16) \div 2) = <<u + 1, v + 9, u + 14, v + 18>>
      BY <2>1 DEF Picture, g_img_cloud_sm, Image
    <3>2. Is(16, 1, 9, 14, 18)  BY <2>1, <3>1 DEF g_img_cloud_sm, Image
    <3> HIDE DEF Is
    <3> QED  BY <3>2
  <2>2. CASE icon = g_img_mic_sm
    <3>1. \A u, v \in Int : Picture(icon, u, v + (28 - 22) \div 2) = <<u + 4, v + 4, u + 17, v + 23>>
      BY <2>2 DEF Picture, g_img_mic_sm, Image
    <3>2. Is(22, 4, 4, 17, 23)  BY <2>2, <3>1 DEF g_img_mic_sm, Image
    <3> HIDE DEF Is
    <3> QED  BY <3>2
  <2>3. CASE icon = g_img_check_sm
    <3>1. \A u, v \in Int : Picture(icon, u, v + (28 - 20) \div 2) = <<u + 3, v + 9, u + 16, v + 18>>
      BY <2>3 DEF Picture, g_img_check_sm, Image
    <3>2. Is(20, 3, 9, 16, 18)  BY <2>3, <3>1 DEF g_img_check_sm, Image
    <3> HIDE DEF Is
    <3> QED  BY <3>2
  <2> HIDE DEF Is
  <2> QED  BY <2>1, <2>2, <2>3 DEF SmallIcons
<1>1. PICK size \in 16 .. 22, left \in 1 .. 4, up \in 4 .. 9, right \in 14 .. 17, down \in 18 .. 23 :
        Is(size, left, up, right, down)
  <2> HIDE DEF Is
  <2> QED  BY <1>0
<1>2. w \in Nat /\ w = size + gap + 11 * n /\ w <= 200  BY <1>1
<1> HIDE DEF w
<1>3. x \in Int /\ 0 <= x /\ x + w <= 200  BY <1>2
<1>4. (W - (icon.size + gap + TextWidth(g_font_hd, n))) \div 2 = x
  <2>1. TextWidth(g_font_hd, n) = 11 * n  BY DEF TextWidth, g_font_hd, Font
  <2> QED  BY <2>1 DEF W, w
<1> HIDE DEF x
<1> DEFINE a == <<x + left, y + up, x + right, y + down>>
           b == <<x + size + gap, y + 6, x + size + gap + 11 * n - 1, y + 24>>
<1>5. IconLabel(icon, g_font_hd, n, y, gap) = <<a, b>>
  <2>1. g_font_hd.height = 28  BY DEF g_font_hd, Font
  <2>2. Picture(icon, x, y + (g_font_hd.height - icon.size) \div 2) = a  BY <1>1, <1>3, <2>1
  <2>3. Text(g_font_hd, x + icon.size + gap, y, n) = b
    BY <1>1, <1>3 DEF Text, TextWidth, g_font_hd, Font
  <2> HIDE DEF a, b
  <2> QED  BY <1>4, <2>2, <2>3 DEF IconLabel
<1>6. a \in Area /\ Inside(a) /\ y + 4 <= a[2] /\ a[4] <= y + 24
  BY <1>1, <1>2, <1>3 DEF Area, Inside, W, H
<1>7. b \in Area /\ Inside(b) /\ y + 4 <= b[2] /\ b[4] <= y + 24
  BY <1>1, <1>2, <1>3 DEF Area, Inside, W, H
<1>8. Apart(a, b)  BY <1>1, <1>2, <1>3 DEF Apart
<1>9. y + 4 \in Int /\ y + 24 \in Int  OBVIOUS
<1> HIDE DEF a, b
<1>10. DOMAIN <<a, b>> = 1 .. 2 /\ <<a, b>> \in Seq(Area)  BY <1>6, <1>7
<1> QED  BY <1>5, <1>6, <1>7, <1>8, <1>10 DEF Band, Fits

-----------------------------------------------------------------------------
(* The screens, from the top to the bottom.                                 *)

LEMMA FooterBand == ASSUME NEW n \in 0 .. 25 PROVE Band(Footer(n), 181, 195)
<1>1. g_font_sm \in Fonts /\ g_font_sm.first = 3 /\ g_font_sm.last = 17  BY DEF Fonts, g_font_sm, Font
<1>2. TextWidth(g_font_sm, n) <= W  BY DEF TextWidth, g_font_sm, Font, W
<1>3. FOOTER_Y + g_font_sm.first = 181 /\ FOOTER_Y + g_font_sm.last = 195 /\ FOOTER_Y \in Int /\ 195 < H
  BY <1>1 DEF FOOTER_Y, H
<1>4. Band(<<TextCenter(g_font_sm, FOOTER_Y, n)>>, 181, 195)
  <2>1. 0 <= FOOTER_Y + g_font_sm.first /\ FOOTER_Y + g_font_sm.last < H  BY <1>3
  <2>2. Band(<<TextCenter(g_font_sm, FOOTER_Y, n)>>, FOOTER_Y + g_font_sm.first, FOOTER_Y + g_font_sm.last)
    BY <1>1, <1>2, <1>3, <2>1, CenterBox
  <2> QED  BY <1>3, <2>2
<1> QED  BY <1>4 DEF Footer

\* The picture of a screen, under the status bar and over its label.
LEMMA MascotBand ==
  ASSUME NEW image \in Mascots
  PROVE  Band(<<PictureCenter(image, MASCOT_Y)>>, 27, 128)
<1>1. MASCOT_Y = 26  BY DEF MASCOT_Y
<1>2. Band(<<PictureCenter(image, 26)>>, 26 + 1, 26 + 102)  BY MascotBox
<1> QED  BY <1>1, <1>2

LEMMA SplashFits == Fits(Splash)
<1> DEFINE a == <<44, 22, 155, 48>>
           b == <<76, 55, 123, 69>>
           c == <<65, 85, 134, 186>>
<1>1. Splash = <<a, b, c>>
  BY DEF Splash, TextCenter, PictureCenter, Picture, Text, TextWidth, g_font_tt, g_font_sm, Font,
     g_img_mascot_default, Image, W
<1>2. Inside(a) /\ Inside(b) /\ Inside(c) /\ Apart(a, b) /\ Apart(a, c) /\ Apart(b, c)
  BY DEF Inside, Apart, W, H
<1> HIDE DEF a, b, c
<1>3. DOMAIN <<a, b, c>> = 1 .. 3  OBVIOUS
<1> QED  BY <1>1, <1>2, <1>3 DEF Fits

LEMMA HomeFits ==
  ASSUME NEW battery \in [valid : BOOLEAN, percent : 0 .. 100], NEW count \in 0 .. MaxCount, NEW st,
         st.battery = battery, st.count = count
  PROVE  Fits(Home(st))
<1>1. Band(StatusBar(battery), 8, 23)  BY StatusBand
<1>2. Band(Footer(22), 181, 195)  BY FooterBand
<1>3. g_img_cloud_sm \in SmallIcons /\ g_img_cloud_sm.size = 16  BY DEF SmallIcons, g_img_cloud_sm, Image
<1>4. ASSUME NEW n \in 0 .. 16
      PROVE  Band(IconLabel(g_img_cloud_sm, g_font_hd, n, 142, 6), 146, 166)
  <2>1. g_img_cloud_sm.size + 6 + 11 * n <= 200  BY <1>3
  <2>2. n \in Nat  OBVIOUS
  <2>3. Band(IconLabel(g_img_cloud_sm, g_font_hd, n, 142, 6), 142 + 4, 142 + 24)
    BY <1>3, <2>1, <2>2, LabelBand
  <2> QED  BY <2>3
<1>5. ASSUME NEW image \in Mascots, NEW n \in 0 .. 16
      PROVE  Fits(StatusBar(battery) \o (<<PictureCenter(image, MASCOT_Y)>> \o
                  IconLabel(g_img_cloud_sm, g_font_hd, n, 142, 6)) \o Footer(22))
  <2>1. Band(<<PictureCenter(image, MASCOT_Y)>> \o IconLabel(g_img_cloud_sm, g_font_hd, n, 142, 6), 27, 166)
    BY <1>4, MascotBand, Under
  <2>2. Band(StatusBar(battery) \o (<<PictureCenter(image, MASCOT_Y)>> \o
                  IconLabel(g_img_cloud_sm, g_font_hd, n, 142, 6)), 8, 166)
    BY <1>1, <2>1, Under
  <2>3. Band(StatusBar(battery) \o (<<PictureCenter(image, MASCOT_Y)>> \o
                  IconLabel(g_img_cloud_sm, g_font_hd, n, 142, 6)) \o Footer(22), 8, 195)
    BY <1>2, <2>2, Under
  <2> QED  BY <2>3 DEF Band
<1>6. g_img_mascot_default \in Mascots /\ g_img_mascot_sleeping \in Mascots  BY DEF Mascots
<1>7. CASE count > 0
  <2>1. Digits(count) + 8 \in 0 .. 16  BY HasDigits
  <2>2. Home(st) = StatusBar(battery) \o (<<PictureCenter(g_img_mascot_default, MASCOT_Y)>> \o
                  IconLabel(g_img_cloud_sm, g_font_hd, Digits(count) + 8, 142, 6)) \o Footer(22)
    BY <1>7, Zenon DEF Home
  <2> QED  BY <1>5, <1>6, <2>1, <2>2
<1>8. CASE ~(count > 0)
  <2>1. 12 \in 0 .. 16  OBVIOUS
  <2>2. Home(st) = StatusBar(battery) \o (<<PictureCenter(g_img_mascot_sleeping, MASCOT_Y)>> \o
                  IconLabel(g_img_cloud_sm, g_font_hd, 12, 142, 6)) \o Footer(22)
    BY <1>8, Zenon DEF Home
  <2> QED  BY <1>5, <1>6, <2>1, <2>2
<1> QED  BY <1>7, <1>8

LEMMA RecordingFits ==
  ASSUME NEW battery \in [valid : BOOLEAN, percent : 0 .. 100], NEW st, st.battery = battery
  PROVE  Fits(Recording(st))
<1>1. Band(StatusBar(battery), 8, 23)  BY StatusBand
<1>2. Band(<<PictureCenter(g_img_mascot_angry, MASCOT_Y)>>, 27, 128)  BY MascotBand DEF Mascots
<1>3. Band(IconLabel(g_img_mic_sm, g_font_hd, 11, 142, 6), 146, 166)
  <2>1. g_img_mic_sm \in SmallIcons /\ g_img_mic_sm.size + 6 + 11 * 11 <= 200
    BY DEF SmallIcons, g_img_mic_sm, Image
  <2>2. Band(IconLabel(g_img_mic_sm, g_font_hd, 11, 142, 6), 142 + 4, 142 + 24)  BY <2>1, LabelBand
  <2> QED  BY <2>2
<1>4. Band(Footer(24), 181, 195)  BY FooterBand
<1>5. Band(StatusBar(battery) \o <<PictureCenter(g_img_mascot_angry, MASCOT_Y)>>, 8, 128)
  BY <1>1, <1>2, Under
<1>6. Band(StatusBar(battery) \o <<PictureCenter(g_img_mascot_angry, MASCOT_Y)>>
             \o IconLabel(g_img_mic_sm, g_font_hd, 11, 142, 6), 8, 166)
  BY <1>3, <1>5, Under
<1>7. Band(Recording(st), 8, 195)
  <2>1. Band(StatusBar(battery) \o <<PictureCenter(g_img_mascot_angry, MASCOT_Y)>>
             \o IconLabel(g_img_mic_sm, g_font_hd, 11, 142, 6) \o Footer(24), 8, 195)
    BY <1>4, <1>6, Under
  <2> QED  BY <2>1 DEF Recording
<1> QED  BY <1>7 DEF Band

\* Here alone the picture reaches as high as the status bar, between the clock and
\* the percentage and under the icons.
LEMMA SavedFits ==
  ASSUME NEW battery \in [valid : BOOLEAN, percent : 0 .. 100], NEW st, st.battery = battery
  PROVE  Fits(Saved(st))
<1> DEFINE happy == PictureCenter(g_img_mascot_happy, 20)
<1>1. Band(StatusBar(battery), 8, 122)  BY StatusBand, Wider
<1>2. Band(<<happy>>, 21, 122) /\ happy[1] >= 62 /\ happy[3] <= 138
  <2>1. g_img_mascot_happy \in Mascots  BY DEF Mascots
  <2>2. Band(<<happy>>, 20 + 1, 20 + 102) /\ happy[1] >= 62 /\ happy[3] <= 138  BY <2>1, MascotBox
  <2> QED  BY <2>2
<1> HIDE DEF happy
<1>3. Band(<<happy>>, 8, 122)  BY <1>2, Wider
<1>4. \A i \in DOMAIN StatusBar(battery), j \in DOMAIN <<happy>> : Apart(StatusBar(battery)[i], <<happy>>[j])
  <2> SUFFICES ASSUME NEW i \in DOMAIN StatusBar(battery) PROVE Apart(StatusBar(battery)[i], happy)
    OBVIOUS
  <2> DEFINE box == StatusBar(battery)[i]
  <2>1. box[3] <= 47 \/ box[4] <= 19 \/ box[1] >= 160  BY StatusBand
  <2>2. box \in Area  BY <1>1 DEF Band
  <2>3. happy \in Area /\ 21 <= happy[2]
    <3>1. DOMAIN <<happy>> = {1} /\ <<happy>>[1] = happy  OBVIOUS
    <3> QED  BY <1>2, <3>1 DEF Band
  <2> HIDE DEF box
  <2>4. box[1] \in Int /\ box[3] \in Int /\ box[4] \in Int  BY <2>2, Corners
  <2>5. happy[1] \in Int /\ happy[2] \in Int /\ happy[3] \in Int  BY <2>3, Corners
  <2>6. Apart(box, happy)  BY <1>2, <2>1, <2>3, <2>4, <2>5 DEF Apart
  <2> QED  BY <2>6 DEF box
<1>5. Band(StatusBar(battery) \o <<happy>>, 8, 122)  BY <1>1, <1>3, <1>4, Beside
<1>6. Band(IconLabel(g_img_check_sm, g_font_hd, 5, 138, 8), 142, 162)
  <2>1. g_img_check_sm \in SmallIcons /\ g_img_check_sm.size + 8 + 11 * 5 <= 200
    BY DEF SmallIcons, g_img_check_sm, Image
  <2>2. Band(IconLabel(g_img_check_sm, g_font_hd, 5, 138, 8), 138 + 4, 138 + 24)  BY <2>1, LabelBand
  <2> QED  BY <2>2
<1>7. Band(<<TextCenter(g_font_md, 162, 20)>>, 166, 182)
  <2>1. g_font_md \in Fonts /\ g_font_md.first = 4 /\ g_font_md.last = 20 /\ TextWidth(g_font_md, 20) <= W
    BY DEF Fonts, TextWidth, g_font_md, Font, W
  <2>2. 0 <= 162 + g_font_md.first /\ 162 + g_font_md.last < H  BY <2>1 DEF H
  <2>3. Band(<<TextCenter(g_font_md, 162, 20)>>, 162 + g_font_md.first, 162 + g_font_md.last)
    BY <2>1, <2>2, CenterBox
  <2> QED  BY <2>1, <2>3
<1>8. Band(StatusBar(battery) \o <<happy>> \o IconLabel(g_img_check_sm, g_font_hd, 5, 138, 8), 8, 162)
  BY <1>5, <1>6, Under
<1>9. Band(Saved(st), 8, 182)
  <2>1. Band(StatusBar(battery) \o <<happy>> \o IconLabel(g_img_check_sm, g_font_hd, 5, 138, 8)
              \o <<TextCenter(g_font_md, 162, 20)>>, 8, 182)
    BY <1>7, <1>8, Under
  <2> QED  BY <2>1 DEF Saved, happy
<1> QED  BY <1>9 DEF Band

LEMMA SyncFits ==
  ASSUME NEW battery \in [valid : BOOLEAN, percent : 0 .. 100], NEW count \in 0 .. MaxCount, NEW st,
         st.battery = battery, st.count = count
  PROVE  Fits(SyncScreen(st))
<1> DEFINE cloud == PictureCenter(g_img_cloud_lg, 36)
           title == TextCenter(g_font_hd, 110, 13)
<1>1. Band(StatusBar(battery), 8, 23)  BY StatusBand
<1>2. Band(<<cloud, title>>, 47, 134)
  <2> DEFINE a == <<73, 47, 126, 88>>
             b == <<28, 116, 170, 134>>
  <2>1. cloud = a /\ title = b
    BY DEF PictureCenter, Picture, TextCenter, Text, TextWidth, g_img_cloud_lg, Image, g_font_hd, Font, W
  <2>2. a \in Area /\ b \in Area /\ Inside(a) /\ Inside(b) /\ Apart(a, b)
        /\ 47 <= a[2] /\ a[4] <= 134 /\ 47 <= b[2] /\ b[4] <= 134
    BY DEF Area, Inside, Apart, W, H
  <2> HIDE DEF a, b, cloud, title
  <2>3. DOMAIN <<a, b>> = 1 .. 2 /\ <<a, b>> \in Seq(Area)  BY <2>2
  <2> QED  BY <2>1, <2>2, <2>3 DEF Band, Fits
<1>3. Band(StatusBar(battery) \o <<cloud, title>>, 8, 134)  BY <1>1, <1>2, Under
<1> HIDE DEF cloud, title
<1>4. CASE count > 0
  <2> DEFINE n == Digits(count)
  <2>1. n \in 1 .. 8  BY HasDigits
  <2> HIDE DEF n
  <2>2. Band(<<TextCenter(g_font_xl, 132, n)>>, 141, 184)
    <3>1. g_font_xl \in Fonts /\ g_font_xl.first = 9 /\ g_font_xl.last = 52 /\ TextWidth(g_font_xl, n) <= W
      BY <2>1 DEF Fonts, TextWidth, g_font_xl, Font, W
    <3>2. 0 <= 132 + g_font_xl.first /\ 132 + g_font_xl.last < H  BY <3>1 DEF H
    <3>3. Band(<<TextCenter(g_font_xl, 132, n)>>, 132 + g_font_xl.first, 132 + g_font_xl.last)
      BY <2>1, <3>1, <3>2, CenterBox
    <3> QED  BY <3>1, <3>3
  <2>3. Band(StatusBar(battery) \o <<cloud, title>> \o <<TextCenter(g_font_xl, 132, n)>>, 8, 184)
    BY <1>3, <2>2, Under
  <2>4. SyncScreen(st) = StatusBar(battery) \o <<cloud, title>> \o <<TextCenter(g_font_xl, 132, n)>>
    BY <1>4, Zenon DEF SyncScreen, cloud, title, n
  <2> QED  BY <2>3, <2>4 DEF Band
<1>5. CASE ~(count > 0)
  <2>1. SyncScreen(st) = StatusBar(battery) \o <<cloud, title>> \o <<>>
    BY <1>5, Zenon DEF SyncScreen, cloud, title
  <2>2. StatusBar(battery) \o <<cloud, title>> \in Seq(Area)  BY <1>3 DEF Band
  <2>3. SyncScreen(st) = StatusBar(battery) \o <<cloud, title>>  BY <2>1, <2>2
  <2> QED  BY <1>3, <2>3 DEF Band
<1> QED  BY <1>4, <1>5

\* No text or icon is cut off at the edge of the panel and none is drawn over
\* another, for every voltage of the battery and every number of jobs that a
\* directory can hold (the offsets of screens.c and widgets.c).
THEOREM LayoutAlwaysFits == Spec => []LayoutFits
<1>1. TypeOK => LayoutFits
  <2> SUFFICES ASSUME TypeOK PROVE Fits(Layout(canvas))  BY DEF LayoutFits, Fits
  <2>1. /\ canvas.screen \in ScreenNames \cup {"blank"}
        /\ canvas.battery \in [valid : BOOLEAN, percent : 0 .. 100]
        /\ canvas.count \in 0 .. MaxCount
    BY ScreensAssumption DEF TypeOK, Drawn
  <2>2. CASE canvas.screen = "blank"  BY <2>2 DEF Layout, Fits
  <2>3. CASE canvas.screen = "splash"  BY <2>3, SplashFits DEF Layout
  <2>4. CASE canvas.screen = "home"
    <3>1. Fits(Home(canvas))  BY <2>1, HomeFits
    <3> QED  BY <2>4, <3>1 DEF Layout
  <2>5. CASE canvas.screen = "recording"
    <3>1. Fits(Recording(canvas))  BY <2>1, RecordingFits
    <3> QED  BY <2>5, <3>1 DEF Layout
  <2>6. CASE canvas.screen = "saved"
    <3>1. Fits(Saved(canvas))  BY <2>1, SavedFits
    <3> QED  BY <2>6, <3>1 DEF Layout
  <2>7. CASE canvas.screen = "sync"
    <3>1. Fits(SyncScreen(canvas))  BY <2>1, SyncFits
    <3> QED  BY <2>7, <3>1 DEF Layout
  <2> QED  BY <2>1, <2>2, <2>3, <2>4, <2>5, <2>6, <2>7 DEF ScreenNames
<1> QED  BY <1>1, TypeCorrect, PTL

=============================================================================
