------------------------------ MODULE Movement ------------------------------
(***************************************************************************)
(* How far the host is told to move: fingers on the mouse screen           *)
(* (Mouse.java, MouseGestureListener.java) and sensor readings on the      *)
(* joystick screen (Joystick.java) become int coordinates, which           *)
(* hidp_clientdlib.c stores in packets as int8_t.  One axis is modelled,   *)
(* the others are alike.  Positions on the screen are in half pixels and   *)
(* readings in halves of a unit, so that there is something to round.      *)
(*                                                                         *)
(* The seek bar of the mouse screen sets a sensitivity that nobody reads:  *)
(* the listener has one of its own, which stays 1.                         *)
(***************************************************************************)
EXTENDS Integers, SequencesExt

CONSTANTS
    MaxFingers,     \* on the mouse screen at a time
    Places,         \* positions of a finger
    Readings,       \* of the accelerometer and the gyroscope
    Sensitivities,  \* of the joystick, in thousandths
    MaxMoves        \* reports of a touch

ASSUME FingerAssumption == MaxFingers \in Nat \ {0}
ASSUME PlaceAssumption == Places \subseteq Nat
(* No reading is mistaken for the lack of one (NotInitialized).            *)
ASSUME ReadingAssumption == Readings \subseteq -900 .. 900
ASSUME SensitivityAssumption == Sensitivities \subseteq 0 .. 1220  \* MaxSensivity
ASSUME MoveAssumption == MaxMoves \in Nat

None == -1

VARIABLES
    fingers,    \* the fingers on the mouse screen, in the order of their index
    oldPos,     \* Mouse.oldPos
    mLast,      \* Joystick.mLastX
    sensivity,  \* Joystick.sensivity
    axis,       \* the pad's axis, as the host sees it

    \* for the properties: where the first finger was when the host began to
    \* count, what it has counted in how many reports, and whether one of
    \* them was out of range; the last two readings
    from, told, reports, far,
    readings

touchVars == <<fingers, oldPos, from, told, reports, far>>
tiltVars == <<mLast, sensivity, axis, readings>>
moveVars == <<touchVars, tiltVars>>

NotInitialized == -1000   \* no reading yet

TouchInit ==
    /\ fingers = <<>> /\ oldPos = 0
    /\ from = None /\ told = 0 /\ reports = 0 /\ far = FALSE
TiltInit ==
    /\ mLast = NotInitialized /\ sensivity = 1000 /\ axis = 0 /\ readings = <<>>
MoveInit == TouchInit /\ TiltInit

-----------------------------------------------------------------------------
Abs(n) == IF n < 0 THEN -n ELSE n

(* The cast (int) of the fraction n / d; Math.round of n halves.           *)
Trunc(n, d) == IF n < 0 THEN -((-n) \div d) ELSE n \div d
Round(n) == (n + 1) \div 2

(* p->report.mouse.x = x: an int in an int8_t.                             *)
Narrow(n) == ((n + 128) % 256) - 128

-----------------------------------------------------------------------------
(* Mouse and MouseGestureListener                                          *)

Counting(p) == from' = p /\ told' = 0 /\ reports' = 0 /\ far' = FALSE

Count(n) ==
    /\ reports < MaxMoves
    /\ reports' = reports + 1
    /\ told' = told + Narrow(n) /\ far' = (far \/ Narrow(n) # n)
    /\ UNCHANGED from

FirstDown ==
    /\ fingers = <<>>
    /\ \E p \in Places : fingers' = <<p>> /\ Counting(p)
    /\ UNCHANGED oldPos

(* ACTION_POINTER_DOWN, for every finger after the first: its place is     *)
(* noted, while the moves that follow tell that of the one with index 0,   *)
(* which a new finger may be (Android gives it the lowest id free).        *)
PointerDown ==
    /\ Len(fingers) \in 1 .. MaxFingers - 1
    /\ \E p \in Places, i \in 1 .. Len(fingers) + 1 :
          /\ fingers' = InsertAt(fingers, i, p)
          /\ oldPos' = Trunc(p, 2)
    /\ Counting(None)

(* onScroll with one finger; the distance arrives with the other sign.     *)
ScrollTo(p) ==
    /\ Len(fingers) = 1
    /\ fingers' = <<p>>
    /\ Count(Trunc(p - fingers[1], 2))
    /\ UNCHANGED oldPos

(* Fault: the place is noted by ACTION_POINTER_DOWN only.                  *)
WheelFromStart(i, p) ==
    /\ Len(fingers) >= 2
    /\ fingers' = [fingers EXCEPT ![i] = p]
    /\ LET y == Trunc(fingers'[1], 2)
       IN  IF from = None THEN Counting(fingers'[1]) ELSE Count(Trunc(oldPos - y, 5))
    /\ UNCHANGED oldPos

(* ACTION_MOVE with more than one finger, whichever moves: getActionIndex  *)
(* is 0 for a move.  wheel_sensivity is 0.2.  The host begins to count     *)
(* after the first one, which jumps by what is between that finger and     *)
(* the place noted.                                                        *)
WheelTo(i, p) ==
    /\ Len(fingers) >= 2
    /\ fingers' = [fingers EXCEPT ![i] = p]
    /\ LET y == Trunc(fingers'[1], 2)
       IN  /\ IF from = None THEN Counting(fingers'[1]) ELSE Count(Trunc(oldPos - y, 5))
           /\ oldPos' = y

(* ACTION_UP and ACTION_POINTER_UP: a finger that stays alone scrolls from *)
(* where it is.  With more of them the wheel goes on, and jumps if it was  *)
(* the one with index 0 that went: oldPos is still its place.              *)
Lift(i) ==
    /\ fingers' = RemoveAt(fingers, i)
    /\ IF Len(fingers) = 2 THEN Counting(fingers'[1])
       ELSE IF i = 1 THEN Counting(None)
       ELSE UNCHANGED <<from, told, reports, far>>
    /\ UNCHANGED oldPos

TouchNext ==
    \/ FirstDown \/ PointerDown
    \/ \E p \in Places : ScrollTo(p) \/ \E i \in DOMAIN fingers : WheelTo(i, p)
    \/ \E i \in DOMAIN fingers : Lift(i)

-----------------------------------------------------------------------------
(* Joystick                                                                *)

NOISE == 2

(* adjSensivity of a value in halves.                                      *)
adjSensivity(val) == Trunc(val * sensivity, 2000) * 10

(* The difference to the last reading, without its sign.                   *)
Delta(x) == IF Round(Abs(mLast - x)) < NOISE THEN 0 ELSE Round(Abs(mLast - x))

Remember(x) == readings' = IF readings = <<>> THEN <<x>> ELSE <<readings[Len(readings)], x>>

(* Fault: only the first reading is kept.                                  *)
SensorEventKeepsFirst(x) ==
    /\ Remember(x)
    /\ IF mLast = NotInitialized THEN mLast' = x /\ UNCHANGED axis
       ELSE axis' = Narrow(adjSensivity(mLast + 2 * Delta(x))) /\ UNCHANGED mLast
    /\ UNCHANGED sensivity

(* onSensorChanged: the first reading is only kept, as it is; the others   *)
(* are rounded.  Readings of both sensors come here, and are not told      *)
(* apart.                                                                  *)
SensorEvent(x) ==
    /\ Remember(x)
    /\ IF mLast = NotInitialized THEN mLast' = x /\ UNCHANGED axis
       ELSE /\ axis' = Narrow(adjSensivity(mLast + 2 * Delta(x)))
            /\ mLast' = 2 * Round(x)
    /\ UNCHANGED sensivity

(* onProgressChanged of the seek bar: what the host sees is older.         *)
SeekBarMoves(s) ==
    /\ sensivity' = s /\ readings' = <<>>
    /\ UNCHANGED <<mLast, axis>>

TiltNext ==
    \/ \E x \in Readings : SensorEvent(x)
    \/ \E s \in Sensitivities : SeekBarMoves(s)

MoveNext == (TouchNext /\ UNCHANGED tiltVars) \/ (TiltNext /\ UNCHANGED touchVars)
MoveSpec == MoveInit /\ [][MoveNext]_moveVars

-----------------------------------------------------------------------------
(* The pointer, or the wheel, goes as far as the finger, but for less than *)
(* one unit that each report rounds away, in whatever steps the finger     *)
(* moves and whichever finger is lifted and put down again.  This is while *)
(* no step is more than a report can hold, and leaves out the first report *)
(* of the wheel after a finger was put down or the one it follows lifted.  *)
HostFollowsFinger ==
    from # None /\ ~far =>
        IF Len(fingers) = 1
        THEN Abs(2 * told - (fingers[1] - from)) <= reports
        ELSE Abs(5 * told - (Trunc(from, 2) - Trunc(fingers[1], 2))) <= 4 * reports

(* A tilt that is held for two readings is shown on the axis, times ten    *)
(* and the sensitivity, with less than ten and half the noise of rounding, *)
(* whatever jump the axis has made on the way.  No tilt is more than the   *)
(* acceleration of gravity, about 10, and no sensitivity makes that a      *)
(* value an axis cannot hold.                                              *)
Gravity == 20
TiltIsShown ==
    Len(readings) = 2 /\ readings[1] = readings[2] /\ Abs(readings[1]) <= Gravity =>
        Abs(200 * axis - sensivity * readings[1]) <= 2000 + sensivity
=============================================================================
