-------------------------- MODULE Gestures_proofs --------------------------
(***************************************************************************)
(* The touch screen and the sensors.  First the button state under every   *)
(* sequence of gestures, touches and life-cycle events, for any set of pad *)
(* buttons; then how far the host is told to move, for any places and      *)
(* readings.                                                               *)
(*                                                                         *)
(* None of the properties of the buttons is inductive alone.  What they    *)
(* lean on is when a session can begin: in OpenList and Back only, and     *)
(* there nothing is announced on the screen and no finger is down.         *)
(*                                                                         *)
(* Each report of a movement is wrong by less than one unit (Rounded), and *)
(* each compares with the place that the one before it has told: with more *)
(* than one finger that is oldPos, once a first report has been made       *)
(* (TouchInv).                                                             *)
(* What the axis shows depends on the last reading but one only through    *)
(* mLast, which is within half a unit of it (TiltInv).                     *)
(***************************************************************************)
EXTENDS Gestures, Movement, SequenceTheorems, TLAPS

(* The list is alive whenever it is in front or owns a session, and gone   *)
(* when the application is closed; only the joystick screen has touches.   *)
ScreensInv ==
    /\ session => list
    /\ front = "list" => list
    /\ front = "none" => ~list
    /\ touched # {} => front = "joystick"

(* In a session the application knows of every finger on the pad, and a    *)
(* grasp that is announced has been reported.                              *)
ReportedInv ==
    /\ session => touched \subseteq joystick_buttons
    /\ session /\ touched # {} => "joystick" \in said
    /\ session /\ front = "mouse" /\ shown # "none" => "mouse" \in said

ButtonsInv == HostInStep /\ ReleasedWhenClosed /\ HeldOnlyInGrasp /\ GraspAsShown

IInv == TypeOK /\ ScreensInv /\ ReportedInv /\ ButtonsInv

USE DEF Screens, MouseButtons

LEMMA InitInv == Init => IInv
  BY DEF Init, IInv, TypeOK, ScreensInv, ReportedInv, ButtonsInv, HostInStep,
         ReleasedWhenClosed, HeldOnlyInGrasp, GraspAsShown

(* The callbacks of the mouse screen: each ends in one report, and only    *)
(* the double taps touch the grasp.                                        *)
LEMMA TapsInv == IInv /\ Taps => IInv'
<1> SUFFICES ASSUME IInv, Taps PROVE IInv'
  OBVIOUS
<1> USE DEF IInv, TypeOK, ScreensInv, ReportedInv, ButtonsInv, HostInStep,
            ReleasedWhenClosed, HeldOnlyInGrasp, GraspAsShown, ReportMouse, screenVars
<1>1. CASE SingleTap
  BY <1>1 DEF SingleTap
<1>2. CASE LongPress
  BY <1>2 DEF LongPress
<1>3. CASE Scroll
  BY <1>3 DEF Scroll
<1>4. CASE Wheel
  BY <1>4 DEF Wheel
<1>5. CASE DoubleTapGrasps
  BY <1>5 DEF DoubleTapGrasps
<1>6. CASE DoubleTapClicks
  BY <1>6 DEF DoubleTapClicks
<1>7. CASE DoubleTapDrops
  BY <1>7 DEF DoubleTapDrops
<1>8. QED
  BY <1>1, <1>2, <1>3, <1>4, <1>5, <1>6, <1>7 DEF Taps

(* The callbacks of the joystick screen: the fingers and the buttons move  *)
(* together, but for a touch that Android cancels.                         *)
LEMMA PadInv ==
    ASSUME NEW b \in PadButtons, IInv,
           PadDown(b) \/ PadUp(b) \/ TouchCancelled(b) \/ SensorChanged
    PROVE  IInv'
<1> USE DEF IInv, TypeOK, ScreensInv, ReportedInv, ButtonsInv, HostInStep,
            ReleasedWhenClosed, HeldOnlyInGrasp, GraspAsShown, ReportJoystick, screenVars
<1>1. CASE PadDown(b)
  BY <1>1 DEF PadDown
<1>2. CASE PadUp(b)
  BY <1>2 DEF PadUp
<1>3. CASE TouchCancelled(b)
  BY <1>3 DEF TouchCancelled
<1>4. CASE SensorChanged
  BY <1>4 DEF SensorChanged
<1>5. QED
  BY <1>1, <1>2, <1>3, <1>4

(* Activities come and go: buttons are released with the session, and a    *)
(* session begins with no finger down.                                     *)
LEMMA ScreensStep ==
    IInv /\ (OpenList \/ ListDestroyed \/ Back \/ ScreenTurns \/ AppDies) => IInv'
<1> SUFFICES ASSUME IInv, OpenList \/ ListDestroyed \/ Back \/ ScreenTurns \/ AppDies
             PROVE  IInv'
  OBVIOUS
<1> USE DEF IInv, TypeOK, ScreensInv, ReportedInv, ButtonsInv, HostInStep,
            ReleasedWhenClosed, HeldOnlyInGrasp, GraspAsShown, screenVars
<1>1. CASE OpenList
  BY <1>1 DEF OpenList, StartSession
<1>2. CASE ListDestroyed
  BY <1>2 DEF ListDestroyed, ReleaseAllButtons
<1>3. CASE Back
  <2>1. CASE list
    BY <1>3, <2>1 DEF Back
  <2>2. CASE ~list
    BY <1>3, <2>2 DEF Back, StartSession
  <2>3. QED
    BY <2>1, <2>2
<1>4. CASE ScreenTurns
  BY <1>4 DEF ScreenTurns
<1>5. CASE AppDies
  BY <1>5 DEF AppDies
<1>6. QED
  BY <1>1, <1>2, <1>3, <1>4, <1>5

LEMMA OpenScreenInv == ASSUME NEW s \in Screens, IInv, OpenScreen(s) PROVE IInv'
  BY DEF OpenScreen, IInv, TypeOK, ScreensInv, ReportedInv, ButtonsInv, HostInStep,
         ReleasedWhenClosed, HeldOnlyInGrasp, GraspAsShown

LEMMA NextInv == IInv /\ [Next]_vars => IInv'
<1> SUFFICES ASSUME IInv, [Next]_vars PROVE IInv'
  OBVIOUS
<1>1. CASE Taps
  BY <1>1, TapsInv
<1>2. CASE SensorChanged \/ \E b \in PadButtons : PadDown(b) \/ PadUp(b) \/ TouchCancelled(b)
  <2>1. CASE SensorChanged
    BY <2>1 DEF IInv, TypeOK, ScreensInv, ReportedInv, ButtonsInv, HostInStep,
                ReleasedWhenClosed, HeldOnlyInGrasp, GraspAsShown, ReportJoystick,
                screenVars, SensorChanged
  <2>2. QED
    BY <1>2, <2>1, PadInv
<1>3. CASE OpenList \/ ListDestroyed \/ Back \/ ScreenTurns \/ AppDies
  BY <1>3, ScreensStep
<1>4. CASE \E s \in Screens : OpenScreen(s)
  BY <1>4, OpenScreenInv
<1>5. CASE UNCHANGED vars
  BY <1>5 DEF vars, IInv, TypeOK, ScreensInv, ReportedInv, ButtonsInv, HostInStep,
              ReleasedWhenClosed, HeldOnlyInGrasp, GraspAsShown, screenVars
<1>6. QED
  BY <1>1, <1>2, <1>3, <1>4, <1>5 DEF Next

LEMMA Invariance == Spec => []IInv
  BY InitInv, NextInv, PTL DEF Spec

(* Once a device has been reported in a session, the host holds exactly    *)
(* the buttons HidpBcaster remembers for it.                               *)
THEOREM InStep == Spec => []HostInStep
<1>1. IInv => HostInStep
  BY DEF IInv, ButtonsInv
<1>2. QED
  BY <1>1, Invariance, PTL

(* Every variable of the screens keeps its type: a report never holds a    *)
(* button the device does not have (HidpBcaster, MouseGestureListener).    *)
THEOREM TypesKept == Spec => []TypeOK
<1>1. IInv => TypeOK
  BY DEF IInv
<1>2. QED
  BY <1>1, Invariance, PTL

(* While "Grasp Mode [On]" is announced the host holds the left button.    *)
THEOREM GraspKept == Spec => []GraspAsShown
<1>1. IInv => GraspAsShown
  BY DEF IInv, ButtonsInv
<1>2. QED
  BY <1>1, Invariance, PTL

(* Outside a grasp no mouse button is held between two callbacks.          *)
THEOREM NothingSticks == Spec => []HeldOnlyInGrasp
<1>1. IInv => HeldOnlyInGrasp
  BY DEF IInv, ButtonsInv
<1>2. QED
  BY <1>1, Invariance, PTL

(* A pad button under a finger is held at the host: the buttons the        *)
(* application remembers have all the fingers, and the host is in step.    *)
THEOREM TouchesHeld == Spec => []TouchedIsHeld
<1>1. IInv => TouchedIsHeld
  BY DEF IInv, TypeOK, ButtonsInv, HostInStep, ReportedInv, TouchedIsHeld
<1>2. QED
  BY <1>1, Invariance, PTL

(* With the application closed no button is remembered as held.            *)
THEOREM ClosedReleased == Spec => []ReleasedWhenClosed
<1>1. IInv => ReleasedWhenClosed
  BY DEF IInv, ButtonsInv
<1>2. QED
  BY <1>1, Invariance, PTL

-----------------------------------------------------------------------------
(* Movements                                                               *)

(* The cast to int and Math.round, in halves.                              *)
LEMMA Rounded ==
    /\ \A n \in Int : /\ Trunc(n, 2) \in Int /\ Abs(2 * Trunc(n, 2) - n) <= 1
                      /\ Trunc(n, 5) \in Int /\ Abs(5 * Trunc(n, 5) - n) <= 4
                      /\ Round(n) \in Int /\ Abs(2 * Round(n) - n) <= 1
    /\ \A n \in Nat : Trunc(n, 2) \in Nat
  BY DEF Trunc, Abs, Round

LEMMA Narrowed ==
    \A n \in Int : Narrow(n) \in Int /\ (n \in -128 .. 127 => Narrow(n) = n)
  BY DEF Narrow

LEMMA PlaceIsNat == ASSUME NEW p \in Places PROVE p \in Nat /\ p \in Int /\ p # None
  BY PlaceAssumption DEF None

LEMMA FirstFinger == ASSUME NEW s \in Seq(Places), Len(s) > 0 PROVE s[1] \in Places
<1>1. 1 \in 1 .. Len(s)
  BY LenProperties
<1>2. QED
  BY <1>1, ElementOfSeq

LEMMA OneFinger ==
    ASSUME NEW p \in Places
    PROVE  <<p>> \in Seq(Places) /\ Len(<<p>>) = 1 /\ <<p>>[1] = p /\ <<p>> # <<>>
  OBVIOUS

(* A finger more, wherever it comes in the order.                          *)
LEMMA FingerAdded ==
    ASSUME NEW s \in Seq(Places), NEW p \in Places, NEW i \in 1 .. Len(s) + 1
    PROVE  /\ InsertAt(s, i, p) \in Seq(Places)
           /\ Len(InsertAt(s, i, p)) = Len(s) + 1
<1> DEFINE l == SubSeq(s, 1, i - 1)
           r == SubSeq(s, i, Len(s))
<1>1. Len(s) \in Nat /\ i \in Nat /\ i >= 1 /\ i <= Len(s) + 1
  BY LenProperties
<1>2. l \in Seq(Places) /\ Len(l) = i - 1
  BY <1>1, SubSeqProperties
<1>3. r \in Seq(Places) /\ Len(r) = Len(s) + 1 - i
  BY <1>1, SubSeqProperties
<1>4. InsertAt(s, i, p) = (l \o <<p>>) \o r
  BY DEF InsertAt
<1> HIDE DEF l, r
<1>5. l \o <<p>> \in Seq(Places) /\ Len(l \o <<p>>) = i
  BY <1>1, <1>2, OneFinger, ConcatProperties
<1>6. (l \o <<p>>) \o r \in Seq(Places) /\ Len((l \o <<p>>) \o r) = Len(s) + 1
  BY <1>1, <1>3, <1>5, ConcatProperties
<1>7. QED
  BY <1>4, <1>6

(* A finger less: the first one stays, unless it is the one that goes.     *)
LEMMA FingerRemoved ==
    ASSUME NEW s \in Seq(Places), NEW i \in 1 .. Len(s)
    PROVE  /\ RemoveAt(s, i) \in Seq(Places)
           /\ Len(RemoveAt(s, i)) = Len(s) - 1
           /\ i # 1 => RemoveAt(s, i)[1] = s[1]
<1> DEFINE l == SubSeq(s, 1, i - 1)
           r == SubSeq(s, i + 1, Len(s))
<1>1. Len(s) \in Nat /\ i \in Nat /\ i >= 1 /\ i <= Len(s)
  BY LenProperties
<1>2. l \in Seq(Places) /\ Len(l) = i - 1 /\ (i # 1 => l[1] = s[1])
  BY <1>1, SubSeqProperties
<1>3. r \in Seq(Places) /\ Len(r) = Len(s) - i
  BY <1>1, SubSeqProperties
<1>4. RemoveAt(s, i) = l \o r
  BY DEF RemoveAt
<1> HIDE DEF l, r
<1>5. l \o r \in Seq(Places) /\ Len(l \o r) = Len(s) - 1
  <2>1. l \o r \in Seq(Places) /\ Len(l \o r) = Len(l) + Len(r)
    BY <1>2, <1>3, ConcatProperties
  <2>2. (i - 1) + (Len(s) - i) = Len(s) - 1
    BY <1>1
  <2>3. QED
    BY <1>2, <1>3, <2>1, <2>2
<1>6. i # 1 => (l \o r)[1] = l[1]
  BY <1>1, <1>2, <1>3, ConcatProperties
<1>7. QED
  BY <1>2, <1>4, <1>5, <1>6

LEMMA FingerMoved ==
    ASSUME NEW s \in Seq(Places), NEW i \in 1 .. Len(s), NEW p \in Places,
           NEW q, q = [s EXCEPT ![i] = p]
    PROVE  q \in Seq(Places) /\ Len(q) = Len(s) /\ q[1] \in Places /\ q # <<>>
<1>1. q \in Seq(Places) /\ Len(q) = Len(s)
  BY ExceptSeq
<1>2. Len(s) \in Nat /\ Len(s) >= 1
  BY LenProperties
<1>3. QED
  BY <1>1, <1>2, FirstFinger

-----------------------------------------------------------------------------
(* The mouse screen                                                        *)
TouchType ==
    /\ fingers \in Seq(Places) /\ Len(fingers) \in 0 .. MaxFingers
    /\ oldPos \in Nat
    /\ from \in Places \cup {None}
    /\ told \in Int /\ reports \in Nat /\ far \in BOOLEAN

TouchInv ==
    /\ TouchType
    /\ from # None => fingers # <<>>
    /\ from # None /\ Len(fingers) >= 2 => oldPos = Trunc(fingers[1], 2)
    /\ HostFollowsFinger

(* What Counting leaves.                                                   *)
LEMMA CountingTyped ==
    ASSUME fingers' \in Seq(Places), Len(fingers') \in 0 .. MaxFingers, oldPos' \in Nat,
           NEW p \in Places \cup {None}, from' = p, told' = 0, reports' = 0, far' = FALSE
    PROVE  TouchType'
<1>1. from' \in Places \cup {None} /\ told' \in Int /\ reports' \in Nat
  OBVIOUS
<1>2. far' \in BOOLEAN
  OBVIOUS
<1>3. QED
  BY <1>1, <1>2 DEF TouchType

LEMMA TouchInitInv == TouchInit => TouchInv
<1> SUFFICES ASSUME TouchInit PROVE TouchInv
  OBVIOUS
<1>1. TouchType
  <2>1. fingers \in Seq(Places) /\ Len(fingers) \in 0 .. MaxFingers
    BY FingerAssumption DEF TouchInit
  <2>2. far \in BOOLEAN
    BY DEF TouchInit
  <2>3. QED
    BY <2>1, <2>2 DEF TouchInit, TouchType
<1>2. HostFollowsFinger
  BY DEF TouchInit, HostFollowsFinger
<1>3. QED
  BY <1>1, <1>2 DEF TouchInit, TouchInv

(* A report of n units, when the finger has moved by m of them and some.   *)
LEMMA CountAdds ==
    ASSUME TouchType, NEW n \in Int, Count(n)
    PROVE  /\ told' \in Int /\ reports' = reports + 1 /\ from' = from
           /\ ~far' => ~far /\ told' = told + n
<1>1. Narrow(n) \in Int
  BY Narrowed
<1>2. ~far' => ~far /\ Narrow(n) = n
  BY DEF Count
<1>3. told' = told + Narrow(n) /\ told \in Int /\ reports' = reports + 1 /\ from' = from
  BY DEF Count, TouchType
<1>4. told' \in Int
  BY <1>1, <1>3
<1>5. QED
  BY <1>2, <1>3, <1>4

LEMMA FirstDownInv == ASSUME TouchInv, FirstDown PROVE TouchInv'
<1>1. PICK p \in Places : fingers' = <<p>> /\ Counting(p) /\ UNCHANGED oldPos
  BY DEF FirstDown
<1>2. /\ fingers' \in Seq(Places) /\ Len(fingers') = 1 /\ fingers'[1] = p
      /\ from' = p /\ told' = 0 /\ reports' = 0 /\ far' = FALSE
  BY <1>1 DEF Counting
<1>3. Abs(2 * 0 - (p - p)) <= 0
  BY PlaceAssumption DEF Abs
<1>4. HostFollowsFinger'
  BY <1>2, <1>3 DEF HostFollowsFinger
<1>5. TouchType'
  <2>1. oldPos' \in Nat /\ Len(fingers') \in 0 .. MaxFingers
    BY <1>1, <1>2, FingerAssumption DEF TouchInv, TouchType
  <2>2. QED
    BY <1>2, <2>1, CountingTyped
<1>6. QED
  BY <1>1, <1>2, <1>4, <1>5, OneFinger DEF TouchInv

LEMMA PointerDownInv == ASSUME TouchInv, PointerDown PROVE TouchInv'
<1>1. PICK p \in Places, i \in 1 .. Len(fingers) + 1 :
          /\ fingers' = InsertAt(fingers, i, p) /\ oldPos' = Trunc(p, 2)
          /\ Counting(None) /\ Len(fingers) \in 1 .. MaxFingers - 1
  BY DEF PointerDown
<1>2. oldPos' \in Nat
  BY <1>1, PlaceAssumption, Rounded
<1>3. from' = None /\ told' = 0 /\ reports' = 0 /\ far' = FALSE
  BY <1>1 DEF Counting
<1>4. HostFollowsFinger'
  BY <1>3 DEF HostFollowsFinger
<1>5. fingers' \in Seq(Places) /\ Len(fingers') = Len(fingers) + 1
  BY <1>1, FingerAdded DEF TouchInv, TouchType
<1>6. TouchType'
  <2>1. Len(fingers') \in 0 .. MaxFingers
    BY <1>1, <1>5, FingerAssumption
  <2>2. QED
    BY <1>2, <1>3, <1>5, <2>1, CountingTyped
<1>7. QED
  BY <1>3, <1>4, <1>6 DEF TouchInv

LEMMA ScrollInv == ASSUME TouchInv, NEW p \in Places, ScrollTo(p) PROVE TouchInv'
<1> DEFINE n == Trunc(p - fingers[1], 2)
<1>1. Len(fingers) = 1 /\ fingers' = <<p>> /\ Count(n) /\ UNCHANGED oldPos
  BY DEF ScrollTo
<1>2. fingers[1] \in Int /\ p \in Int /\ fingers[1] \in Places
  <2>1. fingers \in Seq(Places) /\ Len(fingers) = 1
    BY <1>1 DEF TouchInv, TouchType
  <2>2. fingers[1] \in Places
    BY <2>1, FirstFinger
  <2>3. QED
    BY <2>2, PlaceIsNat
<1>3. n \in Int /\ Abs(2 * n - (p - fingers[1])) <= 1
  BY <1>2, Rounded
<1>4. /\ told' \in Int /\ reports' = reports + 1 /\ from' = from
      /\ ~far' => ~far /\ told' = told + n
  BY <1>1, <1>3, CountAdds DEF TouchInv
<1>5. TouchType'
  BY <1>1, <1>4 DEF TouchInv, TouchType, Count
<1>6. HostFollowsFinger'
  <2> SUFFICES ASSUME from' # None, ~far'
               PROVE  Abs(2 * told' - (p - from')) <= reports'
    BY <1>1 DEF HostFollowsFinger
  <2>1. Abs(2 * told - (fingers[1] - from)) <= reports /\ told' = told + n
    BY <1>1, <1>4 DEF TouchInv, HostFollowsFinger
  <2>2. from \in Int /\ told \in Int /\ reports \in Nat
    BY <1>4, PlaceAssumption DEF TouchInv, TouchType
  <2>3. \A f, g, h, t, m \in Int, k \in Nat :
            Abs(2 * t - (g - f)) <= k /\ Abs(2 * m - (h - g)) <= 1
                => Abs(2 * (t + m) - (h - f)) <= k + 1
    BY DEF Abs
  <2>4. QED
    BY <1>2, <1>3, <1>4, <2>1, <2>2, <2>3
<1>7. QED
  BY <1>1, <1>4, <1>5, <1>6 DEF TouchInv

LEMMA WheelInv ==
    ASSUME TouchInv, NEW i \in DOMAIN fingers, NEW p \in Places, WheelTo(i, p)
    PROVE  TouchInv'
<1> DEFINE y == Trunc(fingers'[1], 2)
           n == Trunc(oldPos - y, 5)
<1>1. /\ Len(fingers) >= 2 /\ fingers' = [fingers EXCEPT ![i] = p] /\ oldPos' = y
      /\ IF from = None THEN Counting(fingers'[1]) ELSE Count(n)
  BY DEF WheelTo
<1>2. /\ fingers' \in Seq(Places) /\ fingers'[1] \in Places /\ fingers[1] \in Places
      /\ Len(fingers') = Len(fingers) /\ Len(fingers') # 1 /\ fingers' # <<>>
      /\ Len(fingers') \in 0 .. MaxFingers
  <2>1. fingers \in Seq(Places) /\ Len(fingers) \in 0 .. MaxFingers
    BY DEF TouchInv, TouchType
  <2>2. i \in 1 .. Len(fingers)
    BY <2>1
  <2>3. Len(fingers) \in Nat /\ Len(fingers) > 0 /\ Len(fingers) # 1
    BY <1>1, <2>1, FingerAssumption
  <2>4. fingers[1] \in Places
    BY <2>1, <2>3, FirstFinger
  <2>5. QED
    BY <1>1, <2>1, <2>2, <2>3, <2>4, FingerMoved
<1>3. y \in Nat /\ oldPos \in Nat /\ n \in Int /\ Abs(5 * n - (oldPos - y)) <= 4
  <2>1. y \in Nat
    BY <1>2, PlaceIsNat, Rounded
  <2>2. oldPos \in Nat
    BY DEF TouchInv, TouchType
  <2> HIDE DEF y
  <2>3. oldPos - y \in Int
    BY <2>1, <2>2
  <2>4. QED
    BY <2>1, <2>2, <2>3, Rounded
<1>4. CASE from = None
  <2>1. Counting(fingers'[1]) /\ fingers'[1] # None
    BY <1>1, <1>2, <1>4, PlaceAssumption DEF None
  <2>2. TouchType'
    <3>1. /\ from' \in Places /\ told' = 0 /\ reports' = 0 /\ far' = FALSE /\ oldPos' \in Nat
          /\ Len(fingers') \in 0 .. MaxFingers
      BY <1>1, <1>2, <1>3, <2>1 DEF Counting
    <3>2. QED
      BY <1>2, <3>1, CountingTyped
  <2>3. HostFollowsFinger'
    <3>1. from' = fingers'[1] /\ told' = 0 /\ reports' = 0 /\ Len(fingers') # 1
      BY <1>2, <2>1 DEF Counting
    <3>2. Abs(5 * 0 - (y - y)) <= 4 * 0
      BY <1>3 DEF Abs
    <3>3. QED
      BY <3>1, <3>2 DEF HostFollowsFinger
  <2>4. QED
    BY <1>1, <1>2, <2>2, <2>3 DEF TouchInv
<1>5. CASE from # None
  <2>1. /\ told' \in Int /\ reports' = reports + 1 /\ from' = from
        /\ ~far' => ~far /\ told' = told + n
    BY <1>1, <1>3, <1>5, CountAdds DEF TouchInv
  <2>2. TouchType'
    BY <1>1, <1>2, <1>3, <1>5, <2>1 DEF TouchInv, TouchType, Count
  <2>3. HostFollowsFinger'
    <3> DEFINE s == Trunc(from, 2)
    <3> SUFFICES ASSUME ~far' PROVE Abs(5 * told' - (s - y)) <= 4 * reports'
      BY <1>2, <2>1 DEF HostFollowsFinger
    <3>1. oldPos = Trunc(fingers[1], 2) /\ ~far
      BY <1>1, <1>5, <2>1 DEF TouchInv
    <3>2. Abs(5 * told - (s - oldPos)) <= 4 * reports /\ told' = told + n
      <4>1. Len(fingers) # 1
        BY <1>2
      <4>2. HostFollowsFinger
        BY DEF TouchInv
      <4>3. Abs(5 * told - (s - Trunc(fingers[1], 2))) <= 4 * reports
        BY <1>5, <3>1, <4>1, <4>2 DEF HostFollowsFinger
      <4>4. QED
        BY <2>1, <3>1, <4>3
    <3>3. s \in Int /\ told \in Int /\ reports \in Nat
      BY <1>5, PlaceAssumption, Rounded DEF TouchInv, TouchType
    <3>4. \A f, g, h, t, m \in Int, k \in Nat :
              Abs(5 * t - (f - g)) <= 4 * k /\ Abs(5 * m - (g - h)) <= 4
                  => Abs(5 * (t + m) - (f - h)) <= 4 * (k + 1)
      BY DEF Abs
    <3>5. y \in Int /\ n \in Int /\ oldPos \in Int
      BY <1>3
    <3> HIDE DEF s, n, y
    <3>6. Abs(5 * (told + n) - (s - y)) <= 4 * (reports + 1)
      BY <1>3, <3>2, <3>3, <3>4, <3>5
    <3>7. QED
      BY <2>1, <3>2, <3>6
  <2>4. QED
    BY <1>1, <1>2, <2>2, <2>3 DEF TouchInv
<1>6. QED
  BY <1>4, <1>5

LEMMA LiftInv == ASSUME TouchInv, NEW i \in DOMAIN fingers, Lift(i) PROVE TouchInv'
<1>1. fingers \in Seq(Places) /\ Len(fingers) \in 0 .. MaxFingers /\ oldPos' \in Nat
  BY DEF TouchInv, TouchType, Lift
<1>2. i \in 1 .. Len(fingers)
  BY <1>1
<1>3. /\ fingers' \in Seq(Places) /\ Len(fingers') = Len(fingers) - 1
      /\ i # 1 => fingers'[1] = fingers[1]
  BY <1>1, <1>2, FingerRemoved DEF Lift
<1>4. Len(fingers) \in Nat /\ Len(fingers) >= 1 /\ Len(fingers') \in 0 .. MaxFingers
  BY <1>1, <1>2, <1>3, FingerAssumption
<1>5. CASE Len(fingers) = 2
  <2> DEFINE f == fingers'[1]
  <2>1. Len(fingers') = 1 /\ f \in Places
    BY <1>3, <1>5, FirstFinger
  <2>2. from' = f /\ told' = 0 /\ reports' = 0 /\ far' = FALSE
    BY <1>5 DEF Lift, Counting
  <2>3. Abs(2 * 0 - (f - f)) <= 0
    BY <2>1, PlaceIsNat DEF Abs
  <2>4. HostFollowsFinger'
    BY <2>1, <2>2, <2>3 DEF HostFollowsFinger
  <2>5. TouchType'
    BY <1>1, <1>3, <1>4, <2>1, <2>2, CountingTyped
  <2>6. fingers' # <<>>
    BY <2>1
  <2>7. QED
    BY <2>1, <2>4, <2>5, <2>6 DEF TouchInv
<1>6. CASE Len(fingers) # 2 /\ i = 1
  <2>1. from' = None /\ told' = 0 /\ reports' = 0 /\ far' = FALSE
    BY <1>6 DEF Lift, Counting
  <2>2. TouchType'
    BY <1>1, <1>3, <1>4, <2>1, CountingTyped
  <2>3. HostFollowsFinger'
    BY <2>1 DEF HostFollowsFinger
  <2>4. QED
    BY <2>1, <2>2, <2>3 DEF TouchInv
<1>7. CASE Len(fingers) # 2 /\ i # 1
  <2>1. Len(fingers) >= 2 /\ Len(fingers') >= 2 /\ fingers'[1] = fingers[1]
    BY <1>2, <1>3, <1>4, <1>7
  <2>2. UNCHANGED <<from, told, reports, far, oldPos>>
    BY <1>7 DEF Lift
  <2>3. TouchType'
    BY <1>3, <1>4, <2>2 DEF TouchInv, TouchType
  <2>4. HostFollowsFinger'
    <3>1. Len(fingers) # 1 /\ Len(fingers') # 1
      BY <1>3, <1>4, <2>1
    <3>2. QED
      BY <2>1, <2>2, <3>1 DEF TouchInv, HostFollowsFinger
  <2>5. fingers' # <<>>
    BY <2>1
  <2>6. QED
    BY <2>1, <2>2, <2>3, <2>4, <2>5 DEF TouchInv
<1>8. QED
  BY <1>5, <1>6, <1>7

LEMMA TouchKept == TouchInv /\ UNCHANGED touchVars => TouchInv'
  BY DEF TouchInv, TouchType, HostFollowsFinger, touchVars

-----------------------------------------------------------------------------
(* The joystick screen                                                     *)

LastReading == readings[Len(readings)]

TiltInv ==
    /\ mLast \in Int /\ sensivity \in 0 .. 1220 /\ axis \in Int
    /\ readings \in Seq(Readings) /\ Len(readings) \in 0 .. 2
    /\ Len(readings) > 0 => mLast # NotInitialized /\ Abs(mLast - LastReading) <= 1
    /\ TiltIsShown

LEMMA ReadingIsInt ==
    ASSUME NEW x \in Readings
    PROVE  x \in -900 .. 900 /\ x \in Int /\ x # NotInitialized /\ 2 * Round(x) # NotInitialized
<1>1. x \in -900 .. 900
  BY ReadingAssumption
<1>2. x \in Int /\ x # NotInitialized
  BY <1>1 DEF NotInitialized
<1>3. \A n \in -900 .. 900 : 2 * ((n + 1) \div 2) # -1000
  OBVIOUS
<1>4. QED
  BY <1>1, <1>2, <1>3 DEF NotInitialized, Round

LEMMA TiltInitInv == TiltInit => TiltInv
  BY DEF TiltInit, TiltInv, TiltIsShown, NotInitialized

(* No change is reported between two readings that are alike.              *)
LEMMA NoNoise ==
    ASSUME mLast \in Int, NEW x \in Int, Abs(mLast - x) <= 1 PROVE Delta(x) = 0
<1>1. Abs(mLast - x) \in Int /\ Abs(mLast - x) \in 0 .. 1
  BY DEF Abs
<1>2. \A n \in 0 .. 1 : Round(n) < 2
  BY DEF Round
<1>3. QED
  BY <1>1, <1>2 DEF Delta, NOISE

LEMMA Scaled ==
    ASSUME NEW w \in Int
    PROVE  /\ Trunc(w, 2000) \in Int /\ Abs(2000 * Trunc(w, 2000) - w) <= 1999
           /\ w <= 25620 /\ w >= -25620 => 10 * Trunc(w, 2000) \in -128 .. 127
<1>1. \A n \in Int : /\ n \div 2000 \in Int /\ 2000 * (n \div 2000) <= n
                     /\ n < 2000 * (n \div 2000) + 2000
  OBVIOUS
<1>2. CASE w >= 0
  <2>1. \A q \in Int : 2000 * q <= w /\ w < 2000 * q + 2000
            => Abs(2000 * q - w) <= 1999 /\ (w <= 25620 => 10 * q \in -128 .. 127)
    BY <1>2 DEF Abs
  <2>2. Trunc(w, 2000) = w \div 2000
    BY <1>2 DEF Trunc
  <2>3. QED
    BY <1>1, <2>1, <2>2
<1>3. CASE w < 0
  <2>1. \A q \in Int : 2000 * q <= -w /\ -w < 2000 * q + 2000
            => /\ -q \in Int /\ Abs(2000 * (-q) - w) <= 1999
               /\ w >= -25620 => 10 * (-q) \in -128 .. 127
    BY <1>3 DEF Abs
  <2>2. Trunc(w, 2000) = -((-w) \div 2000) /\ -w \in Int
    BY <1>3 DEF Trunc
  <2>3. QED
    BY <1>1, <2>1, <2>2
<1>4. QED
  BY <1>2, <1>3

LEMMA SensorInv == ASSUME TiltInv, NEW x \in Readings, SensorEvent(x) PROVE TiltInv'
<1>1. /\ readings \in Seq(Readings) /\ Len(readings) \in 0 .. 2
      /\ readings' = IF readings = <<>> THEN <<x>> ELSE <<LastReading, x>>
      /\ UNCHANGED sensivity /\ sensivity \in 0 .. 1220
  BY DEF TiltInv, SensorEvent, Remember, LastReading
<1>2. x \in Int /\ x # NotInitialized
  BY ReadingIsInt
<1>3. readings # <<>> => Len(readings) > 0 /\ LastReading \in Readings
  BY <1>1 DEF LastReading
<1>4. /\ readings' \in Seq(Readings) /\ Len(readings') \in 1 .. 2 /\ LastReading' = x
      /\ Len(readings') = 2 => readings'[1] = LastReading /\ readings'[2] = x /\ Len(readings) > 0
  <2>1. CASE readings = <<>>
    BY <1>1, <2>1 DEF LastReading
  <2>2. CASE readings # <<>>
    BY <1>1, <1>3, <2>2 DEF LastReading
  <2>3. QED
    BY <2>1, <2>2
<1>5. CASE mLast = NotInitialized
  <2>1. mLast' = x /\ axis' = axis
    BY <1>5 DEF SensorEvent
  <2>2. Len(readings') = 1
    BY <1>4, <1>5 DEF TiltInv
  <2>3. Abs(x - x) <= 1
    BY <1>2 DEF Abs
  <2>4. TiltIsShown'
    BY <2>2 DEF TiltIsShown
  <2>5. QED
    BY <1>1, <1>2, <1>4, <2>1, <2>3, <2>4 DEF TiltInv
<1>6. CASE mLast # NotInitialized
  <2> DEFINE w == (mLast + 2 * Delta(x)) * sensivity
  <2>1. axis' = Narrow(Trunc(w, 2000) * 10) /\ mLast' = 2 * Round(x)
    BY <1>6 DEF SensorEvent, adjSensivity
  <2>2. mLast \in Int /\ Delta(x) \in Int
    <3>1. mLast \in Int /\ Abs(mLast - x) \in Int
      BY <1>2 DEF TiltInv, Abs
    <3>2. Round(Abs(mLast - x)) \in Int
      BY <3>1 DEF Round
    <3>3. QED
      BY <3>1, <3>2 DEF Delta
  <2>3. mLast' \in Int /\ mLast' # NotInitialized /\ Abs(mLast' - x) <= 1
    <3>1. \A n \in Int : 2 * Round(n) \in Int /\ Abs(2 * Round(n) - n) <= 1
      BY DEF Round, Abs
    <3>2. QED
      BY <1>2, <2>1, <3>1, ReadingIsInt
  <2>4. axis' \in Int
    <3>1. w \in Int
      BY <1>1, <2>2
    <3> HIDE DEF w
    <3>2. Trunc(w, 2000) \in Int
      BY <3>1, Scaled
    <3>3. Trunc(w, 2000) * 10 \in Int
      BY <3>2
    <3>4. QED
      BY <2>1, <3>3, Narrowed
  <2>5. TiltIsShown'
    <3> SUFFICES ASSUME Len(readings') = 2, readings'[1] = readings'[2], Abs(readings'[1]) <= Gravity
                 PROVE  Abs(200 * axis' - sensivity * x) <= 2000 + sensivity
      BY <1>1, <1>4 DEF TiltIsShown
    <3>1. LastReading = x /\ Abs(mLast - x) <= 1 /\ Abs(x) <= 20
      BY <1>4 DEF TiltInv, Gravity
    <3>2. Delta(x) = 0
      BY <1>2, <2>2, <3>1, NoNoise
    <3>3. w = mLast * sensivity
      BY <1>1, <2>2, <3>2
    <3>4. mLast \in -21 .. 21
      BY <1>2, <2>2, <3>1 DEF Abs
    <3>5. /\ w \in Int /\ w <= 25620 /\ w >= -25620 /\ sensivity * x \in Int
          /\ Abs(w - sensivity * x) <= sensivity
      <4> DEFINE z == sensivity * x
      <4>1. sensivity \in Int /\ sensivity >= 0 /\ sensivity <= 1220
        BY <1>1
      <4>2. w \in Int /\ z \in Int
        BY <1>2, <2>2, <3>3, <4>1
      <4>3. mLast = x \/ mLast = x + 1 \/ mLast = x - 1
        BY <1>2, <2>2, <3>1 DEF Abs
      <4>4. (x + 1) * sensivity = z + sensivity /\ (x - 1) * sensivity = z - sensivity
            /\ x * sensivity = z
        BY <1>2, <4>1
      <4>5. w = z \/ w = z + sensivity \/ w = z - sensivity
        BY <3>3, <4>3, <4>4
      <4>6. (21 - mLast) * sensivity >= 0 /\ (mLast + 21) * sensivity >= 0
        BY <3>4, <4>1
      <4>7. /\ (21 - mLast) * sensivity = 21 * sensivity - w
            /\ (mLast + 21) * sensivity = w + 21 * sensivity
        BY <2>2, <3>3, <4>1
      <4> HIDE DEF w, z
      <4>8. w <= 25620 /\ w >= -25620
        BY <4>1, <4>2, <4>6, <4>7
      <4>9. Abs(w - z) <= sensivity
        BY <4>1, <4>2, <4>5 DEF Abs
      <4>10. QED
        BY <4>2, <4>8, <4>9 DEF z
    <3>6. w \in Int /\ sensivity \in Int
      BY <1>1, <3>5
    <3> HIDE DEF w
    <3>7. /\ Trunc(w, 2000) \in Int /\ 10 * Trunc(w, 2000) \in -128 .. 127
          /\ Abs(2000 * Trunc(w, 2000) - w) <= 1999
      BY <3>5, <3>6, Scaled
    <3>8. axis' = 10 * Trunc(w, 2000)
      <4>1. Trunc(w, 2000) * 10 = 10 * Trunc(w, 2000)
        BY <3>7
      <4>2. QED
        BY <2>1, <3>7, <4>1, Narrowed
    <3>9. Abs(200 * (10 * Trunc(w, 2000)) - sensivity * x) <= 2000 + sensivity
      <4> DEFINE z == sensivity * x
      <4> DEFINE t == Trunc(w, 2000)
      <4>1. /\ t \in Int /\ w \in Int /\ z \in Int /\ sensivity \in Int
            /\ Abs(2000 * t - w) <= 1999 /\ Abs(w - z) <= sensivity
        BY <3>5, <3>7, <3>6
      <4> HIDE DEF z, t
      <4>2. Abs(200 * (10 * t) - z) <= 2000 + sensivity
        BY <4>1 DEF Abs
      <4>3. QED
        BY <4>2 DEF z, t
    <3>10. QED
      BY <3>8, <3>9
  <2>6. QED
    BY <1>1, <1>4, <2>3, <2>4, <2>5 DEF TiltInv
<1>7. QED
  BY <1>5, <1>6

LEMMA SeekBarInv == ASSUME TiltInv, NEW s \in Sensitivities, SeekBarMoves(s) PROVE TiltInv'
<1>1. sensivity' \in 0 .. 1220 /\ readings' = <<>> /\ UNCHANGED <<mLast, axis>>
  BY SensitivityAssumption DEF SeekBarMoves
<1>2. readings' \in Seq(Readings) /\ Len(readings') = 0
  BY <1>1
<1>3. QED
  BY <1>1, <1>2 DEF TiltInv, TiltIsShown

LEMMA TiltKept == TiltInv /\ UNCHANGED tiltVars => TiltInv'
  BY DEF TiltInv, TiltIsShown, LastReading, tiltVars

-----------------------------------------------------------------------------
LEMMA MoveInvariance == MoveSpec => [](TouchInv /\ TiltInv)
<1>1. MoveInit => TouchInv /\ TiltInv
  BY TouchInitInv, TiltInitInv DEF MoveInit
<1>2. TouchInv /\ TiltInv /\ [MoveNext]_moveVars => (TouchInv /\ TiltInv)'
  <2> SUFFICES ASSUME TouchInv, TiltInv, [MoveNext]_moveVars PROVE TouchInv' /\ TiltInv'
    OBVIOUS
  <2>1. TouchInv'
    <3>1. CASE TouchNext
      BY <3>1, FirstDownInv, PointerDownInv, ScrollInv, WheelInv, LiftInv DEF TouchNext
    <3>2. CASE UNCHANGED touchVars
      BY <3>2, TouchKept
    <3>3. QED
      BY <3>1, <3>2 DEF MoveNext, moveVars
  <2>2. TiltInv'
    <3>1. CASE TiltNext
      BY <3>1, SensorInv, SeekBarInv DEF TiltNext
    <3>2. CASE UNCHANGED tiltVars
      BY <3>2, TiltKept
    <3>3. QED
      BY <3>1, <3>2 DEF MoveNext, moveVars
  <2>3. QED
    BY <2>1, <2>2
<1>3. QED
  BY <1>1, <1>2, PTL DEF MoveSpec

(* Pointer and wheel go as far as the finger, but for the units that are   *)
(* rounded away (Mouse.onTouchEvent, MouseGestureListener.onScroll), for   *)
(* any places, any number of fingers and any number of reports.            *)
THEOREM FingerFollowed == MoveSpec => []HostFollowsFinger
<1>1. TouchInv => HostFollowsFinger
  BY DEF TouchInv
<1>2. QED
  BY <1>1, MoveInvariance, PTL

(* A tilt that is held is shown (Joystick.onSensorChanged), for any        *)
(* readings and sensitivities.                                             *)
THEOREM TiltShown == MoveSpec => []TiltIsShown
<1>1. TiltInv => TiltIsShown
  BY DEF TiltInv
<1>2. QED
  BY <1>1, MoveInvariance, PTL
=============================================================================
