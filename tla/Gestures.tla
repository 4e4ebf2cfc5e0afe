------------------------------ MODULE Gestures ------------------------------
(***************************************************************************)
(* The touch screen as mouse and game pad: the callbacks of the activities *)
(* Mouse and Joystick (Mouse.java, MouseGestureListener.java,              *)
(* Joystick.java) and the button state they share through HidpBcaster      *)
(* (HidpBcaster.java).  All callbacks run on the UI thread.  That state    *)
(* and the grasp state of the listener are static: they outlive the        *)
(* activities, and the sessions, but not the process.                      *)
(*                                                                         *)
(* A report reaches the host if there is a session, and is lost otherwise; *)
(* HidpSession says how.  Movements are left out: every report carries the *)
(* buttons held, and that is what the host keeps.                          *)
(***************************************************************************)
EXTENDS FiniteSets

CONSTANT PadButtons     \* the buttons of the game pad

MouseButtons == {"left", "right"}
Screens == {"mouse", "joystick"}

VARIABLES
    front,              \* the activity in front: none, list or a screen
    list,               \* SelectBcastType, which owns the session, is alive
    session,            \* its session is open
    mouse_buttons,      \* HidpBcaster: buttons held, as far as it knows
    joystick_buttons,
    bstate,             \* MouseGestureListener: the grasp state
    moved,              \* and whether a scroll has followed the last grasp
    shown,              \* the grasp mode the screen announced, until a click
    touched,            \* the pad buttons under a finger
    hostMouse,          \* the buttons of the last report the host got
    hostPad,
    said                \* devices a report was made for in this session

screenVars == <<front, list, session>>
vars == <<screenVars, mouse_buttons, joystick_buttons, bstate, moved, shown,
          touched, hostMouse, hostPad, said>>

Init ==
    /\ front = "none" /\ list = FALSE /\ session = FALSE
    /\ mouse_buttons = {} /\ joystick_buttons = {}
    /\ bstate = "NOT_PUSHED" /\ moved = "MOVED"
    /\ shown = "none" /\ touched = {}
    /\ hostMouse = {} /\ hostPad = {} /\ said = {}

-----------------------------------------------------------------------------
(* Reports                                                                 *)

(* ReportMouse: the last report of a callback, with the buttons then held. *)
ReportMouse(buttons) ==
    /\ mouse_buttons' = buttons
    /\ hostMouse' = IF session THEN buttons ELSE hostMouse
    /\ said' = IF session THEN said \cup {"mouse"} ELSE said
    /\ UNCHANGED <<screenVars, joystick_buttons, touched, hostPad>>

ReportJoystick(buttons) ==
    /\ joystick_buttons' = buttons
    /\ hostPad' = IF session THEN buttons ELSE hostPad
    /\ said' = IF session THEN said \cup {"joystick"} ELSE said
    /\ UNCHANGED <<screenVars, mouse_buttons, bstate, moved, shown, hostMouse>>

(* ReleaseAllButtons of EndSession: its reports come after EndBcast has    *)
(* closed the FIFO, and the host does not get them.                        *)
ReleaseAllButtons ==
    /\ mouse_buttons' = {} /\ joystick_buttons' = {}
    /\ UNCHANGED <<hostMouse, hostPad>>

-----------------------------------------------------------------------------
(* Mouse                                                                   *)

(* Fault: no release.                                                      *)
SingleTapSticks ==
    /\ front = "mouse"
    /\ ReportMouse(mouse_buttons \cup {"left"})
    /\ shown' = "none"
    /\ UNCHANGED <<bstate, moved>>

(* onSingleTapConfirmed: PushMouseButton, ReleaseMouseButton.              *)
SingleTap ==
    /\ front = "mouse"
    /\ ReportMouse(mouse_buttons \ {"left"})
    /\ shown' = "none"
    /\ UNCHANGED <<bstate, moved>>

(* Fault: the pushed button is released, and the announcement kept.        *)
LongPressReleasesLeft ==
    /\ front = "mouse"
    /\ ReportMouse({})
    /\ UNCHANGED <<bstate, moved, shown>>

(* onLongPress                                                             *)
LongPress ==
    /\ front = "mouse"
    /\ ReportMouse(mouse_buttons \ {"right"})
    /\ UNCHANGED <<bstate, moved, shown>>

(* onScroll                                                                *)
Scroll ==
    /\ front = "mouse"
    /\ ReportMouse(mouse_buttons)
    /\ moved' = "MOVED"
    /\ UNCHANGED <<bstate, shown>>

(* The two-finger wheel of Mouse.onTouchEvent: the listener does not see   *)
(* it.                                                                     *)
Wheel ==
    /\ front = "mouse"
    /\ ReportMouse(mouse_buttons)
    /\ UNCHANGED <<bstate, moved, shown>>

(* onDoubleTap with no grasp: the grasp begins.                            *)
DoubleTapGrasps ==
    /\ front = "mouse" /\ bstate = "NOT_PUSHED"
    /\ ReportMouse(mouse_buttons \cup {"left"})
    /\ moved' = "NOT_MOVED" /\ bstate' = "PUSHED" /\ shown' = "on"

(* onDoubleTap again, with no scroll in between: a double click.           *)
DoubleTapClicks ==
    /\ front = "mouse" /\ bstate = "PUSHED" /\ moved = "NOT_MOVED"
    /\ ReportMouse(mouse_buttons \ {"left"})
    /\ shown' = "none"
    /\ UNCHANGED <<bstate, moved>>

(* Fault: the release is not reported.                                     *)
DoubleTapDropsSilently ==
    /\ front = "mouse" /\ bstate = "PUSHED" /\ moved = "MOVED"
    /\ mouse_buttons' = mouse_buttons \ {"left"}
    /\ bstate' = "NOT_PUSHED" /\ shown' = "off"
    /\ UNCHANGED <<screenVars, joystick_buttons, moved, touched, hostMouse, hostPad, said>>

(* onDoubleTap after a scroll: the grasp ends.                             *)
DoubleTapDrops ==
    /\ front = "mouse" /\ bstate = "PUSHED" /\ moved = "MOVED"
    /\ ReportMouse(mouse_buttons \ {"left"})
    /\ bstate' = "NOT_PUSHED" /\ shown' = "off"
    /\ UNCHANGED moved

-----------------------------------------------------------------------------
(* Joystick: setUpButton's listener sees ACTION_DOWN and ACTION_UP;        *)
(* onSensorChanged reports with the buttons as they are.                   *)
PadDown(b) ==
    /\ front = "joystick" /\ b \notin touched
    /\ touched' = touched \cup {b}
    /\ ReportJoystick(joystick_buttons \cup {b})

(* Fault: all buttons are released with one.                               *)
PadUpAll(b) ==
    /\ front = "joystick" /\ b \in touched
    /\ touched' = touched \ {b}
    /\ ReportJoystick({})

PadUp(b) ==
    /\ front = "joystick" /\ b \in touched
    /\ touched' = touched \ {b}
    /\ ReportJoystick(joystick_buttons \ {b})

SensorChanged ==
    /\ front = "joystick"
    /\ ReportJoystick(joystick_buttons)
    /\ UNCHANGED touched

(* Android cancels a touch (ACTION_CANCEL): the listener ignores it.       *)
TouchCancelled(b) ==
    /\ b \in touched
    /\ touched' = touched \ {b}
    /\ UNCHANGED <<screenVars, mouse_buttons, joystick_buttons, bstate, moved,
                   shown, hostMouse, hostPad, said>>

-----------------------------------------------------------------------------
(* Activities                                                              *)

(* The session a new SelectBcastType starts may fail.  At the other end    *)
(* the host may still be connected to the daemon of an earlier session.    *)
StartSession ==
    /\ list' = TRUE /\ session' \in BOOLEAN
    /\ said' = {}
    /\ \/ hostMouse' = {} /\ hostPad' = {}
       \/ UNCHANGED <<hostMouse, hostPad>>

OpenList ==
    /\ front = "none"
    /\ front' = "list"
    /\ StartSession
    /\ UNCHANGED <<mouse_buttons, joystick_buttons, bstate, moved, shown, touched>>

(* SelectBcastType.onDestroy: the user leaves, the screen turns, or, with  *)
(* a screen in front of it, Android destroys the activity.                 *)
ListDestroyed ==
    /\ list
    /\ list' = FALSE /\ session' = FALSE
    /\ front' = IF front = "list" THEN "none" ELSE front
    /\ ReleaseAllButtons
    /\ UNCHANGED <<bstate, moved, shown, touched, said>>

(* onListItemClick                                                         *)
OpenScreen(s) ==
    /\ front = "list"
    /\ front' = s /\ shown' = "none"
    /\ UNCHANGED <<list, session, mouse_buttons, joystick_buttons, bstate,
                   moved, touched, hostMouse, hostPad, said>>

(* The user goes back; touches are cancelled first.                        *)
Back ==
    /\ front \in Screens /\ touched = {}
    /\ front' = "list" /\ shown' = "none"
    /\ IF list THEN UNCHANGED <<list, session, hostMouse, hostPad, said>>
               ELSE StartSession
    /\ UNCHANGED <<mouse_buttons, joystick_buttons, bstate, moved, touched>>

(* The screen turns: a new Mouse or Joystick activity with a blank text.   *)
ScreenTurns ==
    /\ front \in Screens /\ touched = {}
    /\ shown' = "none"
    /\ UNCHANGED <<screenVars, mouse_buttons, joystick_buttons, bstate, moved,
                   touched, hostMouse, hostPad, said>>

(* The process ends; the daemon and what the host has seen stay.           *)
AppDies ==
    /\ front # "none"
    /\ front' = "none" /\ list' = FALSE /\ session' = FALSE
    /\ mouse_buttons' = {} /\ joystick_buttons' = {}
    /\ bstate' = "NOT_PUSHED" /\ moved' = "MOVED"
    /\ shown' = "none" /\ touched' = {}
    /\ UNCHANGED <<hostMouse, hostPad, said>>

-----------------------------------------------------------------------------
Taps == SingleTap \/ LongPress \/ Scroll \/ Wheel
            \/ DoubleTapGrasps \/ DoubleTapClicks \/ DoubleTapDrops

Next ==
    \/ Taps \/ SensorChanged
    \/ \E b \in PadButtons : PadDown(b) \/ PadUp(b) \/ TouchCancelled(b)
    \/ OpenList \/ ListDestroyed \/ Back \/ ScreenTurns \/ AppDies
    \/ \E s \in Screens : OpenScreen(s)

Spec == Init /\ [][Next]_vars

-----------------------------------------------------------------------------
(* What each variable holds (proved for any pad, Gestures_proofs).         *)
TypeOK ==
    /\ front \in {"none", "list"} \cup Screens
    /\ list \in BOOLEAN /\ session \in BOOLEAN
    /\ mouse_buttons \in SUBSET MouseButtons
    /\ joystick_buttons \in SUBSET PadButtons
    /\ bstate \in {"NOT_PUSHED", "PUSHED"} /\ moved \in {"NOT_MOVED", "MOVED"}
    /\ shown \in {"none", "on", "off"}
    /\ touched \in SUBSET PadButtons
    /\ hostMouse \in SUBSET MouseButtons /\ hostPad \in SUBSET PadButtons
    /\ said \in SUBSET Screens

(* Once a device has been reported in a session, the host holds exactly    *)
(* the buttons of it that the application takes to be held, whatever       *)
(* activities were destroyed and whatever the host held from before.       *)
HostInStep ==
    session => /\ "mouse" \in said => hostMouse = mouse_buttons
               /\ "joystick" \in said => hostPad = joystick_buttons

(* With the application closed no button is held in its statics, so the    *)
(* first session after it starts from none.  A session that is started     *)
(* again under a screen (Back, with the list destroyed) need not.          *)
ReleasedWhenClosed ==
    front = "none" => mouse_buttons = {} /\ joystick_buttons = {}

(* The left button is only held in a grasp: taps and long presses leave no *)
(* button down, so the double tap that drops the grasp lets go of it all.  *)
HeldOnlyInGrasp ==
    /\ mouse_buttons \subseteq {"left"}
    /\ bstate = "NOT_PUSHED" => mouse_buttons = {}

(* While the screen announces "Grasp Mode [On]" the host holds the left    *)
(* button, and with "[Off]" it does not: a drag goes on through scrolls    *)
(* and long presses, as long as the session does.                          *)
GraspAsShown ==
    session /\ front = "mouse" =>
        /\ shown = "on" => "left" \in hostMouse
        /\ shown = "off" => "left" \notin hostMouse

(* A pad button under a finger is held at the host.                        *)
TouchedIsHeld == session => touched \subseteq hostPad
=============================================================================
