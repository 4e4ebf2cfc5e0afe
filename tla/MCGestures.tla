----------------------------- MODULE MCGestures -----------------------------
(* The screens as buttons, and how far they move things: a report takes    *)
(* the buttons and the distances along without a look at either, so each   *)
(* is explored with the other ones in their initial states.                *)
EXTENDS Gestures, Movement

MCInit == Init /\ MoveInit
ButtonsRun == TouchInit /\ TiltInit /\ Next /\ UNCHANGED moveVars
TouchRuns == Init /\ TiltInit /\ TouchNext /\ UNCHANGED <<vars, tiltVars>>
TiltRuns == Init /\ TouchInit /\ TiltNext /\ UNCHANGED <<vars, touchVars>>

MCSpec == MCInit /\ [][ButtonsRun \/ TouchRuns \/ TiltRuns]_<<vars, moveVars>>

(* Half pixels of a screen 800 pixels high, close together and at its      *)
(* ends: a step of the wheel across it is out of range.                    *)
MCPlaces == {0, 3, 9, 44, 1001, 1598}

(* Halves of m/s^2 on either side of what is noise, up to gravity and to   *)
(* twice as much.                                                          *)
MCReadings == {-40, -20, -5, -3, -1, 0, 2, 3, 4, 19, 20, 40}
=============================================================================
