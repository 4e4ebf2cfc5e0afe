---------------------------- MODULE BecomeMouse ----------------------------
(***************************************************************************)
(* "Become a mouse": the toggle of MainActivity.java, and the program      *)
(* bmouse (apply_profile.c, self_repr.c) that it runs as root to register  *)
(* a HID record with the SDP server and to change the device class, or to  *)
(* undo both.  bmouse prints the handle of the record, and the application *)
(* keeps it in its preferences for the way back.  The UI thread waits for  *)
(* bmouse to end; when the application dies, bmouse goes on.               *)
(*                                                                         *)
(* Any call of the Bluetooth stack may fail, or be answered after bmouse   *)
(* has given it up, or be taken for done when it was refused (BmouseCalls  *)
(* says how); su may not start, and the application may die at any point.  *)
(* These are counted as mishaps.  Other services of the phone register     *)
(* records of their own.                                                   *)
(***************************************************************************)
EXTENDS Naturals, FiniteSets

CONSTANTS
    MaxRecords,     \* records the SDP server has handles for
    MaxProcs,       \* bmouse processes alive at once
    MaxMishaps      \* mishaps in all

ASSUME ProcAssumption == MaxProcs \in Nat \ {0}
ASSUME MishapAssumption == MaxMishaps \in Nat
(* One record left behind per mishap, the one in use, one of another       *)
(* service: the server does not run out of handles.                        *)
ASSUME RecordAssumption == MaxRecords \in Nat /\ MaxRecords >= MaxMishaps + 2

Handles == 1 .. MaxRecords
NoHandle == 0           \* "" in the preferences and in the output
Procs == 1 .. MaxProcs

Commands == {"cod", "multi", "phone"}

MouseClass == MaxRecords + 1    \* the text 0x10590, which is no handle

(* A bmouse process: its command line, whether it has still to start, to   *)
(* set the class, or is done, and what it prints; NoHandle is nothing, or  *)
(* for "cod" the class of a phone.                                         *)
Classes == {"phone", "mouse"}
Request == [op: {"register", "remove"} \cup Classes, arg: Handles \cup {NoHandle}, nr: 1 .. MaxMishaps]
Process == [cmd: Commands, arg: Handles \cup {NoHandle},
            pc: {"free", "start", "set", "done"}, out: Handles \cup {NoHandle, MouseClass}]
NoProcess == [cmd |-> "cod", arg |-> NoHandle, pc |-> "free", out |-> NoHandle]

VARIABLES
    class,      \* the device class: phone or mouse
    ours,       \* handles of the records bmouse has registered
    others,     \* handles of the records of other services
    proc,       \* the bmouse processes
    ui,         \* closed, wait (for child), commit (of result), open
    child,      \* the process the UI thread waits for
    result,     \* what it printed
    toggle,     \* what the toggle button shows
    saved,      \* the preference "sdp-record"
    mishaps,    \* failures and deaths so far
    late,       \* requests given up that may still be served, each with
                \* the number of its mishap
    robbed      \* bmouse has removed a record of another service

stackVars == <<class, ours, others, robbed, late>>
appVars == <<ui, child, result, toggle, saved>>
vars == <<stackVars, proc, appVars, mishaps>>

Init ==
    /\ class = "phone" /\ ours = {} /\ others = {} /\ robbed = FALSE /\ late = {}
    /\ proc = [p \in Procs |-> NoProcess]
    /\ ui = "closed" /\ child = 1 /\ result = NoHandle
    /\ toggle = "off" /\ saved = NoHandle /\ mishaps = 0

Mishap == mishaps < MaxMishaps /\ mishaps' = mishaps + 1

-----------------------------------------------------------------------------
(* MainActivity                                                            *)

(* becameA: exec() of su.                                                  *)
Exec(cmd, arg) ==
    \E p \in Procs :
        /\ proc[p].pc = "free"
        /\ proc' = [proc EXCEPT ![p] =
                       [cmd |-> cmd, arg |-> arg, pc |-> "start", out |-> NoHandle]]
        /\ child' = p /\ ui' = "wait"
        /\ UNCHANGED <<stackVars, result, saved>>

(* onCreate asks bmouse for the device class.  If exec() throws, the       *)
(* missing answer is dereferenced and the activity dies.                   *)
Launch ==
    /\ ui = "closed"
    /\ \/ Exec("cod", NoHandle) /\ UNCHANGED <<toggle, mishaps>>
       \/ Mishap /\ UNCHANGED <<stackVars, proc, appVars>>

(* onToggleClicked, on.  If exec() throws, null goes into the preferences. *)
ToggleOn ==
    /\ ui = "open" /\ toggle = "off"
    /\ toggle' = "on"
    /\ \/ Exec("multi", NoHandle) /\ UNCHANGED mishaps
       \/ /\ Mishap
          /\ saved' = NoHandle
          /\ UNCHANGED <<stackVars, proc, ui, child, result>>

(* onToggleClicked, off.  The preference stays as it is.                   *)
ToggleOff ==
    /\ ui = "open" /\ toggle = "on"
    /\ toggle' = "off"
    /\ \/ Exec("phone", saved) /\ UNCHANGED mishaps
       \/ Mishap /\ UNCHANGED <<stackVars, proc, ui, child, result, saved>>

(* Fault: what bmouse multi printed is thrown away.                        *)
EndOfOutputDropped ==
    /\ ui = "wait" /\ proc[child].pc = "done"
    /\ proc' = [proc EXCEPT ![child] = NoProcess]
    /\ result' = NoHandle
    /\ toggle' = IF proc[child].cmd = "cod"
                 THEN IF proc[child].out = MouseClass THEN "on" ELSE "off" ELSE toggle
    /\ ui' = IF proc[child].cmd = "multi" THEN "commit" ELSE "open"
    /\ UNCHANGED <<stackVars, child, saved, mishaps>>

(* The end of bmouse's output.                                             *)
EndOfOutput ==
    /\ ui = "wait" /\ proc[child].pc = "done"
    /\ proc' = [proc EXCEPT ![child] = NoProcess]
    /\ result' = IF proc[child].cmd = "multi" THEN proc[child].out ELSE NoHandle
    /\ toggle' = IF proc[child].cmd = "cod"
                 THEN IF proc[child].out = MouseClass THEN "on" ELSE "off" ELSE toggle
    /\ ui' = IF proc[child].cmd = "multi" THEN "commit" ELSE "open"
    /\ UNCHANGED <<stackVars, child, saved, mishaps>>

(* Fault: a handle that is saved already is kept.                          *)
CommitOnce ==
    /\ ui = "commit"
    /\ saved' = (IF saved = NoHandle THEN result ELSE saved) /\ ui' = "open"
    /\ UNCHANGED <<stackVars, proc, child, result, toggle, mishaps>>

(* The handle goes into the preferences, whatever bmouse printed.          *)
Commit ==
    /\ ui = "commit"
    /\ saved' = result /\ ui' = "open"
    /\ UNCHANGED <<stackVars, proc, child, result, toggle, mishaps>>

(* The application is closed; nothing of the activity stays.               *)
Close ==
    /\ ui = "open"
    /\ ui' = "closed"
    /\ UNCHANGED <<stackVars, proc, child, result, toggle, saved, mishaps>>

(* It dies while bmouse runs, or before the handle is committed.           *)
AppDies ==
    /\ ui \in {"wait", "commit"} /\ Mishap
    /\ ui' = "closed"
    /\ UNCHANGED <<stackVars, proc, child, result, toggle, saved>>

-----------------------------------------------------------------------------
(* bmouse                                                                  *)

Wanted(p) == IF proc[p].cmd = "multi" THEN "mouse" ELSE "phone"
Step(p, pc, out) == proc' = [proc EXCEPT ![p].pc = pc, ![p].out = out]

(* Any step may fail: bmouse exits at once and prints nothing.             *)
Fails(p) ==
    /\ proc[p].pc \in {"start", "set"}
    /\ Mishap
    /\ Step(p, "done", NoHandle)
    /\ UNCHANGED <<stackVars, appVars>>

(* bmouse has waited too long, and ends as above; what it has asked for is *)
(* still on its way.                                                       *)
GivesUp(p) ==
    /\ proc[p].pc \in {"start", "set"} /\ proc[p].cmd # "cod"
    /\ Mishap
    /\ Step(p, "done", NoHandle)
    /\ \E op \in IF proc[p].pc = "set" THEN {Wanted(p)}
                  ELSE IF proc[p].cmd = "multi" THEN {"register"} ELSE {"remove"} :
          late' = late \cup {[op |-> op, arg |-> proc[p].arg, nr |-> mishaps']}
    /\ UNCHANGED <<class, ours, others, robbed, appVars>>

(* The controller refuses the class, and bmouse does not notice.           *)
SetClassRefused(p) ==
    /\ proc[p].pc = "set" /\ Mishap
    /\ Step(p, "done", proc[p].out)
    /\ UNCHANGED <<stackVars, appVars>>

(* bmouse cod: get_dev_class.                                              *)
GetClass(p) ==
    /\ proc[p].cmd = "cod" /\ proc[p].pc = "start"
    /\ Step(p, "done", IF class = "mouse" THEN MouseClass ELSE NoHandle)
    /\ UNCHANGED <<stackVars, appVars, mishaps>>

(* bmouse multi: add_sdp_record.  The SDP server gives the first handle    *)
(* that is free.                                                           *)
FreeHandles == Handles \ (ours \cup others)
FirstOf(S) == CHOOSE g \in S : \A f \in S : g <= f

Register ==
    /\ FreeHandles # {}
    /\ ours' = ours \cup {FirstOf(FreeHandles)}
    /\ UNCHANGED <<class, others, robbed>>

AddRecord(p) ==
    /\ proc[p].cmd = "multi" /\ proc[p].pc = "start"
    /\ Register /\ Step(p, "set", FirstOf(FreeHandles))
    /\ UNCHANGED <<late, appVars, mishaps>>

(* Fault: the class goes back, but the record stays.                       *)
RemoveRecordForgotten(p) ==
    /\ proc[p].cmd = "phone" /\ proc[p].pc = "start"
    /\ Step(p, "set", NoHandle)
    /\ UNCHANGED <<stackVars, appVars, mishaps>>

(* bmouse phone: remove_sdp_record of the handle given.  Without a handle, *)
(* or with one the SDP server does not know, bmouse ends here.             *)
Remove(h) ==
    /\ ours' = ours \ {h} /\ others' = others \ {h}
    /\ robbed' = (robbed \/ h \in others)
    /\ UNCHANGED class

RemoveRecord(p) ==
    /\ proc[p].cmd = "phone" /\ proc[p].pc = "start"
    /\ Remove(proc[p].arg)
    /\ Step(p, IF proc[p].arg \in ours \cup others THEN "set" ELSE "done", NoHandle)
    /\ UNCHANGED <<late, appVars, mishaps>>

(* set_dev_class; only then is the handle printed.                         *)
SetClass(p) ==
    /\ proc[p].pc = "set"
    /\ class' = Wanted(p)
    /\ Step(p, "done", proc[p].out)
    /\ UNCHANGED <<ours, others, robbed, late, appVars, mishaps>>

(* The server, or the controller, serves a request that was given up.      *)
ServedLate(r) ==
    /\ r \in late /\ late' = late \ {r}
    /\ \/ r.op = "register" /\ Register
       \/ r.op = "remove" /\ Remove(r.arg)
       \/ r.op \in Classes /\ class' = r.op /\ UNCHANGED <<ours, others, robbed>>
    /\ UNCHANGED <<proc, appVars, mishaps>>

(* A process whose output nobody waits for is gone.                        *)
Reaped(p) ==
    /\ proc[p].pc = "done" /\ (ui = "wait" => child # p)
    /\ proc' = [proc EXCEPT ![p] = NoProcess]
    /\ UNCHANGED <<stackVars, appVars, mishaps>>

-----------------------------------------------------------------------------
(* The other services of the phone                                         *)
OtherRegisters ==
    /\ others = {} /\ FreeHandles # {}
    /\ others' = {FirstOf(FreeHandles)}
    /\ UNCHANGED <<class, ours, robbed, late, proc, appVars, mishaps>>

OtherUnregisters ==
    /\ others # {}
    /\ others' = {}
    /\ UNCHANGED <<class, ours, robbed, late, proc, appVars, mishaps>>

-----------------------------------------------------------------------------
AppRuns == EndOfOutput \/ Commit
UserActs == Launch \/ ToggleOn \/ ToggleOff
Runs(p) ==
    GetClass(p) \/ AddRecord(p) \/ RemoveRecord(p) \/ SetClass(p) \/ Reaped(p)

Next ==
    \/ AppRuns \/ UserActs \/ Close \/ AppDies
    \/ \E p \in Procs : Runs(p) \/ Fails(p) \/ GivesUp(p) \/ SetClassRefused(p)
    \/ \E r \in late : ServedLate(r)
    \/ OtherRegisters \/ OtherUnregisters

Spec == Init /\ [][Next]_vars

(* Processes run, and the user keeps toggling; nothing has to fail.        *)
TogglingSpec ==
    /\ Spec
    /\ WF_vars(AppRuns) /\ \A p \in Procs : WF_vars(Runs(p))
    /\ WF_vars(Launch) /\ SF_vars(ToggleOn) /\ SF_vars(ToggleOff)

-----------------------------------------------------------------------------
TypeOK ==
    /\ class \in Classes
    /\ ours \in SUBSET Handles /\ others \in SUBSET Handles /\ robbed \in BOOLEAN
    /\ proc \in [Procs -> Process]
    /\ ui \in {"closed", "wait", "commit", "open"}
    /\ child \in Procs /\ result \in Handles \cup {NoHandle}
    /\ toggle \in {"on", "off"}
    /\ saved \in Handles \cup {NoHandle}
    /\ mishaps \in 0 .. MaxMishaps /\ late \in SUBSET Request

(* Without a mishap the toggle, the device class, the record and the       *)
(* saved handle agree whenever the activity is idle, however often it was  *)
(* closed and launched again (doc/howTo.txt: "you can close the app").     *)
Agreement ==
    mishaps = 0 /\ ui = "open" =>
        /\ (toggle = "on") = (class = "mouse")
        /\ class = "mouse" => ours = {saved}
        /\ class = "phone" => ours = {}

(* A mishap costs at most one record that is never removed.                *)
LeakBound == Cardinality(ours) <= 1 + mishaps

(* Without a mishap bmouse removes no record of another service: a handle  *)
(* that is still saved but was given to another service is not used.       *)
OthersSpared == mishaps = 0 => ~robbed

(* A user who keeps toggling becomes a phone again, whatever went wrong.   *)
PhoneComesBack == []<>(class = "phone")
=============================================================================
