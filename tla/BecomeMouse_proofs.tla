------------------------- MODULE BecomeMouse_proofs -------------------------
(***************************************************************************)
(* The toggle, for any number of processes, records and mishaps.           *)
(*                                                                         *)
(* Without a mishap one bmouse runs at a time and everything follows from  *)
(* how far it has come (Orderly).  With mishaps the records are counted:   *)
(* besides one record that is allowed to be there, since it is in use or   *)
(* on its way to be, each record, each bmouse or late request that will    *)
(* still add one, and each that will still turn the phone back behind the  *)
(* application's back, has a mishap of its own (Accounted).                *)
(***************************************************************************)
EXTENDS BecomeMouse, FiniteSetTheorems, WellFoundedInduction, TLAPS

Waits(p) == ui = "wait" /\ p = child
Cmd == proc[child].cmd
At == proc[child].pc
Out == proc[child].out

(* What the toggle shows while the UI thread waits; records are of one     *)
(* owner; a process waited for has been started, and a request on its way  *)
(* has had its mishap.                                                     *)
Consistent ==
    /\ ui = "wait" => At # "free"
    /\ \A p \in Procs : proc[p].cmd # "cod" => proc[p].out # MouseClass
    /\ \A p \in Procs : proc[p].pc = "set" => proc[p].cmd # "cod"
    /\ ui = "commit" \/ (ui = "wait" /\ Cmd = "multi") => toggle = "on"
    /\ ui = "wait" /\ Cmd = "phone" => toggle = "off" /\ proc[child].arg = saved
    /\ ours \cap others = {}
    /\ IsFiniteSet(late) /\ \A r \in late : r.nr <= mishaps

-----------------------------------------------------------------------------
(* Without a mishap                                                        *)
AsMouse(h) == class = "mouse" /\ ours = {h}
AsPhone == class = "phone" /\ ours = {}
Settled == AsPhone \/ AsMouse(saved)

Phase ==
    /\ ui = "closed" => Settled
    /\ ui = "open" => IF toggle = "on" THEN AsMouse(saved) ELSE AsPhone
    /\ ui = "commit" => AsMouse(result)
    /\ ui = "wait" /\ Cmd = "cod" =>
          /\ Settled
          /\ At = "done" => (Out = MouseClass <=> class = "mouse")
          /\ At # "set"
    /\ ui = "wait" /\ Cmd = "multi" =>
          /\ At = "start" => AsPhone
          /\ At = "set" => class = "phone" /\ ours = {Out}
          /\ At = "done" => AsMouse(Out) /\ Out # MouseClass
    /\ ui = "wait" /\ Cmd = "phone" =>
          /\ At = "start" => AsMouse(saved)
          /\ At = "set" => class = "mouse" /\ ours = {}
          /\ At = "done" => AsPhone

Orderly ==
    mishaps = 0 =>
        /\ late = {} /\ ~robbed /\ Phase
        /\ \A p \in Procs : ~Waits(p) => proc[p].pc = "free"

-----------------------------------------------------------------------------
(* With mishaps                                                            *)
Starting == {p \in Procs : proc[p].cmd = "multi" /\ proc[p].pc = "start"}
Astray == {p \in Procs : proc[p].cmd = "phone" /\ proc[p].pc \in {"start", "set"} /\ ~Waits(p)}
LateRecords == {r \in late : r.op = "register"}
LatePhones == {r \in late : r.op = "phone"}

InUse(h) == class = "mouse" /\ h \in ours

Allowed ==
    \/ ui = "closed" /\ InUse(saved)
    \/ ui = "open" /\ toggle = "on" /\ InUse(saved)
    \/ ui = "commit" /\ InUse(result)
    \/ ui = "wait" /\ Cmd = "cod" /\ (At = "done" => Out = MouseClass) /\ InUse(saved)
    \/ ui = "wait" /\ Cmd = "phone" /\ At = "start" /\ InUse(saved)
    \/ ui = "wait" /\ Cmd = "multi" /\ At = "start"
    \/ ui = "wait" /\ Cmd = "multi" /\ At = "set" /\ Out \in ours
    \/ ui = "wait" /\ Cmd = "multi" /\ At = "done" /\ InUse(Out)

Debt == Cardinality(ours) + Cardinality(Starting) + Cardinality(Astray)
            + Cardinality(LateRecords) + Cardinality(LatePhones)

Accounted == Debt <= mishaps + 1 /\ (~Allowed => Debt <= mishaps)

IInv == TypeOK /\ Consistent /\ Orderly /\ Accounted

-----------------------------------------------------------------------------
(* A set of handles has a smallest one.                                    *)
LEMMA FirstIsIn == ASSUME NEW S \in SUBSET Nat, S # {} PROVE FirstOf(S) \in S
<1> DEFINE Less == {ss \in Nat \X Nat : ss[1] < ss[2]}
<1>1. PICK g \in S : \A f \in S : <<f, g>> \notin Less
  BY NatLessThanWellFounded, WFMin DEF OpToRel
<1>2. \A f \in S : g <= f
  <2> TAKE f \in S
  <2>1. <<f, g>> \in Nat \X Nat /\ ~(f < g)
    BY <1>1
  <2>2. QED
    BY <2>1
<1>3. QED
  BY <1>2 DEF FirstOf

LEMMA NewHandle ==
    ASSUME TypeOK, FreeHandles # {}
    PROVE  FirstOf(FreeHandles) \in Handles \ (ours \cup others)
  BY FirstIsIn, RecordAssumption DEF FreeHandles, Handles

LEMMA InitInv == Init => IInv
<1> SUFFICES ASSUME Init PROVE IInv
  OBVIOUS
<1> USE ProcAssumption, MishapAssumption, RecordAssumption DEF Init
<1>1. TypeOK
  <2>1. NoProcess \in Process /\ 1 \in Procs
    BY DEF NoProcess, Process, Procs, NoHandle, Commands
  <2>2. robbed \in BOOLEAN
    OBVIOUS
  <2>3. QED
    BY <2>1, <2>2 DEF TypeOK, Classes
<1>2. Consistent /\ Orderly
  BY FS_EmptySet DEF Consistent, Orderly, Phase, Settled, AsPhone, NoProcess, Procs, Waits
<1>3. Accounted
  <2>1. Starting = {} /\ Astray = {} /\ LateRecords = {} /\ LatePhones = {}
    BY DEF Starting, Astray, LateRecords, LatePhones, NoProcess
  <2>2. QED
    BY <2>1, FS_EmptySet DEF Accounted, Debt
<1>4. QED
  BY <1>1, <1>2, <1>3 DEF IInv

-----------------------------------------------------------------------------
(* The types, and what is consistent whatever happens                      *)

Typed == TypeOK /\ Consistent
USE DEF appVars, stackVars

(* A step of bmouse on itself: the others stay as they are.                *)
LEMMA StepTyped ==
    ASSUME TypeOK, NEW p \in Procs, NEW pc \in {"free", "start", "set", "done"},
           NEW out \in Handles \cup {NoHandle, MouseClass}, Step(p, pc, out)
    PROVE  /\ proc' \in [Procs -> Process]
           /\ proc'[p].pc = pc /\ proc'[p].out = out
           /\ proc'[p].cmd = proc[p].cmd /\ proc'[p].arg = proc[p].arg
           /\ \A q \in Procs \ {p} : proc'[q] = proc[q]
  BY DEF TypeOK, Step, Process

LEMMA ExecTyped ==
    ASSUME TypeOK, NEW cmd \in Commands, NEW arg \in Handles \cup {NoHandle}, Exec(cmd, arg)
    PROVE  \E p \in Procs :
              /\ proc[p].pc = "free" /\ child' = p /\ ui' = "wait"
              /\ proc' \in [Procs -> Process]
              /\ proc'[p] = [cmd |-> cmd, arg |-> arg, pc |-> "start", out |-> NoHandle]
              /\ \A q \in Procs \ {p} : proc'[q] = proc[q]
              /\ UNCHANGED <<stackVars, result, saved>>
  BY DEF TypeOK, Exec, Process

LEMMA FreeTyped ==
    ASSUME TypeOK, NEW p \in Procs, proc' = [proc EXCEPT ![p] = NoProcess]
    PROVE  /\ proc' \in [Procs -> Process]
           /\ proc'[p].pc = "free" /\ proc'[p].cmd = "cod" /\ proc'[p] = NoProcess
           /\ \A q \in Procs \ {p} : proc'[q] = proc[q]
  BY DEF TypeOK, Process, NoProcess, Commands, NoHandle

LEMMA HandlesApart ==
    /\ MouseClass \notin Handles /\ NoHandle \notin Handles /\ MouseClass # NoHandle
    /\ Handles \in SUBSET Nat
  BY RecordAssumption DEF MouseClass, Handles, NoHandle

LEMMA MishapTyped ==
    ASSUME Typed, Mishap
    PROVE  /\ mishaps' = mishaps + 1 /\ mishaps' \in 1 .. MaxMishaps
           /\ mishaps' \in 0 .. MaxMishaps
           /\ \A r \in late : r.nr <= mishaps'
<1>1. mishaps' = mishaps + 1 /\ mishaps' \in 1 .. MaxMishaps
  BY MishapAssumption DEF Mishap, Typed, TypeOK
<1>2. \A r \in late : r.nr <= mishaps /\ r.nr \in Nat /\ mishaps \in Nat
  BY DEF Typed, TypeOK, Consistent, Request
<1>3. QED
  BY <1>1, <1>2

LEMMA ExecKeeps ==
    ASSUME Typed, NEW cmd \in Commands, NEW arg \in Handles \cup {NoHandle}, Exec(cmd, arg),
           mishaps' = mishaps, toggle' \in {"on", "off"}, cmd = "multi" => toggle' = "on",
           cmd = "phone" => toggle' = "off" /\ arg = saved
    PROVE  Typed'
<1> USE DEF Typed
<1>1. PICK p \in Procs :
          /\ child' = p /\ ui' = "wait"
          /\ proc' \in [Procs -> Process]
          /\ proc'[p] = [cmd |-> cmd, arg |-> arg, pc |-> "start", out |-> NoHandle]
          /\ \A q \in Procs \ {p} : proc'[q] = proc[q]
          /\ UNCHANGED <<stackVars, result, saved>>
  BY ExecTyped
<1>2. TypeOK'
  BY <1>1 DEF TypeOK
<1>3. \A q \in Procs : (/\ proc[q].cmd # "cod" => proc[q].out # MouseClass
                        /\ proc[q].pc = "set" => proc[q].cmd # "cod")'
  BY <1>1, HandlesApart DEF Consistent
<1>4. Consistent'
  BY <1>1, <1>3 DEF Consistent, Cmd, At
<1>5. QED
  BY <1>2, <1>4

LEMMA AppTyped ==
    ASSUME Typed, AppRuns \/ UserActs \/ Close \/ AppDies
    PROVE  Typed'
<1> USE DEF Typed
<1>1. CASE EndOfOutput
  <2>1. child \in Procs
    BY DEF TypeOK
  <2>2. proc' = [proc EXCEPT ![child] = NoProcess]
    BY <1>1 DEF EndOfOutput
  <2>3. result' \in Handles \cup {NoHandle}
    BY <1>1, <2>1 DEF EndOfOutput, TypeOK, Consistent, Process
  <2>4. TypeOK'
    BY <1>1, <2>1, <2>2, <2>3, FreeTyped DEF EndOfOutput, TypeOK
  <2>5. Consistent'
    BY <1>1, <2>1, <2>2, FreeTyped DEF EndOfOutput, TypeOK, Consistent, Cmd, At
  <2>6. QED
    BY <2>4, <2>5
<1>2. CASE Commit
  BY <1>2 DEF Commit, TypeOK, Consistent, Cmd, At
<1>3. CASE Close
  BY <1>3 DEF Close, TypeOK, Consistent, Cmd, At
<1>4. CASE AppDies
  BY <1>4, MishapAssumption DEF AppDies, Mishap, TypeOK, Consistent, Cmd, At, Request
<1>5. CASE Launch
  <2>1. CASE Exec("cod", NoHandle) /\ UNCHANGED <<toggle, mishaps>>
    BY <2>1, ExecKeeps DEF TypeOK, Commands
  <2>2. CASE Mishap /\ UNCHANGED <<stackVars, proc, appVars>>
    BY <2>2, MishapAssumption DEF Mishap, TypeOK, Consistent, Cmd, At, Request
  <2>3. QED
    BY <1>5, <2>1, <2>2 DEF Launch
<1>6. CASE ToggleOn
  <2>1. CASE Exec("multi", NoHandle) /\ UNCHANGED mishaps
    BY <1>6, <2>1, ExecKeeps DEF Commands, ToggleOn
  <2>2. CASE Mishap /\ saved' = NoHandle /\ UNCHANGED <<stackVars, proc, ui, child, result>>
    BY <1>6, <2>2, MishapAssumption DEF Mishap, TypeOK, Consistent, Cmd, At, Request, ToggleOn
  <2>3. QED
    BY <1>6, <2>1, <2>2 DEF ToggleOn
<1>7. CASE ToggleOff
  <2>1. CASE Exec("phone", saved) /\ UNCHANGED mishaps
    <3>1. saved \in Handles \cup {NoHandle} /\ "phone" \in Commands
      BY DEF TypeOK, Commands
    <3>2. QED
      BY <1>7, <2>1, <3>1, ExecKeeps DEF ToggleOff
  <2>2. CASE Mishap /\ UNCHANGED <<stackVars, proc, ui, child, result, saved>>
    BY <1>7, <2>2, MishapAssumption DEF Mishap, TypeOK, Consistent, Cmd, At, Request, ToggleOff
  <2>3. QED
    BY <1>7, <2>1, <2>2 DEF ToggleOff
<1>8. QED
  BY <1>1, <1>2, <1>3, <1>4, <1>5, <1>6, <1>7 DEF AppRuns, UserActs

LEMMA BmouseTyped ==
    ASSUME Typed, NEW p \in Procs,
           Runs(p) \/ Fails(p) \/ GivesUp(p) \/ SetClassRefused(p)
    PROVE  Typed'
<1> USE DEF Typed
<1> USE HandlesApart
<1> DEFINE Keeps == UNCHANGED appVars /\ mishaps' \in mishaps .. MaxMishaps
<1>1. ASSUME NEW pc \in {"start", "set", "done"}, NEW out \in Handles \cup {NoHandle, MouseClass},
             Step(p, pc, out), proc[p].cmd # "cod" => out # MouseClass,
             pc = "set" => proc[p].cmd # "cod", UNCHANGED appVars
      PROVE  /\ proc' \in [Procs -> Process]
             /\ (ui = "wait" => At # "free")'
             /\ (\A q \in Procs : proc[q].cmd # "cod" => proc[q].out # MouseClass)'
             /\ (\A q \in Procs : proc[q].pc = "set" => proc[q].cmd # "cod")'
             /\ (ui = "commit" \/ (ui = "wait" /\ Cmd = "multi") => toggle = "on")'
             /\ (ui = "wait" /\ Cmd = "phone" => toggle = "off" /\ proc[child].arg = saved)'
  <2>1. /\ proc' \in [Procs -> Process] /\ proc'[p].pc # "free"
        /\ proc'[p].cmd # "cod" => proc'[p].out # MouseClass
        /\ proc'[p].pc = "set" => proc'[p].cmd # "cod"
        /\ \A q \in Procs : proc'[q].cmd = proc[q].cmd /\ proc'[q].arg = proc[q].arg
        /\ \A q \in Procs \ {p} : proc'[q] = proc[q]
    BY <1>1, StepTyped
  <2>2. QED
    BY <1>1, <2>1 DEF TypeOK, Consistent, Cmd, At
<1>2. CASE Fails(p)
  BY <1>1, <1>2, MishapTyped DEF Fails, TypeOK, Consistent
<1>3. CASE GivesUp(p)
  <2>1. PICK op \in {"register", "remove"} \cup Classes :
            late' = late \cup {[op |-> op, arg |-> proc[p].arg, nr |-> mishaps']}
    BY <1>3 DEF GivesUp, Wanted, Classes
  <2>2. mishaps' = mishaps + 1 /\ mishaps' \in 1 .. MaxMishaps
    BY <1>3, MishapTyped DEF GivesUp
  <2>3. proc[p].arg \in Handles \cup {NoHandle}
    BY DEF TypeOK, Process
  <2>4. late' \in SUBSET Request /\ \A r \in late' : r.nr <= mishaps'
    BY <1>3, <2>1, <2>2, <2>3, MishapTyped DEF TypeOK, Request, GivesUp
  <2>5. IsFiniteSet(late')
    BY <2>1, FS_AddElement DEF Consistent
  <2>6. /\ Step(p, "done", NoHandle)
        /\ UNCHANGED <<class, ours, others, robbed, appVars>> /\ mishaps' \in 0 .. MaxMishaps
    BY <1>3, MishapTyped DEF GivesUp
  <2>7. QED
    BY <1>1, <2>4, <2>5, <2>6 DEF TypeOK, Consistent
<1>4. CASE SetClassRefused(p)
  <2>1. proc[p].out \in Handles \cup {NoHandle, MouseClass}
    BY DEF TypeOK, Process
  <2>2. proc[p].cmd # "cod" => proc[p].out # MouseClass
    BY DEF Consistent
  <2>3. QED
    BY <1>1, <1>4, <2>1, <2>2, MishapTyped DEF SetClassRefused, TypeOK, Consistent
<1>5. CASE GetClass(p)
  BY <1>1, <1>5 DEF GetClass, TypeOK, Consistent
<1>6. CASE AddRecord(p)
  <2>1. /\ proc[p].cmd = "multi" /\ FirstOf(FreeHandles) \in Handles \ (ours \cup others)
        /\ ours' = ours \cup {FirstOf(FreeHandles)} /\ Step(p, "set", FirstOf(FreeHandles))
        /\ UNCHANGED <<class, others, robbed, late, appVars, mishaps>>
    BY <1>6, NewHandle DEF AddRecord, Register
  <2>2. ours' \in SUBSET Handles /\ ours' \cap others' = {}
    BY <2>1 DEF TypeOK, Consistent
  <2>3. QED
    BY <1>1, <2>1, <2>2 DEF TypeOK, Consistent
<1>7. CASE RemoveRecord(p)
  <2>1. proc[p].cmd = "phone" /\ \E pc \in {"set", "done"} : Step(p, pc, NoHandle)
    BY <1>7 DEF RemoveRecord
  <2>2. robbed' \in BOOLEAN
    BY <1>7 DEF RemoveRecord, Remove, TypeOK
  <2>3. QED
    BY <1>1, <1>7, <2>1, <2>2 DEF RemoveRecord, Remove, TypeOK, Consistent
<1>8. CASE SetClass(p)
  <2>1. proc[p].out \in Handles \cup {NoHandle, MouseClass}
    BY DEF TypeOK, Process
  <2>2. /\ class' \in Classes /\ Step(p, "done", proc[p].out)
        /\ UNCHANGED <<ours, others, robbed, late, appVars, mishaps>>
    BY <1>8 DEF SetClass, Wanted, Classes
  <2>3. proc[p].cmd # "cod" => proc[p].out # MouseClass
    BY DEF Consistent
  <2>4. QED
    BY <1>1, <2>1, <2>2, <2>3 DEF TypeOK, Consistent
<1>9. CASE Reaped(p)
  <2>1. ui = "wait" => child # p
    BY <1>9 DEF Reaped
  <2>2. /\ proc' \in [Procs -> Process] /\ proc'[p].cmd = "cod" /\ proc'[p].pc = "free"
        /\ \A q \in Procs \ {p} : proc'[q] = proc[q]
        /\ UNCHANGED <<stackVars, appVars, mishaps>>
    BY <1>9, FreeTyped DEF Reaped
  <2>3. QED
    BY <2>1, <2>2 DEF TypeOK, Consistent, Cmd, At
<1>10. QED
  BY <1>2, <1>3, <1>4, <1>5, <1>6, <1>7, <1>8, <1>9 DEF Runs

LEMMA OthersTyped ==
    ASSUME Typed, OtherRegisters \/ OtherUnregisters \/ (\E r \in late : ServedLate(r))
    PROVE  Typed'
<1> USE DEF Typed
<1>1. CASE OtherRegisters
  BY <1>1, NewHandle DEF OtherRegisters, TypeOK, Consistent, Cmd, At
<1>2. CASE OtherUnregisters
  BY <1>2 DEF OtherUnregisters, TypeOK, Consistent, Cmd, At
<1>3. ASSUME NEW r \in late, ServedLate(r)
      PROVE  Typed'
  <2>1. late' \in SUBSET late /\ UNCHANGED <<proc, appVars, mishaps>>
    BY <1>3 DEF ServedLate
  <2>2. IsFiniteSet(late')
    BY <2>1, FS_Subset DEF Consistent
  <2>3. class' \in Classes /\ robbed' \in BOOLEAN
    BY <1>3 DEF ServedLate, Register, Remove, TypeOK
  <2>4. ours' \in SUBSET Handles /\ others' \in SUBSET Handles /\ ours' \cap others' = {}
    BY <1>3, NewHandle DEF ServedLate, Register, Remove, TypeOK, Consistent
  <2>5. QED
    BY <2>1, <2>2, <2>3, <2>4 DEF TypeOK, Consistent, Cmd, At
<1>4. QED
  BY <1>1, <1>2, <1>3

LEMMA TypedInv == ASSUME Typed, [Next]_vars PROVE Typed'
<1>1. CASE Next
  BY <1>1, AppTyped, BmouseTyped, OthersTyped DEF Next
<1>2. CASE UNCHANGED vars
  BY <1>2 DEF vars, Typed, TypeOK, Consistent, Cmd, At
<1>3. QED
  BY <1>1, <1>2

-----------------------------------------------------------------------------
(* Without a mishap: one bmouse at a time, and nothing comes late          *)

LEMMA OrderlyApp ==
    ASSUME Typed, Orderly, mishaps' = 0, AppRuns \/ UserActs \/ Close \/ AppDies
    PROVE  Orderly'
<1>1. mishaps \in Nat
  BY MishapAssumption DEF Typed, TypeOK
<1>2. ~Mishap
  BY <1>1 DEF Mishap
<1>3. mishaps = 0
  BY <1>1, <1>2 DEF AppRuns, EndOfOutput, Commit, UserActs, Launch, ToggleOn, ToggleOff, Close, AppDies
<1>4. late = {} /\ ~robbed /\ Phase /\ \A p \in Procs : ~Waits(p) => proc[p].pc = "free"
  BY <1>3 DEF Orderly
<1> USE DEF Settled, AsPhone, AsMouse
<1> SUFFICES (late = {} /\ ~robbed /\ Phase /\ \A p \in Procs : ~Waits(p) => proc[p].pc = "free")'
  BY DEF Orderly
<1>5. ASSUME NEW cmd \in Commands, NEW arg \in Handles \cup {NoHandle}, Exec(cmd, arg),
             ui # "wait",
             cmd = "cod" => Settled, cmd = "multi" => AsPhone, cmd = "phone" => AsMouse(saved)
      PROVE  (late = {} /\ ~robbed /\ Phase /\ \A p \in Procs : ~Waits(p) => proc[p].pc = "free")'
  <2>1. PICK p \in Procs :
            /\ child' = p /\ ui' = "wait"
            /\ proc'[p] = [cmd |-> cmd, arg |-> arg, pc |-> "start", out |-> NoHandle]
            /\ \A q \in Procs \ {p} : proc'[q] = proc[q]
            /\ UNCHANGED <<stackVars, result, saved>>
    BY <1>5, ExecTyped DEF Typed
  <2>2. Phase'
    BY <1>5, <2>1 DEF Phase, Cmd, At, Out
  <2>3. QED
    BY <1>4, <1>5, <2>1, <2>2 DEF Waits
<1>6. CASE EndOfOutput
  <2>1. child \in Procs
    BY DEF Typed, TypeOK
  <2>2. proc'[child].pc = "free" /\ \A q \in Procs \ {child} : proc'[q] = proc[q]
    BY <1>6, <2>1, FreeTyped DEF EndOfOutput, Typed
  <2>3. Cmd \in {"cod", "multi", "phone"}
    BY <2>1 DEF Cmd, Typed, TypeOK, Process, Commands
  <2>4. Phase'
    BY <1>4, <1>6, <2>3 DEF EndOfOutput, Phase, Cmd, At, Out, Typed, Consistent, TypeOK, Classes
  <2>5. QED
    BY <1>4, <1>6, <2>2, <2>4 DEF EndOfOutput, Waits
<1>7. CASE Commit
  BY <1>4, <1>7 DEF Commit, Phase, Waits, Typed, Consistent
<1>8. CASE Close
  BY <1>4, <1>8 DEF Close, Phase, Waits
<1>9. CASE Launch
  BY <1>2, <1>4, <1>5, <1>9 DEF Launch, Phase, Commands
<1>10. CASE ToggleOn
  BY <1>2, <1>4, <1>5, <1>10 DEF ToggleOn, Phase, Commands
<1>11. CASE ToggleOff
  <2>1. saved \in Handles \cup {NoHandle} /\ "phone" \in Commands
    BY DEF Typed, TypeOK, Commands
  <2>2. QED
    BY <1>2, <1>4, <1>5, <1>11, <2>1 DEF ToggleOff, Phase
<1>12. QED
  BY <1>2, <1>6, <1>7, <1>8, <1>9, <1>10, <1>11 DEF AppRuns, UserActs, AppDies

LEMMA OrderlyBmouse ==
    ASSUME Typed, Orderly, mishaps' = 0, NEW p \in Procs,
           Runs(p) \/ Fails(p) \/ GivesUp(p) \/ SetClassRefused(p)
    PROVE  Orderly'
<1>1. mishaps \in Nat
  BY MishapAssumption DEF Typed, TypeOK
<1>2. ~Mishap
  BY <1>1 DEF Mishap
<1>3. Runs(p) /\ mishaps = 0
  BY <1>1, <1>2 DEF Runs, GetClass, AddRecord, RemoveRecord, SetClass, Reaped,
                    Fails, GivesUp, SetClassRefused
<1>4. late = {} /\ ~robbed /\ Phase /\ \A q \in Procs : ~Waits(q) => proc[q].pc = "free"
  BY <1>3 DEF Orderly
<1>5. ui = "wait" /\ p = child /\ ~Reaped(p)
  BY <1>3, <1>4 DEF Runs, Waits, GetClass, AddRecord, RemoveRecord, SetClass, Reaped
<1>6. UNCHANGED <<late, appVars>>
  BY <1>3, <1>5 DEF Runs, GetClass, AddRecord, RemoveRecord, SetClass
<1> USE HandlesApart DEF Settled, AsPhone, AsMouse
<1> SUFFICES (~robbed /\ Phase)' /\ \A q \in Procs \ {p} : proc'[q] = proc[q]
  BY <1>4, <1>5, <1>6 DEF Orderly, Waits
<1> USE StepTyped DEF Typed
<1>7. CASE GetClass(p)
  <2>1. Step(p, "done", IF class = "mouse" THEN MouseClass ELSE NoHandle)
    BY <1>7 DEF GetClass
  <2>2. proc'[p].pc = "done" /\ proc'[p].cmd = "cod"
        /\ (proc'[p].out = MouseClass <=> class = "mouse")
        /\ \A q \in Procs \ {p} : proc'[q] = proc[q]
    BY <1>7, <2>1 DEF GetClass
  <2>3. QED
    BY <1>4, <1>5, <1>7, <2>2 DEF GetClass, Phase, Cmd, At, Out
<1>8. CASE AddRecord(p)
  <2> DEFINE h == FirstOf(FreeHandles)
  <2>1. h \in Handles /\ Step(p, "set", h)
    BY <1>8, NewHandle DEF AddRecord, Register
  <2>2. proc'[p].pc = "set" /\ proc'[p].cmd = "multi" /\ proc'[p].out = h
        /\ \A q \in Procs \ {p} : proc'[q] = proc[q]
    BY <1>8, <2>1 DEF AddRecord
  <2>3. class = "phone" /\ ours = {} /\ ours' = ours \cup {h} /\ UNCHANGED <<class, robbed, ui>>
    BY <1>4, <1>5, <1>8 DEF AddRecord, Register, Phase, Cmd, At
  <2>4. QED
    BY <1>4, <1>5, <1>6, <2>2, <2>3 DEF Phase, Cmd, At, Out
<1>9. CASE RemoveRecord(p)
  <2>1. class = "mouse" /\ ours = {saved} /\ proc[p].arg = saved /\ saved \notin others
    BY <1>4, <1>5, <1>9 DEF RemoveRecord, Phase, Cmd, At, Consistent
  <2>2. ours' = {} /\ UNCHANGED <<class, robbed>> /\ Step(p, "set", NoHandle)
    BY <1>4, <1>9, <2>1 DEF RemoveRecord, Remove, TypeOK
  <2>3. proc'[p].pc = "set" /\ proc'[p].cmd = "phone"
        /\ \A q \in Procs \ {p} : proc'[q] = proc[q]
    BY <1>9, <2>2 DEF RemoveRecord
  <2>4. /\ class' = "mouse" /\ ui' = "wait" /\ child' = p
        /\ (Cmd = "phone" /\ At = "set")'
    BY <1>5, <1>6, <2>1, <2>2, <2>3 DEF Cmd, At
  <2>5. Phase'
    BY <2>2, <2>4 DEF Phase
  <2>6. QED
    BY <1>4, <2>2, <2>3, <2>5
<1>10. CASE SetClass(p)
  <2>1. proc[p].out \in Handles \cup {NoHandle, MouseClass} /\ Step(p, "done", proc[p].out)
    BY <1>10 DEF SetClass, TypeOK, Process
  <2>2. proc'[p].pc = "done" /\ proc'[p].cmd = proc[p].cmd /\ proc'[p].out = proc[p].out
        /\ \A q \in Procs \ {p} : proc'[q] = proc[q]
    BY <2>1
  <2>3. /\ proc[p].cmd \in {"multi", "phone"} /\ UNCHANGED <<ours, robbed>>
        /\ class' = IF proc[p].cmd = "multi" THEN "mouse" ELSE "phone"
        /\ proc[p].cmd # "cod" => proc[p].out # MouseClass
    BY <1>4, <1>5, <1>10 DEF SetClass, Wanted, TypeOK, Process, Commands, Phase, Cmd, At, Consistent
  <2>4. CASE proc[p].cmd = "multi"
    <3>1. ours = {proc[p].out} /\ proc'[child].cmd = "multi" /\ proc'[child].pc = "done"
          /\ proc'[child].out = proc[p].out
      BY <1>4, <1>5, <1>10, <2>2, <2>4 DEF SetClass, Phase, Cmd, At, Out
    <3>2. QED
      BY <1>4, <1>5, <1>6, <2>2, <2>3, <2>4, <3>1 DEF Phase, Cmd, At, Out
  <2>5. CASE proc[p].cmd = "phone"
    <3>1. ours = {} /\ proc'[child].cmd = "phone" /\ proc'[child].pc = "done"
      BY <1>4, <1>5, <1>10, <2>2, <2>5 DEF SetClass, Phase, Cmd, At, Out
    <3>2. QED
      BY <1>4, <1>5, <1>6, <2>2, <2>3, <2>5, <3>1 DEF Phase, Cmd, At, Out
  <2>6. QED
    BY <2>3, <2>4, <2>5
<1>11. QED
  BY <1>3, <1>5, <1>7, <1>8, <1>9, <1>10 DEF Runs

LEMMA OrderlyInv == ASSUME Typed, Orderly, [Next]_vars PROVE Orderly'
<1> SUFFICES ASSUME mishaps' = 0 PROVE Orderly'
  BY DEF Orderly
<1>1. CASE OtherRegisters \/ OtherUnregisters \/ UNCHANGED vars
  BY <1>1 DEF OtherRegisters, OtherUnregisters, vars, Orderly, Phase, Settled, AsPhone, AsMouse,
              Waits, Cmd, At, Out
<1>2. CASE \E r \in late : ServedLate(r)
  BY <1>2 DEF Orderly, ServedLate
<1>3. QED
  BY <1>1, <1>2, OrderlyApp, OrderlyBmouse DEF Next

-----------------------------------------------------------------------------
(* With mishaps: every debt has been paid for                              *)

LEMMA Finite ==
    ASSUME Typed
    PROVE  /\ IsFiniteSet(ours) /\ IsFiniteSet(Starting) /\ IsFiniteSet(Astray)
           /\ IsFiniteSet(LateRecords) /\ IsFiniteSet(LatePhones)
           /\ Cardinality(ours) \in Nat /\ Cardinality(Starting) \in Nat
           /\ Cardinality(Astray) \in Nat /\ Cardinality(LateRecords) \in Nat
           /\ Cardinality(LatePhones) \in Nat
           /\ Debt \in Nat /\ mishaps \in Nat
<1>1. IsFiniteSet(Handles) /\ IsFiniteSet(Procs) /\ IsFiniteSet(late)
  BY FS_Interval, RecordAssumption, ProcAssumption DEF Handles, Procs, Typed, Consistent
<1>2. /\ ours \in SUBSET Handles /\ Starting \in SUBSET Procs /\ Astray \in SUBSET Procs
      /\ LateRecords \in SUBSET late /\ LatePhones \in SUBSET late
  BY DEF Typed, TypeOK, Starting, Astray, LateRecords, LatePhones
<1>3. /\ IsFiniteSet(ours) /\ IsFiniteSet(Starting) /\ IsFiniteSet(Astray)
      /\ IsFiniteSet(LateRecords) /\ IsFiniteSet(LatePhones)
  BY <1>1, <1>2, FS_Subset
<1>4. mishaps \in Nat
  BY MishapAssumption DEF Typed, TypeOK
<1>5. QED
  BY <1>3, <1>4, FS_CardinalityType DEF Debt

LEMMA FiniteNext ==
    ASSUME Typed'
    PROVE  /\ Debt' \in Nat /\ mishaps' \in Nat
           /\ (Cardinality(ours) \in Nat /\ Cardinality(Starting) \in Nat
               /\ Cardinality(Astray) \in Nat /\ Cardinality(LateRecords) \in Nat
               /\ Cardinality(LatePhones) \in Nat)'
<1>1. IsFiniteSet(Handles) /\ IsFiniteSet(Procs)
  BY FS_Interval, RecordAssumption, ProcAssumption DEF Handles, Procs
<1>2. IsFiniteSet(late')
  BY DEF Typed, Consistent
<1>3. (/\ ours \in SUBSET Handles /\ Starting \in SUBSET Procs /\ Astray \in SUBSET Procs
       /\ LateRecords \in SUBSET late /\ LatePhones \in SUBSET late)'
  BY DEF Typed, TypeOK, Starting, Astray, LateRecords, LatePhones
<1>4. /\ IsFiniteSet(ours') /\ IsFiniteSet(Starting') /\ IsFiniteSet(Astray')
      /\ IsFiniteSet(LateRecords') /\ IsFiniteSet(LatePhones')
  BY <1>1, <1>2, <1>3, FS_Subset
<1>5. mishaps' \in Nat
  BY MishapAssumption DEF Typed, TypeOK
<1>6. QED
  BY <1>4, <1>5, FS_CardinalityType DEF Debt

(* A step that pays for what it adds, and either leaves the record allowed *)
(* or pays for that, too.                                                  *)
LEMMA Pays ==
    \A d, e, m, n \in Nat :
        /\ d <= m + 1 /\ e + 1 <= d + (n - m) => e <= n
        /\ d <= m + 1 /\ e <= d + (n - m) => e <= n + 1
        /\ d <= m /\ e <= d + (n - m) => e <= n
        /\ e <= n => e <= n + 1
  OBVIOUS

LEMMA Kept ==
    ASSUME Typed, Typed', Accounted,
           Debt' <= Debt + (mishaps' - mishaps), Allowed => Allowed'
    PROVE  Accounted'
<1>1. Debt \in Nat /\ Debt' \in Nat /\ mishaps \in Nat /\ mishaps' \in Nat
  BY Finite, FiniteNext
<1>2. Debt <= mishaps + 1 /\ (~Allowed => Debt <= mishaps)
  BY DEF Accounted
<1>3. Debt' <= mishaps' + 1 /\ (~Allowed' => Debt' <= mishaps')
  BY <1>1, <1>2, Pays
<1>4. QED
  BY <1>3 DEF Accounted

LEMMA Paid ==
    ASSUME Typed, Typed', Accounted,
           Debt' + 1 <= Debt + (mishaps' - mishaps)
    PROVE  Accounted'
<1>1. Debt \in Nat /\ Debt' \in Nat /\ mishaps \in Nat /\ mishaps' \in Nat
  BY Finite, FiniteNext
<1>2. Debt <= mishaps + 1
  BY DEF Accounted
<1>3. Debt' <= mishaps'
  BY <1>1, <1>2, Pays
<1>4. Debt' <= mishaps' + 1
  BY <1>1, <1>3, Pays
<1>5. QED
  BY <1>3, <1>4 DEF Accounted

(* A set with at most one new element, with none, and with one less.       *)
LEMMA Counts ==
    ASSUME NEW S, IsFiniteSet(S), NEW x, NEW T
    PROVE  /\ T \in SUBSET (S \cup {x}) => Cardinality(T) <= Cardinality(S) + 1
           /\ T \in SUBSET S => Cardinality(T) <= Cardinality(S) + 0
           /\ x \in S /\ T \in SUBSET (S \ {x}) => Cardinality(T) <= Cardinality(S) + (0 - 1)
<1>1. Cardinality(S) \in Nat
  BY FS_CardinalityType
<1>2. ASSUME T \in SUBSET (S \cup {x}) PROVE Cardinality(T) <= Cardinality(S) + 1
  <2>1. IsFiniteSet(S \cup {x})
        /\ Cardinality(S \cup {x}) = IF x \in S THEN Cardinality(S) ELSE Cardinality(S) + 1
    BY FS_AddElement
  <2>2. Cardinality(T) <= Cardinality(S \cup {x}) /\ Cardinality(T) \in Nat
    BY <1>2, <2>1, FS_Subset, FS_CardinalityType
  <2>3. QED
    BY <1>1, <2>1, <2>2
<1>3. ASSUME T \in SUBSET S PROVE Cardinality(T) <= Cardinality(S) + 0
  <2>1. Cardinality(T) <= Cardinality(S)
    BY <1>3, FS_Subset
  <2>2. QED
    BY <1>1, <2>1
<1>4. ASSUME x \in S, T \in SUBSET (S \ {x}) PROVE Cardinality(T) <= Cardinality(S) + (0 - 1)
  <2>1. IsFiniteSet(S \ {x}) /\ Cardinality(S \ {x}) = Cardinality(S) - 1
    BY <1>4, FS_RemoveElement
  <2>2. Cardinality(T) <= Cardinality(S \ {x}) /\ Cardinality(T) \in Nat
    BY <1>4, <2>1, FS_Subset, FS_CardinalityType
  <2>3. QED
    BY <1>1, <2>1, <2>2
<1>5. QED
  BY <1>2, <1>3, <1>4

(* What a step adds to the debts or takes from them, in numbers.           *)
LEMMA Bill ==
    ASSUME Typed, Typed', NEW a \in Int, NEW b \in Int, NEW c \in Int, NEW d \in Int, NEW e \in Int,
           Cardinality(ours') <= Cardinality(ours) + a,
           Cardinality(Starting') <= Cardinality(Starting) + b,
           Cardinality(Astray') <= Cardinality(Astray) + c,
           Cardinality(LateRecords') <= Cardinality(LateRecords) + d,
           Cardinality(LatePhones') <= Cardinality(LatePhones) + e
    PROVE  Debt' <= Debt + (a + b + c + d + e)
<1>1. \A o, s, t, r, q, o1, s1, t1, r1, q1 \in Nat :
          /\ o1 <= o + a /\ s1 <= s + b /\ t1 <= t + c /\ r1 <= r + d /\ q1 <= q + e
          => o1 + s1 + t1 + r1 + q1 <= o + s + t + r + q + (a + b + c + d + e)
  OBVIOUS
<1>2. QED
  BY <1>1, Finite, FiniteNext DEF Debt

(* bmouse goes on: a start is over, and so is, in the end, a straying.     *)
LEMMA StepCounts ==
    ASSUME Typed, NEW p \in Procs, NEW pc \in {"set", "done"},
           NEW out \in Handles \cup {NoHandle, MouseClass}, Step(p, pc, out),
           pc = "set" => proc[p].pc = "start", UNCHANGED appVars
    PROVE  /\ Starting' = Starting \ {p}
           /\ Astray' = IF pc = "done" THEN Astray \ {p} ELSE Astray
<1>1. /\ proc'[p].pc = pc /\ proc'[p].cmd = proc[p].cmd
      /\ \A q \in Procs \ {p} : proc'[q] = proc[q]
  BY StepTyped DEF Typed
<1>2. QED
  BY <1>1 DEF Starting, Astray, Waits

(* Nothing is added to the debts.                                          *)
LEMMA NotMore ==
    ASSUME Typed, Typed', ours' \in SUBSET ours, Starting' \in SUBSET Starting,
           Astray' \in SUBSET Astray,
           LateRecords' \in SUBSET LateRecords, LatePhones' \in SUBSET LatePhones
    PROVE  Debt' <= Debt
<1>1. Debt' <= Debt + (0 + 0 + 0 + 0 + 0)
  <2>1. /\ Cardinality(ours') <= Cardinality(ours) + 0
        /\ Cardinality(Starting') <= Cardinality(Starting) + 0
        /\ Cardinality(Astray') <= Cardinality(Astray) + 0
        /\ Cardinality(LateRecords') <= Cardinality(LateRecords) + 0
        /\ Cardinality(LatePhones') <= Cardinality(LatePhones) + 0
    BY Finite, Counts
  <2>2. QED
    BY <2>1, Bill
<1>2. \A d, e \in Nat : e <= d + (0 + 0 + 0 + 0 + 0) => e <= d
  OBVIOUS
<1>3. QED
  BY <1>1, <1>2, Finite, FiniteNext

LEMMA LateKept ==
    ASSUME late' \in SUBSET late
    PROVE  LateRecords' \in SUBSET LateRecords /\ LatePhones' \in SUBSET LatePhones
  BY DEF LateRecords, LatePhones

(* Then nothing is owed for a step without a mishap, and a mishap pays for *)
(* what else the step may do.                                              *)
LEMMA SameDebt ==
    ASSUME Typed, Typed', Accounted, Debt' <= Debt,
           \/ mishaps' = mishaps /\ (Allowed => Allowed')
           \/ Mishap
    PROVE  Accounted'
<1>1. Debt \in Nat /\ Debt' \in Nat /\ mishaps \in Nat
  BY Finite, FiniteNext
<1>2. \A d, e, m, n \in Nat :
          e <= d => e <= d + (m - m) /\ (n = m + 1 => e + 1 <= d + (n - m))
  OBVIOUS
<1>3. CASE mishaps' = mishaps /\ (Allowed => Allowed')
  <2>1. Debt' <= Debt + (mishaps' - mishaps)
    BY <1>1, <1>2, <1>3
  <2>2. QED
    BY <1>3, <2>1, Kept
<1>4. CASE Mishap
  <2>1. mishaps' = mishaps + 1 /\ mishaps' \in Nat
    BY <1>4, FiniteNext DEF Mishap
  <2>2. Debt' + 1 <= Debt + (mishaps' - mishaps)
    BY <1>1, <1>2, <2>1
  <2>3. QED
    BY <2>2, Paid
<1>5. QED
  BY <1>3, <1>4

(* A debt is gone; the record in use may be gone with it.                  *)
LEMMA OneLess ==
    ASSUME Typed, Typed', Accounted, mishaps' = mishaps, Debt' <= Debt + (0 - 1)
    PROVE  Accounted'
<1>1. \A d, e, m \in Nat : e <= d + (0 - 1) => e + 1 <= d + (m - m)
  OBVIOUS
<1>2. Debt' + 1 <= Debt + (mishaps' - mishaps)
  BY <1>1, Finite, FiniteNext
<1>3. QED
  BY <1>2, Paid

(* What is in use stays in use as long as no record goes and the class     *)
(* stays or becomes that of the mouse.                                     *)
LEMMA AllowedKept ==
    ASSUME ours \in SUBSET ours', class' = class \/ class' = "mouse", UNCHANGED appVars,
           ui = "wait" => proc'[child] = proc[child]
    PROVE  Allowed => Allowed'
  BY DEF Allowed, InUse, Cmd, At, Out

LEMMA AccountedApp ==
    ASSUME Typed, Typed', Accounted, AppRuns \/ UserActs \/ Close \/ AppDies
    PROVE  Accounted'
<1>1. UNCHANGED <<ours, late, class>>
  BY DEF AppRuns, EndOfOutput, Commit, UserActs, Launch, ToggleOn, ToggleOff, Exec, Close, AppDies
<1>2. LateRecords' \in SUBSET LateRecords /\ LatePhones' \in SUBSET LatePhones /\ ours' = ours
  BY <1>1, LateKept
<1>3. mishaps \in Nat /\ mishaps' \in Nat /\ Debt \in Nat /\ Debt' \in Nat
  BY Finite, FiniteNext
<1>4. ASSUME Starting' = Starting, Astray' = Astray
      PROVE  Debt' <= Debt
  BY <1>2, <1>4, NotMore
<1>5. ASSUME NEW cmd \in Commands, NEW arg \in Handles \cup {NoHandle}, Exec(cmd, arg), ui # "wait"
      PROVE  /\ Astray' = Astray /\ ui' = "wait" /\ saved' = saved
             /\ Cmd' = cmd /\ At' = "start"
             /\ cmd # "multi" => Starting' = Starting
             /\ \E p \in Procs : Starting' \in SUBSET (Starting \cup {p})
  <2>1. PICK p \in Procs :
            /\ proc[p].pc = "free" /\ child' = p /\ ui' = "wait"
            /\ proc'[p] = [cmd |-> cmd, arg |-> arg, pc |-> "start", out |-> NoHandle]
            /\ \A q \in Procs \ {p} : proc'[q] = proc[q]
            /\ UNCHANGED <<stackVars, result, saved>>
    BY <1>5, ExecTyped DEF Typed
  <2>2. QED
    BY <1>5, <2>1 DEF Astray, Starting, Waits, Cmd, At
<1>6. CASE EndOfOutput
  <2>1. child \in Procs /\ At = "done" /\ ui = "wait" /\ ui' \in {"commit", "open"}
    BY <1>6 DEF Typed, TypeOK, EndOfOutput, At
  <2>2. proc'[child].pc = "free" /\ \A q \in Procs \ {child} : proc'[q] = proc[q]
    BY <1>6, <2>1, FreeTyped DEF EndOfOutput, Typed
  <2>3. Starting' = Starting /\ Astray' = Astray
    BY <2>1, <2>2 DEF Starting, Astray, Waits, At
  <2>4. Allowed => Allowed'
    BY <1>1, <1>6, <2>1 DEF EndOfOutput, Allowed, InUse, Cmd, At, Out, Typed, Consistent
  <2>5. QED
    BY <1>4, <1>6, <2>3, <2>4, SameDebt DEF EndOfOutput
<1>7. CASE Commit \/ Close
  <2>1. Starting' = Starting /\ Astray' = Astray
    BY <1>7 DEF Commit, Close, Starting, Astray, Waits
  <2>2. Allowed => Allowed'
    BY <1>1, <1>7 DEF Commit, Close, Allowed, InUse, Typed, Consistent
  <2>3. QED
    BY <1>4, <1>7, <2>1, <2>2, SameDebt DEF Commit, Close
<1>8. CASE AppDies
  <2>1. mishaps' = mishaps + 1 /\ UNCHANGED <<proc, child, saved>> /\ ui' = "closed"
    BY <1>8 DEF AppDies, Mishap
  <2>2. Starting' = Starting
    BY <2>1 DEF Starting
  <2>3. CASE ui = "wait" /\ Cmd = "phone" /\ At \in {"start", "set"}
    <3>1. Allowed => Allowed'
      BY <1>1, <2>1, <2>3 DEF Allowed, InUse
    <3>2. Astray' \in SUBSET (Astray \cup {child})
      BY <2>1 DEF Astray, Waits
    <3>3. /\ Cardinality(ours') <= Cardinality(ours) + 0
          /\ Cardinality(Starting') <= Cardinality(Starting) + 0
          /\ Cardinality(Astray') <= Cardinality(Astray) + 1
          /\ Cardinality(LateRecords') <= Cardinality(LateRecords) + 0
          /\ Cardinality(LatePhones') <= Cardinality(LatePhones) + 0
      BY <1>2, <2>2, <3>2, Finite, Counts
    <3>4. Debt' <= Debt + (0 + 0 + 1 + 0 + 0)
      BY <3>3, Bill
    <3>5. Debt' <= Debt + (mishaps' - mishaps)
      BY <1>3, <2>1, <3>4
    <3>6. QED
      BY <3>1, <3>5, Kept
  <2>4. CASE ~(ui = "wait" /\ Cmd = "phone" /\ At \in {"start", "set"})
    <3>1. Astray' = Astray
      BY <1>8, <2>1, <2>4 DEF AppDies, Astray, Waits, Cmd, At
    <3>2. QED
      BY <1>4, <1>8, <2>2, <3>1, SameDebt DEF AppDies
  <2>5. QED
    BY <2>3, <2>4
<1>9. CASE Launch
  <2>1. CASE Exec("cod", NoHandle) /\ UNCHANGED <<toggle, mishaps>>
    <3>1. /\ Astray' = Astray /\ Starting' = Starting /\ ui' = "wait" /\ saved' = saved
          /\ Cmd' = "cod" /\ At' = "start" /\ ui = "closed"
      BY <1>5, <1>9, <2>1 DEF Commands, Launch
    <3>2. Allowed => Allowed'
      BY <1>1, <3>1 DEF Allowed, InUse
    <3>3. QED
      BY <1>4, <2>1, <3>1, <3>2, SameDebt
  <2>2. CASE Mishap /\ UNCHANGED <<stackVars, proc, appVars>>
    <3>1. Starting' = Starting /\ Astray' = Astray
      BY <2>2 DEF Starting, Astray, Waits
    <3>2. QED
      BY <1>4, <2>2, <3>1, SameDebt
  <2>3. QED
    BY <1>9, <2>1, <2>2 DEF Launch
<1>10. CASE ToggleOn
  <2>1. CASE Exec("multi", NoHandle) /\ UNCHANGED mishaps
    <3>1. /\ Astray' = Astray /\ ui' = "wait" /\ Cmd' = "multi" /\ At' = "start"
          /\ ui = "open" /\ toggle = "off"
          /\ \E p \in Procs : Starting' \in SUBSET (Starting \cup {p})
      BY <1>5, <1>10, <2>1 DEF Commands, ToggleOn
    <3>2. /\ Cardinality(ours') <= Cardinality(ours) + 0
          /\ Cardinality(Starting') <= Cardinality(Starting) + 1
          /\ Cardinality(Astray') <= Cardinality(Astray) + 0
          /\ Cardinality(LateRecords') <= Cardinality(LateRecords) + 0
          /\ Cardinality(LatePhones') <= Cardinality(LatePhones) + 0
      BY <1>2, <3>1, Finite, Counts
    <3>3. Debt' <= Debt + (0 + 1 + 0 + 0 + 0)
      BY <3>2, Bill
    <3>4. Debt <= mishaps
      BY <3>1 DEF Accounted, Allowed
    <3>5. Debt' <= mishaps' + 1 /\ Allowed'
      BY <1>3, <2>1, <3>1, <3>3, <3>4 DEF Allowed
    <3>6. QED
      BY <3>5 DEF Accounted
  <2>2. CASE Mishap /\ saved' = NoHandle /\ UNCHANGED <<stackVars, proc, ui, child, result>>
    <3>1. Starting' = Starting /\ Astray' = Astray
      BY <2>2 DEF Starting, Astray, Waits
    <3>2. QED
      BY <1>4, <2>2, <3>1, SameDebt
  <2>3. QED
    BY <1>10, <2>1, <2>2 DEF ToggleOn
<1>11. CASE ToggleOff
  <2>1. CASE Exec("phone", saved) /\ UNCHANGED mishaps
    <3>1. saved \in Handles \cup {NoHandle} /\ "phone" \in Commands
      BY DEF Typed, TypeOK, Commands
    <3>2. /\ Astray' = Astray /\ Starting' = Starting /\ ui' = "wait" /\ saved' = saved
          /\ Cmd' = "phone" /\ At' = "start" /\ ui = "open"
      BY <1>5, <1>11, <2>1, <3>1 DEF ToggleOff
    <3>3. Allowed => Allowed'
      BY <1>1, <3>2 DEF Allowed, InUse
    <3>4. QED
      BY <1>4, <2>1, <3>2, <3>3, SameDebt
  <2>2. CASE Mishap /\ UNCHANGED <<stackVars, proc, ui, child, result, saved>>
    <3>1. Starting' = Starting /\ Astray' = Astray
      BY <2>2 DEF Starting, Astray, Waits
    <3>2. QED
      BY <1>4, <2>2, <3>1, SameDebt
  <2>3. QED
    BY <1>11, <2>1, <2>2 DEF ToggleOff
<1>12. QED
  BY <1>6, <1>7, <1>8, <1>9, <1>10, <1>11 DEF AppRuns, UserActs

LEMMA AccountedBmouse ==
    ASSUME Typed, Typed', Accounted, NEW p \in Procs,
           Runs(p) \/ Fails(p) \/ GivesUp(p) \/ SetClassRefused(p)
    PROVE  Accounted'
<1>1. UNCHANGED appVars
  BY DEF Runs, GetClass, AddRecord, RemoveRecord, SetClass, Reaped, Fails, GivesUp, SetClassRefused
<1>2. NoHandle \in Handles \cup {NoHandle, MouseClass}
      /\ proc[p].out \in Handles \cup {NoHandle, MouseClass}
      /\ proc[p].arg \in Handles \cup {NoHandle}
      /\ proc[p].cmd \in Commands
  BY DEF Typed, TypeOK, Process
<1>3. ASSUME NEW pc \in {"set", "done"}, NEW out \in Handles \cup {NoHandle, MouseClass},
             Step(p, pc, out), pc = "set" => proc[p].pc = "start"
      PROVE  /\ Starting' = Starting \ {p}
             /\ Astray' = IF pc = "done" THEN Astray \ {p} ELSE Astray
             /\ proc'[p].pc = pc /\ proc'[p].out = out /\ proc'[p].cmd = proc[p].cmd
             /\ \A q \in Procs \ {p} : proc'[q] = proc[q]
  BY <1>1, <1>3, StepCounts, StepTyped DEF Typed
<1>4. child \in Procs
  BY DEF Typed, TypeOK
<1>5. CASE Fails(p) \/ SetClassRefused(p)
  <2>1. PICK out \in Handles \cup {NoHandle, MouseClass} : Step(p, "done", out)
    BY <1>2, <1>5 DEF Fails, SetClassRefused
  <2>2. Starting' \in SUBSET Starting /\ Astray' \in SUBSET Astray
    BY <1>3, <2>1
  <2>3. Mishap /\ ours' = ours /\ late' = late
    BY <1>5 DEF Fails, SetClassRefused
  <2>4. Debt' <= Debt
    BY <2>2, <2>3, LateKept, NotMore
  <2>5. QED
    BY <2>3, <2>4, SameDebt
<1>6. CASE GetClass(p)
  <2> DEFINE out == IF class = "mouse" THEN MouseClass ELSE NoHandle
  <2>1. Step(p, "done", out) /\ out \in Handles \cup {NoHandle, MouseClass}
    BY <1>6 DEF GetClass
  <2>2. /\ Starting' \in SUBSET Starting /\ Astray' \in SUBSET Astray
        /\ proc'[p].pc = "done" /\ proc'[p].out = out /\ proc'[p].cmd = "cod"
        /\ \A q \in Procs \ {p} : proc'[q] = proc[q]
    BY <1>3, <1>6, <2>1 DEF GetClass
  <2>3. mishaps' = mishaps /\ ours' = ours /\ late' = late /\ class' = class
    BY <1>6 DEF GetClass
  <2>4. Debt' <= Debt
    BY <2>2, <2>3, LateKept, NotMore
  <2>5. Allowed => Allowed'
    <3>1. CASE Waits(p)
      BY <1>1, <1>6, <2>2, <2>3, <3>1 DEF GetClass, Waits, Allowed, InUse, Cmd, At, Out
    <3>2. CASE ~Waits(p)
      BY <1>1, <1>4, <2>2, <2>3, <3>2, AllowedKept DEF Waits
    <3>3. QED
      BY <3>1, <3>2
  <2>6. QED
    BY <2>3, <2>4, <2>5, SameDebt
<1>7. CASE Reaped(p)
  <2>1. /\ proc'[p].pc = "free" /\ \A q \in Procs \ {p} : proc'[q] = proc[q]
        /\ ui = "wait" => child # p
    BY <1>7, FreeTyped DEF Reaped, Typed
  <2>2. Starting' \in SUBSET Starting /\ Astray' \in SUBSET Astray
    BY <1>1, <2>1 DEF Starting, Astray, Waits
  <2>3. mishaps' = mishaps /\ ours' = ours /\ late' = late /\ class' = class
    BY <1>7 DEF Reaped
  <2>4. Debt' <= Debt
    BY <2>2, <2>3, LateKept, NotMore
  <2>5. Allowed => Allowed'
    BY <1>1, <1>4, <2>1, <2>3, AllowedKept
  <2>6. QED
    BY <2>3, <2>4, <2>5, SameDebt
<1>8. CASE AddRecord(p)
  <2> DEFINE h == FirstOf(FreeHandles)
  <2>1. h \in Handles /\ Step(p, "set", h) /\ p \in Starting
    BY <1>8, NewHandle DEF AddRecord, Register, Starting, Typed
  <2>2. /\ Starting' = Starting \ {p} /\ Astray' = Astray
        /\ proc'[p].pc = "set" /\ proc'[p].out = h /\ proc'[p].cmd = "multi"
        /\ \A q \in Procs \ {p} : proc'[q] = proc[q]
    BY <1>3, <1>8, <2>1 DEF AddRecord
  <2>3. mishaps' = mishaps /\ ours' = ours \cup {h} /\ late' = late /\ class' = class
    BY <1>8 DEF AddRecord, Register
  <2>4. /\ Cardinality(ours') <= Cardinality(ours) + 1
        /\ Cardinality(Starting') <= Cardinality(Starting) + (0 - 1)
        /\ Cardinality(Astray') <= Cardinality(Astray) + 0
        /\ Cardinality(LateRecords') <= Cardinality(LateRecords) + 0
        /\ Cardinality(LatePhones') <= Cardinality(LatePhones) + 0
    BY <2>1, <2>2, <2>3, LateKept, Finite, Counts
  <2>5. Debt' <= Debt + (1 + (0 - 1) + 0 + 0 + 0)
    BY <2>4, Bill
  <2>6. Debt' <= Debt
    BY <2>5, Finite, FiniteNext
  <2>7. Allowed => Allowed'
    <3>1. CASE Waits(p)
      BY <1>1, <2>2, <2>3, <3>1 DEF Waits, Allowed, Cmd, At, Out
    <3>2. CASE ~Waits(p)
      BY <1>1, <1>4, <2>2, <2>3, <3>2, AllowedKept DEF Waits
    <3>3. QED
      BY <3>1, <3>2
  <2>8. QED
    BY <2>3, <2>6, <2>7, SameDebt
<1>9. CASE RemoveRecord(p)
  <2> DEFINE arg == proc[p].arg
  <2>1. PICK pc \in {"set", "done"} : Step(p, pc, NoHandle)
    BY <1>9 DEF RemoveRecord
  <2>2. /\ Starting' \in SUBSET Starting /\ Astray' \in SUBSET Astray
        /\ \A q \in Procs \ {p} : proc'[q] = proc[q]
    BY <1>2, <1>3, <1>9, <2>1 DEF RemoveRecord
  <2>3. mishaps' = mishaps /\ ours' = ours \ {arg} /\ late' = late /\ class' = class
    BY <1>9 DEF RemoveRecord, Remove
  <2>4. CASE arg \in ours
    <3>1. /\ Cardinality(ours') <= Cardinality(ours) + (0 - 1)
          /\ Cardinality(Starting') <= Cardinality(Starting) + 0
          /\ Cardinality(Astray') <= Cardinality(Astray) + 0
          /\ Cardinality(LateRecords') <= Cardinality(LateRecords) + 0
          /\ Cardinality(LatePhones') <= Cardinality(LatePhones) + 0
      BY <2>2, <2>3, <2>4, LateKept, Finite, Counts
    <3>2. Debt' <= Debt + ((0 - 1) + 0 + 0 + 0 + 0)
      BY <3>1, Bill
    <3>3. Debt' <= Debt + (0 - 1)
      BY <3>2, Finite, FiniteNext
    <3>4. QED
      BY <2>3, <3>3, OneLess
  <2>5. CASE arg \notin ours
    <3>1. ours' = ours
      BY <2>3, <2>5
    <3>2. Debt' <= Debt
      BY <2>2, <2>3, <3>1, LateKept, NotMore
    <3>3. Allowed => Allowed'
      <4>1. CASE Waits(p)
        <5>1. ui = "wait" /\ Cmd = "phone" /\ At = "start" /\ saved \notin ours
          BY <1>9, <2>5, <4>1 DEF RemoveRecord, Waits, Cmd, At, Typed, Consistent
        <5>2. ~Allowed
          BY <5>1 DEF Allowed, InUse
        <5>3. QED
          BY <5>2
      <4>2. CASE ~Waits(p)
        BY <1>1, <1>4, <2>2, <2>3, <3>1, <4>2, AllowedKept DEF Waits
      <4>3. QED
        BY <4>1, <4>2
    <3>4. QED
      BY <2>3, <3>2, <3>3, SameDebt
  <2>6. QED
    BY <2>4, <2>5
<1>10. CASE SetClass(p)
  <2>1. /\ Starting' \in SUBSET Starting /\ Astray' = Astray \ {p}
        /\ proc'[p].pc = "done" /\ proc'[p].out = proc[p].out /\ proc'[p].cmd = proc[p].cmd
        /\ \A q \in Procs \ {p} : proc'[q] = proc[q]
    BY <1>2, <1>3, <1>10 DEF SetClass
  <2>2. mishaps' = mishaps /\ ours' = ours /\ late' = late /\ class' = Wanted(p)
    BY <1>10 DEF SetClass
  <2>3. Debt' <= Debt
    BY <2>1, <2>2, LateKept, NotMore
  <2>4. CASE proc[p].cmd = "multi"
    <3>1. class' = "mouse"
      BY <2>2, <2>4 DEF Wanted
    <3>2. Allowed => Allowed'
      <4>1. CASE Waits(p)
        BY <1>1, <1>10, <2>1, <2>2, <2>4, <3>1, <4>1 DEF SetClass, Waits, Allowed, InUse, Cmd, At, Out
      <4>2. CASE ~Waits(p)
        BY <1>1, <1>4, <2>1, <2>2, <3>1, <4>2, AllowedKept DEF Waits
      <4>3. QED
        BY <4>1, <4>2
    <3>3. QED
      BY <2>2, <2>3, <3>2, SameDebt
  <2>5. CASE proc[p].cmd = "phone" /\ Waits(p)
    <3>1. ~Allowed
      BY <1>10, <2>5 DEF SetClass, Waits, Allowed, Cmd, At
    <3>2. QED
      BY <2>2, <2>3, <3>1, SameDebt
  <2>6. CASE proc[p].cmd = "phone" /\ ~Waits(p)
    <3>1. p \in Astray
      BY <1>10, <2>6 DEF SetClass, Astray
    <3>2. /\ Cardinality(ours') <= Cardinality(ours) + 0
          /\ Cardinality(Starting') <= Cardinality(Starting) + 0
          /\ Cardinality(Astray') <= Cardinality(Astray) + (0 - 1)
          /\ Cardinality(LateRecords') <= Cardinality(LateRecords) + 0
          /\ Cardinality(LatePhones') <= Cardinality(LatePhones) + 0
      BY <2>1, <2>2, <3>1, LateKept, Finite, Counts
    <3>3. Debt' <= Debt + (0 + 0 + (0 - 1) + 0 + 0)
      BY <3>2, Bill
    <3>4. Debt' <= Debt + (0 - 1)
      BY <3>3, Finite, FiniteNext
    <3>5. QED
      BY <2>2, <3>4, OneLess
  <2>7. proc[p].cmd # "cod"
    BY <1>10 DEF SetClass, Typed, Consistent
  <2>8. QED
    BY <1>2, <2>4, <2>5, <2>6, <2>7 DEF Commands
<1>11. CASE GivesUp(p)
  <2>1. /\ Starting' = Starting \ {p} /\ Astray' = Astray \ {p}
    BY <1>2, <1>3, <1>11 DEF GivesUp
  <2>2. Mishap /\ ours' = ours /\ mishaps' = mishaps + 1
    BY <1>11 DEF GivesUp, Mishap
  <2>3. PICK r : /\ late' = late \cup {r}
                 /\ r.op = IF proc[p].pc = "set" THEN Wanted(p)
                            ELSE IF proc[p].cmd = "multi" THEN "register" ELSE "remove"
    <3>1. PICK op :
             /\ op = IF proc[p].pc = "set" THEN Wanted(p)
                     ELSE IF proc[p].cmd = "multi" THEN "register" ELSE "remove"
             /\ late' = late \cup {[op |-> op, arg |-> proc[p].arg, nr |-> mishaps']}
      BY <1>11 DEF GivesUp
    <3> DEFINE given == [op |-> op, arg |-> proc[p].arg, nr |-> mishaps']
    <3>2. given.op = op /\ late' = late \cup {given}
      BY <3>1
    <3>3. QED
      BY <3>1, <3>2
  <2>4. /\ LateRecords' \in SUBSET (LateRecords \cup {r})
        /\ LatePhones' \in SUBSET (LatePhones \cup {r})
        /\ r.op # "register" => LateRecords' \in SUBSET LateRecords
        /\ r.op # "phone" => LatePhones' \in SUBSET LatePhones
    BY <2>3 DEF LateRecords, LatePhones
  <2>5. CASE r.op = "register"
    <3>1. p \in Starting
      BY <1>11, <2>3, <2>5 DEF GivesUp, Wanted, Starting
    <3>2. /\ Cardinality(ours') <= Cardinality(ours) + 0
          /\ Cardinality(Starting') <= Cardinality(Starting) + (0 - 1)
          /\ Cardinality(Astray') <= Cardinality(Astray) + 0
          /\ Cardinality(LateRecords') <= Cardinality(LateRecords) + 1
          /\ Cardinality(LatePhones') <= Cardinality(LatePhones) + 0
      BY <2>1, <2>2, <2>4, <2>5, <3>1, Finite, Counts
    <3>3. Debt' <= Debt + (0 + (0 - 1) + 0 + 1 + 0)
      BY <3>2, Bill
    <3>4. Debt' <= Debt
      BY <3>3, Finite, FiniteNext
    <3>5. QED
      BY <2>2, <3>4, SameDebt
  <2>6. CASE r.op = "phone"
    <3>1. proc[p].cmd = "phone" /\ proc[p].pc = "set"
      BY <1>2, <1>11, <2>3, <2>6 DEF GivesUp, Wanted, Commands
    <3>2. /\ Cardinality(ours') <= Cardinality(ours) + 0
          /\ Cardinality(Starting') <= Cardinality(Starting) + 0
          /\ Cardinality(Astray') <= Cardinality(Astray) + 0
          /\ Cardinality(LateRecords') <= Cardinality(LateRecords) + 0
          /\ Cardinality(LatePhones') <= Cardinality(LatePhones) + 1
      BY <2>1, <2>2, <2>4, <2>6, Finite, Counts
    <3>3. CASE Waits(p)
      <4>1. ~Allowed
        BY <3>1, <3>3 DEF Waits, Allowed, Cmd, At
      <4>2. Debt' <= Debt + (0 + 0 + 0 + 0 + 1)
        BY <3>2, Bill
      <4>3. Debt' <= Debt + (mishaps' - mishaps)
        BY <2>2, <4>2, Finite, FiniteNext
      <4>4. QED
        BY <4>1, <4>3, Kept
    <3>4. CASE ~Waits(p)
      <4>1. p \in Astray
        BY <3>1, <3>4 DEF Astray
      <4>2. Cardinality(Astray') <= Cardinality(Astray) + (0 - 1)
        BY <2>1, <4>1, Finite, Counts
      <4>3. Debt' <= Debt + (0 + 0 + (0 - 1) + 0 + 1)
        BY <3>2, <4>2, Bill
      <4>4. Debt' <= Debt
        BY <4>3, Finite, FiniteNext
      <4>5. QED
        BY <2>2, <4>4, SameDebt
    <3>5. QED
      BY <3>3, <3>4
  <2>7. CASE r.op \notin {"register", "phone"}
    <3>1. Debt' <= Debt
      BY <2>1, <2>2, <2>4, <2>7, NotMore
    <3>2. QED
      BY <2>2, <3>1, SameDebt
  <2>8. QED
    BY <2>5, <2>6, <2>7
<1>12. QED
  BY <1>5, <1>6, <1>7, <1>8, <1>9, <1>10, <1>11 DEF Runs

LEMMA AccountedLate ==
    ASSUME Typed, Typed', Accounted, NEW r \in late, ServedLate(r)
    PROVE  Accounted'
<1>1. late' = late \ {r} /\ UNCHANGED <<proc, appVars, mishaps>>
  BY DEF ServedLate
<1>2. /\ LateRecords' \in SUBSET LateRecords /\ LatePhones' \in SUBSET LatePhones
      /\ r.op = "register" => r \in LateRecords /\ LateRecords' \in SUBSET (LateRecords \ {r})
      /\ r.op = "phone" => r \in LatePhones /\ LatePhones' \in SUBSET (LatePhones \ {r})
  BY <1>1 DEF LateRecords, LatePhones
<1>3. Starting' = Starting /\ Astray' = Astray
  BY <1>1 DEF Starting, Astray, Waits
<1>4. CASE r.op = "register" /\ Register
  <2>1. PICK h : ours' = ours \cup {h}
    BY <1>4 DEF Register
  <2>2. class' = class
    BY <1>4 DEF Register
  <2>3. /\ Cardinality(ours') <= Cardinality(ours) + 1
        /\ Cardinality(Starting') <= Cardinality(Starting) + 0
        /\ Cardinality(Astray') <= Cardinality(Astray) + 0
        /\ Cardinality(LateRecords') <= Cardinality(LateRecords) + (0 - 1)
        /\ Cardinality(LatePhones') <= Cardinality(LatePhones) + 0
    BY <1>2, <1>3, <1>4, <2>1, Finite, Counts
  <2>4. Debt' <= Debt + (1 + 0 + 0 + (0 - 1) + 0)
    BY <2>3, Bill
  <2>5. Debt' <= Debt
    BY <2>4, Finite, FiniteNext
  <2>6. Allowed => Allowed'
    BY <1>1, <2>1, <2>2, AllowedKept
  <2>7. QED
    BY <1>1, <2>5, <2>6, SameDebt
<1>5. CASE r.op = "remove" /\ Remove(r.arg)
  <2>1. ours' = ours \ {r.arg} /\ class' = class
    BY <1>5 DEF Remove
  <2>2. CASE r.arg \in ours
    <3>1. /\ Cardinality(ours') <= Cardinality(ours) + (0 - 1)
          /\ Cardinality(Starting') <= Cardinality(Starting) + 0
          /\ Cardinality(Astray') <= Cardinality(Astray) + 0
          /\ Cardinality(LateRecords') <= Cardinality(LateRecords) + 0
          /\ Cardinality(LatePhones') <= Cardinality(LatePhones) + 0
      BY <1>2, <1>3, <2>1, <2>2, Finite, Counts
    <3>2. Debt' <= Debt + ((0 - 1) + 0 + 0 + 0 + 0)
      BY <3>1, Bill
    <3>3. Debt' <= Debt + (0 - 1)
      BY <3>2, Finite, FiniteNext
    <3>4. QED
      BY <1>1, <3>3, OneLess
  <2>3. CASE r.arg \notin ours
    <3>1. ours' = ours
      BY <2>1, <2>3
    <3>2. Debt' <= Debt
      BY <1>2, <1>3, <3>1, NotMore
    <3>3. Allowed => Allowed'
      BY <1>1, <2>1, <3>1, AllowedKept
    <3>4. QED
      BY <1>1, <3>2, <3>3, SameDebt
  <2>4. QED
    BY <2>2, <2>3
<1>6. CASE r.op \in Classes /\ class' = r.op /\ UNCHANGED <<ours, others, robbed>>
  <2>1. CASE r.op = "mouse"
    <3>1. Debt' <= Debt
      BY <1>2, <1>3, <1>6, NotMore
    <3>2. Allowed => Allowed'
      BY <1>1, <1>6, <2>1, AllowedKept
    <3>3. QED
      BY <1>1, <3>1, <3>2, SameDebt
  <2>2. CASE r.op = "phone"
    <3>1. /\ Cardinality(ours') <= Cardinality(ours) + 0
          /\ Cardinality(Starting') <= Cardinality(Starting) + 0
          /\ Cardinality(Astray') <= Cardinality(Astray) + 0
          /\ Cardinality(LateRecords') <= Cardinality(LateRecords) + 0
          /\ Cardinality(LatePhones') <= Cardinality(LatePhones) + (0 - 1)
      BY <1>2, <1>3, <1>6, <2>2, Finite, Counts
    <3>2. Debt' <= Debt + (0 + 0 + 0 + 0 + (0 - 1))
      BY <3>1, Bill
    <3>3. Debt' <= Debt + (0 - 1)
      BY <3>2, Finite, FiniteNext
    <3>4. QED
      BY <1>1, <3>3, OneLess
  <2>3. QED
    BY <1>6, <2>1, <2>2 DEF Classes
<1>7. QED
  BY <1>4, <1>5, <1>6 DEF ServedLate

LEMMA AccountedInv == ASSUME Typed, Typed', Accounted, [Next]_vars PROVE Accounted'
<1>1. CASE OtherRegisters \/ OtherUnregisters \/ UNCHANGED vars
  <2>1. UNCHANGED <<class, ours, late, proc, appVars, mishaps>>
    BY <1>1 DEF OtherRegisters, OtherUnregisters, vars
  <2>2. Starting' = Starting /\ Astray' = Astray
    BY <2>1 DEF Starting, Astray, Waits
  <2>3. Debt' <= Debt
    BY <2>1, <2>2, LateKept, NotMore
  <2>4. Allowed => Allowed'
    BY <2>1, AllowedKept
  <2>5. QED
    BY <2>1, <2>3, <2>4, SameDebt
<1>2. QED
  BY <1>1, AccountedApp, AccountedBmouse, AccountedLate DEF Next

-----------------------------------------------------------------------------
LEMMA Invariance == Spec => []IInv
<1>1. IInv /\ [Next]_vars => IInv'
  <2> SUFFICES ASSUME IInv, [Next]_vars PROVE IInv'
    OBVIOUS
  <2>1. Typed /\ Orderly /\ Accounted
    BY DEF IInv, Typed
  <2>2. Typed'
    BY <2>1, TypedInv
  <2>3. Orderly' /\ Accounted'
    BY <2>1, <2>2, OrderlyInv, AccountedInv
  <2>4. QED
    BY <2>2, <2>3 DEF IInv, Typed
<1>2. QED
  BY InitInv, <1>1, PTL DEF Spec

(* Every variable of the toggle and of bmouse keeps its type, for any      *)
(* number of records, processes and mishaps (MainActivity.java,            *)
(* apply_profile.c).                                                       *)
THEOREM TypeCorrect == Spec => []TypeOK
<1>1. IInv => TypeOK
  BY DEF IInv
<1>2. QED
  BY Invariance, <1>1, PTL

(* Without a mishap the toggle, the class, the record and the saved handle *)
(* agree whenever the activity is idle (MainActivity.onToggleClicked).     *)
THEOREM Agrees == Spec => []Agreement
<1>1. IInv => Agreement
  <2> SUFFICES ASSUME IInv, mishaps = 0, ui = "open"
               PROVE  /\ (toggle = "on") = (class = "mouse")
                      /\ class = "mouse" => ours = {saved}
                      /\ class = "phone" => ours = {}
    BY DEF Agreement
  <2>1. IF toggle = "on" THEN AsMouse(saved) ELSE AsPhone
    BY DEF IInv, Orderly, Phase
  <2>2. QED
    BY <2>1 DEF AsMouse, AsPhone
<1>2. QED
  BY Invariance, <1>1, PTL

(* Without a mishap remove_sdp_record takes no record of another service.  *)
THEOREM Spared == Spec => []OthersSpared
<1>1. IInv => OthersSpared
  BY DEF IInv, Orderly, OthersSpared
<1>2. QED
  BY Invariance, <1>1, PTL

(* bmouse leaves at most one record behind per mishap, besides the one in  *)
(* use, whatever fails, dies or is served late.                            *)
THEOREM LeaksBounded == Spec => []LeakBound
<1>1. IInv => LeakBound
  <2> SUFFICES ASSUME IInv PROVE LeakBound
    OBVIOUS
  <2>1. Debt <= mishaps + 1 /\ Typed
    BY DEF IInv, Accounted, Typed
  <2>2. \A o, s, t, r, q, m \in Nat : o + s + t + r + q <= m + 1 => o <= 1 + m
    OBVIOUS
  <2>3. QED
    BY <2>1, <2>2, Finite DEF LeakBound, Debt
<1>2. QED
  BY Invariance, <1>1, PTL
=============================================================================
