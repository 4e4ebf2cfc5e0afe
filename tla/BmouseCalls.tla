---------------------------- MODULE BmouseCalls ----------------------------
(***************************************************************************)
(* What the program bmouse (apply_profile.c, self_repr.c) does inside its  *)
(* calls of the Bluetooth stack.  BecomeMouse takes each of them for one   *)
(* step that works or fails; here are the two protocols behind them.       *)
(*                                                                         *)
(* sdp.c asks the SDP server over a local socket and waits 20 seconds for  *)
(* the answer.  hci.c sends a command through a raw socket, which shows it *)
(* the events of all processes: hci_send_req takes the first completion of *)
(* a command like its own for the answer, gives up after ten events or     *)
(* when nothing comes in time, and does not take the command back.  Since  *)
(* ten tries take 100 ms off a timeout of at least a second, the timeout   *)
(* never gets to 0, which would mean to wait for ever.                     *)
(*                                                                         *)
(* Several bmouse may run at once, each once.                              *)
(***************************************************************************)
EXTENDS Naturals, Sequences, FiniteSets

CONSTANTS
    Procs,      \* runs of bmouse
    Tries,      \* events hci_send_req looks at
    MaxUseless, \* events that are no answer, to all runs together
    MaxFaults   \* failures of system calls, of the server and the controller

ASSUME ProcsAssumption == IsFiniteSet(Procs)
ASSUME TriesAssumption == Tries \in Nat \ {0} /\ Tries <= 10
ASSUME BoundAssumption == MaxUseless \in Nat /\ MaxFaults \in Nat

Handles == 1 .. Cardinality(Procs)
None == 0       \* no handle, no output; also SDP_SERVER_RECORD_HANDLE
Classes == {"phone", "mouse"}

Commands == {"cod", "cod-mouse", "mouse", "multi", "phone"}
Registers(c) == c \in {"mouse", "multi"}

VARIABLES
    class,      \* the controller's device class
    hciQ,       \* commands on their way to the controller
    records,    \* handles of the records of the SDP server
    sdpQ,       \* requests on their way to it
    pc, cmd, arg, \* each bmouse: where it is, and its command line
    op,         \* its HCI command, and the events that its socket holds
    inbox, tries,
    rsp,        \* what has come back on its SDP session
    handle,     \* the handle it was given
    out, shown, \* the handle, or the class, that it has printed
    status,     \* runs, or the status it has ended with
    useless, faults

    \* for the properties: classes in force since the filter was set; runs
    \* that took a write for done that was not; handles given and removed;
    \* the controller has refused a write
VARIABLES inForce, unset, given, removed, refused

stackVars == <<class, hciQ, records, sdpQ>>
procVars == <<pc, cmd, arg, op, inbox, tries, rsp, handle, out, shown, status>>
ghosts == <<inForce, unset, given, removed, refused>>
vars == <<stackVars, procVars, useless, faults, ghosts>>

Init ==
    /\ class = "phone" /\ hciQ = <<>> /\ records = {} /\ sdpQ = <<>>
    /\ pc = [p \in Procs |-> "unborn"]
    /\ cmd = [p \in Procs |-> "cod"] /\ arg = [p \in Procs |-> None]
    /\ op = [p \in Procs |-> "none"] /\ inbox = [p \in Procs |-> <<>>]
    /\ tries = [p \in Procs |-> 0] /\ rsp = [p \in Procs |-> "none"]
    /\ handle = [p \in Procs |-> None] /\ out = [p \in Procs |-> None]
    /\ shown = [p \in Procs |-> "none"]
    /\ status = [p \in Procs |-> "runs"]
    /\ useless = 0 /\ faults = 0
    /\ inForce = [p \in Procs |-> {}] /\ unset = [p \in Procs |-> FALSE]
    /\ given = [p \in Procs |-> None] /\ removed = {} /\ refused = FALSE

Fault == faults < MaxFaults /\ faults' = faults + 1
Goto(p, l) == pc' = [pc EXCEPT ![p] = l]
Exit(p, st) == Goto(p, "end") /\ status' = [status EXCEPT ![p] = st]

-----------------------------------------------------------------------------
(* main                                                                    *)

Start(p) ==
    /\ pc[p] = "unborn"
    /\ \E c \in Commands :
          /\ cmd' = [cmd EXCEPT ![p] = c]
          /\ \E h \in Handles \cup {None} :
                (c # "phone" => h = None) /\ arg' = [arg EXCEPT ![p] = h]
          /\ Goto(p, IF c \in {"cod", "cod-mouse"} THEN "open" ELSE "connect")
          /\ op' = [op EXCEPT ![p] = IF c = "cod" THEN "read" ELSE "write"]
    /\ UNCHANGED <<stackVars, inbox, tries, rsp, handle, out, shown, status, useless, faults, ghosts>>

(* A call has failed: the program ends and prints nothing.                 *)
CallFails(p) ==
    /\ pc[p] \in {"connect", "open", "send"} /\ Fault
    /\ Exit(p, "failed")
    /\ op' = [op EXCEPT ![p] = "none"] /\ inbox' = [inbox EXCEPT ![p] = <<>>]
    /\ UNCHANGED <<stackVars, cmd, arg, tries, rsp, handle, out, shown, useless, ghosts>>

-----------------------------------------------------------------------------
(* add_sdp_record and remove_sdp_record: sdp_connect and the sending half  *)
(* of sdp_send_req_w4_rsp.  connect() has no timeout: with a server that   *)
(* hangs and a full backlog it never returns, so that nothing makes this   *)
(* step happen.                                                            *)
Connect(p) ==
    /\ pc[p] = "connect"
    /\ IF cmd[p] = "phone" /\ arg[p] = None
       THEN Exit(p, "failed") /\ UNCHANGED sdpQ
       ELSE /\ sdpQ' = Append(sdpQ, [by |-> p, h |-> arg[p],
                                     op |-> IF Registers(cmd[p]) THEN "register" ELSE "remove"])
            /\ Goto(p, "select") /\ UNCHANGED status
    /\ UNCHANGED <<class, hciQ, records, cmd, arg, op, inbox, tries, rsp, handle, out, shown,
                   useless, faults, ghosts>>

(* Fault: whatever comes back is taken for the answer.                     *)
ReadRspUnchecked(p) ==
    /\ pc[p] = "select" /\ rsp[p] # "none"
    /\ Goto(p, "open") /\ UNCHANGED status
    /\ handle' = [handle EXCEPT ![p] = IF Registers(cmd[p]) /\ rsp[p] = "done"
                                       THEN given[p] ELSE 1]
    /\ UNCHANGED <<stackVars, cmd, arg, op, inbox, tries, rsp, out, shown, useless, faults, ghosts>>

(* The answer: a response, an error response, or the end of the session.   *)
ReadRsp(p) ==
    /\ pc[p] = "select" /\ rsp[p] # "none"
    /\ IF rsp[p] = "done"
       THEN /\ Goto(p, "open") /\ UNCHANGED status
            /\ handle' = [handle EXCEPT ![p] = IF Registers(cmd[p]) THEN given[p] ELSE None]
       ELSE Exit(p, "failed") /\ UNCHANGED handle
    /\ UNCHANGED <<stackVars, cmd, arg, op, inbox, tries, rsp, out, shown, useless, faults, ghosts>>

(* Fault: without a timeout.                                               *)
SelectBlocks(p) == FALSE /\ UNCHANGED vars

(* select() has timed out.                                                 *)
SelectTimesOut(p) ==
    /\ pc[p] = "select" /\ rsp[p] = "none"
    /\ Exit(p, "failed")
    /\ UNCHANGED <<stackVars, cmd, arg, op, inbox, tries, rsp, handle, out, shown, useless, faults,
                   ghosts>>

-----------------------------------------------------------------------------
(* hci_open_dev, and the filter that hci_send_req sets: from here on the   *)
(* socket collects events.                                                 *)
OpenDev(p) ==
    /\ pc[p] = "open"
    /\ inbox' = [inbox EXCEPT ![p] = <<>>]
    /\ tries' = [tries EXCEPT ![p] = Tries]
    /\ inForce' = [inForce EXCEPT ![p] = {class}]
    /\ Goto(p, "send")
    /\ UNCHANGED <<stackVars, cmd, arg, op, rsp, handle, out, shown, status, useless, faults,
                   unset, given, removed, refused>>

(* hci_send_cmd                                                            *)
Wanted(p) == IF cmd[p] = "phone" THEN "phone" ELSE "mouse"

SendCmd(p) ==
    /\ pc[p] = "send"
    /\ hciQ' = Append(hciQ, [op |-> op[p], val |-> Wanted(p)])
    /\ Goto(p, "wait")
    /\ UNCHANGED <<class, records, sdpQ, cmd, arg, op, inbox, tries, rsp, handle, out, shown, status,
                   useless, faults, ghosts>>

(* Fault: the handle is not printed.                                       *)
CallDoneQuiet(p, val) ==
    /\ inbox' = [inbox EXCEPT ![p] = <<>>]
    /\ op' = [op EXCEPT ![p] = "none"] /\ Exit(p, "ok")
    /\ shown' = [shown EXCEPT ![p] = IF op[p] = "read" THEN val ELSE @]
    /\ UNCHANGED out
    /\ UNCHANGED unset

(* The call has returned 0: a class has been read and is printed, or has   *)
(* been written; cod-mouse goes on to read it, the others print the handle.*)
CallDone(p, val) ==
    /\ inbox' = [inbox EXCEPT ![p] = <<>>]
    /\ IF op[p] = "write" /\ cmd[p] = "cod-mouse"
       THEN /\ op' = [op EXCEPT ![p] = "read"] /\ Goto(p, "open")
            /\ UNCHANGED <<out, shown, status>>
       ELSE /\ op' = [op EXCEPT ![p] = "none"] /\ Exit(p, "ok")
            /\ shown' = [shown EXCEPT ![p] = IF op[p] = "read" THEN val ELSE @]
            /\ out' = [out EXCEPT ![p] = handle[p]]
    /\ unset' = [unset EXCEPT ![p] =
                    @ \/ (op[p] = "write" /\ Wanted(p) \notin inForce[p])]

CallGivenUp(p) ==
    /\ inbox' = [inbox EXCEPT ![p] = <<>>]
    /\ op' = [op EXCEPT ![p] = "none"] /\ Exit(p, "failed")
    /\ UNCHANGED <<out, shown, unset>>

(* Fault: the answer to a read is not asked for its status.                *)
ReadEventUnchecked(p) ==
    /\ pc[p] = "wait" /\ inbox[p] # <<>>
    /\ LET e == Head(inbox[p])
       IN  IF e.evt = "complete" THEN CallDone(p, e.val) ELSE CallGivenUp(p)
    /\ UNCHANGED <<stackVars, cmd, arg, tries, rsp, handle, useless, faults,
                   inForce, given, removed, refused>>

(* Fault: a command that has been taken is taken for done.                 *)
ReadStatusAsDone(p) ==
    /\ pc[p] = "wait" /\ useless < MaxUseless
    /\ useless' = useless + 1
    /\ CallDone(p, class)
    /\ UNCHANGED <<stackVars, cmd, arg, tries, rsp, handle, faults,
                   inForce, given, removed, refused>>

(* An event of a command like the own one.  The status of a completion is  *)
(* part of the answer, which only a read looks at.                         *)
ReadEvent(p) ==
    /\ pc[p] = "wait" /\ inbox[p] # <<>>
    /\ LET e == Head(inbox[p])
       IN  IF e.evt = "complete" /\ (op[p] = "read" => e.ok)
           THEN CallDone(p, e.val) ELSE CallGivenUp(p)
    /\ UNCHANGED <<stackVars, cmd, arg, tries, rsp, handle, useless, faults,
                   inForce, given, removed, refused>>

(* An event that is no answer: a command was taken, or an event of a low   *)
(* energy device.  The tenth ends the call.                                *)
ReadUseless(p) ==
    /\ pc[p] = "wait" /\ useless < MaxUseless
    /\ useless' = useless + 1
    /\ tries' = [tries EXCEPT ![p] = @ - 1]
    /\ IF tries[p] = 1 THEN CallGivenUp(p)
       ELSE UNCHANGED <<inbox, op, pc, out, shown, status, unset>>
    /\ UNCHANGED <<stackVars, cmd, arg, rsp, handle, faults, inForce, given, removed, refused>>

(* poll() has timed out.                                                   *)
PollTimesOut(p) ==
    /\ pc[p] = "wait" /\ inbox[p] = <<>>
    /\ CallGivenUp(p)
    /\ UNCHANGED <<stackVars, cmd, arg, tries, rsp, handle, useless, faults,
                   inForce, given, removed, refused>>

-----------------------------------------------------------------------------
(* The SDP server answers requests in turn, also when nobody waits for the *)
(* answer any more.  It may refuse, or hang up.                            *)
FreeHandle == CHOOSE h \in Handles \ records : \A g \in Handles \ records : h <= g
Answer(p, r) == rsp' = [rsp EXCEPT ![p] = IF pc[p] = "select" THEN r ELSE @]

Serve ==
    /\ sdpQ # <<>> /\ sdpQ' = Tail(sdpQ)
    /\ LET q == Head(sdpQ)
       IN  IF q.op = "register"
           THEN /\ records' = records \cup {FreeHandle}
                /\ given' = [given EXCEPT ![q.by] = FreeHandle]
                /\ Answer(q.by, "done") /\ UNCHANGED removed
           ELSE /\ records' = records \ {q.h}
                /\ removed' = removed \cup ({q.h} \cap records)
                /\ Answer(q.by, IF q.h \in records THEN "done" ELSE "error")
                /\ UNCHANGED given
    /\ UNCHANGED <<class, hciQ, pc, cmd, arg, op, inbox, tries, handle, out, shown, status,
                   useless, faults, inForce, unset, refused>>

ServeNot ==
    /\ sdpQ # <<>> /\ sdpQ' = Tail(sdpQ) /\ Fault
    /\ \E r \in {"error", "eof"} : Answer(Head(sdpQ).by, r)
    /\ UNCHANGED <<class, hciQ, records, pc, cmd, arg, op, inbox, tries, handle, out, shown, status,
                   useless, ghosts>>

-----------------------------------------------------------------------------
(* The controller executes commands in turn.  The event goes to all        *)
(* sockets whose filter lets a command like this through.                  *)
Emit(o, e) ==
    inbox' = [p \in Procs |-> IF op[p] = o /\ pc[p] \in {"send", "wait"}
                              THEN Append(inbox[p], e) ELSE inbox[p]]

ChangeClass(c) ==
    /\ class' = c
    /\ inForce' = [p \in Procs |-> IF pc[p] \in {"send", "wait"}
                                   THEN inForce[p] \cup {c} ELSE inForce[p]]

Execute ==
    /\ hciQ # <<>> /\ hciQ' = Tail(hciQ)
    /\ LET q == Head(hciQ)
       IN  /\ ChangeClass(IF q.op = "write" THEN q.val ELSE class)
           /\ \/ /\ Emit(q.op, [evt |-> "complete", ok |-> TRUE, val |-> class'])
                 /\ UNCHANGED faults
              \/ Fault /\ UNCHANGED inbox           \* the event is lost
    /\ UNCHANGED <<records, sdpQ, pc, cmd, arg, op, tries, rsp, handle, out, shown, status,
                   useless, unset, given, removed, refused>>

(* The command is refused, in a completion or at once, or never answered.  *)
(* Where the class would be, a refusal has something else.                 *)
ExecuteNot ==
    /\ hciQ # <<>> /\ hciQ' = Tail(hciQ) /\ Fault
    /\ LET q == Head(hciQ)
       IN  /\ refused' = (refused \/ q.op = "write")
           /\ \/ \E evt \in {"complete", "status"} :
                    Emit(q.op, [evt |-> evt, ok |-> FALSE, val |-> "junk"])
              \/ UNCHANGED inbox
    /\ UNCHANGED <<class, records, sdpQ, pc, cmd, arg, op, tries, rsp, handle, out, shown, status,
                   useless, inForce, unset, given, removed>>

-----------------------------------------------------------------------------
ProcRuns(p) ==
    \/ ReadRsp(p) \/ SelectTimesOut(p)
    \/ OpenDev(p) \/ SendCmd(p) \/ ReadEvent(p) \/ PollTimesOut(p)

Next ==
    \/ \E p \in Procs : Start(p) \/ Connect(p) \/ ProcRuns(p) \/ ReadUseless(p) \/ CallFails(p)
    \/ Serve \/ ServeNot \/ Execute \/ ExecuteNot

Spec == Init /\ [][Next]_vars

(* bmouse is scheduled, and its timeouts run out; neither the SDP server   *)
(* nor the controller has to do anything, not even to take a connection.   *)
FairSpec == Spec /\ \A p \in Procs : WF_vars(ProcRuns(p))

-----------------------------------------------------------------------------
(* The class that bmouse prints was the device class at some moment of the *)
(* call, also when another bmouse asks and changes it at the same time and *)
(* the answer it took was the answer to the other one.                     *)
ClassReadWasInForce ==
    \A p \in Procs :
        status[p] = "ok" /\ cmd[p] \in {"cod", "cod-mouse"} => shown[p] \in inForce[p]

(* A write that has returned 0 has been done, unless the controller has    *)
(* refused a write, whose status nobody looks at, or another bmouse writes *)
(* too, whose completion it may have taken for its own.                    *)
Writes(p) == pc[p] # "unborn" /\ cmd[p] # "cod"
WriteTakenForDone ==
    \A p \in Procs : unset[p] => refused \/ \E q \in Procs \ {p} : Writes(q)

(* When bmouse exits with success, the handle it has printed is that of a  *)
(* record of its own, which stands until somebody removes it, or the       *)
(* record it was to remove has been removed.                               *)
ExitStatusTrue ==
    \A p \in Procs : status[p] = "ok" =>
        /\ Registers(cmd[p]) => out[p] = given[p] /\ out[p] \in records \cup removed
        /\ cmd[p] = "phone" => arg[p] \in removed

(* A record whose handle nobody was told comes from a bmouse that has      *)
(* failed: for one that still runs it will be printed.                     *)
RecordsAccountedFor ==
    \A h \in records : \E p \in Procs :
        given[p] = h /\ (status[p] # "ok" \/ out[p] = h)

(* Each bmouse ends once it is past the connect() to the SDP server, which *)
(* alone may wait for ever (sdp_connect_local): whatever the server and    *)
(* the controller do, every wait after it has its timeout, and the events  *)
(* of others do not put it off.  BecomeMouse's UI thread waits for this.   *)
CallsEnd == \A p \in Procs : pc[p] \notin {"unborn", "connect"} ~> pc[p] = "end"

(* The device class only changes on behalf of a bmouse whose record has    *)
(* been registered, or removed, before: however late a command is served   *)
(* and whatever has become of its sender, a refused or lost request of the *)
(* SDP server is never followed by the class that belongs to it            *)
(* (add_sdp_record, remove_sdp_record come before set_dev_class).          *)
RecordDone(p) ==
    /\ Registers(cmd[p]) => given[p] # None
    /\ cmd[p] = "phone" => arg[p] \in removed
ClassAfterRecord ==
    [][class' # class => \E p \in Procs : Writes(p) /\ Wanted(p) = class' /\ RecordDone(p)]_vars
=============================================================================
