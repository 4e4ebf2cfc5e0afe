----------------------------- MODULE MCBmouse -----------------------------
(* bmouse: the record it builds, and the calls it makes.  A call carries   *)
(* the record without a look into it, so each is explored with the other   *)
(* one in an initial state: attributes are added while no bmouse runs, and *)
(* calls are made with the smallest record.                                *)
EXTENDS BmouseCalls, SdpRecord

MCInit == Init /\ RecordInit
CallsRun == attrlist = BrowseGroups /\ counted = 0 /\ ~sizeReadLate /\ Next /\ UNCHANGED recordVars
RecordRuns == (\A p \in Procs : pc[p] = "unborn") /\ RecordNext /\ UNCHANGED vars

(* FairSpec asks nothing of a bmouse that is not started.                  *)
MCSpec ==
    /\ MCInit /\ [][CallsRun \/ RecordRuns]_<<vars, recordVars>>
    /\ \A p \in Procs : WF_vars(ProcRuns(p))

(* Values of the types that bmouse uses, with lengths around those at      *)
(* which a sequence within the attribute, the sequence of the attribute or *)
(* that of the whole record needs a second byte for its length.            *)
MCElements ==
    {UInt16(300), Seq8(<<Uuid16(4388)>>)}
        \cup {Text8(n) : n \in {9, 239, 240, 241}}
        \cup {Seq8(<<Text8(n), UInt16(1)>>) : n \in 249 .. 251}
        \cup {Seq8(<<Seq8(<<Uuid16(1), Text8(n)>>)>>) : n \in 247 .. 251}

(* A copy of one of these is the element itself.                           *)
ASSUME CopyAssumption == \A d \in MCElements : Copy(d) = d
=============================================================================
