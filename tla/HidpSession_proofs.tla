------------------------- MODULE HidpSession_proofs -------------------------
(***************************************************************************)
(* The sessions, for every number of sessions, reports and host packets    *)
(* and every capacity of the pipe: their types, that they implement the    *)
(* abstract channel, and two invariants of their own.                      *)
(*                                                                         *)
(* Each step is a step of the channel, or leaves what the channel sees     *)
(* alone.  What the channel promises is therefore true of the reports that *)
(* reach the host.                                                         *)
(*                                                                         *)
(* The SHUTDOWN packet is the last of its session.  ShutdownIsLast is not  *)
(* inductive: a daemon that reads a SHUTDOWN packet needs to know what     *)
(* follows it in the FIFO, and the packet being written what already is    *)
(* there (ShutInv).                                                        *)
(*                                                                         *)
(* Each request without a method is answered once at most: what has been   *)
(* answered and what is still queued add up to no more than was asked.     *)
(***************************************************************************)
EXTENDS HidpSession, HidpDaemon_proofs, FiniteSetTheorems, FunctionTheorems

(* Daemons beyond the sessions started are not born, and each session      *)
(* starts at most one pkill, at its end.                                   *)
Bookkeeping ==
    /\ \A d \in Daemons : d > sess => pc[d] = "unborn"
    /\ pkills <= sess
    /\ ui # "idle" => pkills < sess

TypeInv == TypeOK /\ Bookkeeping

USE SessionAssumption, ReportAssumption, ReportKindAssumption, HostPktAssumption,
    PipeCapAssumption, AppMayDieAssumption

LEMMA InitType == Init => TypeInv
<1> SUFFICES ASSUME Init PROVE TypeInv
  OBVIOUS
<1>1. DaemonTypeOK
  BY InitDaemonType DEF Init
<1>2. Shutdown(0) \in Packet
  BY DEF Shutdown, Packet, Kinds
<1>3. TypeOK
  BY <1>1, <1>2 DEF Init, ClientInit, TypeOK, UIs
<1>4. Bookkeeping
  BY DEF Init, DaemonInit, ClientInit, Bookkeeping
<1> QED
  BY <1>3, <1>4 DEF TypeInv

-----------------------------------------------------------------------------
(* A step of a daemon or of the host: the client's variables stay as they  *)
(* are.                                                                    *)
LEMMA DaemonType ==
    ASSUME TypeInv, NEW d \in Daemons, UNCHANGED clientVars, DaemonTypeOK',
           \A e \in Daemons \ {d} : pc'[e] = pc[e],
           pc[d] # "unborn" \/ pc'[d] = pc[d]
    PROVE  TypeInv'
BY DEF TypeInv, TypeOK, DaemonTypeOK, Bookkeeping, clientVars

LEMMA RunsType ==
    ASSUME TypeInv, NEW d \in Daemons, DaemonRuns(d) \/ DaemonSends(d)
    PROVE  TypeInv'
<1>1. DaemonTypeOK /\ UNCHANGED clientVars
  BY DEF TypeInv, TypeOK, DaemonTypeOK, DaemonRuns, DaemonSends
<1>2. DaemonTypeOK'
  BY <1>1, StartUpType, ConnectType, LoopType, ReadType, SendType, ExitType
     DEF DaemonRuns, DaemonSends
<1>3. \E l \in PCs : Goto(d, l) /\ pc[d] # "unborn"
  BY DEF DaemonRuns, DaemonSends, PCs, Start, OpenFifo, OpenFifoReturns, InitConn,
     Connect, Channels, Poll, ProcessSk, ProcessSrc, ReadPacket, ReadEof, SendReport,
     CloseInt, CloseCnt, KilledCloseCnt, KilledCloseInt
<1>4. /\ \A e \in Daemons \ {d} : pc'[e] = pc[e]
      /\ pc[d] # "unborn"
  BY <1>1, <1>3, GotoType
<1> QED
  BY <1>1, <1>2, <1>4, DaemonType

LEMMA HostActsType ==
    ASSUME TypeInv, NEW d \in Daemons, NEW c \in Channels, HostActs(d, c)
    PROVE  TypeInv'
<1>1. DaemonTypeOK /\ UNCHANGED <<clientVars, pc>>
  BY DEF TypeInv, TypeOK, DaemonTypeOK, HostActs, HostSends, HostDisconnects
<1>2. DaemonTypeOK'
  BY <1>1, HostType DEF HostActs
<1> QED
  BY <1>1, <1>2, DaemonType

-----------------------------------------------------------------------------
LEMMA ClientType ==
    ASSUME TypeInv, ClientRuns PROVE TypeInv'
<1>1. fifo' \in FifoType(Packet, Daemons)
  <2>1. pend \in Packet
    BY DEF TypeInv, TypeOK, DaemonTypeOK
  <2> QED
    BY <2>1, FifoHere DEF TypeInv, TypeOK, ClientRuns, CheckServer, StartSessionOpen,
       StartSessionOpenReturns, SendPacket, EndSessionClose, ReleaseAndKillServer, KillServerCatches
<1>2. UNCHANGED <<daemonVars, sess, nrep, pend>>
  BY DEF ClientRuns, CheckServer, StartSessionOpen, StartSessionOpenReturns,
     SendPacket, EndSessionClose, ReleaseAndKillServer, KillServerCatches, unchangedDaemons
<1>3. ui' \in UIs /\ fd' \in {"none", "fifo"}
  BY DEF TypeInv, TypeOK, DaemonTypeOK, ClientRuns, CheckServer, StartSessionOpen,
     StartSessionOpenReturns, SendPacket, EndSessionClose, ReleaseAndKillServer, KillServerCatches,
     UIs
<1>4. pkills' \in 0 .. MaxSessions /\ Bookkeeping'
  BY <1>2 DEF TypeInv, TypeOK, DaemonTypeOK, Bookkeeping, ClientRuns, CheckServer,
     StartSessionOpen, StartSessionOpenReturns, SendPacket, EndSessionClose,
     ReleaseAndKillServer, KillServerCatches, daemonVars
<1> QED
  BY <1>1, <1>2, <1>3, <1>4 DEF TypeInv, TypeOK, DaemonTypeOK, daemonVars

LEMMA UserType ==
    ASSUME TypeInv, UserActs \/ Pkill \/ AppDies PROVE TypeInv'
<1>1. CASE StartSession
  <2>1. sess + 1 \in Daemons /\ sess' = sess + 1 /\ sess' \in 0 .. MaxSessions
    BY <1>1 DEF StartSession, TypeInv, TypeOK, DaemonTypeOK, Daemons
  <2>2. pc' \in [Daemons -> PCs]
    BY <1>1, <2>1 DEF StartSession, TypeInv, TypeOK, DaemonTypeOK, Goto, PCs
  <2>3. Bookkeeping'
    BY <1>1, <2>1 DEF StartSession, TypeInv, TypeOK, DaemonTypeOK, Bookkeeping, Goto, Daemons
  <2> QED
    BY <1>1, <2>1, <2>2, <2>3 DEF StartSession, TypeInv, TypeOK, DaemonTypeOK, UIs
<1>2. CASE EndSession
  <2>1. Shutdown(sess) \in Packet
    BY DEF Shutdown, Packet, Kinds, TypeInv, TypeOK, DaemonTypeOK
  <2> QED
    BY <1>2, <2>1 DEF EndSession, unchangedDaemons, daemonVars, TypeInv, TypeOK, DaemonTypeOK,
       UIs, Bookkeeping
<1>3. ASSUME NEW k \in ReportKinds, Report(k) PROVE TypeInv'
  <2>1. pend' \in Packet
    BY <1>3 DEF Report, Packet, Kinds, TypeInv, TypeOK, DaemonTypeOK
  <2> QED
    BY <1>3, <2>1 DEF Report, unchangedDaemons, daemonVars, TypeInv, TypeOK, DaemonTypeOK,
       UIs, Bookkeeping
<1>4. CASE Pkill
  BY <1>4 DEF Pkill, TypeInv, TypeOK, DaemonTypeOK, Bookkeeping, PCs, Killable
<1>5. CASE AppDies
  <2>1. fifo' \in FifoType(Packet, Daemons)
    BY <1>5, FifoHere DEF AppDies, TypeInv, TypeOK
  <2> QED
    BY <1>5, <2>1 DEF AppDies, unchangedDaemons, daemonVars, TypeInv, TypeOK, DaemonTypeOK,
       UIs, Bookkeeping
<1> QED
  BY <1>1, <1>2, <1>3, <1>4, <1>5 DEF UserActs

LEMMA NextType == TypeInv /\ [Next]_vars => TypeInv'
<1> SUFFICES ASSUME TypeInv, [Next]_vars PROVE TypeInv'
  OBVIOUS
<1>1. CASE UNCHANGED vars
  BY <1>1 DEF vars, daemonVars, clientVars, TypeInv, TypeOK, DaemonTypeOK, Bookkeeping
<1> QED
  BY <1>1, ClientType, UserType, RunsType, HostActsType DEF Next

LEMMA TypeInvariance == Spec => []TypeInv
BY InitType, NextType, PTL DEF Spec

(* Every variable keeps its type, and no more pkill commands are pending   *)
(* than sessions have been started.                                        *)
THEOREM TypeCorrect == Spec => []TypeOK
<1>1. TypeInv => TypeOK
  BY DEF TypeInv, TypeOK
<1> QED
  BY <1>1, TypeInvariance, PTL

-----------------------------------------------------------------------------
(* The sessions implement the channel.                                     *)

ChannelTheorems == INSTANCE ReportChannel_proofs WITH
    Consumers <- Daemons, made <- nrep, offer <- Offered,
    queue <- Marks(fifo.buf), held <- InFlight, stopped <- Ended, got <- host

(* Reports have identities from 1 on, wherever they are on their way, so   *)
(* that the channel does not take one for a stop mark.                     *)
ReportIds ==
    /\ IsReport(pend) => pend.id > 0
    /\ \A i \in DOMAIN fifo.buf : IsReport(fifo.buf[i]) => fifo.buf[i].id > 0
    /\ \A d \in Daemons : pc[d] = "send" => IsReport(cur[d]) /\ cur[d].id > 0

RefInv == TypeInv /\ ReportIds

LEMMA InitIds == Init => ReportIds
BY NotReport DEF Init, DaemonInit, ClientInit, AbsentFifo, ReportIds

LEMMA NextIds == RefInv /\ [Next]_vars => ReportIds'
<1> SUFFICES ASSUME RefInv, [Next]_vars PROVE ReportIds'
  OBVIOUS
<1> USE DEF RefInv
<1>1. TypeOK /\ DaemonTypeOK /\ fifo.buf \in Seq(Packet) /\ TypeInv
  BY BufHere DEF TypeInv, TypeOK
<1>2. ASSUME Quiet, UNCHANGED <<cur, pend>>,
             \A d \in Daemons : pc'[d] = "send" => pc[d] = "send"
      PROVE  ReportIds'
  BY <1>2 DEF ReportIds, Quiet
<1>3. CASE ClientRuns /\ ~SendPacket
  <2>1. Quiet
    BY <1>1, <1>3, BufHere DEF ClientRuns, CheckServer, StartSessionOpen,
       StartSessionOpenReturns, EndSessionClose, ReleaseAndKillServer, KillServerCatches, Quiet
  <2> QED
    BY <1>2, <1>3, <2>1 DEF ClientRuns, CheckServer, StartSessionOpen,
       StartSessionOpenReturns, EndSessionClose, ReleaseAndKillServer, KillServerCatches,
       unchangedDaemons, daemonVars
<1>4. CASE SendPacket
  <2>1. UNCHANGED <<cur, pc, pend>> /\ pend \in Packet
    BY <1>1, <1>4 DEF SendPacket, unchangedDaemons, daemonVars, TypeOK, DaemonTypeOK
  <2>2. fifo'.buf = fifo.buf \/ fifo'.buf = Append(fifo.buf, pend)
    BY <1>1, <1>4, <2>1, BufHere DEF SendPacket
  <2>3. \A i \in DOMAIN Append(fifo.buf, pend) :
           \/ i \in DOMAIN fifo.buf /\ Append(fifo.buf, pend)[i] = fifo.buf[i]
           \/ Append(fifo.buf, pend)[i] = pend
    BY <1>1, <2>1
  <2> QED
    BY <2>1, <2>2, <2>3 DEF ReportIds
<1>5. CASE UserActs
  <2>1. fifo' = fifo /\ cur' = cur
    BY <1>5 DEF UserActs, StartSession, EndSession, Report, unchangedDaemons,
       daemonVars
  <2>2. \A d \in Daemons : pc'[d] = "send" => pc[d] = "send"
    BY <1>1, <1>5 DEF UserActs, StartSession, EndSession, Report, unchangedDaemons,
       daemonVars, TypeOK, DaemonTypeOK, Goto
  <2>3. IsReport(pend') => pend'.id > 0
    <3>1. CASE StartSession
      BY <3>1 DEF StartSession, ReportIds
    <3>2. CASE EndSession
      BY <3>2, NotReport DEF EndSession
    <3>3. CASE \E k \in ReportKinds : Report(k)
      BY <1>1, <3>3, ReportAssumption DEF Report, TypeOK, DaemonTypeOK, ReportAssumption
    <3> QED
      BY <1>5, <3>1, <3>2, <3>3 DEF UserActs
  <2> QED
    BY <2>1, <2>2, <2>3 DEF ReportIds
<1>6. CASE Pkill
  BY <1>1, <1>2, <1>6 DEF Pkill, Quiet, TypeOK, DaemonTypeOK
<1>7. CASE AppDies
  BY <1>1, <1>2, <1>7, BufHere DEF AppDies, Quiet, unchangedDaemons, daemonVars
<1>8. ASSUME NEW d \in Daemons, DaemonRuns(d), ~ReadPacket(d) PROVE ReportIds'
  <2>1. Quiet /\ UNCHANGED cur /\ \E l \in PCs \ {"send"} : Goto(d, l)
    BY <1>1, <1>8, QuietDaemon DEF DaemonRuns
  <2> QED
    BY <1>1, <1>2, <1>8, <2>1 DEF DaemonRuns, clientVars, Goto, TypeOK, DaemonTypeOK
<1>9. ASSUME NEW d \in Daemons, DaemonRuns(d), ReadPacket(d) PROVE ReportIds'
  <2>1. fifo'.buf = Tail(fifo.buf) /\ fifo.buf # <<>> /\ pend' = pend
    BY <1>1, <1>9, BufHere DEF ReadPacket, DaemonRuns, clientVars, Readable
  <2>2. Head(fifo.buf) = fifo.buf[1] /\ 1 \in DOMAIN fifo.buf
    BY <1>1, <2>1
  <2>3. \A i \in DOMAIN Tail(fifo.buf) :
           i + 1 \in DOMAIN fifo.buf /\ Tail(fifo.buf)[i] = fifo.buf[i + 1]
    BY <1>1, <2>1
  <2>4. \A e \in Daemons : pc'[e] = "send" => IsReport(cur'[e]) /\ cur'[e].id > 0
    BY <1>1, <1>9, <2>2 DEF ReadPacket, Goto, TypeOK, DaemonTypeOK, ReportIds
  <2> QED
    BY <2>1, <2>3, <2>4 DEF ReportIds
<1>10. ASSUME NEW d \in Daemons, DaemonSends(d) PROVE ReportIds'
  BY <1>1, <1>2, <1>10 DEF DaemonSends, SendReport, Goto, Quiet, TypeOK, DaemonTypeOK, clientVars
<1>11. ASSUME NEW d \in Daemons, NEW c \in Channels, HostActs(d, c) PROVE ReportIds'
  BY <1>2, <1>11 DEF HostActs, HostSends, HostDisconnects, Quiet, clientVars
<1>12. CASE UNCHANGED vars
  BY <1>2, <1>12 DEF vars, daemonVars, clientVars, Quiet
<1> QED
  BY <1>3, <1>4, <1>5, <1>6, <1>7, <1>8, <1>9, <1>10, <1>11, <1>12
     DEF Next, ClientRuns

LEMMA RefInvariance == Spec => []RefInv
<1>1. Init => ReportIds
  BY InitIds
<1>2. RefInv /\ [Next]_vars => RefInv'
  BY NextIds, NextType DEF RefInv
<1> QED
  BY <1>1, <1>2, InitType, PTL DEF Spec, RefInv

(* What the channel sees of the sessions, and a step it does not see.      *)
LEMMA Stutter ==
    ASSUME fifo'.buf = fifo.buf, UNCHANGED <<nrep, host, DaemonsSeen>>,
           Offered' = Offered
    PROVE  UNCHANGED Channel!vars
BY DEF Channel!vars, DaemonsSeen, Marks

-----------------------------------------------------------------------------
(* The steps of the application.                                           *)
LEMMA SendPacketRefines ==
    ASSUME RefInv, SendPacket PROVE [Channel!Next]_(Channel!vars)
<1>1. TypeOK /\ DaemonTypeOK /\ fifo.buf \in Seq(Packet) /\ pend \in Packet
  BY BufHere DEF RefInv, TypeInv, TypeOK, DaemonTypeOK
<1>2. UNCHANGED <<nrep, host, DaemonsSeen>>
  BY SeenAlone DEF SendPacket, unchangedDaemons, daemonVars
<1>3. Offered = Mark(pend) /\ Offered' = 0
  BY DEF SendPacket, Offered
<1>4. CASE fifo' = fifo
  <2>1. Marks(fifo.buf)' = Marks(fifo.buf)
    BY <1>4 DEF Marks
  <2>2. Channel!Withdraw
    BY <1>2, <1>3, <2>1 DEF Channel!Withdraw, Channel!Nothing, DaemonsSeen
  <2> QED
    BY <2>2 DEF Channel!Next
<1>5. CASE fifo' = Put(fifo, pend)
  <2>1. Marks(fifo.buf)' = Append(Marks(fifo.buf), Mark(pend))
    <3>1. fifo'.buf = Append(fifo.buf, pend)
      BY <1>1, <1>5, BufHere
    <3>2. Marks(fifo'.buf) = Append(Marks(fifo.buf), Mark(pend))
      BY <1>1, <3>1, MarksAppend
    <3> QED
      BY <3>2 DEF Marks
  <2>2. CASE IsReport(pend)
    <3>1. Offered # 0
      BY <1>1, <1>3, <2>2 DEF RefInv, ReportIds, Mark, Packet
    <3>2. Channel!Accept
      BY <1>2, <1>3, <2>1, <3>1 DEF Channel!Accept, Channel!Nothing, DaemonsSeen
    <3> QED
      BY <3>2 DEF Channel!Next
  <2>3. CASE ~IsReport(pend)
    <3>1. Offered = 0 /\ Mark(pend) = 0
      BY <1>3, <2>3 DEF Mark
    <3>2. Channel!AcceptStop
      BY <1>2, <1>3, <2>1, <3>1 DEF Channel!AcceptStop, Channel!StopMark, DaemonsSeen
    <3> QED
      BY <3>2 DEF Channel!Next
  <2> QED
    BY <2>2, <2>3
<1> QED
  BY <1>4, <1>5 DEF SendPacket

(* The application lets go of the FIFO, and of what it was writing.        *)
LEMMA LetGoRefines ==
    ASSUME RefInv, Quiet, UNCHANGED <<nrep, host, pc, cur>>, Offered' = 0
    PROVE  [Channel!Next]_(Channel!vars)
<1>1. Marks(fifo.buf)' = Marks(fifo.buf) \/ Marks(fifo.buf)' = <<>>
  BY QuietMarks
<1>2. UNCHANGED DaemonsSeen
  BY SeenAlone
<1>3. Channel!Withdraw
  BY <1>1, <1>2 DEF Channel!Withdraw, Channel!Nothing, DaemonsSeen
<1> QED
  BY <1>3 DEF Channel!Next

LEMMA ClientRefines ==
    ASSUME RefInv, ClientRuns \/ AppDies PROVE [Channel!Next]_(Channel!vars)
<1>1. TypeOK /\ DaemonTypeOK
  BY DEF RefInv, TypeInv, TypeOK
<1>2. CASE \/ CheckServer \/ StartSessionOpen \/ StartSessionOpenReturns
              \/ ReleaseAndKillServer \/ KillServerCatches
  <2>1. fifo'.buf = fifo.buf /\ UNCHANGED <<nrep, host, pc, cur>>
    BY <1>1, <1>2, BufHere DEF CheckServer, StartSessionOpen,
       StartSessionOpenReturns, ReleaseAndKillServer, KillServerCatches,
       unchangedDaemons, daemonVars
  <2>2. Offered' = Offered
    BY <1>2 DEF CheckServer, StartSessionOpen, StartSessionOpenReturns,
       ReleaseAndKillServer, KillServerCatches, Offered
  <2> QED
    BY <2>1, <2>2, SeenAlone, Stutter
<1>3. CASE EndSessionClose \/ AppDies
  <2>1. Quiet /\ UNCHANGED <<nrep, host, pc, cur>> /\ Offered' = 0
    BY <1>1, <1>3, BufHere DEF EndSessionClose, AppDies, Quiet, Offered,
       unchangedDaemons, daemonVars
  <2> QED
    BY <2>1, LetGoRefines
<1> QED
  BY <1>2, <1>3, SendPacketRefines DEF ClientRuns

LEMMA UserRefines ==
    ASSUME RefInv, UserActs PROVE [Channel!Next]_(Channel!vars)
<1>1. TypeOK /\ DaemonTypeOK /\ Bookkeeping
  BY DEF RefInv, TypeInv, TypeOK
<1>2. CASE StartSession
  <2>1. sess + 1 \in Daemons /\ sess \in Nat
    BY <1>1, <1>2, SessionAssumption DEF StartSession, Daemons, TypeOK, DaemonTypeOK, SessionAssumption
  <2>2. pc[sess + 1] = "unborn"
    BY <1>1, <2>1 DEF Bookkeeping
  <2>3. UNCHANGED DaemonsSeen
    BY <1>1, <1>2, <2>1, <2>2, QuietGoto, SeenAlone DEF StartSession, Ending
  <2>4. Offered' = Offered
    BY <1>2 DEF StartSession, Offered
  <2> QED
    BY <1>2, <2>3, <2>4, Stutter DEF StartSession
<1>3. CASE EndSession
  <2>1. Offered' = Offered
    BY <1>3, NotReport DEF EndSession, Offered, Mark
  <2> QED
    BY <1>3, <2>1, Stutter, SeenAlone DEF EndSession, unchangedDaemons, daemonVars
<1>4. ASSUME NEW k \in ReportKinds, Report(k) PROVE [Channel!Next]_(Channel!vars)
  <2>1. Offered = 0
    BY <1>4 DEF Report, Offered
  <2>2. Offered' = nrep + 1
    BY <1>4 DEF Report, Offered, Mark, IsReport
  <2>3. UNCHANGED <<DaemonsSeen, host>> /\ Marks(fifo.buf)' = Marks(fifo.buf)
    BY <1>4, SeenAlone DEF Report, unchangedDaemons, daemonVars, Marks
  <2>4. Channel!Make
    BY <1>4, <2>1, <2>2, <2>3 DEF Channel!Make, Channel!Nothing, DaemonsSeen, Report
  <2> QED
    BY <2>4 DEF Channel!Next
<1> QED
  BY <1>2, <1>3, <1>4 DEF UserActs

LEMMA PkillRefines ==
    ASSUME RefInv, Pkill PROVE [Channel!Next]_(Channel!vars)
<1> DEFINE S == {d \in Daemons : pc[d] \in Killable}
<1>1. pc \in [Daemons -> PCs]
  BY DEF RefInv, TypeInv, TypeOK, DaemonTypeOK
<1>2. Ended' = Ended \cup S
  BY <1>1 DEF Pkill, Ended, Ending, Killable, PCs
<1>3. InFlight' = [c \in Daemons |-> IF c \in S THEN 0 ELSE InFlight[c]]
  BY <1>1 DEF Pkill, InFlight, Killable, PCs
<1>4. Offered' = Offered /\ Marks(fifo.buf)' = Marks(fifo.buf) /\ UNCHANGED <<nrep, host>>
  BY DEF Pkill, Offered, Marks
<1>5. Channel!Stop(S)
  <2>1. TypeOK /\ DaemonTypeOK
    BY DEF RefInv, TypeInv, TypeOK
  <2> QED
    BY <1>2, <1>3, <1>4, <2>1, WholeOrNone DEF Channel!Stop, Channel!Nothing
<1>6. S \in SUBSET Daemons
  OBVIOUS
<1> QED
  BY <1>5, <1>6 DEF Channel!Next

-----------------------------------------------------------------------------
(* The steps of the daemons and of the host.                               *)
LEMMA OfferedAlone == ASSUME UNCHANGED clientVars PROVE Offered' = Offered
BY DEF clientVars, Offered

LEMMA ReadRefines ==
    ASSUME RefInv, NEW d \in Daemons, ReadPacket(d), UNCHANGED clientVars
    PROVE  [Channel!Next]_(Channel!vars)
<1> DEFINE p == Head(fifo.buf)
<1>1. TypeOK /\ DaemonTypeOK /\ pc \in [Daemons -> PCs] /\ cur \in [Daemons -> Packet]
      /\ fifo.buf \in Seq(Packet) /\ pc[d] = "read"
  BY BufHere DEF RefInv, TypeInv, TypeOK, DaemonTypeOK, ReadPacket
<1>2. fifo.buf # <<>> /\ fifo'.buf = Tail(fifo.buf)
  BY <1>1, BufHere DEF ReadPacket, Readable
<1>3. /\ Marks(fifo.buf) # <<>> /\ Head(Marks(fifo.buf)) = Mark(p)
      /\ Marks(fifo.buf)' = Tail(Marks(fifo.buf))
  <2>1. Marks(fifo'.buf) = Tail(Marks(fifo.buf))
    BY <1>1, <1>2, MarksTail
  <2> QED
    BY <1>1, <1>2, <2>1, MarksTail DEF Marks
<1>4. UNCHANGED <<nrep, host>> /\ Offered' = Offered /\ cur' = [cur EXCEPT ![d] = p]
  BY OfferedAlone DEF ReadPacket, clientVars
<1>5. d \notin Ended /\ InFlight[d] = 0
  BY <1>1 DEF Ended, Ending, InFlight
<1>6. CASE IsReport(p)
  <2>1. \A e \in Daemons : pc'[e] = IF e = d THEN "send" ELSE pc[e]
    BY <1>1, <1>6 DEF ReadPacket, Goto
  <2>2. Ended' = Ended
    BY <1>1, <2>1 DEF Ended, Ending
  <2>3. InFlight' = [InFlight EXCEPT ![d] = Mark(p)]
    BY <1>1, <1>4, <1>6, <2>1 DEF InFlight, Mark
  <2>4. Mark(p) # 0
    <3>1. p = fifo.buf[1] /\ 1 \in DOMAIN fifo.buf
      BY <1>1, <1>2
    <3> QED
      BY <1>1, <1>6, <3>1 DEF Mark, RefInv, ReportIds
  <2>5. Channel!Take(d)
    BY <1>3, <1>4, <1>5, <2>2, <2>3, <2>4
       DEF Channel!Take, Channel!Nothing, Channel!StopMark
  <2> QED
    BY <2>5 DEF Channel!Next
<1>7. CASE ~IsReport(p)
  <2>1. \A e \in Daemons : pc'[e] = IF e = d THEN "exit" ELSE pc[e]
    BY <1>1, <1>7 DEF ReadPacket, Goto
  <2>2. Ended' = Ended \cup {d}
    BY <1>1, <2>1 DEF Ended, Ending
  <2>3. InFlight' = InFlight
    BY <1>1, <1>4, <2>1 DEF InFlight
  <2>4. Mark(p) = 0
    BY <1>7 DEF Mark
  <2>5. Channel!TakeStop(d)
    BY <1>3, <1>4, <1>5, <2>2, <2>3, <2>4
       DEF Channel!TakeStop, Channel!Nothing, Channel!StopMark
  <2> QED
    BY <2>5 DEF Channel!Next
<1> QED
  BY <1>6, <1>7

LEMMA SendRefines ==
    ASSUME RefInv, NEW d \in Daemons, DaemonSends(d)
    PROVE  [Channel!Next]_(Channel!vars)
<1>1. pc \in [Daemons -> PCs] /\ pc[d] = "send" /\ cur[d].id > 0 /\ cur[d].id \in Nat
  BY DEF RefInv, TypeInv, TypeOK, DaemonTypeOK, ReportIds, DaemonSends, SendReport, Packet
<1>2. \E l \in {"read", "poll"} : Goto(d, l)
  BY DEF DaemonSends, SendReport
<1>3. PICK l \in {"read", "poll"} : \A e \in Daemons : pc'[e] = IF e = d THEN l ELSE pc[e]
  BY <1>1, <1>2 DEF Goto
<1>4. Ended' = Ended
  BY <1>1, <1>3 DEF Ended, Ending
<1>5. InFlight' = [InFlight EXCEPT ![d] = 0]
  BY <1>1, <1>3 DEF InFlight, DaemonSends, SendReport
<1>6. InFlight[d] = cur[d].id /\ InFlight[d] # 0
  BY <1>1 DEF InFlight
<1>7. Offered' = Offered /\ Marks(fifo.buf)' = Marks(fifo.buf) /\ nrep' = nrep
  BY OfferedAlone DEF DaemonSends, SendReport, clientVars, Marks
<1>8. CASE host' = Append(host, [daemon |-> d, id |-> cur[d].id])
  <2>1. Channel!PassOn(d)
    BY <1>4, <1>5, <1>6, <1>7, <1>8
       DEF Channel!PassOn, Channel!Nothing, DaemonSends, SendReport
  <2> QED
    BY <2>1 DEF Channel!Next
<1>9. CASE UNCHANGED host
  <2>1. Channel!Lose(d)
    BY <1>4, <1>5, <1>6, <1>7, <1>9
       DEF Channel!Lose, Channel!Nothing, DaemonSends, SendReport
  <2> QED
    BY <2>1 DEF Channel!Next
<1> QED
  BY <1>8, <1>9 DEF DaemonSends, SendReport

LEMMA DaemonRefines ==
    ASSUME RefInv, NEW d \in Daemons, DaemonRuns(d), ~ReadPacket(d)
    PROVE  [Channel!Next]_(Channel!vars)
<1>1. TypeOK /\ DaemonTypeOK /\ UNCHANGED clientVars /\ Offered' = Offered
  BY OfferedAlone DEF RefInv, TypeInv, TypeOK, DaemonRuns
<1>2. /\ Quiet /\ UNCHANGED <<cur, host>> /\ pc[d] # "send"
      /\ \E l \in PCs \ {"send"} : Goto(d, l) /\ (pc[d] \in Ending => l \in Ending)
      /\ fifo'.buf # fifo.buf => pc'[d] \in Ending
  BY <1>1, QuietDaemon DEF DaemonRuns
<1>3. PICK l \in PCs \ {"send"} : Goto(d, l) /\ (pc[d] \in Ending => l \in Ending)
  BY <1>2
<1>4. pc'[d] = l
  BY <1>1, <1>3 DEF Goto, TypeOK, DaemonTypeOK
<1>5. CASE l \in Ending
  <2>1. /\ Ended' = Ended \cup {d}
        /\ InFlight' = [c \in Daemons |-> IF c \in {d} THEN 0 ELSE InFlight[c]]
    BY <1>1, <1>2, <1>3, <1>5, StopGoto
  <2>2. Marks(fifo.buf)' = Marks(fifo.buf) \/ Marks(fifo.buf)' = <<>>
    BY <1>2, QuietMarks
  <2>3. Channel!Stop({d})
    BY <1>1, <1>2, <2>1, <2>2, WholeOrNone
       DEF Channel!Stop, Channel!Nothing, clientVars
  <2>4. {d} \in SUBSET Daemons
    OBVIOUS
  <2> QED
    BY <2>3, <2>4 DEF Channel!Next
<1>6. CASE l \notin Ending
  <2>1. UNCHANGED DaemonsSeen
    BY <1>1, <1>2, <1>3, <1>6, QuietGoto
  <2>2. fifo'.buf = fifo.buf
    BY <1>2, <1>4, <1>6
  <2> QED
    BY <1>1, <1>2, <2>1, <2>2, Stutter DEF clientVars
<1> QED
  BY <1>5, <1>6

LEMMA HostRefines ==
    ASSUME NEW d \in Daemons, NEW c \in Channels, HostActs(d, c)
    PROVE  [Channel!Next]_(Channel!vars)
BY OfferedAlone, SeenAlone, Stutter DEF HostActs, HostSends, HostDisconnects, clientVars

-----------------------------------------------------------------------------
LEMMA InitRefines == Init => Channel!Init
<1> SUFFICES ASSUME Init PROVE Channel!Init
  OBVIOUS
<1>1. Marks(fifo.buf) = <<>>
  BY MarksEmpty DEF Init, AbsentFifo
<1>2. Offered = 0 /\ InFlight = [d \in Daemons |-> 0] /\ Ended = {}
  BY DEF Init, DaemonInit, ClientInit, Offered, InFlight, Ended, Ending
<1> QED
  BY <1>1, <1>2 DEF Init, DaemonInit, ClientInit, Channel!Init, Channel!Nothing

LEMMA NextRefines == RefInv /\ [Next]_vars => [Channel!Next]_(Channel!vars)
<1> SUFFICES ASSUME RefInv, [Next]_vars PROVE [Channel!Next]_(Channel!vars)
  OBVIOUS
<1>1. ASSUME NEW d \in Daemons, DaemonRuns(d) PROVE [Channel!Next]_(Channel!vars)
  BY <1>1, ReadRefines, DaemonRefines DEF DaemonRuns
<1>2. CASE UNCHANGED vars
  BY <1>2, Stutter, SeenAlone, OfferedAlone DEF vars, daemonVars, clientVars
<1> QED
  BY <1>1, <1>2, ClientRefines, UserRefines, PkillRefines, SendRefines, HostRefines
     DEF Next

(* The application, the FIFO, the daemons and the host together implement  *)
(* the channel of ReportChannel: a report is queued once, taken by one     *)
(* daemon, and passed on or lost.                                          *)
THEOREM Refinement == Spec => ImplementsChannel
BY InitRefines, NextRefines, RefInvariance, PTL
   DEF Spec, ImplementsChannel, Channel!Spec

(* The theorems about the channel speak of the same channel.               *)
LEMMA SameChannel ==
    /\ Channel!Init <=> ChannelTheorems!Init
    /\ [Channel!Next]_(Channel!vars) <=> [ChannelTheorems!Next]_(ChannelTheorems!vars)
BY DEF Channel!Init, ChannelTheorems!Init, Channel!Next, ChannelTheorems!Next,
   Channel!vars, ChannelTheorems!vars, Channel!Make, ChannelTheorems!Make,
   Channel!Accept, ChannelTheorems!Accept, Channel!AcceptStop,
   ChannelTheorems!AcceptStop, Channel!Withdraw, ChannelTheorems!Withdraw,
   Channel!Take, ChannelTheorems!Take, Channel!TakeStop, ChannelTheorems!TakeStop,
   Channel!PassOn, ChannelTheorems!PassOn, Channel!Lose, ChannelTheorems!Lose,
   Channel!Stop, ChannelTheorems!Stop, Channel!Nothing, ChannelTheorems!Nothing,
   Channel!StopMark, ChannelTheorems!StopMark

LEMMA ChannelSafety == Spec => [](ChannelTheorems!AtMostOnce /\ ChannelTheorems!InOrder)
<1>1. ChannelTheorems!Spec => [](ChannelTheorems!AtMostOnce /\ ChannelTheorems!InOrder)
  BY ChannelTheorems!Safety
<1> QED
  BY <1>1, InitRefines, NextRefines, RefInvariance, SameChannel, PTL
     DEF Spec, ChannelTheorems!Spec

(* No report reaches the host twice, whichever daemons read the FIFO.      *)
THEOREM NoDuplicates == Spec => []AtMostOnce
<1>1. ChannelTheorems!AtMostOnce => AtMostOnce
  BY DEF ChannelTheorems!AtMostOnce, AtMostOnce
<1> QED
  BY <1>1, ChannelSafety, PTL

(* What one daemon sends is in the order in which it was reported.         *)
THEOREM OrderKept == Spec => []InOrder
<1>1. ChannelTheorems!InOrder => InOrder
  BY DEF ChannelTheorems!InOrder, InOrder
<1> QED
  BY <1>1, ChannelSafety, PTL

(* Both: what process_multi_bin sends is what the application reported,    *)
(* less what was lost, for any number of sessions and daemons.             *)
THEOREM OnceInOrder == Spec => []DeliveredOnceInOrder
<1>1. AtMostOnce /\ InOrder => DeliveredOnceInOrder
  BY DEF DeliveredOnceInOrder
<1> QED
  BY <1>1, NoDuplicates, OrderKept, PTL
-----------------------------------------------------------------------------
(* The SHUTDOWN packet.                                                    *)

(* The session that was started last is still going on.                    *)
Active == {"check", "open", "opening", "run", "write"}

(* n is the session of a SHUTDOWN packet.                                  *)
Over(n) == n <= sess /\ (ui \in Active => n < sess)

ShutInv ==
    /\ ui = "write" => pend.sess = sess
    /\ \A i \in DOMAIN fifo.buf :
          /\ fifo.buf[i].sess <= sess
          /\ ~IsReport(fifo.buf[i]) => Over(fifo.buf[i].sess)
    /\ \A i, j \in DOMAIN fifo.buf :
          i < j /\ ~IsReport(fifo.buf[i]) => fifo.buf[i].sess < fifo.buf[j].sess
    /\ \A d \in Daemons : ~IsReport(cur[d]) => Over(cur[d].sess)
    /\ ShutdownIsLast

ShutdownInv == TypeInv /\ ShutInv

-----------------------------------------------------------------------------
LEMMA InitShut == Init => ShutInv
BY DEF Init, DaemonInit, ClientInit, AbsentFifo, ShutInv, ShutdownIsLast, Over,
       Active, Shutdown

LEMMA Sessions ==
    ASSUME DaemonTypeOK PROVE \A i \in DOMAIN fifo.buf : fifo.buf[i].sess \in Nat
<1>1. fifo.buf \in Seq(Packet)
  BY BufHere
<1>2. \A i \in DOMAIN fifo.buf : fifo.buf[i] \in Packet
  BY <1>1
<1> QED
  BY <1>2 DEF Packet

(* Steps that neither write, nor read a packet, nor start a session.       *)
LEMMA FrameShut ==
    ASSUME ShutdownInv, Quiet, UNCHANGED <<cur, sess>>,
           ui' \in Active => ui \in Active,
           ui' = "write" => pend'.sess = sess
    PROVE  ShutInv'
BY DEF ShutdownInv, ShutInv, ShutdownIsLast, Over, Quiet

LEMMA SendPacketShut == ASSUME ShutdownInv, SendPacket PROVE ShutInv'
<1>1. TypeOK /\ DaemonTypeOK /\ fifo.buf \in Seq(Packet) /\ pend \in Packet /\ cur \in [Daemons -> Packet]
      /\ sess \in Nat
  BY BufHere DEF ShutdownInv, TypeInv, TypeOK, DaemonTypeOK
<1>2. UNCHANGED <<cur, pend, sess>> /\ ui = "write" /\ pend.sess = sess
      /\ ui' = IF IsReport(pend) THEN "run" ELSE "close"
  BY DEF SendPacket, unchangedDaemons, daemonVars, ShutdownInv, ShutInv
<1>3. CASE fifo' = fifo
  BY <1>2, <1>3, FrameShut DEF Quiet, Active
<1>4. CASE fifo' = Put(fifo, pend)
  <2> DEFINE b == Append(fifo.buf, pend)
  <2>1. fifo'.buf = b
    BY <1>1, <1>4, BufHere
  <2>2. \A i \in DOMAIN b :
           \/ i \in DOMAIN fifo.buf /\ b[i] = fifo.buf[i] /\ b[i] \in Packet
           \/ i = Len(fifo.buf) + 1 /\ b[i] = pend
    BY <1>1
  <2>3. DOMAIN fifo.buf = 1 .. Len(fifo.buf) /\ Len(fifo.buf) \in Nat
        /\ DOMAIN b = 1 .. Len(fifo.buf) + 1
    BY <1>1
  <2> HIDE DEF b
  <2>4. \A i \in DOMAIN fifo.buf :
           fifo.buf[i].sess <= sess
           /\ (~IsReport(fifo.buf[i]) => fifo.buf[i].sess < sess)
    BY <1>2 DEF ShutdownInv, ShutInv, Over, Active
  <2>5. \A d \in Daemons : ~IsReport(cur[d]) => cur[d].sess < sess
    BY <1>2 DEF ShutdownInv, ShutInv, Over, Active
  <2>6. \A i \in DOMAIN b :
           /\ b[i].sess <= sess
           /\ ~IsReport(b[i]) => (ui' \in Active => b[i].sess < sess)
    <3>1. \A i \in DOMAIN b : b[i].sess <= sess
      BY <1>1, <1>2, <2>2, <2>4
    <3>2. ~IsReport(pend) => ui' \notin Active
      BY <1>2 DEF Active
    <3> QED
      BY <1>2, <2>2, <2>4, <3>1, <3>2
  <2>7. \A i, j \in DOMAIN b : i < j /\ ~IsReport(b[i]) => b[i].sess < b[j].sess
    BY <1>2, <2>2, <2>3, <2>4 DEF ShutdownInv, ShutInv
  <2>8. \A d \in Daemons : ~IsReport(cur[d]) => \A i \in DOMAIN b : b[i].sess > cur[d].sess
    BY <1>1, <1>2, <2>2, <2>5 DEF ShutdownInv, ShutInv, ShutdownIsLast, Packet
  <2>9. \A d \in Daemons : ~IsReport(cur[d]) => Over(cur[d].sess)'
    BY <1>1, <1>2, <2>5 DEF Over, Packet
  <2>10. ui' # "write"
    BY <1>2
  <2> QED
    BY <1>2, <2>1, <2>6, <2>7, <2>8, <2>9, <2>10 DEF ShutInv, ShutdownIsLast, Over
<1> QED
  BY <1>3, <1>4 DEF SendPacket

LEMMA UserShut == ASSUME ShutdownInv, UserActs PROVE ShutInv'
<1>1. TypeOK /\ DaemonTypeOK /\ fifo.buf \in Seq(Packet) /\ cur \in [Daemons -> Packet] /\ sess \in Nat
  BY BufHere DEF ShutdownInv, TypeInv, TypeOK, DaemonTypeOK
<1>2. CASE StartSession
  <2>1. fifo' = fifo /\ cur' = cur /\ sess' = sess + 1 /\ ui' # "write"
    BY <1>2 DEF StartSession
  <2>2. \A i \in DOMAIN fifo.buf : fifo.buf[i].sess \in Nat
    BY <1>1, Sessions
  <2>3. \A d \in Daemons : cur[d].sess \in Nat
    BY <1>1 DEF Packet
  <2> QED
    BY <1>1, <2>1, <2>2, <2>3 DEF ShutdownInv, ShutInv, ShutdownIsLast, Over
<1>3. CASE EndSession
  <2>1. Quiet /\ UNCHANGED <<cur, sess>> /\ ui \in Active /\ pend'.sess = sess
    BY <1>3 DEF EndSession, Quiet, unchangedDaemons, daemonVars, Active, Shutdown
  <2> QED
    BY <2>1, FrameShut
<1>4. ASSUME NEW k \in ReportKinds, Report(k) PROVE ShutInv'
  <2>1. Quiet /\ UNCHANGED <<cur, sess>> /\ ui \in Active /\ pend'.sess = sess
    BY <1>4 DEF Report, Quiet, unchangedDaemons, daemonVars, Active
  <2> QED
    BY <2>1, FrameShut
<1> QED
  BY <1>2, <1>3, <1>4 DEF UserActs

LEMMA ClientShut == ASSUME ShutdownInv, ClientRuns \/ AppDies \/ Pkill PROVE ShutInv'
<1>1. TypeOK /\ DaemonTypeOK
  BY DEF ShutdownInv, TypeInv, TypeOK
<1>2. CASE CheckServer \/ StartSessionOpen \/ StartSessionOpenReturns
  <2>1. Quiet /\ UNCHANGED <<cur, sess>> /\ ui \in Active /\ ui' # "write"
    BY <1>1, <1>2, BufHere DEF CheckServer, StartSessionOpen,
       StartSessionOpenReturns, Quiet, Active, unchangedDaemons, daemonVars
  <2> QED
    BY <2>1, FrameShut
<1>3. CASE EndSessionClose \/ ReleaseAndKillServer \/ KillServerCatches \/ AppDies
  <2>1. Quiet /\ UNCHANGED <<cur, sess>> /\ ui' \notin Active
    BY <1>1, <1>3, BufHere DEF EndSessionClose, ReleaseAndKillServer, KillServerCatches, AppDies,
       Quiet, Active, unchangedDaemons, daemonVars
  <2> QED
    BY <2>1, FrameShut DEF Active
<1>4. CASE Pkill
  BY <1>4, FrameShut DEF Pkill, Quiet, ShutdownInv, ShutInv
<1> QED
  BY <1>2, <1>3, <1>4, SendPacketShut DEF ClientRuns

LEMMA ReadShut ==
    ASSUME ShutdownInv, NEW d \in Daemons, ReadPacket(d), UNCHANGED clientVars
    PROVE  ShutInv'
<1> DEFINE b == fifo.buf
           t == Tail(b)
<1>1. TypeOK /\ DaemonTypeOK /\ b \in Seq(Packet) /\ cur \in [Daemons -> Packet]
  BY BufHere DEF ShutdownInv, TypeInv, TypeOK, DaemonTypeOK
<1>2. b # <<>> /\ fifo'.buf = t
  BY <1>1, BufHere DEF ReadPacket, Readable
<1>3. Head(b) = b[1] /\ 1 \in DOMAIN b
  BY <1>1, <1>2
<1>4. \A i \in DOMAIN t : i \in Nat /\ i + 1 \in DOMAIN b /\ t[i] = b[i + 1] /\ 1 < i + 1
  BY <1>1, <1>2
<1>5. cur' = [cur EXCEPT ![d] = b[1]] /\ UNCHANGED <<ui, pend, sess>>
  BY <1>3 DEF ReadPacket, clientVars
<1>6. \A i \in DOMAIN b : b[i].sess \in Nat
  BY <1>1, Sessions
<1> HIDE DEF t
<1>7. /\ \A i \in DOMAIN t : t[i].sess <= sess /\ (~IsReport(t[i]) => Over(t[i].sess))
      /\ \A i, j \in DOMAIN t : i < j /\ ~IsReport(t[i]) => t[i].sess < t[j].sess
  BY <1>4 DEF ShutdownInv, ShutInv
<1>8. \A e \in Daemons : ~IsReport(cur'[e]) =>
         Over(cur'[e].sess) /\ \A i \in DOMAIN t : t[i].sess > cur'[e].sess
  <2> SUFFICES ASSUME NEW e \in Daemons, ~IsReport(cur'[e])
               PROVE  Over(cur'[e].sess) /\ \A i \in DOMAIN t : t[i].sess > cur'[e].sess
    OBVIOUS
  <2>1. CASE e = d
    <3>1. cur'[e] = b[1]
      BY <1>1, <1>5, <2>1
    <3> QED
      BY <1>3, <1>4, <1>6, <3>1 DEF ShutdownInv, ShutInv
  <2>2. CASE e # d
    <3>1. cur'[e] = cur[e]
      BY <1>1, <1>5, <2>2
    <3> QED
      BY <1>4, <3>1 DEF ShutdownInv, ShutInv, ShutdownIsLast
  <2> QED
    BY <2>1, <2>2
<1> QED
  BY <1>2, <1>5, <1>7, <1>8 DEF ShutdownInv, ShutInv, ShutdownIsLast, Over

LEMMA NextShut == ShutdownInv /\ [Next]_vars => ShutInv'
<1> SUFFICES ASSUME ShutdownInv, [Next]_vars PROVE ShutInv'
  OBVIOUS
<1>1. TypeOK /\ DaemonTypeOK
  BY DEF ShutdownInv, TypeInv, TypeOK
<1>2. ASSUME Quiet, UNCHANGED <<cur, clientVars>> PROVE ShutInv'
  BY <1>2, FrameShut DEF clientVars, ShutdownInv, ShutInv
<1>3. ASSUME NEW d \in Daemons, DaemonRuns(d) PROVE ShutInv'
  <2>1. UNCHANGED clientVars
    BY <1>3 DEF DaemonRuns
  <2> QED
    BY <1>1, <1>2, <1>3, <2>1, ReadShut, QuietDaemon DEF DaemonRuns
<1>4. ASSUME NEW d \in Daemons, DaemonSends(d) PROVE ShutInv'
  BY <1>2, <1>4 DEF DaemonSends, SendReport, Quiet
<1>5. ASSUME NEW d \in Daemons, NEW c \in Channels, HostActs(d, c) PROVE ShutInv'
  BY <1>2, <1>5 DEF HostActs, HostSends, HostDisconnects, Quiet
<1>6. CASE UNCHANGED vars
  BY <1>2, <1>6 DEF vars, daemonVars, Quiet
<1> QED
  BY <1>3, <1>4, <1>5, <1>6, ClientShut, UserShut DEF Next

(* When a daemon has read the SHUTDOWN packet of a session, what is left   *)
(* in the FIFO belongs to later sessions.                                  *)
THEOREM ShutdownLast == Spec => []ShutdownIsLast
<1>1. Init => ShutdownInv
  BY InitType, InitShut DEF ShutdownInv
<1>2. ShutdownInv /\ [Next]_vars => ShutdownInv'
  BY NextType, NextShut DEF ShutdownInv
<1>3. ShutdownInv => ShutdownIsLast
  BY DEF ShutdownInv, ShutInv
<1> QED
  BY <1>1, <1>2, <1>3, PTL DEF Spec

-----------------------------------------------------------------------------
(* Requests of the host and their answers                                  *)
Refusals(s) == {i \in DOMAIN s : s[i] = "refuse"}

LEMMA RefusalsFinite ==
    ASSUME NEW s \in Seq(HostPacket)
    PROVE  IsFiniteSet(Refusals(s)) /\ Cardinality(Refusals(s)) \in Nat
<1>1. DOMAIN s = 1 .. Len(s) /\ Len(s) \in Nat
  OBVIOUS
<1>2. IsFiniteSet(1 .. Len(s))
  BY <1>1, FS_Interval
<1>3. Refusals(s) \in SUBSET (1 .. Len(s))
  BY <1>1 DEF Refusals
<1> QED
  BY <1>2, <1>3, FS_Subset, FS_CardinalityType

LEMMA RefusalsNone == Cardinality(Refusals(<<>>)) = 0
<1>1. Refusals(<<>>) = {}
  BY DEF Refusals
<1> QED
  BY <1>1, FS_EmptySet

LEMMA RefusalsAppend ==
    ASSUME NEW s \in Seq(HostPacket), NEW p \in HostPacket
    PROVE  Cardinality(Refusals(Append(s, p)))
               = IF p = "refuse" THEN Cardinality(Refusals(s)) + 1 ELSE Cardinality(Refusals(s))
<1> DEFINE n == Len(s) + 1
<1>1. /\ DOMAIN s = 1 .. Len(s) /\ Len(s) \in Nat /\ DOMAIN Append(s, p) = 1 .. n
      /\ \A i \in 1 .. Len(s) : Append(s, p)[i] = s[i]
      /\ Append(s, p)[n] = p
  OBVIOUS
<1>2. n \notin Refusals(s)
  BY <1>1 DEF Refusals
<1>3. Refusals(Append(s, p)) = Refusals(s) \cup (IF p = "refuse" THEN {n} ELSE {})
  BY <1>1 DEF Refusals
<1>4. CASE p = "refuse"
  <2>1. Refusals(Append(s, p)) = Refusals(s) \cup {n}
    BY <1>3, <1>4
  <2>2. Cardinality(Refusals(s) \cup {n}) = Cardinality(Refusals(s)) + 1
    BY <1>2, RefusalsFinite, FS_AddElement
  <2> QED
    BY <1>4, <2>1, <2>2
<1>5. CASE p # "refuse"
  BY <1>3, <1>5
<1> QED
  BY <1>4, <1>5

LEMMA RefusalsTail ==
    ASSUME NEW s \in Seq(HostPacket), s # <<>>
    PROVE  Cardinality(Refusals(s))
               = IF Head(s) = "refuse" THEN Cardinality(Refusals(Tail(s))) + 1
                 ELSE Cardinality(Refusals(Tail(s)))
<1> DEFINE S == Refusals(Tail(s))
           T == Refusals(s) \ {1}
           F == [i \in S |-> i + 1]
<1>1. /\ DOMAIN s = 1 .. Len(s) /\ Len(s) \in Nat \ {0} /\ Head(s) = s[1]
      /\ Tail(s) \in Seq(HostPacket) /\ DOMAIN Tail(s) = 1 .. (Len(s) - 1)
      /\ \A i \in 1 .. (Len(s) - 1) : Tail(s)[i] = s[i + 1]
  OBVIOUS
<1>2. F \in Bijection(S, T)
  <2>1. F \in [S -> T]
    BY <1>1 DEF Refusals
  <2>2. \A i, j \in S : F[i] = F[j] => i = j
    BY <1>1 DEF Refusals
  <2>3. \A j \in T : \E i \in S : F[i] = j
    <3> TAKE j \in T
    <3>1. j - 1 \in S
      BY <1>1 DEF Refusals
    <3>2. F[j - 1] = j
      BY <1>1, <3>1 DEF Refusals
    <3> QED
      BY <3>1, <3>2
  <2> QED
    BY <2>1, <2>2, <2>3, Fun_IsBij
<1>3. IsFiniteSet(S) /\ IsFiniteSet(Refusals(s)) /\ Cardinality(Refusals(s)) \in Nat
  BY <1>1, RefusalsFinite
<1>4. Cardinality(T) = Cardinality(S)
  BY <1>2, <1>3, FS_Bijection DEF ExistsBijection
<1>5. 1 \in Refusals(s) <=> Head(s) = "refuse"
  BY <1>1 DEF Refusals
<1>6. Cardinality(T) = IF 1 \in Refusals(s) THEN Cardinality(Refusals(s)) - 1
                       ELSE Cardinality(Refusals(s))
  BY <1>3, FS_RemoveElement
<1> HIDE DEF S, T
<1>7. QED
  BY <1>3, <1>4, <1>5, <1>6 DEF S

Answered(d, c) == handshakes[d][c] + Cardinality(Refusals(inq[d][c])) <= asked[d][c]

AnsweredInv == \A d \in Daemons, c \in Channels : Answered(d, c)

LEMMA InitRef == Init => AnsweredInv
BY RefusalsNone DEF Init, DaemonInit, AnsweredInv, Answered

(* Steps that leave the packets of the host alone.                         *)
LEMMA FrameRef == ASSUME AnsweredInv, UNCHANGED <<inq, asked, handshakes>> PROVE AnsweredInv'
BY DEF AnsweredInv, Answered

LEMMA MainRef ==
    ASSUME AnsweredInv, NEW d \in Daemons,
           \/ Start(d) \/ OpenFifo(d) \/ OpenFifoReturns(d) \/ InitConn(d) \/ Connect(d)
           \/ Poll(d) \/ ProcessSrc(d) \/ ReadPacket(d) \/ ReadEof(d) \/ SendReport(d)
           \/ CloseInt(d) \/ CloseCnt(d) \/ KilledCloseCnt(d) \/ KilledCloseInt(d)
    PROVE  AnsweredInv'
<1>1. UNCHANGED <<inq, asked, handshakes>>
  BY DEF Start, OpenFifo, OpenFifoReturns, InitConn, Connect, Poll, ProcessSrc, ReadPacket,
         ReadEof, SendReport, CloseInt, CloseCnt, KilledCloseCnt, KilledCloseInt
<1> QED
  BY <1>1, FrameRef

LEMMA SkRef ==
    ASSUME ShutdownInv, AnsweredInv, NEW d \in Daemons, NEW c \in Channels, ProcessSk(d, c)
    PROVE  AnsweredInv'
<1>1. /\ inq \in [Daemons -> [Channels -> Seq(HostPacket)]]
      /\ handshakes \in [Daemons -> [Channels -> Nat]] /\ asked \in [Daemons -> [Channels -> Nat]]
  BY DEF ShutdownInv, TypeInv, TypeOK, DaemonTypeOK
<1>2. asked' = asked
  BY DEF ProcessSk
<1>3. CASE inq[d][c] = <<>>
  BY <1>2, <1>3, FrameRef DEF ProcessSk
<1>4. CASE inq[d][c] # <<>>
  <2> DEFINE s == inq[d][c]
  <2>1. s \in Seq(HostPacket) /\ Tail(s) \in Seq(HostPacket)
    BY <1>1, <1>4
  <2>2. /\ inq' = [inq EXCEPT ![d][c] = Tail(s)]
        /\ \/ /\ Head(s) = "refuse"
              /\ handshakes' = [handshakes EXCEPT ![d][c] = @ + 1]
           \/ handshakes' = handshakes
    BY <1>4 DEF ProcessSk
  <2>3. /\ inq'[d][c] = Tail(s)
        /\ \/ Head(s) = "refuse" /\ handshakes'[d][c] = handshakes[d][c] + 1
           \/ handshakes'[d][c] = handshakes[d][c]
    BY <1>1, <2>2
  <2>4. \A e \in Daemons, k \in Channels :
            e # d \/ k # c => inq'[e][k] = inq[e][k] /\ handshakes'[e][k] = handshakes[e][k]
    BY <1>1, <2>2
  <2>5. Answered(d, c)'
    <3>1. /\ Cardinality(Refusals(s)) = IF Head(s) = "refuse" THEN Cardinality(Refusals(Tail(s))) + 1
                                        ELSE Cardinality(Refusals(Tail(s)))
          /\ Cardinality(Refusals(Tail(s))) \in Nat
          /\ handshakes[d][c] \in Nat /\ asked[d][c] \in Nat /\ asked'[d][c] = asked[d][c]
      BY <1>1, <1>2, <1>4, <2>1, RefusalsTail, RefusalsFinite
    <3>2. Answered(d, c)
      BY DEF AnsweredInv
    <3> QED
      BY <2>3, <3>1, <3>2 DEF Answered
  <2>6. ASSUME NEW e \in Daemons, NEW k \in Channels, e # d \/ k # c PROVE Answered(e, k)'
    BY <1>2, <2>4, <2>6 DEF AnsweredInv, Answered
  <2> QED
    BY <2>5, <2>6 DEF AnsweredInv
<1> QED
  BY <1>3, <1>4

LEMMA HostRef ==
    ASSUME ShutdownInv, AnsweredInv, NEW d \in Daemons, NEW c \in Channels, HostActs(d, c)
    PROVE  AnsweredInv'
<1>1. /\ inq \in [Daemons -> [Channels -> Seq(HostPacket)]]
      /\ handshakes \in [Daemons -> [Channels -> Nat]] /\ asked \in [Daemons -> [Channels -> Nat]]
  BY DEF ShutdownInv, TypeInv, TypeOK, DaemonTypeOK
<1>2. handshakes' = handshakes
  BY DEF HostActs, HostSends, HostDisconnects
<1>3. CASE HostDisconnects(d, c)
  BY <1>3, FrameRef DEF HostDisconnects
<1>4. ASSUME NEW p \in HostPacket, HostSends(d, c, p) PROVE AnsweredInv'
  <2> DEFINE s == inq[d][c]
  <2>1. /\ inq' = [inq EXCEPT ![d][c] = Append(s, p)]
        /\ asked' = [asked EXCEPT ![d][c] = IF p = "refuse" THEN @ + 1 ELSE @]
    BY <1>4 DEF HostSends
  <2>2. /\ inq'[d][c] = Append(s, p)
        /\ asked'[d][c] = IF p = "refuse" THEN asked[d][c] + 1 ELSE asked[d][c]
    BY <1>1, <2>1
  <2>3. \A e \in Daemons, k \in Channels :
            e # d \/ k # c => inq'[e][k] = inq[e][k] /\ asked'[e][k] = asked[e][k]
    BY <1>1, <2>1
  <2>4. Answered(d, c) => Answered(d, c)'
    <3>1. /\ Cardinality(Refusals(Append(s, p)))
                 = IF p = "refuse" THEN Cardinality(Refusals(s)) + 1 ELSE Cardinality(Refusals(s))
          /\ Cardinality(Refusals(s)) \in Nat
          /\ handshakes[d][c] \in Nat /\ asked[d][c] \in Nat /\ handshakes' = handshakes
      BY <1>1, <1>2, RefusalsAppend, RefusalsFinite
    <3> QED
      BY <2>2, <3>1 DEF Answered
  <2> QED
    BY <1>2, <2>1, <2>3, <2>4 DEF AnsweredInv, Answered
<1> QED
  BY <1>3, <1>4 DEF HostActs

LEMMA NextRef == ShutdownInv /\ AnsweredInv /\ [Next]_vars => AnsweredInv'
<1> SUFFICES ASSUME ShutdownInv, AnsweredInv, [Next]_vars PROVE AnsweredInv'
  OBVIOUS
<1>1. CASE ClientRuns \/ UserActs \/ Pkill \/ AppDies
  <2>1. UNCHANGED <<inq, asked, handshakes>>
    BY <1>1 DEF ClientRuns, CheckServer, StartSessionOpen, StartSessionOpenReturns, SendPacket,
       EndSessionClose, ReleaseAndKillServer, KillServerCatches, UserActs, StartSession,
       EndSession, Report, Pkill, AppDies, unchangedDaemons, daemonVars
  <2> QED
    BY <2>1, FrameRef
<1>2. ASSUME NEW d \in Daemons, DaemonRuns(d) \/ DaemonSends(d) PROVE AnsweredInv'
  BY <1>2, MainRef, SkRef DEF DaemonRuns, DaemonSends
<1>3. ASSUME NEW d \in Daemons, NEW c \in Channels, HostActs(d, c) PROVE AnsweredInv'
  BY <1>3, HostRef
<1>4. CASE UNCHANGED vars
  BY <1>4, FrameRef DEF vars, daemonVars
<1> QED
  BY <1>1, <1>2, <1>3, <1>4 DEF Next

(* process_sk answers each request without a method at most once           *)
(* (HANDSHAKE with EINVAL), on the channel it came on, and after it has    *)
(* read it; packets with a method in between get no answer.                *)
THEOREM AnsweredOnce == Spec => []RefusedOnce
<1>1. Init => ShutdownInv /\ AnsweredInv
  BY InitType, InitShut, InitRef DEF ShutdownInv
<1>2. ShutdownInv /\ AnsweredInv /\ [Next]_vars => (ShutdownInv /\ AnsweredInv)'
  BY NextType, NextShut, NextRef DEF ShutdownInv
<1>3. AnsweredInv => RefusedOnce
  BY DEF AnsweredInv, Answered, Refusals, RefusedOnce
<1> QED
  BY <1>1, <1>2, <1>3, PTL DEF Spec
=============================================================================
