---------------------------- MODULE HidpSession ----------------------------
(***************************************************************************)
(* Sessions of the application with the daemon: the UI thread of the       *)
(* application (SelectBcastType.java, HidpBcaster.java, and below them     *)
(* JNI_hidp.c and hidp_clientdlib.c), composed with the daemons            *)
(* (HidpDaemon) and the FIFO between them (Fifo).                          *)
(*                                                                         *)
(* The activity starts a session in onCreate and ends it in onDestroy, so  *)
(* a rotation of the screen ends one session and starts the next at once,  *)
(* while the processes of the old one are still about.                     *)
(***************************************************************************)
EXTENDS HidpDaemon

CONSTANT AppMayDie      \* Android may end the application process

ASSUME AppMayDieAssumption == AppMayDie \in BOOLEAN

VARIABLES
    ui,         \* where the UI thread is
    fd,         \* the static descriptor of hidp_clientdlib.c
    pend,       \* the packet of the write() in progress
    sess,       \* sessions started
    nrep,       \* reports made: the identity of the last one
    pkills      \* "su -c busybox pkill" commands started and not yet run

clientVars == <<ui, fd, pend, sess, nrep, pkills>>
vars == <<fifo, daemonVars, clientVars>>

(* idle      no session         check    before isServerRunning()          *)
(* open      before open()      opening  in open()                         *)
(* run       in a session       write    in write() of pend                *)
(* close     end_session, before close(fd)                                 *)
(* kill      EndSession, after EndBcast                                    *)
(* threw     in the catch block of KillServer: exec() of su has thrown     *)
UIs == {"idle", "check", "open", "opening", "run", "write", "close", "kill",
        "threw"}

ClientInit ==
    /\ ui = "idle" /\ fd = "none" /\ pend = Shutdown(0)
    /\ sess = 0 /\ nrep = 0 /\ pkills = 0

Init == fifo = AbsentFifo /\ DaemonInit /\ ClientInit

unchangedDaemons == UNCHANGED daemonVars

-----------------------------------------------------------------------------
(* StartSession                                                            *)

(* Fault: the KillServer() call of StartSession is not commented out.      *)
StartSessionKills ==
    /\ ui = "idle" /\ sess < MaxSessions
    /\ sess' = sess + 1 /\ pkills' = pkills + 1
    /\ ui' = "check" /\ Goto(sess + 1, "spawned")
    /\ UNCHANGED <<fifo, sock, inq, todo, cur, host, asked, handshakes,
                   fd, pend, nrep>>

(* onCreate: Runtime.exec() of su, which may throw.  The result of         *)
(* StartSession is not looked at: the activity goes on without a session.  *)
StartSession ==
    /\ ui = "idle" /\ sess < MaxSessions
    /\ sess' = sess + 1
    /\ \/ ui' = "check" /\ Goto(sess + 1, "spawned")
       \/ ui' = "run" /\ UNCHANGED pc
    /\ UNCHANGED <<fifo, sock, inq, todo, cur, host, asked, handshakes,
                   fd, pend, nrep, pkills>>

(* isServerRunning: a server that has ended may not have been reaped yet.  *)
CheckServer ==
    /\ ui = "check"
    /\ \/ ui' = "open"
       \/ pc[sess] = "dead" /\ ui' = "run"
    /\ unchangedDaemons
    /\ UNCHANGED <<fifo, fd, pend, sess, nrep, pkills>>

(* start_session: open() fails at once when no daemon has made the FIFO.   *)
StartSessionOpen ==
    /\ ui = "open"
    /\ IF fifo.made
       THEN fifo' = OpenForWriting(fifo) /\ ui' = "opening" /\ UNCHANGED fd
       ELSE fd' = "none" /\ ui' = "run" /\ UNCHANGED fifo
    /\ unchangedDaemons
    /\ UNCHANGED <<pend, sess, nrep, pkills>>

StartSessionOpenReturns ==
    /\ ui = "opening" /\ ~fifo.waitW
    /\ fd' = "fifo" /\ ui' = "run"
    /\ unchangedDaemons
    /\ UNCHANGED <<fifo, pend, sess, nrep, pkills>>

-----------------------------------------------------------------------------
(* Reports and the end of the session                                      *)

(* A Report... call of an activity, as far as send_packet.                 *)
Report(k) ==
    /\ ui = "run" /\ nrep < MaxReports
    /\ nrep' = nrep + 1
    /\ pend' = [kind |-> k, id |-> nrep + 1, sess |-> sess]
    /\ ui' = "write"
    /\ unchangedDaemons
    /\ UNCHANGED <<fifo, fd, sess, pkills>>

(* onDestroy: EndSession, as far as send_packet of end_session.            *)
EndSession ==
    /\ ui = "run"
    /\ pend' = Shutdown(sess)
    /\ ui' = "write"
    /\ unchangedDaemons
    /\ UNCHANGED <<fifo, fd, sess, nrep, pkills>>

(* send_packet: a failed write is only logged (no descriptor, or no reader *)
(* left); a write to a full pipe waits for room.                           *)
SendPacket ==
    /\ ui = "write"
    /\ \/ /\ fd = "none" \/ fifo.readers = {}
          /\ UNCHANGED fifo
       \/ /\ fd = "fifo" /\ fifo.readers # {} /\ HasRoom(fifo)
          /\ fifo' = Put(fifo, pend)
    /\ ui' = IF IsReport(pend) THEN "run" ELSE "close"
    /\ unchangedDaemons
    /\ UNCHANGED <<fd, pend, sess, nrep, pkills>>

(* Fault: the buttons are released before the descriptor is closed.        *)
ReleaseBeforeClose ==
    /\ ui = "close"
    /\ fifo' = IF fd = "fifo" /\ fifo.readers # {}
               THEN CloseWriter(Put(fifo, [kind |-> "point", id |-> nrep, sess |-> sess]))
               ELSE CloseWriter(fifo)
    /\ fd' = "none"
    /\ ui' = "kill"
    /\ unchangedDaemons
    /\ UNCHANGED <<pend, sess, nrep, pkills>>

(* end_session: close(fd).  The number stays in the static variable, but   *)
(* no longer stands for the FIFO.                                          *)
EndSessionClose ==
    /\ ui = "close"
    /\ fifo' = IF fd = "fifo" THEN CloseWriter(fifo) ELSE fifo
    /\ fd' = "none"
    /\ ui' = "kill"
    /\ unchangedDaemons
    /\ UNCHANGED <<pend, sess, nrep, pkills>>

(* Fault: no KillServer.                                                   *)
ReleaseOnly ==
    /\ ui = "kill"
    /\ ui' = "idle"
    /\ unchangedDaemons
    /\ UNCHANGED <<fifo, fd, pend, sess, nrep, pkills>>

(* ReleaseAllButtons writes its two reports to the closed descriptor,      *)
(* which changes nothing; KillServer starts pkill and does not wait for it.*)
(* Runtime.exec() of su may throw: then no pkill is started.               *)
ReleaseAndKillServer ==
    /\ ui = "kill"
    /\ \/ pkills' = pkills + 1 /\ ui' = "idle"
       \/ ui' = "threw" /\ UNCHANGED pkills
    /\ unchangedDaemons
    /\ UNCHANGED <<fifo, fd, pend, sess, nrep>>

(* The exception is printed, and EndSession returns as if nothing were.    *)
KillServerCatches ==
    /\ ui = "threw"
    /\ ui' = "idle"
    /\ unchangedDaemons
    /\ UNCHANGED <<fifo, fd, pend, sess, nrep, pkills>>

-----------------------------------------------------------------------------
(* The surroundings                                                        *)

(* A pkill command runs: SIGTERM to every process of that name.            *)
Pkill ==
    /\ pkills > 0
    /\ pkills' = pkills - 1
    /\ pc' = [d \in Daemons |-> IF pc[d] \in Killable THEN "killed" ELSE pc[d]]
    /\ UNCHANGED <<fifo, sock, inq, todo, cur, host, asked, handshakes,
                   ui, fd, pend, sess, nrep>>

(* The application process ends without onDestroy.  The daemon is not its  *)
(* child in any way that matters: it stays.                                *)
AppDies ==
    /\ AppMayDie /\ ui # "idle"
    /\ ui' = "idle" /\ fd' = "none"
    /\ fifo' = IF fd = "fifo" \/ ui = "opening" THEN CloseWriter(fifo) ELSE fifo
    /\ unchangedDaemons
    /\ UNCHANGED <<pend, sess, nrep, pkills>>

-----------------------------------------------------------------------------
(* The daemon's own steps; sending may also have to wait for the host.     *)
DaemonRuns(d) ==
    /\ \/ Start(d) \/ OpenFifo(d) \/ OpenFifoReturns(d)
       \/ InitConn(d) \/ Connect(d)
       \/ Poll(d) \/ (\E c \in Channels : ProcessSk(d, c)) \/ ProcessSrc(d)
       \/ ReadPacket(d) \/ ReadEof(d)
       \/ CloseInt(d) \/ CloseCnt(d) \/ KilledCloseCnt(d) \/ KilledCloseInt(d)
    /\ UNCHANGED clientVars

DaemonSends(d) == SendReport(d) /\ UNCHANGED clientVars

HostActs(d, c) ==
    /\ (\E p \in HostPacket : HostSends(d, c, p)) \/ HostDisconnects(d, c)
    /\ UNCHANGED clientVars

(* What the UI thread does of itself, and what the user makes it do.       *)
ClientRuns ==
    \/ CheckServer \/ StartSessionOpen \/ StartSessionOpenReturns
    \/ SendPacket \/ EndSessionClose \/ ReleaseAndKillServer \/ KillServerCatches

UserActs == StartSession \/ EndSession \/ \E k \in ReportKinds : Report(k)

Next ==
    \/ ClientRuns \/ UserActs \/ Pkill \/ AppDies
    \/ \E d \in Daemons :
          DaemonRuns(d) \/ DaemonSends(d) \/ \E c \in Channels : HostActs(d, c)

Spec == Init /\ [][Next]_vars

(* The scheduler runs every process that can run; connect() returns when   *)
(* it times out, and send() on a channel that is gone fails.  Nothing is   *)
(* assumed of the user, nor of the host.                                   *)
SchedulerFairness ==
    /\ \A d \in Daemons :
          WF_vars(DaemonRuns(d)) /\ WF_vars(DaemonSends(d) /\ sock[d]["int"] # "up")
    /\ WF_vars(ClientRuns)
    /\ WF_vars(Pkill)

(* The host takes what is sent to it, or the kernel drops the link.        *)
LinkFairness == \A d \in Daemons : WF_vars(DaemonSends(d))

StallingSpec == Spec /\ SchedulerFairness
FairSpec == StallingSpec /\ LinkFairness

-----------------------------------------------------------------------------
TypeOK ==
    /\ DaemonTypeOK
    /\ ui \in UIs
    /\ fd \in {"none", "fifo"}
    /\ pend \in Packet
    /\ sess \in 0 .. MaxSessions
    /\ nrep \in 0 .. MaxReports
    /\ pkills \in 0 .. MaxSessions
-----------------------------------------------------------------------------
(* No report reaches the host twice: not even when the daemon of an old    *)
(* session is still reading the FIFO beside the new one.                   *)
AtMostOnce ==
    \A i, j \in DOMAIN host : i # j => host[i].id # host[j].id

(* What one daemon sends on its interrupt channel is in the order in which *)
(* the application made it (two daemons may overtake each other).          *)
InOrder ==
    \A i, j \in DOMAIN host :
        i < j /\ host[i].daemon = host[j].daemon => host[i].id < host[j].id

(* However many daemons share the FIFO.                                    *)
DeliveredOnceInOrder == AtMostOnce /\ InOrder

(* The SHUTDOWN packet of end_session is the last of its session: a daemon *)
(* that has read it leaves no packet of that session, or of an earlier     *)
(* one, behind in the FIFO.                                                *)
ShutdownIsLast ==
    \A d \in Daemons :
        ~IsReport(cur[d]) =>
            \A i \in DOMAIN fifo.buf : fifo.buf[i].sess > cur[d].sess

(* close_sk, "The order matters (see the spec.)": the control channel is   *)
(* not closed while the interrupt channel is open.                         *)
CloseOrder ==
    \A d \in Daemons : sock[d]["cnt"] = "closed" => sock[d]["int"] # "up"

(* A request without a method that the host sends on a channel is answered *)
(* there at most once, and never before it was read; packets with a method *)
(* have no answer.  (An answer that cannot be sent is lost.)               *)
RefusedOnce ==
    \A d \in Daemons, c \in Channels :
        handshakes[d][c]
            + Cardinality({i \in DOMAIN inq[d][c] : inq[d][c][i] = "refuse"})
                <= asked[d][c]

(* What the abstract channel sees of the application: the report that is   *)
(* being written.                                                          *)
Offered == IF ui = "write" THEN Mark(pend) ELSE 0

Channel == INSTANCE ReportChannel WITH
    Consumers <- Daemons, made <- nrep, offer <- Offered,
    queue <- Marks(fifo.buf), held <- InFlight, stopped <- Ended, got <- host

(* The sessions implement the channel: each step of the application, the   *)
(* daemons and the host moves reports the way the channel allows, or not   *)
(* at all.                                                                 *)
ImplementsChannel == Channel!Spec

-----------------------------------------------------------------------------
(* Ending a session reaches the pkill that is to get rid of a daemon that  *)
(* hangs (doc/howTo.txt: "so when you quit the giu a pkill hidp_clientd is *)
(* triggered").                                                            *)
QuitTriggersPkill == (ui = "write" /\ ~IsReport(pend)) ~> (ui = "kill")

(* A daemon that runs when a session ends goes away: by the SHUTDOWN       *)
(* packet, or by pkill wherever it is blocked; unless exec() throws in     *)
(* KillServer, when a daemon that does not read its FIFO lives on.  A      *)
(* pkill that was started is taken to find its processes.                  *)
EndedDaemonsDie ==
    \A d \in Daemons :
        (ui = "kill" /\ pc[d] \notin {"unborn", "spawned"}) ~>
            (pc[d] = "dead" \/ ui = "threw")

(* The UI thread only hangs in open() of the FIFO when no daemon is left   *)
(* to open the other end.                                                  *)
OpenReturns ==
    (ui = "opening") ~>
        (ui # "opening" \/ \A d \in Daemons : pc[d] \in {"unborn", "dead"})

(* A report in the FIFO does not stay there while a daemon has the FIFO    *)
(* open for reading, however sends fail; a daemon still blocked in open()  *)
(* does not count.                                                         *)
Queued(n) == \E i \in DOMAIN fifo.buf : fifo.buf[i].id = n
ReportsLeaveFifo ==
    \A n \in 1 .. MaxReports :
        Queued(n) ~> (~Queued(n) \/ fifo.readers \subseteq fifo.waitR)

(* A packet of the host that waits at a daemon in its poll loop is taken   *)
(* up by the loop (doc/howTo.txt: the daemon "drops packets received from  *)
(* the host").  The host may send on, so the queue need never be empty.    *)
Waiting(d, c) ==
    /\ pc[d] \in Serving /\ c \notin todo[d]
    /\ sock[d][c] = "up" /\ inq[d][c] # <<>>
HostPacketsDropped ==
    \A d \in Daemons, c \in Channels : []<>~Waiting(d, c)

(* It is taken once the application has let go of the FIFO for good.       *)
HostPacketsDroppedAfterSession ==
    \A d \in Daemons, c \in Channels :
        <>[](~fifo.writer) => []<>~Waiting(d, c)
=============================================================================
