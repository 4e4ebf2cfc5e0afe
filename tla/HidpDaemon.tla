----------------------------- MODULE HidpDaemon -----------------------------
(***************************************************************************)
(* The daemon src/src/bin/hidp_clientd: main() of hidp_clientd.c, the      *)
(* socket handling of hidp.c and the packet loop of combo_conn.c           *)
(* (connection type "multi", the one the application starts).  One process *)
(* is started per session; several may be alive at once.                   *)
(*                                                                         *)
(* A report is an identity with the kind of packet that carries it: "key"  *)
(* for a keyboard packet, "point" for a mouse or gamepad packet.  The two  *)
(* differ in what the loop does when send() fails.  What the reports hold  *)
(* is the subject of other modules; the press and the release that one     *)
(* keyboard packet produces are one delivery here.                         *)
(***************************************************************************)
EXTENDS Fifo, FiniteSets

CONSTANTS
    MaxSessions,    \* sessions the application starts, hence daemons
    MaxReports,     \* reports the application makes over all its sessions
    ReportKinds,    \* the kinds of packets it makes them with
    MaxHostPkts     \* packets the host sends on one channel of one daemon

ASSUME SessionAssumption == MaxSessions \in Nat \ {0}
ASSUME ReportAssumption == MaxReports \in Nat
ASSUME ReportKindAssumption == ReportKinds \subseteq {"key", "point"}
ASSUME HostPktAssumption == MaxHostPkts \in Nat

Daemons == 1 .. MaxSessions
Channels == {"cnt", "int"}
Kinds == ReportKinds \cup {"shutdown"}

(* bin_packet: a report, or the SYS packet with HCR_SHUTDOWN.              *)
Packet == [kind: Kinds, id: Nat, sess: Nat]
Shutdown(s) == [kind |-> "shutdown", id |-> 0, sess |-> s]
IsReport(p) == p.kind \in ReportKinds

(* HIDP packets from the host, by the lookup of hdr_lookup_dropall: a      *)
(* type with a method is dropped, any other is answered with a handshake.  *)
HostPacket == {"drop", "refuse"}

(* Where a daemon is in main():                                            *)
(*   unborn   not started        spawned  su runs, the daemon not exec'ed  *)
(*   started  before open() of the FIFO   opening  in open()               *)
(*   init     before init_conn, start_cache                                *)
(*   cnt,int  in l2cap_connect   poll     in poll()                        *)
(*   serve    in the loop over the ready descriptors                       *)
(*   read     in read(), process_multi_bin                                 *)
(*   send     in send() of the report just read                            *)
(*   exit     in exit(), before close(int_sock)     exit2  before cnt_sock *)
(*   killed   SIGTERM taken, no descriptor closed   killed2 int_sock open  *)
PCs == {"unborn", "spawned", "started", "opening", "init", "cnt", "int",
        "poll", "serve", "read", "send", "exit", "exit2", "killed",
        "killed2", "dead"}

(* A socket variable is -1 ("none"), connected, dropped by the peer, or    *)
(* closed by this end.                                                     *)
SockStates == {"none", "up", "lost", "closed"}

VARIABLES
    fifo,       \* the command FIFO
    pc,         \* pc[d]: where daemon d is
    sock,       \* sock[d][c]: cnt_sock and int_sock
    inq,        \* inq[d][c]: packets of the host received and not yet read
    todo,       \* todo[d]: p_fds with revents & POLLIN still to be served
    cur,        \* cur[d]: the packet read last
    host,       \* the reports the host has received, in order
    asked,      \* asked[d][c]: requests with no method the host has sent
    handshakes  \* handshakes[d][c]: HANDSHAKE/EINVAL answers d has sent

daemonVars == <<pc, sock, inq, todo, cur, host, asked, handshakes>>

DaemonTypeOK ==
    /\ fifo \in FifoType(Packet, Daemons)
    /\ pc \in [Daemons -> PCs]
    /\ sock \in [Daemons -> [Channels -> SockStates]]
    /\ inq \in [Daemons -> [Channels -> Seq(HostPacket)]]
    /\ todo \in [Daemons -> SUBSET (Channels \cup {"src"})]
    /\ cur \in [Daemons -> Packet]
    /\ host \in Seq([daemon: Daemons, id: Nat])
    /\ asked \in [Daemons -> [Channels -> Nat]]
    /\ handshakes \in [Daemons -> [Channels -> Nat]]

(* The process exists under the name that pkill looks for.                 *)
Killable == PCs \ {"unborn", "spawned", "killed", "killed2", "dead"}
(* The process serves its descriptors: main() has reached the poll loop.   *)
Serving == {"poll", "serve", "read", "send"}

DaemonInit ==
    /\ pc = [d \in Daemons |-> "unborn"]
    /\ sock = [d \in Daemons |-> [c \in Channels |-> "none"]]
    /\ inq = [d \in Daemons |-> [c \in Channels |-> <<>>]]
    /\ todo = [d \in Daemons |-> {}]
    /\ cur = [d \in Daemons |-> Shutdown(0)]
    /\ host = <<>>
    /\ asked = [d \in Daemons |-> [c \in Channels |-> 0]]
    /\ handshakes = [d \in Daemons |-> [c \in Channels |-> 0]]

Goto(d, l) == pc' = [pc EXCEPT ![d] = l]

-----------------------------------------------------------------------------
(* Start-up                                                                *)

(* su runs the daemon.  start_log and the usage check may end the process; *)
(* otherwise mkfifo, for which an existing FIFO is as good as a new one.   *)
Start(d) ==
    /\ pc[d] = "spawned"
    /\ \/ /\ Goto(d, "started")
          /\ fifo' = Mkfifo(fifo)
       \/ /\ Goto(d, "dead")
          /\ UNCHANGED fifo
    /\ UNCHANGED <<sock, inq, todo, cur, host, asked, handshakes>>

(* Faults, here and below, are operators the specification does not use:  *)
(* slips in the code that a property has to notice.                        *)
(* Fault: O_WRONLY for O_RDONLY.                                           *)
OpenFifoWrongMode(d) ==
    /\ pc[d] = "started"
    /\ Goto(d, "opening")
    /\ fifo' = OpenForWriting(fifo)
    /\ UNCHANGED <<sock, inq, todo, cur, host, asked, handshakes>>

OpenFifo(d) ==
    /\ pc[d] = "started"
    /\ Goto(d, "opening")
    /\ fifo' = OpenForReading(fifo, d)
    /\ UNCHANGED <<sock, inq, todo, cur, host, asked, handshakes>>

OpenFifoReturns(d) ==
    /\ pc[d] = "opening"
    /\ d \notin fifo.waitR
    /\ Goto(d, "init")
    /\ UNCHANGED <<fifo, sock, inq, todo, cur, host, asked, handshakes>>

(* init_conn and start_cache; a failure exits before atexit() has          *)
(* registered the clean-up, so only the kernel closes what is open.        *)
InitConn(d) ==
    /\ pc[d] = "init"
    /\ \/ /\ Goto(d, "cnt")
          /\ UNCHANGED fifo
       \/ /\ Goto(d, "dead")
          /\ fifo' = CloseReader(fifo, d)
    /\ UNCHANGED <<sock, inq, todo, cur, host, asked, handshakes>>

(* l2cap_connect(0x11), then l2cap_connect(0x13): pc[d] names the channel. *)
Connect(d) ==
    /\ pc[d] \in Channels
    /\ \/ /\ sock' = [sock EXCEPT ![d][pc[d]] = "up"]
          /\ Goto(d, IF pc[d] = "cnt" THEN "int" ELSE "poll")
       \/ /\ Goto(d, "exit")
          /\ UNCHANGED sock
    /\ UNCHANGED <<fifo, inq, todo, cur, host, asked, handshakes>>

-----------------------------------------------------------------------------
(* The poll loop                                                           *)

(* Fault: the FIFO is not looked at once a channel is lost.                *)
ReadySetLostFirst(d) ==
    LET socks == {c \in Channels : inq[d][c] # <<>> \/ sock[d][c] = "lost"}
    IN  IF \E c \in socks : sock[d][c] = "lost" THEN socks
        ELSE socks \cup (IF Readable(fifo) THEN {"src"} ELSE {})

(* Descriptors poll() reports POLLIN for.  A FIFO without writers and      *)
(* packets only has POLLHUP, which the loop ignores.                       *)
ReadySet(d) ==
    {c \in Channels : inq[d][c] # <<>> \/ sock[d][c] = "lost"}
        \cup (IF Readable(fifo) THEN {"src"} ELSE {})

Poll(d) ==
    /\ pc[d] = "poll"
    /\ ReadySet(d) # {}
    /\ todo' = [todo EXCEPT ![d] = ReadySet(d)]
    /\ Goto(d, "serve")
    /\ UNCHANGED <<fifo, sock, inq, cur, host, asked, handshakes>>

(* Fault: every packet is answered, also those with a method.              *)
ProcessSkAnswersAll(d, c) ==
    /\ pc[d] = "serve"
    /\ c \in todo[d] /\ (c = "int" => "cnt" \notin todo[d])
    /\ IF inq[d][c] = <<>>
       THEN UNCHANGED <<inq, handshakes>>
       ELSE /\ inq' = [inq EXCEPT ![d][c] = Tail(@)]
            /\ handshakes' = [handshakes EXCEPT ![d][c] = @ + 1]
    /\ todo' = [todo EXCEPT ![d] = @ \ {c}]
    /\ Goto(d, IF todo[d] = {c} THEN "poll" ELSE "serve")
    /\ UNCHANGED <<fifo, sock, cur, host, asked>>

(* process_sk.  On a lost socket recv() brings nothing, whatever method    *)
(* the uninitialised header selects, and an answer cannot be sent; on a    *)
(* connected one sending it may fail, too.  The loop goes on in every case.*)
ProcessSk(d, c) ==
    /\ pc[d] = "serve"
    /\ c \in todo[d] /\ (c = "int" => "cnt" \notin todo[d])
    /\ IF inq[d][c] = <<>>
       THEN UNCHANGED <<inq, handshakes>>
       ELSE /\ inq' = [inq EXCEPT ![d][c] = Tail(@)]
            /\ \/ /\ Head(inq[d][c]) = "refuse" /\ sock[d][c] = "up"
                  /\ handshakes' = [handshakes EXCEPT ![d][c] = @ + 1]
               \/ UNCHANGED handshakes
    /\ todo' = [todo EXCEPT ![d] = @ \ {c}]
    /\ Goto(d, IF todo[d] = {c} THEN "poll" ELSE "serve")
    /\ UNCHANGED <<fifo, sock, cur, host, asked>>

(* The FIFO is the last descriptor: process_multi_bin starts reading.      *)
ProcessSrc(d) ==
    /\ pc[d] = "serve"
    /\ todo[d] = {"src"}
    /\ todo' = [todo EXCEPT ![d] = {}]
    /\ Goto(d, "read")
    /\ UNCHANGED <<fifo, sock, inq, cur, host, asked, handshakes>>

(* read() in the while loop of process_multi_bin.  It blocks while the     *)
(* FIFO is empty and has a writer.                                         *)
ReadPacket(d) ==
    /\ pc[d] = "read"
    /\ Readable(fifo)
    /\ cur' = [cur EXCEPT ![d] = Head(fifo.buf)]
    /\ fifo' = Drop1(fifo)
    /\ Goto(d, IF IsReport(Head(fifo.buf)) THEN "send" ELSE "exit")
    /\ UNCHANGED <<sock, inq, todo, host, asked, handshakes>>

(* Fault: while(read() >= 0).                                              *)
ReadEofGoesOn(d) ==
    /\ pc[d] = "read"
    /\ AtEof(fifo)
    /\ UNCHANGED <<fifo, pc, sock, inq, todo, cur, host, asked, handshakes>>

ReadEof(d) ==
    /\ pc[d] = "read"
    /\ AtEof(fifo)
    /\ Goto(d, "poll")
    /\ UNCHANGED <<fifo, sock, inq, todo, cur, host, asked, handshakes>>

(* Fault: a report that could not be sent is put back into the FIFO.       *)
SendReportRequeues(d) ==
    /\ pc[d] = "send"
    /\ Goto(d, "read")
    /\ \/ /\ sock[d]["int"] = "up"
          /\ host' = Append(host, [daemon |-> d, id |-> cur[d].id])
          /\ UNCHANGED fifo
       \/ HasRoom(fifo) /\ fifo' = Put(fifo, cur[d]) /\ UNCHANGED host
    /\ UNCHANGED <<sock, inq, todo, cur, asked, handshakes>>

(* Fault: a report is sent again until send() fails.                       *)
SendReportRepeats(d) ==
    /\ pc[d] = "send"
    /\ Len(host) < 2 * MaxReports
    /\ \/ /\ sock[d]["int"] = "up"
          /\ host' = Append(host, [daemon |-> d, id |-> cur[d].id])
          /\ UNCHANGED pc
       \/ Goto(d, "read") /\ UNCHANGED host
    /\ UNCHANGED <<fifo, sock, inq, todo, cur, asked, handshakes>>

(* Fault: the loop is left after each report.                              *)
SendReportOnce(d) ==
    /\ pc[d] = "send"
    /\ Goto(d, "poll")
    /\ \/ /\ sock[d]["int"] = "up"
          /\ host' = Append(host, [daemon |-> d, id |-> cur[d].id])
       \/ UNCHANGED host
    /\ UNCHANGED <<fifo, sock, inq, todo, cur, asked, handshakes>>

(* send_input_rep on the interrupt channel: on a channel that is gone it   *)
(* fails, on a connected one it may (for want of memory, say).  After a    *)
(* failure the keyboard branch reads on; the others return METHOD_ERROR    *)
(* to the poll loop.                                                       *)
SendReport(d) ==
    /\ pc[d] = "send"
    /\ \/ /\ sock[d]["int"] = "up"
          /\ host' = Append(host, [daemon |-> d, id |-> cur[d].id])
          /\ Goto(d, "read")
       \/ /\ Goto(d, IF cur[d].kind = "key" THEN "read" ELSE "poll")
          /\ UNCHANGED host
    /\ UNCHANGED <<fifo, sock, inq, todo, cur, asked, handshakes>>

-----------------------------------------------------------------------------
(* The end of the process                                                  *)

Closed(s) == IF s = "none" THEN "none" ELSE "closed"

(* exit() runs hipd_cleanup: close_sk closes int_sock, then cnt_sock; the  *)
(* kernel closes the FIFO last.                                            *)
CloseInt(d) ==
    /\ pc[d] = "exit"
    /\ sock' = [sock EXCEPT ![d]["int"] = Closed(@)]
    /\ Goto(d, "exit2")
    /\ UNCHANGED <<fifo, inq, todo, cur, host, asked, handshakes>>

CloseCnt(d) ==
    /\ pc[d] = "exit2"
    /\ sock' = [sock EXCEPT ![d]["cnt"] = Closed(@)]
    /\ Goto(d, "dead")
    /\ fifo' = CloseReader(fifo, d)
    /\ UNCHANGED <<inq, todo, cur, host, asked, handshakes>>

(* A process that SIGTERM has ended: no handler is installed and no        *)
(* clean-up runs; the kernel closes the descriptors in ascending order,    *)
(* the order in which main() obtained them.                                *)
KilledCloseCnt(d) ==
    /\ pc[d] = "killed"
    /\ sock' = [sock EXCEPT ![d]["cnt"] = Closed(@)]
    /\ fifo' = CloseReader(fifo, d)
    /\ Goto(d, "killed2")
    /\ UNCHANGED <<inq, todo, cur, host, asked, handshakes>>

KilledCloseInt(d) ==
    /\ pc[d] = "killed2"
    /\ sock' = [sock EXCEPT ![d]["int"] = Closed(@)]
    /\ Goto(d, "dead")
    /\ UNCHANGED <<fifo, inq, todo, cur, host, asked, handshakes>>

-----------------------------------------------------------------------------
(* The host at the other end of the channels                               *)

HostSends(d, c, p) ==
    /\ sock[d][c] = "up"
    /\ asked[d][c] + Len(inq[d][c]) < MaxHostPkts
    /\ inq' = [inq EXCEPT ![d][c] = Append(@, p)]
    /\ asked' = [asked EXCEPT ![d][c] = IF p = "refuse" THEN @ + 1 ELSE @]
    /\ UNCHANGED <<fifo, pc, sock, todo, cur, host, handshakes>>

HostDisconnects(d, c) ==
    /\ sock[d][c] = "up"
    /\ sock' = [sock EXCEPT ![d][c] = "lost"]
    /\ UNCHANGED <<fifo, pc, inq, todo, cur, host, asked, handshakes>>

-----------------------------------------------------------------------------
(* What an abstract channel sees: the reports and stop marks of a sequence *)
(* of packets, the report each daemon is sending, and the daemons that     *)
(* will read no more.                                                      *)
Mark(p) == IF IsReport(p) THEN p.id ELSE 0
Marks(s) == [i \in DOMAIN s |-> Mark(s[i])]
InFlight == [d \in Daemons |-> IF pc[d] = "send" THEN cur[d].id ELSE 0]
Ending == {"exit", "exit2", "killed", "killed2", "dead"}
Ended == {d \in Daemons : pc[d] \in Ending}
=============================================================================
