----------------------------- MODULE MouseConn -----------------------------
(***************************************************************************)
(* The daemon with connection type "mouse" (process_mouse_nice of          *)
(* hidp_clientd.c): the FIFO carries text lines, one report each, that     *)
(* somebody writes by hand or from a script, and the daemon reads them     *)
(* through a stdio stream that it opens once.  main(), the channels and    *)
(* the end of the process are those of HidpDaemon; a line is a "point"     *)
(* packet, a line with the flag HCR_SHUTDOWN the shutdown packet.          *)
(*                                                                         *)
(* getline() takes from the FIFO what fits into the buffer of the stream,  *)
(* and poll() knows nothing of lines in that buffer.  Whether a stream     *)
(* that has met the end of file ever reads again depends on the C library  *)
(* the daemon is linked with: it is a choice of Init.                      *)
(***************************************************************************)
EXTENDS HidpDaemon

CONSTANT StdioCap   \* lines the buffer of a stream holds

ASSUME StdioAssumption == StdioCap \in Nat \ {0}
(* One daemon, started by hand; every line is a mouse report.              *)
ASSUME MouseAssumption == MaxSessions = 1 /\ ReportKinds = {"point"}

VARIABLES
    stream,     \* info->data: not opened, open, or at the end of file
    lines,      \* lines in the buffer of the stream
    sticky,     \* the C library does not read again after an end of file
    writer,     \* shut, opening, open, or in write() of a line
    nline       \* lines written, without SHUTDOWN

mouseVars == <<stream, lines, sticky, writer, nline>>
vars == <<fifo, daemonVars, mouseVars>>

Init ==
    /\ fifo = AbsentFifo /\ DaemonInit
    /\ stream = [d \in Daemons |-> "none"] /\ lines = [d \in Daemons |-> <<>>]
    /\ sticky \in BOOLEAN
    /\ writer = "shut" /\ nline = 0

Line(n) == [kind |-> "point", id |-> n, sess |-> 0]

-----------------------------------------------------------------------------
(* process_mouse_nice                                                      *)

(* fdopen() on the first call; if it fails the poll loop tries again.      *)
OpenStream(d) ==
    /\ ProcessSrc(d) /\ stream[d] = "none"
    /\ stream' = [stream EXCEPT ![d] = "open"]
    /\ UNCHANGED <<lines, sticky, writer, nline>>

OpenStreamFails(d) ==
    /\ pc[d] = "serve" /\ todo[d] = {"src"} /\ stream[d] = "none"
    /\ todo' = [todo EXCEPT ![d] = {}]
    /\ Goto(d, "poll")
    /\ UNCHANGED <<fifo, sock, inq, cur, host, asked, handshakes, mouseVars>>

UseStream(d) == ProcessSrc(d) /\ stream[d] # "none" /\ UNCHANGED mouseVars

(* The stream will not look at the FIFO again.                             *)
Deaf(d) == sticky /\ stream[d] = "eof"

(* getline() on an empty buffer: read() takes as much as fits.             *)
Fill(d) ==
    LET n == IF Len(fifo.buf) < StdioCap THEN Len(fifo.buf) ELSE StdioCap
    IN  /\ pc[d] = "read" /\ lines[d] = <<>> /\ ~Deaf(d) /\ Readable(fifo)
        /\ lines' = [lines EXCEPT ![d] = SubSeq(fifo.buf, 1, n)]
        /\ fifo' = [fifo EXCEPT !.buf = SubSeq(@, n + 1, Len(@))]
        /\ UNCHANGED <<daemonVars, stream, sticky, writer, nline>>

(* Fault: a SHUTDOWN line only ends the call.                              *)
GetLineStays(d) ==
    /\ pc[d] = "read" /\ lines[d] # <<>>
    /\ cur' = [cur EXCEPT ![d] = Head(lines[d])]
    /\ lines' = [lines EXCEPT ![d] = Tail(@)]
    /\ Goto(d, IF IsReport(Head(lines[d])) THEN "send" ELSE "poll")
    /\ UNCHANGED <<fifo, sock, inq, todo, host, asked, handshakes,
                   stream, sticky, writer, nline>>

(* getline() on a buffer with lines: METHOD_SHUTDOWN, or a report to send. *)
GetLine(d) ==
    /\ pc[d] = "read" /\ lines[d] # <<>>
    /\ cur' = [cur EXCEPT ![d] = Head(lines[d])]
    /\ lines' = [lines EXCEPT ![d] = Tail(@)]
    /\ Goto(d, IF IsReport(Head(lines[d])) THEN "send" ELSE "exit")
    /\ UNCHANGED <<fifo, sock, inq, todo, host, asked, handshakes,
                   stream, sticky, writer, nline>>

(* getline() == -1: the writer is gone, or was gone once.                  *)
GetLineEof(d) ==
    /\ pc[d] = "read" /\ lines[d] = <<>>
    /\ AtEof(fifo) \/ Deaf(d)
    /\ stream' = [stream EXCEPT ![d] = "eof"]
    /\ Goto(d, "poll")
    /\ UNCHANGED <<fifo, sock, inq, todo, cur, host, asked, handshakes,
                   lines, sticky, writer, nline>>

-----------------------------------------------------------------------------
(* Who writes the lines, and who starts and ends the daemon                *)

UserStarts(d) ==
    /\ pc[d] = "unborn" /\ Goto(d, "spawned")
    /\ UNCHANGED <<fifo, sock, inq, todo, cur, host, asked, handshakes, mouseVars>>

UserKills(d) ==
    /\ pc[d] \in Killable /\ Goto(d, "killed")
    /\ UNCHANGED <<fifo, sock, inq, todo, cur, host, asked, handshakes, mouseVars>>

WriterOpens ==
    /\ writer = "shut" /\ fifo.made
    /\ fifo' = OpenForWriting(fifo) /\ writer' = "opening"
    /\ UNCHANGED <<daemonVars, stream, lines, sticky, nline>>

WriterOpenReturns ==
    /\ writer = "opening" /\ ~fifo.waitW /\ writer' = "open"
    /\ UNCHANGED <<fifo, daemonVars, stream, lines, sticky, nline>>

WriteLine ==
    /\ writer = "open" /\ nline < MaxReports
    /\ nline' = nline + 1 /\ writer' = "write"
    /\ UNCHANGED <<fifo, daemonVars, stream, lines, sticky>>

(* write() waits for room; without a reader SIGPIPE ends the writer.       *)
WriteLineReturns ==
    /\ writer = "write"
    /\ \/ /\ fifo.readers # {} /\ HasRoom(fifo)
          /\ fifo' = Put(fifo, Line(nline)) /\ writer' = "open"
       \/ /\ fifo.readers = {}
          /\ fifo' = CloseWriter(fifo) /\ writer' = "shut"
    /\ UNCHANGED <<daemonVars, stream, lines, sticky, nline>>

WriteShutdown ==
    /\ writer = "open" /\ fifo.readers # {} /\ HasRoom(fifo)
    /\ fifo' = Put(fifo, Shutdown(0))
    /\ UNCHANGED <<daemonVars, mouseVars>>

WriterCloses ==
    /\ writer = "open"
    /\ fifo' = CloseWriter(fifo) /\ writer' = "shut"
    /\ UNCHANGED <<daemonVars, stream, lines, sticky, nline>>

-----------------------------------------------------------------------------
MainRuns(d) ==
    /\ \/ Start(d) \/ OpenFifo(d) \/ OpenFifoReturns(d)
       \/ InitConn(d) \/ Connect(d)
       \/ Poll(d) \/ (\E c \in Channels : ProcessSk(d, c))
       \/ SendReport(d)
       \/ CloseInt(d) \/ CloseCnt(d) \/ KilledCloseCnt(d) \/ KilledCloseInt(d)
    /\ UNCHANGED mouseVars

DaemonRuns(d) ==
    \/ MainRuns(d)
    \/ OpenStream(d) \/ OpenStreamFails(d) \/ UseStream(d)
    \/ Fill(d) \/ GetLine(d) \/ GetLineEof(d)

(* What main() does with packets of the host is the same for every type.   *)
HostLeaves(d, c) == HostDisconnects(d, c) /\ UNCHANGED mouseVars

WriterRuns == WriterOpenReturns \/ WriteLineReturns
UserActs ==
    \/ WriterOpens \/ WriteLine \/ WriteShutdown \/ WriterCloses
    \/ \E d \in Daemons : UserStarts(d) \/ UserKills(d)

Next ==
    \/ WriterRuns \/ UserActs
    \/ \E d \in Daemons : DaemonRuns(d) \/ \E c \in Channels : HostLeaves(d, c)

Spec == Init /\ [][Next]_vars

(* Processes that can run do run, a send ends, and fdopen(), which only    *)
(* needs memory, does not fail for ever.                                   *)
FairSpec ==
    /\ Spec /\ WF_vars(WriterRuns)
    /\ \A d \in Daemons : WF_vars(DaemonRuns(d)) /\ SF_vars(OpenStream(d))

-----------------------------------------------------------------------------
(* Lines are only left behind in the stream, out of sight of poll(), when  *)
(* a send has failed: the line before them was a report, and it has not    *)
(* reached the host.                                                       *)
NoLineStranded ==
    \A d \in Daemons :
        pc[d] \in {"poll", "serve"} /\ lines[d] # <<>> =>
            IsReport(cur[d]) /\ \A i \in DOMAIN host : host[i].id # cur[d].id

(* The lines on their way to the host, those in the stream first.          *)
Buffered == IF Ended = {} THEN lines[1] ELSE <<>>

Channel == INSTANCE ReportChannel WITH
    Consumers <- Daemons, made <- nline,
    offer <- IF writer = "write" THEN nline ELSE 0,
    queue <- Marks(Buffered \o fifo.buf),
    held <- InFlight, stopped <- Ended, got <- host

(* The connection type keeps the promise of the other one, although it     *)
(* takes lines in advance: each line reaches the host at most once and in  *)
(* order, nothing is sent after SHUTDOWN, and what was taken in advance is *)
(* lost with the daemon at most.                                           *)
ImplementsChannel == Channel!Spec

(* A line does not stay in the FIFO while the daemon has it open, unless   *)
(* the stream has met an end of file in a C library that keeps to it.      *)
LinesTaken ==
    \A d \in Daemons, n \in 1 .. MaxReports :
        (\E i \in DOMAIN fifo.buf : fifo.buf[i].id = n) ~>
            \/ \A i \in DOMAIN fifo.buf : fifo.buf[i].id # n
            \/ Deaf(d) \/ d \notin fifo.readers \/ d \in fifo.waitR

(* A SHUTDOWN line ends the daemon, unless the stream is deaf or the line  *)
(* lies in it behind a report whose send has failed (NoLineStranded).      *)
HasShutdown(s) == \E i \in DOMAIN s : ~IsReport(s[i])
ShutdownObeyed ==
    \A d \in Daemons :
        (d \in fifo.readers \ fifo.waitR /\ HasShutdown(fifo.buf)) ~>
            \/ d \in Ended \/ Deaf(d)
            \/ pc[d] \in {"poll", "serve"} /\ HasShutdown(lines[d])
=============================================================================
