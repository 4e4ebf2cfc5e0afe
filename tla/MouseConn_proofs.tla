-------------------------- MODULE MouseConn_proofs --------------------------
(***************************************************************************)
(* The connection type mouse, for any number of lines, any capacity of the *)
(* pipe and any buffer of the stream: it implements the abstract channel,  *)
(* and lines are only left in the stream when a send has failed.           *)
(*                                                                         *)
(* The queue of the channel is what the stream has taken in advance, while *)
(* its daemon lives, followed by what is in the FIFO.  The writer can only *)
(* throw away what is in the FIFO when nobody has it open for reading, and *)
(* then nothing is in the stream (Holds).  That nothing is passed on twice *)
(* tells in turn that a line whose send has failed is not at the host.     *)
(*                                                                         *)
(* Last, the log file, which any number of daemons write: its size, and    *)
(* what can be read in it of a daemon that logs alone.                     *)
(***************************************************************************)
EXTENDS MouseConn, LogFile, HidpDaemon_proofs, FiniteSetTheorems

TypeOK ==
    /\ DaemonTypeOK
    /\ stream \in [Daemons -> {"none", "open", "eof"}]
    /\ lines \in [Daemons -> Seq(Packet)]
    /\ sticky \in BOOLEAN
    /\ writer \in {"shut", "opening", "open", "write"}
    /\ nline \in Nat

(* Lines have numbers from 1 on, wherever they are on their way, so that   *)
(* the channel does not take one for a stop mark.                          *)
Numbered(s) == \A i \in DOMAIN s : IsReport(s[i]) => s[i].id > 0
LineIds ==
    /\ writer = "write" => nline > 0
    /\ Numbered(fifo.buf)
    /\ \A d \in Daemons : /\ Numbered(lines[d])
                          /\ pc[d] = "send" => IsReport(cur[d]) /\ cur[d].id > 0

(* A daemon that serves has the FIFO open, and no other has lines.         *)
Started == PCs \ {"unborn", "spawned", "started", "killed", "killed2", "dead"}
Holds ==
    \A d \in Daemons :
        /\ pc[d] \in Started => d \in fifo.readers
        /\ lines[d] # <<>> => pc[d] \in Serving \cup Ending

IInv == TypeOK /\ LineIds /\ Holds

USE SessionAssumption, ReportAssumption, ReportKindAssumption, HostPktAssumption,
    PipeCapAssumption, StdioAssumption, MouseAssumption

-----------------------------------------------------------------------------
LEMMA OneDaemon == Daemons = {1}
  BY DEF Daemons

LEMMA Parts ==
    ASSUME IInv
    PROVE  /\ TypeOK /\ DaemonTypeOK /\ LineIds /\ Holds
           /\ fifo.buf \in Seq(Packet)
           /\ \A d \in Daemons : lines[d] \in Seq(Packet)
<1>1. TypeOK /\ DaemonTypeOK /\ LineIds /\ Holds
  BY DEF IInv, TypeOK
<1> QED
  BY <1>1, BufHere DEF TypeOK

(* Who has the FIFO open for reading.                                      *)
LEMMA FifoReaders ==
    ASSUME NEW P, NEW R, NEW f \in FifoType(P, R)
    PROVE  /\ Mkfifo(f).readers = f.readers
           /\ OpenForWriting(f).readers = f.readers
           /\ CloseWriter(f).readers = f.readers
           /\ \A r \in R : OpenForReading(f, r).readers = f.readers \cup {r}
           /\ \A p \in P : Put(f, p).readers = f.readers
  BY DEF FifoType, Mkfifo, OpenForWriting, CloseWriter, OpenForReading, Put

LEMMA ReadersHere ==
    ASSUME DaemonTypeOK
    PROVE  /\ Mkfifo(fifo).readers = fifo.readers
           /\ OpenForWriting(fifo).readers = fifo.readers
           /\ CloseWriter(fifo).readers = fifo.readers
           /\ \A d \in Daemons : OpenForReading(fifo, d).readers = fifo.readers \cup {d}
           /\ \A p \in Packet : Put(fifo, p).readers = fifo.readers
<1>1. fifo \in FifoType(Packet, Daemons)
  BY DEF DaemonTypeOK
<1> QED
  BY <1>1, FifoReaders

(* A daemon moves on.                                                      *)
LEMMA Moves ==
    ASSUME DaemonTypeOK, NEW d \in Daemons, NEW l \in PCs, Goto(d, l)
    PROVE  \A e \in Daemons : e = d /\ pc'[e] = l
  BY OneDaemon, GotoType

LEMMA IdsAlone ==
    ASSUME LineIds, Quiet, UNCHANGED <<cur, lines, writer, nline>>,
           \A d \in Daemons : pc'[d] = "send" => pc[d] = "send"
    PROVE  LineIds'
  BY DEF LineIds, Quiet, Numbered

LEMMA MainTypes ==
    ASSUME TypeOK, DaemonTypeOK', UNCHANGED mouseVars PROVE TypeOK'
  BY DEF TypeOK, mouseVars

-----------------------------------------------------------------------------
LEMMA InitInv == Init => IInv
<1> SUFFICES ASSUME Init PROVE IInv
  OBVIOUS
<1>1. DaemonTypeOK
  BY InitDaemonType DEF Init
<1>2. TypeOK
  BY <1>1 DEF Init, TypeOK
<1>3. LineIds /\ Holds
  BY DEF Init, DaemonInit, AbsentFifo, LineIds, Numbered, Holds, Started, Serving
<1> QED
  BY <1>2, <1>3 DEF IInv

(* The steps of main() that send nothing.                                  *)
LEMMA StartUpInv ==
    ASSUME IInv, NEW d \in Daemons, UNCHANGED mouseVars,
           Start(d) \/ OpenFifo(d) \/ OpenFifoReturns(d) \/ InitConn(d)
    PROVE  IInv'
<1>1. TypeOK'
  BY Parts, StartUpType, MainTypes
<1>2. LineIds'
  <2>1. Quiet /\ UNCHANGED cur /\ \E l \in PCs \ {"send"} : Goto(d, l)
    BY Parts, QuietDaemon
  <2> QED
    BY <2>1, Parts, Moves, IdsAlone DEF mouseVars
<1>3. PICK l \in {"started", "dead", "opening", "init", "cnt"} :
         /\ Goto(d, l) /\ UNCHANGED <<sock, lines>>
         /\ l \in {"opening", "init", "cnt"} => d \in fifo'.readers
         /\ pc[d] \notin Serving \cup Ending
  BY Parts, ReadersHere DEF Start, OpenFifo, OpenFifoReturns, InitConn, mouseVars,
     Holds, Started, PCs, Serving, Ending
<1>4. \A e \in Daemons : e = d /\ pc'[e] = l
  BY <1>3, Parts, Moves DEF PCs
<1>5. lines[d] = <<>>
  BY <1>3, Parts DEF Holds
<1>6. Holds'
  BY <1>3, <1>4, <1>5 DEF Holds, Started, PCs, Serving, Ending
<1> QED
  BY <1>1, <1>2, <1>6 DEF IInv

LEMMA ConnectInv ==
    ASSUME IInv, NEW d \in Daemons, UNCHANGED mouseVars, Connect(d)
    PROVE  IInv'
<1>1. TypeOK'
  BY Parts, ConnectType, MainTypes
<1>2. LineIds'
  <2>1. Quiet /\ UNCHANGED cur /\ \E l \in PCs \ {"send"} : Goto(d, l)
    BY Parts, QuietDaemon
  <2> QED
    BY <2>1, Parts, Moves, IdsAlone DEF mouseVars
<1>3. pc[d] \in {"cnt", "int"} /\ UNCHANGED <<fifo, lines>>
  BY DEF Connect, Channels, mouseVars
<1>4. PICK l \in {"int", "poll", "exit"} :
         Goto(d, l)
  BY <1>3 DEF Connect
<1>5. \A e \in Daemons : e = d /\ pc'[e] = l
  BY <1>4, Parts, Moves DEF PCs
<1>6. lines[d] = <<>> /\ d \in fifo.readers
  BY <1>3, Parts DEF Holds, Serving, Ending, Started, PCs
<1>7. Holds'
  BY <1>3, <1>5, <1>6 DEF Holds, Serving
<1> QED
  BY <1>1, <1>2, <1>7 DEF IInv

(* The poll loop, up to the lines.                                         *)
LEMMA LoopInv ==
    ASSUME IInv, NEW d \in Daemons, UNCHANGED <<lines, sticky, writer, nline>>,
           stream' \in [Daemons -> {"none", "open", "eof"}], DaemonTypeOK',
           UNCHANGED <<fifo, sock, cur>>,
           NEW l \in {"poll", "serve", "read"}, Goto(d, l),
           pc[d] \in {"poll", "serve"}
    PROVE  IInv'
<1>1. TypeOK'
  BY Parts DEF TypeOK
<1>2. \A e \in Daemons : e = d /\ pc'[e] = l
  BY Parts, Moves DEF PCs
<1>3. LineIds'
  BY <1>2, Parts, IdsAlone DEF Quiet
<1>4. Holds'
  BY <1>2, Parts DEF Holds, Serving, Started, PCs
<1> QED
  BY <1>1, <1>3, <1>4 DEF IInv

LEMMA PollInv ==
    ASSUME IInv, NEW d \in Daemons, UNCHANGED mouseVars,
           Poll(d) \/ \E c \in Channels : ProcessSk(d, c)
    PROVE  IInv'
<1>1. DaemonTypeOK'
  BY Parts, LoopType
<1>2. \E l \in {"poll", "serve", "read"} : Goto(d, l)
  BY DEF Poll, ProcessSk
<1>3. pc[d] \in {"poll", "serve"} /\ UNCHANGED <<fifo, sock, cur>>
  BY DEF Poll, ProcessSk
<1>4. stream' \in [Daemons -> {"none", "open", "eof"}]
  BY Parts DEF TypeOK, mouseVars
<1> QED
  BY <1>1, <1>2, <1>3, <1>4, LoopInv DEF mouseVars

LEMMA StreamInv ==
    ASSUME IInv, NEW d \in Daemons, OpenStream(d) \/ UseStream(d) \/ OpenStreamFails(d)
    PROVE  IInv'
<1>1. DaemonTypeOK'
  <2>1. CASE ProcessSrc(d)
    BY <2>1, Parts, LoopType
  <2>2. CASE OpenStreamFails(d)
    BY <2>2, Parts DEF OpenStreamFails, DaemonTypeOK, Goto, PCs
  <2> QED
    BY <2>1, <2>2 DEF OpenStream, UseStream
<1>2. \E l \in {"poll", "serve", "read"} : Goto(d, l)
  BY DEF OpenStream, UseStream, OpenStreamFails, ProcessSrc
<1>3. /\ pc[d] \in {"poll", "serve"} /\ UNCHANGED <<fifo, sock, cur>>
      /\ UNCHANGED <<lines, sticky, writer, nline>>
      /\ stream' \in [Daemons -> {"none", "open", "eof"}]
  BY Parts DEF OpenStream, UseStream, OpenStreamFails, ProcessSrc, mouseVars, TypeOK
<1> QED
  BY <1>1, <1>2, <1>3, LoopInv

LEMMA SendInv ==
    ASSUME IInv, NEW d \in Daemons, UNCHANGED mouseVars, SendReport(d)
    PROVE  IInv'
<1>1. TypeOK'
  BY Parts, SendType, MainTypes
<1>2. PICK l \in {"read", "poll"} : Goto(d, l)
  BY DEF SendReport
<1>3. pc[d] = "send" /\ UNCHANGED <<fifo, sock, cur, lines, writer, nline>>
  BY DEF SendReport, mouseVars
<1>4. \A e \in Daemons : e = d /\ pc'[e] = l
  BY <1>2, Parts, Moves DEF PCs
<1>5. LineIds'
  BY <1>3, <1>4, Parts, IdsAlone DEF Quiet
<1>6. Holds'
  BY <1>2, <1>3, <1>4, Parts DEF Holds, Serving, Started, PCs
<1> QED
  BY <1>1, <1>5, <1>6 DEF IInv

LEMMA ExitInv ==
    ASSUME IInv, NEW d \in Daemons, UNCHANGED mouseVars,
           CloseInt(d) \/ CloseCnt(d) \/ KilledCloseCnt(d) \/ KilledCloseInt(d)
    PROVE  IInv'
<1>1. TypeOK'
  BY Parts, ExitType, MainTypes
<1>2. LineIds'
  <2>1. Quiet /\ UNCHANGED cur /\ \E l \in PCs \ {"send"} : Goto(d, l)
    BY Parts, QuietDaemon
  <2> QED
    BY <2>1, Parts, Moves, IdsAlone DEF mouseVars
<1>3. PICK l \in {"exit2", "killed2", "dead"} :
         /\ Goto(d, l) /\ UNCHANGED lines
         /\ l = "exit2" => pc[d] = "exit" /\ UNCHANGED fifo
  BY DEF CloseInt, CloseCnt, KilledCloseCnt, KilledCloseInt, mouseVars
<1>4. \A e \in Daemons : e = d /\ pc'[e] = l
  BY <1>3, Parts, Moves DEF PCs
<1>5. Holds'
  BY <1>3, <1>4, Parts DEF Holds, Started, PCs, Serving, Ending
<1> QED
  BY <1>1, <1>2, <1>5 DEF IInv

-----------------------------------------------------------------------------
(* The stream.  A part of a sequence of packets is numbered if the whole   *)
(* is.                                                                     *)
LEMMA PartNumbered ==
    ASSUME NEW s \in Seq(Packet), Numbered(s), NEW m \in Nat \ {0}, NEW n \in Nat, n <= Len(s)
    PROVE  SubSeq(s, m, n) \in Seq(Packet) /\ Numbered(SubSeq(s, m, n))
<1> DEFINE t == SubSeq(s, m, n)
<1>1. \A i \in m .. n : s[i] \in Packet
  OBVIOUS
<1>2. /\ t \in Seq(Packet) /\ Len(t) = IF m <= n THEN n - m + 1 ELSE 0
      /\ \A i \in 1 .. n - m + 1 : t[i] = s[m + i - 1]
  BY <1>1, SubSeqProperties
<1>3. DOMAIN t = 1 .. Len(t)
  BY <1>2, LenProperties
<1> HIDE DEF t
<1>4. \A i \in DOMAIN t : t[i] = s[m + i - 1] /\ m + i - 1 \in DOMAIN s
  BY <1>2, <1>3
<1>5. Numbered(t)
  BY <1>4 DEF Numbered
<1> QED
  BY <1>2, <1>5 DEF t

LEMMA TailNumbered ==
    ASSUME NEW s \in Seq(Packet), Numbered(s), s # <<>>
    PROVE  /\ Tail(s) \in Seq(Packet) /\ Numbered(Tail(s))
           /\ Head(s) \in Packet /\ (IsReport(Head(s)) => Head(s).id > 0)
<1>1. Tail(s) = SubSeq(s, 2, Len(s)) /\ Head(s) = s[1] /\ 1 \in DOMAIN s
      /\ Len(s) \in Nat /\ Head(s) \in Packet
  BY TailIsSubSeq
<1> QED
  BY <1>1, PartNumbered DEF Numbered

(* What getline() has taken from the FIFO.                                 *)
LEMMA Filled ==
    ASSUME IInv, NEW d \in Daemons, Fill(d)
    PROVE  /\ pc[d] = "read" /\ lines[d] = <<>>
           /\ \E n \in 0 .. Len(fifo.buf) :
                 /\ lines' = [lines EXCEPT ![d] = SubSeq(fifo.buf, 1, n)]
                 /\ fifo' = [fifo EXCEPT !.buf = SubSeq(fifo.buf, n + 1, Len(fifo.buf))]
           /\ UNCHANGED <<daemonVars, stream, sticky, writer, nline>>
<1> DEFINE n == IF Len(fifo.buf) < StdioCap THEN Len(fifo.buf) ELSE StdioCap
<1>1. Len(fifo.buf) \in Nat /\ StdioCap \in Nat
  BY Parts
<1>2. n \in 0 .. Len(fifo.buf)
  BY <1>1
<1>3. /\ pc[d] = "read" /\ lines[d] = <<>>
      /\ lines' = [lines EXCEPT ![d] = SubSeq(fifo.buf, 1, n)]
      /\ fifo' = [fifo EXCEPT !.buf = SubSeq(fifo.buf, n + 1, Len(fifo.buf))]
      /\ UNCHANGED <<daemonVars, stream, sticky, writer, nline>>
  BY DEF Fill
<1> HIDE DEF n
<1> QED
  BY <1>2, <1>3

LEMMA FillInv == ASSUME IInv, NEW d \in Daemons, Fill(d) PROVE IInv'
<1>1. PICK n \in 0 .. Len(fifo.buf) :
         /\ lines' = [lines EXCEPT ![d] = SubSeq(fifo.buf, 1, n)]
         /\ fifo' = [fifo EXCEPT !.buf = SubSeq(fifo.buf, n + 1, Len(fifo.buf))]
  BY Filled
<1> DEFINE a == SubSeq(fifo.buf, 1, n)
           b == SubSeq(fifo.buf, n + 1, Len(fifo.buf))
<1>2. /\ a \in Seq(Packet) /\ Numbered(a) /\ b \in Seq(Packet) /\ Numbered(b)
  <2>1. Len(fifo.buf) \in Nat /\ n \in Nat /\ n <= Len(fifo.buf) /\ Numbered(fifo.buf)
        /\ n + 1 \in Nat \ {0}
    BY Parts DEF LineIds
  <2> QED
    BY <2>1, Parts, PartNumbered
<1> HIDE DEF a, b
<1>3. lines' = [lines EXCEPT ![d] = a] /\ fifo' = [fifo EXCEPT !.buf = b]
  BY <1>1 DEF a, b
<1>4. UNCHANGED <<pc, sock, inq, todo, cur, host, asked, handshakes, stream, sticky, writer, nline>>
      /\ pc[d] = "read"
  BY Filled DEF daemonVars
<1>5. fifo' \in FifoType(Packet, Daemons) /\ fifo'.buf = b /\ fifo'.readers = fifo.readers
  BY <1>2, <1>3, Parts DEF DaemonTypeOK, FifoType
<1>6. lines' \in [Daemons -> Seq(Packet)] /\ \A e \in Daemons : e = d /\ lines'[e] = a
  BY <1>2, <1>3, Parts, OneDaemon DEF TypeOK
<1>7. TypeOK'
  BY <1>4, <1>5, <1>6, Parts DEF TypeOK, DaemonTypeOK
<1>8. LineIds'
  BY <1>2, <1>4, <1>5, <1>6, Parts DEF LineIds
<1>9. Holds'
  BY <1>4, <1>5, <1>6, Parts DEF Holds, Serving
<1> QED
  BY <1>7, <1>8, <1>9 DEF IInv

LEMMA GetLineInv == ASSUME IInv, NEW d \in Daemons, GetLine(d) PROVE IInv'
<1> DEFINE p == Head(lines[d])
<1>1. /\ p \in Packet /\ (IsReport(p) => p.id > 0)
      /\ Tail(lines[d]) \in Seq(Packet) /\ Numbered(Tail(lines[d]))
  BY Parts, TailNumbered DEF GetLine, LineIds
<1> DEFINE l == IF IsReport(p) THEN "send" ELSE "exit"
<1>2. /\ pc[d] = "read" /\ cur' = [cur EXCEPT ![d] = p] /\ Goto(d, l)
      /\ lines' = [lines EXCEPT ![d] = Tail(lines[d])]
      /\ UNCHANGED <<fifo, sock, inq, todo, host, asked, handshakes, stream, sticky, writer, nline>>
  BY DEF GetLine
<1> HIDE DEF p
<1>3. l \in PCs /\ \A e \in Daemons : e = d /\ pc'[e] = l
  BY <1>2, Parts, Moves DEF PCs
<1>4. /\ pc' \in [Daemons -> PCs]
      /\ cur' \in [Daemons -> Packet] /\ cur'[d] = p
      /\ lines' \in [Daemons -> Seq(Packet)] /\ lines'[d] = Tail(lines[d])
  BY <1>1, <1>2, <1>3, Parts, GotoType DEF TypeOK, DaemonTypeOK
<1>5. TypeOK'
  BY <1>2, <1>4, Parts DEF TypeOK, DaemonTypeOK
<1>6. LineIds'
  BY <1>1, <1>2, <1>3, <1>4, Parts DEF LineIds
<1>7. Holds'
  BY <1>2, <1>3, <1>4, Parts DEF Holds, Serving, Ending, Started, PCs
<1> QED
  BY <1>5, <1>6, <1>7 DEF IInv

LEMMA GetLineEofInv == ASSUME IInv, NEW d \in Daemons, GetLineEof(d) PROVE IInv'
<1>1. /\ pc[d] = "read" /\ lines[d] = <<>> /\ Goto(d, "poll")
      /\ stream' = [stream EXCEPT ![d] = "eof"]
      /\ UNCHANGED <<fifo, sock, inq, todo, cur, host, asked, handshakes, lines, sticky, writer, nline>>
  BY DEF GetLineEof
<1>2. pc' \in [Daemons -> PCs] /\ \A e \in Daemons : e = d /\ pc'[e] = "poll"
  BY <1>1, Parts, Moves, GotoType DEF PCs
<1>3. TypeOK'
  BY <1>1, <1>2, Parts DEF TypeOK, DaemonTypeOK
<1>4. LineIds'
  BY <1>1, <1>2, Parts, IdsAlone DEF Quiet
<1>5. Holds'
  BY <1>1, <1>2, Parts DEF Holds, Serving, Started, PCs
<1> QED
  BY <1>3, <1>4, <1>5 DEF IInv

-----------------------------------------------------------------------------
(* The user, the host and the writer.                                      *)
LEMMA UserInv ==
    ASSUME IInv, NEW d \in Daemons, UserStarts(d) \/ UserKills(d) PROVE IInv'
<1>1. UNCHANGED <<fifo, sock, inq, todo, cur, host, asked, handshakes, stream, lines, sticky, writer, nline>>
  BY DEF UserStarts, UserKills, mouseVars
<1>2. PICK l \in {"spawned", "killed"} :
         Goto(d, l) /\ (l = "spawned" => pc[d] = "unborn")
  BY DEF UserStarts, UserKills
<1>3. pc' \in [Daemons -> PCs] /\ \A e \in Daemons : e = d /\ pc'[e] = l
  BY <1>2, Parts, Moves, GotoType DEF PCs
<1>4. TypeOK'
  BY <1>1, <1>3, Parts DEF TypeOK, DaemonTypeOK
<1>5. LineIds'
  BY <1>1, <1>3, Parts, IdsAlone DEF Quiet
<1>6. Holds'
  BY <1>1, <1>2, <1>3, Parts DEF Holds, Serving, Started, PCs, Ending
<1> QED
  BY <1>4, <1>5, <1>6 DEF IInv

LEMMA HostInv ==
    ASSUME IInv, NEW d \in Daemons, NEW c \in Channels, HostLeaves(d, c) PROVE IInv'
<1>1. /\ sock' = [sock EXCEPT ![d][c] = "lost"]
      /\ UNCHANGED <<fifo, pc, inq, todo, cur, host, asked, handshakes>>
      /\ UNCHANGED <<stream, lines, sticky, writer, nline>>
  BY DEF HostLeaves, HostDisconnects, mouseVars
<1>2. DaemonTypeOK'
  BY Parts, HostType DEF HostLeaves
<1>3. TypeOK'
  BY <1>1, <1>2, Parts DEF TypeOK
<1>4. LineIds'
  BY <1>1, Parts, IdsAlone DEF Quiet
<1>5. Holds'
  BY <1>1, Parts DEF Holds
<1> QED
  BY <1>3, <1>4, <1>5 DEF IInv

LEMMA LineIsReport == \A n \in Nat : Line(n) \in Packet /\ IsReport(Line(n)) /\ Line(n).id = n
  BY DEF Line, Packet, Kinds, IsReport

LEMMA WriterInv ==
    ASSUME IInv, \/ WriterRuns \/ WriterOpens \/ WriteLine \/ WriteShutdown \/ WriterCloses
    PROVE  IInv'
<1>1. UNCHANGED <<pc, sock, inq, todo, cur, host, asked, handshakes, stream, lines, sticky>>
  BY DEF WriterRuns, WriterOpens, WriterOpenReturns, WriteLine, WriteLineReturns,
     WriteShutdown, WriterCloses, daemonVars, mouseVars
<1>2. /\ nline \in Nat /\ nline' \in Nat /\ writer' \in {"shut", "opening", "open", "write"}
      /\ writer' = "write" => nline' > 0
  BY Parts DEF WriterRuns, WriterOpens, WriterOpenReturns, WriteLine, WriteLineReturns,
     WriteShutdown, WriterCloses, mouseVars, TypeOK, LineIds
<1>3. \/ fifo' = fifo \/ fifo' = OpenForWriting(fifo) \/ fifo' = CloseWriter(fifo)
      \/ fifo' = Put(fifo, Shutdown(0)) \/ (fifo' = Put(fifo, Line(nline)) /\ nline > 0)
  <2>1. CASE WriteLineReturns
    <3>1. writer = "write"
      BY <2>1 DEF WriteLineReturns
    <3>2. nline > 0
      BY <3>1, Parts DEF LineIds
    <3> QED
      BY <2>1, <3>2 DEF WriteLineReturns
  <2>2. CASE WriterOpens \/ WriterCloses
    BY <2>2 DEF WriterOpens, WriterCloses
  <2>3. CASE WriterOpenReturns \/ WriteLine
    BY <2>3 DEF WriterOpenReturns, WriteLine
  <2>4. CASE WriteShutdown
    <3>1. fifo' = Put(fifo, Shutdown(0))
      BY <2>4 DEF WriteShutdown
    <3> QED
      BY <3>1
  <2> QED
    BY <2>1, <2>2, <2>3, <2>4 DEF WriterRuns
<1>4. Shutdown(0) \in Packet /\ ~IsReport(Shutdown(0)) /\ Line(nline) \in Packet /\ Line(nline).id = nline
  BY <1>2, LineIsReport, NotReport DEF Shutdown, Packet, Kinds
<1>5. fifo' \in FifoType(Packet, Daemons) /\ fifo'.readers = fifo.readers
  BY <1>3, <1>4, Parts, FifoHere, ReadersHere
<1>6. Numbered(fifo'.buf)
  <2>1. CASE fifo' = fifo \/ fifo' = OpenForWriting(fifo) \/ fifo' = CloseWriter(fifo)
    BY <2>1, Parts, BufHere DEF LineIds, Numbered
  <2>2. ASSUME NEW p \in Packet, fifo' = Put(fifo, p), IsReport(p) => p.id > 0
        PROVE  Numbered(fifo'.buf)
    <3>1. fifo'.buf = Append(fifo.buf, p)
      BY <2>2, Parts, BufHere
    <3>2. \A i \in DOMAIN Append(fifo.buf, p) :
             \/ i \in DOMAIN fifo.buf /\ Append(fifo.buf, p)[i] = fifo.buf[i]
             \/ Append(fifo.buf, p)[i] = p
      BY Parts
    <3> QED
      BY <2>2, <3>1, <3>2, Parts DEF LineIds, Numbered
  <2> QED
    BY <1>3, <1>4, <2>1, <2>2
<1>7. TypeOK'
  BY <1>1, <1>2, <1>5, Parts DEF TypeOK, DaemonTypeOK
<1>8. LineIds'
  BY <1>1, <1>2, <1>6, Parts DEF LineIds
<1>9. Holds'
  BY <1>1, <1>5, Parts DEF Holds
<1> QED
  BY <1>7, <1>8, <1>9 DEF IInv

LEMMA NextInv == IInv /\ [Next]_vars => IInv'
<1> SUFFICES ASSUME IInv, [Next]_vars PROVE IInv'
  OBVIOUS
<1>1. ASSUME NEW d \in Daemons, MainRuns(d) PROVE IInv'
  BY <1>1, StartUpInv, ConnectInv, PollInv, SendInv, ExitInv DEF MainRuns
<1>2. ASSUME NEW d \in Daemons, DaemonRuns(d), ~MainRuns(d) PROVE IInv'
  BY <1>2, StreamInv, FillInv, GetLineInv, GetLineEofInv DEF DaemonRuns
<1>3. CASE WriterRuns \/ UserActs
  BY <1>3, WriterInv, UserInv DEF UserActs
<1>4. CASE UNCHANGED vars
  BY <1>4 DEF vars, daemonVars, mouseVars, IInv, TypeOK, DaemonTypeOK, LineIds, Holds
<1> QED
  BY <1>1, <1>2, <1>3, <1>4, HostInv DEF Next

LEMMA Invariance == Spec => []IInv
BY InitInv, NextInv, PTL DEF Spec

-----------------------------------------------------------------------------
(* The queue of the channel, as lines move from the FIFO to the stream and *)
(* from there to the daemon.                                               *)
Waiting == Buffered \o fifo.buf

LEMMA HeadTailConcat ==
    ASSUME NEW S, NEW s \in Seq(S), NEW t \in Seq(S), s # <<>>
    PROVE  s \o t # <<>> /\ Head(s \o t) = Head(s) /\ Tail(s \o t) = Tail(s) \o t
<1>1. /\ s \o t \in Seq(S) /\ Len(s \o t) = Len(s) + Len(t)
      /\ \A i \in 1 .. Len(s) + Len(t) :
            (s \o t)[i] = IF i <= Len(s) THEN s[i] ELSE t[i - Len(s)]
  BY ConcatProperties
<1>2. Len(s) \in Nat /\ Len(s) >= 1 /\ Len(t) \in Nat
  OBVIOUS
<1>3. s \o t # <<>> /\ Head(s \o t) = Head(s)
  BY <1>1, <1>2
<1>4. /\ Tail(s \o t) \in Seq(S) /\ Len(Tail(s \o t)) = Len(s) + Len(t) - 1
      /\ \A i \in 1 .. Len(s) + Len(t) - 1 : Tail(s \o t)[i] = (s \o t)[i + 1]
  BY <1>1, <1>3, HeadTailProperties
<1>5. /\ Tail(s) \in Seq(S) /\ Len(Tail(s)) = Len(s) - 1
      /\ \A i \in 1 .. Len(s) - 1 : Tail(s)[i] = s[i + 1]
  BY HeadTailProperties
<1>6. /\ Tail(s) \o t \in Seq(S) /\ Len(Tail(s) \o t) = Len(s) - 1 + Len(t)
      /\ \A i \in 1 .. Len(s) - 1 + Len(t) :
            (Tail(s) \o t)[i] = IF i <= Len(s) - 1 THEN Tail(s)[i] ELSE t[i - (Len(s) - 1)]
  BY <1>5, ConcatProperties
<1>7. \A i \in 1 .. Len(s) + Len(t) - 1 : Tail(s \o t)[i] = (Tail(s) \o t)[i]
  <2> SUFFICES ASSUME NEW i \in 1 .. Len(s) + Len(t) - 1
               PROVE  Tail(s \o t)[i] = (Tail(s) \o t)[i]
    OBVIOUS
  <2>1. Tail(s \o t)[i] = IF i + 1 <= Len(s) THEN s[i + 1] ELSE t[i + 1 - Len(s)]
    BY <1>1, <1>2, <1>4
  <2>2. (Tail(s) \o t)[i] = IF i <= Len(s) - 1 THEN s[i + 1] ELSE t[i - (Len(s) - 1)]
    BY <1>2, <1>5, <1>6
  <2>3. i + 1 - Len(s) = i - (Len(s) - 1) /\ (i + 1 <= Len(s) <=> i <= Len(s) - 1)
    BY <1>2
  <2> QED
    BY <2>1, <2>2, <2>3
<1> QED
  BY <1>2, <1>3, <1>4, <1>6, <1>7, SeqEqual

LEMMA MarksConcat ==
    ASSUME NEW s \in Seq(Packet), NEW t \in Seq(Packet)
    PROVE  Marks(s \o t) = Marks(s) \o Marks(t)
<1>1. /\ s \o t \in Seq(Packet) /\ Len(s \o t) = Len(s) + Len(t)
      /\ \A i \in 1 .. Len(s) + Len(t) :
            (s \o t)[i] = IF i <= Len(s) THEN s[i] ELSE t[i - Len(s)]
      /\ Len(s) \in Nat /\ Len(t) \in Nat
  BY ConcatProperties
<1>2. /\ Marks(s \o t) \in Seq(Nat) /\ Len(Marks(s \o t)) = Len(s) + Len(t)
      /\ \A i \in 1 .. Len(s) + Len(t) : Marks(s \o t)[i] = Mark((s \o t)[i])
  BY <1>1, MarksType
<1>3. /\ Marks(s) \in Seq(Nat) /\ Len(Marks(s)) = Len(s)
      /\ \A i \in 1 .. Len(s) : Marks(s)[i] = Mark(s[i])
      /\ Marks(t) \in Seq(Nat) /\ Len(Marks(t)) = Len(t)
      /\ \A i \in 1 .. Len(t) : Marks(t)[i] = Mark(t[i])
  BY MarksType
<1>4. /\ Marks(s) \o Marks(t) \in Seq(Nat) /\ Len(Marks(s) \o Marks(t)) = Len(s) + Len(t)
      /\ \A i \in 1 .. Len(s) + Len(t) : (Marks(s) \o Marks(t))[i] =
            IF i <= Len(s) THEN Marks(s)[i] ELSE Marks(t)[i - Len(s)]
  <2>1. ASSUME NEW m \in Seq(Nat), NEW n \in Seq(Nat), Len(m) = Len(s), Len(n) = Len(t)
        PROVE  /\ m \o n \in Seq(Nat) /\ Len(m \o n) = Len(s) + Len(t)
               /\ \A i \in 1 .. Len(s) + Len(t) : (m \o n)[i] =
                     IF i <= Len(s) THEN m[i] ELSE n[i - Len(s)]
    <3>1. /\ m \o n \in Seq(Nat) /\ Len(m \o n) = Len(m) + Len(n)
          /\ \A i \in 1 .. Len(m) + Len(n) : (m \o n)[i] =
                IF i <= Len(m) THEN m[i] ELSE n[i - Len(m)]
      BY ConcatProperties
    <3> QED
      BY <2>1, <3>1
  <2> QED
    BY <1>3, <2>1
<1>5. \A i \in 1 .. Len(s) + Len(t) : Marks(s \o t)[i] = (Marks(s) \o Marks(t))[i]
  <2> SUFFICES ASSUME NEW i \in 1 .. Len(s) + Len(t)
               PROVE  Marks(s \o t)[i] = (Marks(s) \o Marks(t))[i]
    OBVIOUS
  <2>1. CASE i <= Len(s)
    BY <1>1, <1>2, <1>3, <1>4, <2>1
  <2>2. CASE ~(i <= Len(s))
    <3>1. i - Len(s) \in 1 .. Len(t)
      BY <1>1, <2>2
    <3> QED
      BY <1>1, <1>2, <1>3, <1>4, <2>2, <3>1
  <2> QED
    BY <2>1, <2>2
<1> QED
  BY <1>2, <1>4, <1>5, SeqEqual

(* The rear of a queue is what is left when its front is lost.             *)
LEMMA Rear ==
    ASSUME NEW S, NEW a \in Seq(S), NEW b \in Seq(S)
    PROVE  /\ \E k \in 1 .. Len(a \o b) + 1 : b = SubSeq(a \o b, k, Len(a \o b))
           /\ \E k \in 1 .. Len(a \o b) + 1 : <<>> = SubSeq(a \o b, k, Len(a \o b))
<1> DEFINE q == a \o b
<1>1. /\ q \in Seq(S) /\ Len(q) = Len(a) + Len(b) /\ Len(a) \in Nat /\ Len(b) \in Nat
      /\ \A i \in 1 .. Len(a) + Len(b) : q[i] = IF i <= Len(a) THEN a[i] ELSE b[i - Len(a)]
  BY ConcatProperties
<1> HIDE DEF q
<1>2. Len(q) + 1 \in 1 .. Len(q) + 1 /\ <<>> = SubSeq(q, Len(q) + 1, Len(q))
  BY <1>1, SubSeqEmpty
<1>3. Len(a) + 1 \in 1 .. Len(q) + 1
  BY <1>1
<1>4. b = SubSeq(q, Len(a) + 1, Len(q))
  <2> DEFINE r == SubSeq(q, Len(a) + 1, Len(q))
  <2>1. \A i \in Len(a) + 1 .. Len(q) : q[i] \in S
    BY <1>1
  <2>2. /\ r \in Seq(S)
        /\ Len(r) = IF Len(a) + 1 <= Len(q) THEN Len(q) - (Len(a) + 1) + 1 ELSE 0
        /\ \A i \in 1 .. Len(q) - (Len(a) + 1) + 1 : r[i] = q[Len(a) + 1 + i - 1]
    BY <1>1, <2>1, SubSeqProperties
  <2> HIDE DEF r
  <2>3. Len(r) = Len(b) /\ Len(q) - (Len(a) + 1) + 1 = Len(b)
    BY <1>1, <2>2
  <2>4. \A i \in 1 .. Len(b) : b[i] = r[i]
    <3> SUFFICES ASSUME NEW i \in 1 .. Len(b) PROVE b[i] = r[i]
      OBVIOUS
    <3>1. r[i] = q[Len(a) + 1 + i - 1] /\ Len(a) + 1 + i - 1 = Len(a) + i
      BY <1>1, <2>2, <2>3
    <3>2. Len(a) + i \in 1 .. Len(a) + Len(b) /\ ~(Len(a) + i <= Len(a))
          /\ Len(a) + i - Len(a) = i
      BY <1>1
    <3> QED
      BY <1>1, <3>1, <3>2
  <2>5. b = r
    BY <2>2, <2>3, <2>4, SeqEqual
  <2> QED
    BY <2>5 DEF r
<1>5. /\ \E k \in 1 .. Len(q) + 1 : b = SubSeq(q, k, Len(q))
      /\ \E k \in 1 .. Len(q) + 1 : <<>> = SubSeq(q, k, Len(q))
  BY <1>2, <1>3, <1>4
<1> QED
  BY <1>5 DEF q

LEMMA Queued ==
    ASSUME IInv
    PROVE  /\ Buffered \in Seq(Packet) /\ fifo.buf \in Seq(Packet)
           /\ Waiting \in Seq(Packet) /\ Marks(Waiting) = Marks(Buffered) \o Marks(fifo.buf)
           /\ Marks(Buffered) \in Seq(Nat) /\ Marks(fifo.buf) \in Seq(Nat)
<1>1. Buffered \in Seq(Packet) /\ fifo.buf \in Seq(Packet)
  BY Parts, OneDaemon DEF Buffered
<1> QED
  BY <1>1, ConcatProperties, MarksConcat, MarksType DEF Waiting

(* What the lines are, with one daemon.                                    *)
LEMMA BufferedIs ==
    ASSUME NEW d \in Daemons
    PROVE  /\ Buffered = IF pc[d] \in Ending THEN <<>> ELSE lines[d]
           /\ Ended = IF pc[d] \in Ending THEN {d} ELSE {}
BY OneDaemon DEF Buffered, Ended

(* What becomes of the queue is what the channel sees of it.               *)
LEMMA Stutter ==
    ASSUME UNCHANGED <<nline, writer, host, DaemonsSeen, Waiting>>
    PROVE  UNCHANGED Channel!vars
<1>1. Marks(Waiting)' = Marks(Waiting)
  BY DEF Marks
<1> QED
  BY <1>1 DEF Channel!vars, DaemonsSeen, Waiting

(* The daemon ends: what is in the stream goes, and perhaps the FIFO.      *)
LEMMA EndRefines ==
    ASSUME IInv, NEW d \in Daemons, Quiet, UNCHANGED <<host, writer, nline>>,
           Ended' = Ended \cup {d},
           InFlight' = [c \in Daemons |-> IF c \in {d} THEN 0 ELSE InFlight[c]]
    PROVE  [Channel!Next]_(Channel!vars)
<1> DEFINE Q == Marks(Waiting)
           A == Marks(Buffered)
           B == Marks(fifo.buf)
<1>1. Q = A \o B /\ A \in Seq(Nat) /\ B \in Seq(Nat)
  BY Queued
<1>2. Q' \in {B, <<>>}
  <2>1. Buffered' = <<>>
    BY DEF Buffered
  <2>2. fifo'.buf \in {fifo.buf, <<>>} /\ fifo.buf \in Seq(Packet) /\ <<>> \in Seq(Packet)
    BY Parts DEF Quiet
  <2>3. Waiting' = fifo'.buf
    BY <2>1, <2>2, ConcatEmptySeq DEF Waiting
  <2>4. Q' = Marks(fifo'.buf)
    BY <2>3 DEF Marks
  <2> QED
    BY <2>2, <2>4, MarksEmpty
<1> HIDE DEF Q, A, B
<1>3. \E k \in 1 .. Len(Q) + 1 : Q' = SubSeq(Q, k, Len(Q))
  <2>1. /\ \E k \in 1 .. Len(A \o B) + 1 : B = SubSeq(A \o B, k, Len(A \o B))
        /\ \E k \in 1 .. Len(A \o B) + 1 : <<>> = SubSeq(A \o B, k, Len(A \o B))
    BY <1>1, Rear
  <2>2. /\ \E k \in 1 .. Len(Q) + 1 : B = SubSeq(Q, k, Len(Q))
        /\ \E k \in 1 .. Len(Q) + 1 : <<>> = SubSeq(Q, k, Len(Q))
    BY <1>1, <2>1
  <2> QED
    BY <1>2, <2>2
<1>4. Channel!Stop({d})
  BY <1>3 DEF Channel!Stop, Channel!Nothing, Q, Waiting
<1> QED
  BY <1>4 DEF Channel!Next

(* A step of main() that sends nothing.                                    *)
LEMMA MainRefines ==
    ASSUME IInv, NEW d \in Daemons, UNCHANGED <<lines, writer, nline>>,
           \/ Start(d) \/ OpenFifo(d) \/ OpenFifoReturns(d) \/ InitConn(d)
           \/ Connect(d) \/ Poll(d) \/ (\E c \in Channels : ProcessSk(d, c))
           \/ ProcessSrc(d)
           \/ CloseInt(d) \/ CloseCnt(d) \/ KilledCloseCnt(d) \/ KilledCloseInt(d)
    PROVE  [Channel!Next]_(Channel!vars)
<1>1. /\ Quiet /\ UNCHANGED <<cur, host>> /\ pc[d] # "send"
      /\ \E l \in PCs \ {"send"} : Goto(d, l) /\ (pc[d] \in Ending => l \in Ending)
      /\ fifo'.buf # fifo.buf => pc'[d] \in Ending
  BY Parts, QuietDaemon
<1>2. PICK l \in PCs \ {"send"} : Goto(d, l) /\ (pc[d] \in Ending => l \in Ending)
  BY <1>1
<1>3. pc'[d] = l
  BY <1>2, Parts, Moves
<1>4. CASE l \in Ending
  <2>1. /\ Ended' = Ended \cup {d}
        /\ InFlight' = [c \in Daemons |-> IF c \in {d} THEN 0 ELSE InFlight[c]]
    BY <1>1, <1>2, <1>4, Parts, StopGoto
  <2> QED
    BY <1>1, <2>1, EndRefines
<1>5. CASE l \notin Ending
  <2>1. UNCHANGED DaemonsSeen
    BY <1>1, <1>2, <1>5, Parts, QuietGoto
  <2>2. fifo'.buf = fifo.buf
    BY <1>1, <1>3, <1>5
  <2>3. Waiting' = Waiting
    BY <2>1, <2>2 DEF Waiting, Buffered, DaemonsSeen
  <2> QED
    BY <1>1, <2>1, <2>3, Stutter
<1> QED
  BY <1>4, <1>5

LEMMA SendRefines ==
    ASSUME IInv, NEW d \in Daemons, SendReport(d), UNCHANGED <<lines, writer, nline>>
    PROVE  [Channel!Next]_(Channel!vars)
<1>1. /\ pc \in [Daemons -> PCs] /\ pc[d] = "send" /\ cur[d].id > 0 /\ cur[d].id \in Nat
      /\ UNCHANGED <<cur, fifo>>
  BY Parts DEF LineIds, DaemonTypeOK, SendReport, Packet
<1>2. PICK l \in {"read", "poll"} : Goto(d, l)
  BY DEF SendReport
<1>3. \A e \in Daemons : e = d /\ pc'[e] = l
  BY <1>2, Parts, Moves DEF PCs
<1>4. Ended' = Ended /\ InFlight[d] = cur[d].id /\ cur[d].id # 0
  BY <1>1, <1>3 DEF Ended, Ending, InFlight
<1>5. InFlight' = [InFlight EXCEPT ![d] = 0]
  BY <1>1, <1>3 DEF InFlight
<1>6. Marks(Waiting)' = Marks(Waiting)
  BY <1>1, <1>4 DEF Waiting, Buffered, Marks
<1>7. CASE host' = Append(host, [daemon |-> d, id |-> cur[d].id])
  <2>1. Channel!PassOn(d)
    BY <1>4, <1>5, <1>6, <1>7 DEF Channel!PassOn, Channel!Nothing, SendReport, Waiting
  <2> QED
    BY <2>1 DEF Channel!Next
<1>8. CASE UNCHANGED host
  <2>1. Channel!Lose(d)
    BY <1>4, <1>5, <1>6, <1>8 DEF Channel!Lose, Channel!Nothing, SendReport, Waiting
  <2> QED
    BY <2>1 DEF Channel!Next
<1> QED
  BY <1>7, <1>8 DEF SendReport

(* The stream.                                                             *)
LEMMA FillRefines ==
    ASSUME IInv, NEW d \in Daemons, Fill(d) PROVE [Channel!Next]_(Channel!vars)
<1>1. PICK n \in 0 .. Len(fifo.buf) :
         /\ lines' = [lines EXCEPT ![d] = SubSeq(fifo.buf, 1, n)]
         /\ fifo' = [fifo EXCEPT !.buf = SubSeq(fifo.buf, n + 1, Len(fifo.buf))]
  BY Filled
<1>2. /\ pc[d] = "read" /\ lines[d] = <<>> /\ UNCHANGED <<pc, cur, host, writer, nline>>
  BY Filled DEF daemonVars
<1>3. /\ lines'[d] = SubSeq(fifo.buf, 1, n)
      /\ fifo'.buf = SubSeq(fifo.buf, n + 1, Len(fifo.buf))
      /\ fifo.buf \in Seq(Packet)
  BY <1>1, Parts DEF DaemonTypeOK, FifoType, TypeOK
<1>4. pc[d] \notin Ending
  BY <1>2 DEF Ending
<1>5. Buffered = <<>> /\ Buffered' = lines'[d]
  BY <1>2, <1>4, OneDaemon DEF Buffered, Ended
<1>6. Waiting = fifo.buf
  BY <1>3, <1>5, ConcatEmptySeq DEF Waiting
<1>7. SubSeq(fifo.buf, 1, n) \o SubSeq(fifo.buf, n + 1, Len(fifo.buf)) = fifo.buf
  <2>1. /\ Len(fifo.buf) \in Nat /\ 1 \in 1 .. Len(fifo.buf) + 1
        /\ n \in 1 - 1 .. Len(fifo.buf) /\ Len(fifo.buf) \in n .. Len(fifo.buf)
    BY <1>3
  <2>2. SubSeq(fifo.buf, 1, n) \o SubSeq(fifo.buf, n + 1, Len(fifo.buf))
           = SubSeq(fifo.buf, 1, Len(fifo.buf))
    BY <1>3, <2>1, ConcatAdjacentSubSeq
  <2> QED
    BY <1>3, <2>2, SubSeqFull
<1>8. Waiting' = Waiting
  BY <1>3, <1>5, <1>6, <1>7 DEF Waiting
<1> QED
  BY <1>2, <1>8, SeenAlone, Stutter

LEMMA GetLineRefines ==
    ASSUME IInv, NEW d \in Daemons, GetLine(d) PROVE [Channel!Next]_(Channel!vars)
<1> DEFINE p == Head(lines[d])
<1>1. /\ pc[d] = "read" /\ lines[d] # <<>> /\ cur' = [cur EXCEPT ![d] = p]
      /\ lines' = [lines EXCEPT ![d] = Tail(lines[d])]
      /\ Goto(d, IF IsReport(p) THEN "send" ELSE "exit")
      /\ UNCHANGED <<fifo, host, writer, nline>>
  BY DEF GetLine
<1>2. /\ p \in Packet /\ (IsReport(p) => p.id > 0) /\ Tail(lines[d]) \in Seq(Packet)
      /\ lines[d] \in Seq(Packet) /\ fifo.buf \in Seq(Packet)
  BY <1>1, Parts, TailNumbered DEF LineIds
<1> HIDE DEF p
<1>3. d \notin Ended /\ pc[d] \notin Ending /\ InFlight[d] = 0
  BY <1>1 DEF Ended, Ending, InFlight
<1>4. CASE IsReport(p)
  <2>1. \A e \in Daemons : e = d /\ pc'[e] = "send" /\ cur'[e] = p
    <3>1. Goto(d, "send") /\ "send" \in PCs
      BY <1>1, <1>4 DEF PCs
    <3>2. \A e \in Daemons : e = d /\ pc'[e] = "send"
      BY <3>1, Parts, Moves
    <3>3. cur \in [Daemons -> Packet]
      BY Parts DEF DaemonTypeOK
    <3> QED
      BY <1>1, <3>2, <3>3
  <2>2. Ended' = Ended /\ Ended = {}
    BY <1>3, <2>1 DEF Ended, Ending
  <2>3. InFlight' = [InFlight EXCEPT ![d] = Mark(p)]
    BY <1>4, <2>1 DEF InFlight, Mark
  <2>4. Mark(p) # 0
    BY <1>2, <1>4 DEF Mark, Packet
  <2>5. Waiting = lines[d] \o fifo.buf /\ Waiting' = Tail(lines[d]) \o fifo.buf
    BY <1>1, <2>2, Parts, OneDaemon DEF Waiting, Buffered, TypeOK
  <2>6. Waiting # <<>> /\ Head(Waiting) = p /\ Waiting' = Tail(Waiting)
    BY <1>1, <1>2, <2>5, HeadTailConcat DEF p
  <2>7. /\ Marks(Waiting) # <<>> /\ Head(Marks(Waiting)) = Mark(p)
        /\ Marks(Waiting)' = Tail(Marks(Waiting))
    <3>1. Marks(Waiting)' = Marks(Tail(Waiting))
      BY <2>6 DEF Marks
    <3> QED
      BY <2>6, <3>1, Queued, MarksTail
  <2>8. Channel!Take(d)
    BY <1>1, <1>3, <2>2, <2>3, <2>4, <2>7
       DEF Channel!Take, Channel!Nothing, Channel!StopMark, Waiting
  <2> QED
    BY <2>8 DEF Channel!Next
<1>5. CASE ~IsReport(p)
  <2>1. \A e \in Daemons : e = d /\ pc'[e] = "exit"
    BY <1>1, <1>5, Parts, Moves DEF PCs
  <2>2. Ended' = Ended \cup {d}
    BY <2>1 DEF Ended, Ending
  <2>3. InFlight' = [c \in Daemons |-> IF c \in {d} THEN 0 ELSE InFlight[c]]
    BY <2>1 DEF InFlight
  <2> QED
    BY <1>1, <2>2, <2>3, EndRefines DEF Quiet
<1> QED
  BY <1>4, <1>5

(* A report can only be thrown away with its writer when nobody reads the  *)
(* FIFO, and then the stream is empty: all goes, or nothing.               *)
LEMMA LeaveRefines ==
    ASSUME IInv, fifo' = CloseWriter(fifo), writer # "opening", writer' = "shut",
           UNCHANGED <<daemonVars, lines, nline>>
    PROVE  [Channel!Next]_(Channel!vars)
<1>1. UNCHANGED <<pc, cur, host>>
  BY DEF daemonVars
<1>2. UNCHANGED <<DaemonsSeen, Buffered>>
  BY <1>1, SeenAlone DEF Buffered, DaemonsSeen
<1>3. Marks(Waiting)' \in {Marks(Waiting), <<>>}
  <2>1. CASE fifo.readers = {}
    <3>1. \A d \in Daemons : pc[d] \notin Serving
      BY <2>1, Parts DEF Holds, Started, Serving, PCs
    <3>2. Buffered = <<>>
      BY <3>1, Parts, OneDaemon DEF Holds, Buffered, Ended
    <3>3. fifo'.buf \in {fifo.buf, <<>>} /\ fifo.buf \in Seq(Packet)
      BY Parts, BufHere
    <3>4. Waiting' \in {Waiting, <<>>}
      BY <1>2, <3>2, <3>3, ConcatEmptySeq DEF Waiting
    <3> QED
      BY <3>4, MarksEmpty DEF Marks
  <2>2. CASE fifo.readers # {}
    <3>1. fifo \in FifoType(Packet, Daemons)
      BY Parts DEF DaemonTypeOK
    <3>2. fifo'.buf = fifo.buf
      BY <2>2, <3>1 DEF CloseWriter, FifoType
    <3>3. Waiting' = Waiting
      BY <1>2, <3>2 DEF Waiting
    <3> QED
      BY <3>3 DEF Marks
  <2> QED
    BY <2>1, <2>2
<1>4. Channel!Withdraw
  BY <1>1, <1>2, <1>3 DEF Channel!Withdraw, Channel!Nothing, DaemonsSeen, Waiting
<1> QED
  BY <1>4 DEF Channel!Next

LEMMA PutQueued ==
    ASSUME IInv, NEW p \in Packet, fifo' = Put(fifo, p), UNCHANGED <<pc, lines>>
    PROVE  Marks(Waiting)' = Append(Marks(Waiting), Mark(p))
<1>1. Buffered' = Buffered
  BY DEF Buffered, Ended
<1>2. fifo'.buf = Append(fifo.buf, p)
  BY Parts, BufHere
<1>3. /\ Buffered \in Seq(Packet) /\ fifo.buf \in Seq(Packet) /\ <<p>> \in Seq(Packet)
      /\ Waiting \in Seq(Packet)
  BY Queued
<1>4. Waiting' = Buffered \o (fifo.buf \o <<p>>)
  BY <1>1, <1>2, <1>3, AppendIsConcat DEF Waiting
<1>5. Waiting' = Append(Waiting, p)
  BY <1>3, <1>4, ConcatAssociative, AppendIsConcat DEF Waiting
<1>6. Marks(Waiting)' = Marks(Append(Waiting, p))
  BY <1>5 DEF Marks
<1> QED
  BY <1>3, <1>6, MarksAppend

LEMMA WriterRefines ==
    ASSUME IInv, \/ WriterRuns \/ WriterOpens \/ WriteLine \/ WriteShutdown \/ WriterCloses
    PROVE  [Channel!Next]_(Channel!vars)
<1>1. UNCHANGED <<daemonVars, pc, cur, host, lines>> /\ UNCHANGED DaemonsSeen
  <2>1. UNCHANGED <<daemonVars, lines>>
    BY DEF WriterRuns, WriterOpens, WriterOpenReturns, WriteLine, WriteLineReturns,
       WriteShutdown, WriterCloses, mouseVars
  <2>2. UNCHANGED <<pc, cur, host>>
    BY <2>1 DEF daemonVars
  <2> QED
    BY <2>1, <2>2, SeenAlone
<1>2. Buffered' = Buffered
  BY <1>1 DEF Buffered, DaemonsSeen
<1>3. CASE WriterOpens
  <2>1. fifo'.buf = fifo.buf
    BY <1>3, Parts, BufHere DEF WriterOpens
  <2>2. Waiting' = Waiting
    BY <1>2, <2>1 DEF Waiting
  <2>3. Marks(Waiting)' = Marks(Waiting)
    BY <2>2 DEF Marks
  <2> QED
    BY <1>1, <1>3, <2>3 DEF Channel!vars, WriterOpens, DaemonsSeen, Waiting
<1>4. CASE WriterOpenReturns
  <2>1. Waiting' = Waiting
    BY <1>2, <1>4 DEF Waiting, WriterOpenReturns
  <2>2. Marks(Waiting)' = Marks(Waiting)
    BY <2>1 DEF Marks
  <2> QED
    BY <1>1, <1>4, <2>2 DEF Channel!vars, WriterOpenReturns, DaemonsSeen, Waiting
<1>5. CASE WriteLine
  <2>1. Waiting' = Waiting
    BY <1>2, <1>5 DEF Waiting, WriteLine
  <2>2. Marks(Waiting)' = Marks(Waiting)
    BY <2>1 DEF Marks
  <2>3. Channel!Make
    BY <1>1, <1>5, <2>2 DEF Channel!Make, Channel!Nothing, WriteLine, DaemonsSeen, Waiting
  <2> QED
    BY <2>3 DEF Channel!Next
<1>6. CASE WriteShutdown
  <2>1. fifo' = Put(fifo, Shutdown(0)) /\ UNCHANGED <<nline, writer>>
    BY <1>6 DEF WriteShutdown, mouseVars
  <2>2. Shutdown(0) \in Packet
    BY DEF Shutdown, Packet, Kinds
  <2>3. Mark(Shutdown(0)) = 0
    BY NotReport DEF Mark
  <2>4. Marks(Waiting)' = Append(Marks(Waiting), 0)
    BY <1>1, <2>1, <2>2, <2>3, PutQueued
  <2>5. Channel!AcceptStop
    BY <1>1, <2>1, <2>4 DEF Channel!AcceptStop, Channel!StopMark, DaemonsSeen, Waiting
  <2> QED
    BY <2>5 DEF Channel!Next
<1>7. CASE WriterCloses
  BY <1>1, <1>7, LeaveRefines DEF WriterCloses
<1>8. CASE WriteLineReturns
  <2>1. writer = "write" /\ nline \in Nat /\ nline > 0 /\ nline' = nline
    BY <1>8, Parts DEF WriteLineReturns, LineIds, TypeOK
  <2>2. CASE fifo' = CloseWriter(fifo) /\ writer' = "shut"
    BY <1>1, <2>1, <2>2, LeaveRefines
  <2>3. CASE fifo' = Put(fifo, Line(nline)) /\ writer' = "open"
    <3>1. Line(nline) \in Packet /\ Mark(Line(nline)) = nline
      BY <2>1, LineIsReport DEF Mark
    <3>2. Marks(Waiting)' = Append(Marks(Waiting), nline)
      BY <1>1, <2>3, <3>1, PutQueued
    <3>3. Channel!Accept
      BY <1>1, <2>1, <2>3, <3>2 DEF Channel!Accept, Channel!Nothing, DaemonsSeen, Waiting
    <3> QED
      BY <3>3 DEF Channel!Next
  <2> QED
    BY <1>8, <2>2, <2>3 DEF WriteLineReturns
<1> QED
  BY <1>3, <1>4, <1>5, <1>6, <1>7, <1>8 DEF WriterRuns

LEMMA UserRefines ==
    ASSUME IInv, NEW d \in Daemons, UserStarts(d) \/ UserKills(d)
    PROVE  [Channel!Next]_(Channel!vars)
<1>1. UNCHANGED <<fifo, lines, cur, host, writer, nline>>
  BY DEF UserStarts, UserKills, mouseVars
<1>2. CASE UserStarts(d)
  <2>1. Goto(d, "spawned") /\ pc[d] = "unborn"
    BY <1>2 DEF UserStarts
  <2>2. UNCHANGED DaemonsSeen
    BY <1>1, <2>1, Parts, QuietGoto DEF Ending
  <2>3. Waiting' = Waiting
    BY <1>1, <2>2 DEF Waiting, Buffered, DaemonsSeen
  <2> QED
    BY <1>1, <2>2, <2>3, Stutter
<1>3. CASE UserKills(d)
  <2>1. Goto(d, "killed") /\ "killed" \in Ending
    BY <1>3 DEF UserKills, Ending
  <2>2. /\ Ended' = Ended \cup {d}
        /\ InFlight' = [c \in Daemons |-> IF c \in {d} THEN 0 ELSE InFlight[c]]
    BY <1>1, <2>1, Parts, StopGoto
  <2> QED
    BY <1>1, <2>2, EndRefines DEF Quiet
<1> QED
  BY <1>2, <1>3

LEMMA StreamRefines ==
    ASSUME IInv, NEW d \in Daemons,
           OpenStream(d) \/ UseStream(d) \/ OpenStreamFails(d) \/ GetLineEof(d)
    PROVE  [Channel!Next]_(Channel!vars)
<1>1. CASE OpenStream(d) \/ UseStream(d)
  BY <1>1, MainRefines DEF OpenStream, UseStream, mouseVars
<1>2. CASE OpenStreamFails(d) \/ GetLineEof(d)
  <2>1. /\ Goto(d, "poll") /\ pc[d] \in {"serve", "read"}
        /\ UNCHANGED <<fifo, lines, cur, host, writer, nline>>
    BY <1>2 DEF OpenStreamFails, GetLineEof, mouseVars
  <2>2. UNCHANGED DaemonsSeen
    BY <2>1, Parts, QuietGoto DEF Ending
  <2>3. Waiting' = Waiting
    BY <2>1, <2>2 DEF Waiting, Buffered, DaemonsSeen
  <2> QED
    BY <2>1, <2>2, <2>3, Stutter
<1> QED
  BY <1>1, <1>2

LEMMA InitRefines == Init => Channel!Init
<1> SUFFICES ASSUME Init PROVE Channel!Init
  OBVIOUS
<1>1. Waiting = <<>>
  <2>1. Buffered = <<>> /\ fifo.buf = <<>> /\ <<>> \in Seq(Packet)
    BY OneDaemon DEF Init, AbsentFifo, Buffered
  <2> QED
    BY <2>1, ConcatEmptySeq DEF Waiting
<1>2. Marks(Waiting) = <<>>
  BY <1>1, MarksEmpty
<1>3. InFlight = [d \in Daemons |-> 0] /\ Ended = {}
  BY DEF Init, DaemonInit, InFlight, Ended, Ending
<1> QED
  BY <1>2, <1>3 DEF Init, DaemonInit, Channel!Init, Channel!Nothing, Waiting

LEMMA NextRefines == IInv /\ [Next]_vars => [Channel!Next]_(Channel!vars)
<1> SUFFICES ASSUME IInv, [Next]_vars PROVE [Channel!Next]_(Channel!vars)
  OBVIOUS
<1>1. ASSUME NEW d \in Daemons, DaemonRuns(d) PROVE [Channel!Next]_(Channel!vars)
  <2>1. CASE MainRuns(d)
    BY <2>1, MainRefines, SendRefines DEF MainRuns, mouseVars
  <2> QED
    BY <1>1, <2>1, StreamRefines, FillRefines, GetLineRefines DEF DaemonRuns
<1>2. ASSUME NEW d \in Daemons, NEW c \in Channels, HostLeaves(d, c)
      PROVE  [Channel!Next]_(Channel!vars)
  <2>1. UNCHANGED <<fifo, pc, cur, host, lines, writer, nline>>
    BY <1>2 DEF HostLeaves, HostDisconnects, mouseVars
  <2> QED
    BY <2>1, SeenAlone, Stutter DEF Waiting, Buffered, Ended
<1>3. CASE WriterRuns \/ UserActs
  BY <1>3, WriterRefines, UserRefines DEF UserActs
<1>4. CASE UNCHANGED vars
  <2>1. UNCHANGED <<fifo, pc, cur, host, lines, writer, nline>>
    BY <1>4 DEF vars, daemonVars, mouseVars
  <2> QED
    BY <2>1, SeenAlone, Stutter DEF Waiting, Buffered, Ended
<1> QED
  BY <1>1, <1>2, <1>3, <1>4 DEF Next

(* The connection type mouse, which takes lines from the FIFO in advance,  *)
(* implements the channel of ReportChannel: a line is taken by the daemon  *)
(* once, in the order in which the lines were written, nothing is sent     *)
(* after a line SHUTDOWN or by a killed daemon, and lines are only lost    *)
(* when a send fails, the daemon ends or the FIFO is left without readers. *)
THEOREM Refinement == Spec => ImplementsChannel
BY InitRefines, NextRefines, Invariance, PTL DEF Spec, ImplementsChannel, Channel!Spec

-----------------------------------------------------------------------------
(* What is left in the stream.                                             *)
ChannelTheorems == INSTANCE ReportChannel_proofs WITH
    Consumers <- Daemons, made <- nline,
    offer <- IF writer = "write" THEN nline ELSE 0,
    queue <- Marks(Buffered \o fifo.buf),
    held <- InFlight, stopped <- Ended, got <- host

(* The theorems about the channel speak of the same channel.               *)
LEMMA SameChannel ==
    /\ Channel!Init <=> ChannelTheorems!Init
    /\ [Channel!Next]_(Channel!vars) <=> [ChannelTheorems!Next]_(ChannelTheorems!vars)
BY DEF Channel!Init, ChannelTheorems!Init, Channel!Next, ChannelTheorems!Next,
   Channel!vars, ChannelTheorems!vars, Channel!Make, ChannelTheorems!Make,
   Channel!Accept, ChannelTheorems!Accept, Channel!AcceptStop,
   ChannelTheorems!AcceptStop, Channel!Withdraw, ChannelTheorems!Withdraw,
   Channel!Take, ChannelTheorems!Take, Channel!TakeStop, ChannelTheorems!TakeStop,
   Channel!PassOn, ChannelTheorems!PassOn, Channel!Lose, ChannelTheorems!Lose,
   Channel!Stop, ChannelTheorems!Stop, Channel!Nothing, ChannelTheorems!Nothing,
   Channel!StopMark, ChannelTheorems!StopMark

(* The line in hand has not been sent before: the channel passes nothing   *)
(* on twice.                                                               *)
Unsent == \A d \in Daemons, i \in DOMAIN host : pc[d] = "send" => host[i].id # cur[d].id

LEMMA UnsentInvariance == Spec => []Unsent
<1>1. ChannelTheorems!Spec => []ChannelTheorems!Inv
  BY ChannelTheorems!Invariance
<1>2. IInv /\ ChannelTheorems!Inv => Unsent
  <2> SUFFICES ASSUME IInv, ChannelTheorems!Inv, NEW d \in Daemons, NEW i \in DOMAIN host,
                      pc[d] = "send"
               PROVE  host[i].id # cur[d].id
    BY DEF Unsent
  <2>1. InFlight[d] = cur[d].id /\ cur[d].id # 0
    BY Parts DEF InFlight, LineIds
  <2>2. InFlight[d] # 0 => host[i].id # InFlight[d]
    BY DEF ChannelTheorems!Inv, ChannelTheorems!GotInv, ChannelTheorems!Nothing
  <2> QED
    BY <2>1, <2>2
<1> QED
  BY <1>1, <1>2, InitRefines, NextRefines, Invariance, SameChannel, PTL
     DEF Spec, ChannelTheorems!Spec

(* Steps that leave nothing new behind.                                    *)
LEMMA StrandFrame ==
    ASSUME NoLineStranded, UNCHANGED <<cur, host>>,
           \A d \in Daemons :
               pc'[d] \in {"poll", "serve"} /\ lines'[d] # <<>> =>
                   pc[d] \in {"poll", "serve"} /\ lines[d] # <<>>
    PROVE  NoLineStranded'
BY DEF NoLineStranded

LEMMA MainStrand ==
    ASSUME IInv, NoLineStranded, NEW d \in Daemons, UNCHANGED lines,
           \/ Start(d) \/ OpenFifo(d) \/ OpenFifoReturns(d) \/ InitConn(d) \/ Connect(d)
           \/ Poll(d) \/ (\E c \in Channels : ProcessSk(d, c)) \/ ProcessSrc(d)
           \/ CloseInt(d) \/ CloseCnt(d) \/ KilledCloseCnt(d) \/ KilledCloseInt(d)
    PROVE  NoLineStranded'
<1>1. UNCHANGED <<cur, host>>
  BY DEF Start, OpenFifo, OpenFifoReturns, InitConn, Connect, Poll, ProcessSk, ProcessSrc,
         CloseInt, CloseCnt, KilledCloseCnt, KilledCloseInt
<1>2. PICK l \in PCs : Goto(d, l) /\ (l \in {"poll", "serve"} =>
                                       pc[d] \in {"poll", "serve"} \/ pc[d] \in Channels)
  BY DEF PCs, Channels, Start, OpenFifo, OpenFifoReturns, InitConn, Connect, Poll, ProcessSk,
         ProcessSrc, CloseInt, CloseCnt, KilledCloseCnt, KilledCloseInt
<1>3. \A e \in Daemons : e = d /\ pc'[e] = l
  BY <1>2, Parts, Moves
<1>4. pc[d] \in Channels => lines[d] = <<>>
  BY Parts DEF Holds, Channels, Serving, Ending
<1> QED
  BY <1>1, <1>2, <1>3, <1>4, StrandFrame

LEMMA SendStrand ==
    ASSUME IInv, Unsent, NEW d \in Daemons, SendReport(d) PROVE NoLineStranded'
<1>1. pc[d] = "send" /\ cur' = cur /\ IsReport(cur[d])
  BY Parts DEF SendReport, LineIds
<1>2. PICK l \in {"read", "poll"} : Goto(d, l) /\ (l = "poll" => host' = host)
  BY DEF SendReport
<1>3. \A e \in Daemons : e = d /\ pc'[e] = l
  BY <1>2, Parts, Moves DEF PCs
<1> QED
  BY <1>1, <1>2, <1>3 DEF NoLineStranded, Unsent

LEMMA StreamStrand ==
    ASSUME IInv, NoLineStranded, NEW d \in Daemons,
           \/ OpenStream(d) \/ OpenStreamFails(d) \/ UseStream(d)
           \/ Fill(d) \/ GetLine(d) \/ GetLineEof(d)
    PROVE  NoLineStranded'
<1>1. CASE OpenStream(d) \/ UseStream(d)
  BY <1>1, MainStrand DEF OpenStream, UseStream, mouseVars
<1>2. CASE OpenStreamFails(d) \/ GetLineEof(d)
  <2>1. /\ UNCHANGED <<cur, host, lines>> /\ Goto(d, "poll")
        /\ pc[d] = "serve" \/ lines[d] = <<>>
    BY <1>2 DEF OpenStreamFails, GetLineEof, mouseVars
  <2>2. \A e \in Daemons : e = d
    BY OneDaemon
  <2> QED
    BY <2>1, <2>2, StrandFrame
<1>3. CASE Fill(d)
  <2>1. UNCHANGED <<cur, host, pc>> /\ pc[d] = "read"
    BY <1>3 DEF Fill, daemonVars
  <2>2. \A e \in Daemons : e = d
    BY OneDaemon
  <2> QED
    BY <2>1, <2>2, StrandFrame
<1>4. CASE GetLine(d)
  <2>1. PICK l \in {"send", "exit"} : Goto(d, l)
    BY <1>4 DEF GetLine
  <2>2. \A e \in Daemons : e = d /\ pc'[e] = l
    BY <2>1, Parts, Moves DEF PCs
  <2> QED
    BY <2>1, <2>2 DEF NoLineStranded
<1> QED
  BY <1>1, <1>2, <1>3, <1>4

LEMMA NextStrand == IInv /\ Unsent /\ NoLineStranded /\ [Next]_vars => NoLineStranded'
<1> SUFFICES ASSUME IInv, Unsent, NoLineStranded, [Next]_vars PROVE NoLineStranded'
  OBVIOUS
<1>1. ASSUME NEW d \in Daemons, DaemonRuns(d) PROVE NoLineStranded'
  <2>1. CASE MainRuns(d)
    BY <2>1, MainStrand, SendStrand DEF MainRuns, mouseVars
  <2> QED
    BY <1>1, <2>1, StreamStrand DEF DaemonRuns
<1>2. ASSUME NEW d \in Daemons, UserStarts(d) \/ UserKills(d) PROVE NoLineStranded'
  <2>1. UNCHANGED <<cur, host, lines>> /\ \E l \in {"spawned", "killed"} : Goto(d, l)
    BY <1>2 DEF UserStarts, UserKills, mouseVars
  <2>2. \A e \in Daemons : e = d /\ pc'[e] \notin {"poll", "serve"}
    BY <2>1, Parts, Moves DEF PCs
  <2> QED
    BY <2>1, <2>2, StrandFrame
<1>3. CASE \/ WriterRuns \/ WriterOpens \/ WriteLine \/ WriteShutdown \/ WriterCloses
           \/ (\E d \in Daemons, c \in Channels : HostLeaves(d, c)) \/ UNCHANGED vars
  <2>1. UNCHANGED <<cur, host, lines, pc>>
    BY <1>3 DEF WriterRuns, WriterOpenReturns, WriteLineReturns, WriterOpens, WriteLine,
       WriteShutdown, WriterCloses, HostLeaves, HostDisconnects, vars, daemonVars, mouseVars
  <2> QED
    BY <2>1, StrandFrame
<1> QED
  BY <1>1, <1>2, <1>3 DEF Next, UserActs

(* A mouse report is only left in the stream, out of sight of poll(),      *)
(* behind one whose send has failed, and which the host never got:         *)
(* getline() is called until the stream is empty, and only a failed send   *)
(* returns to the poll loop before.                                        *)
THEOREM LinesSent == Spec => []NoLineStranded
<1>1. Init => NoLineStranded
  BY DEF Init, DaemonInit, NoLineStranded
<1> QED
  BY <1>1, NextStrand, Invariance, UnsentInvariance, PTL DEF Spec

-----------------------------------------------------------------------------
(* The log file, which shares no state with the connection.                *)
CallType == [op: {"open", "push"}, by: Writers, len: Nat, upto: Nat]
LogTypeOK ==
    /\ log \in [data: Seq(Nat), pos: [Writers -> Nat]]
    /\ calls \in Seq(CallType)

(* A line starts below the limit, whoever writes it.                       *)
InBounds ==
    /\ LogBounded
    /\ \A w \in Writers : log.pos[w] < SizeLimit + MaxLine

(* The bytes of the file are those of the calls made.                      *)
Dated ==
    /\ \A b \in DOMAIN log.data : log.data[b] <= Len(calls)
    /\ \A i \in DOMAIN calls : calls[i].upto <= Total

(* The line of call i lies behind position s, and nowhere else.            *)
At(i, s) ==
    /\ s + LineLen(calls[i].len) <= Len(log.data)
    /\ \A b \in DOMAIN log.data :
          log.data[b] = i <=> b \in s + 1 .. s + LineLen(calls[i].len)

(* A line of the newest SizeLimit bytes of a daemon that logs alone ends   *)
(* those bytes' distance before the daemon's position; if the file has     *)
(* started over in between, the position is a whole limit further back.    *)
InPlace(i) ==
    \E s \in Nat :
        /\ At(i, s)
        /\ \/ s + Written(i) = log.pos[calls[i].by]
           \/ s + Written(i) >= SizeLimit + log.pos[calls[i].by]
Lone == \A i, j \in DOMAIN calls : calls[i].by = calls[j].by
Newest(i) ==
    (\A j \in i .. Len(calls) : calls[j].op = "push") /\ Written(i) <= SizeLimit
NewestInPlace == Lone => \A i \in DOMAIN calls : Newest(i) => InPlace(i)

LogInv == LogTypeOK /\ InBounds /\ Dated /\ NewestInPlace

LEMMA LimitPositive == SizeLimit \in Nat /\ SizeLimit > 0
<1>1. LINE_SIZE \in Nat /\ LINE_SIZE > 6 /\ FILE_SIZE \in Nat /\ FILE_SIZE >= LINE_SIZE
  BY LogAssumption DEF LogAssumption
<1> DEFINE q == FILE_SIZE \div LINE_SIZE
<1>2. q \in Nat /\ q >= 1
  BY <1>1
<1> HIDE DEF q
<1>3. q * LINE_SIZE \in Nat /\ q * LINE_SIZE > 0
  BY <1>1, <1>2
<1> QED
  BY <1>3 DEF SizeLimit, q

LEMMA LineLens ==
    /\ MaxLine \in Nat /\ MessageLens \subseteq Nat
    /\ \A n \in Nat : LineLen(n) \in Nat /\ LineLen(n) > 0 /\ LineLen(n) <= MaxLine
BY LogAssumption DEF LogAssumption, MaxLine, MaxMessage, LineLen, Smaller

LEMMA Overwritten ==
    ASSUME NEW f \in Seq(Nat), NEW p \in Nat, NEW n \in Nat, NEW id \in Nat,
           NEW g, g = Overwrite(f, p, n, id)
    PROVE  /\ g \in Seq(Nat)
           /\ Len(g) = (IF Len(f) > p + n THEN Len(f) ELSE p + n)
           /\ DOMAIN g = 1 .. Len(g)
           /\ \A i \in DOMAIN g : g[i] = IF i \in p + 1 .. p + n THEN id
                                         ELSE IF i <= Len(f) THEN f[i] ELSE 0
<1> DEFINE k == IF Len(f) > p + n THEN Len(f) ELSE p + n
<1>1. k \in Nat /\ Len(f) \in Nat /\ \A i \in 1 .. Len(f) : f[i] \in Nat
  OBVIOUS
<1>2. g = [i \in 1 .. k |-> IF i \in p + 1 .. p + n THEN id
                            ELSE IF i <= Len(f) THEN f[i] ELSE 0]
  BY DEF Overwrite, Hole
<1> HIDE DEF k
<1>3. \A i \in 1 .. k : g[i] = IF i \in p + 1 .. p + n THEN id
                              ELSE IF i <= Len(f) THEN f[i] ELSE 0
  BY <1>2
<1>4. \A i \in 1 .. k : g[i] \in Nat
  BY <1>1, <1>3
<1>5. g \in [1 .. k -> Nat]
  BY <1>2, <1>4
<1>6. g \in Seq(Nat)
  BY <1>1, <1>5, SeqDef
<1>7. Len(g) = k /\ DOMAIN g = 1 .. k
  BY <1>1, <1>5, <1>6, LenProperties
<1> QED
  BY <1>3, <1>6, <1>7 DEF k

(* What the position tells of a line of length L that is followed by W - L *)
(* bytes, as a line of length m is written over the file from p on.        *)
LEMMA Apart ==
    ASSUME NEW limit \in Nat, NEW pos \in Nat, NEW p \in Nat, NEW m \in Nat,
           NEW s \in Nat, NEW L \in Nat, NEW W \in Nat,
           p = IF pos >= limit THEN 0 ELSE pos,
           L <= W, W + m <= limit, s + W = pos \/ s + W >= limit + pos
    PROVE  /\ s + L <= p \/ p + m <= s
           /\ s + (W + m) = p + m \/ s + (W + m) >= limit + (p + m)
<1>1. CASE pos >= limit
  BY <1>1
<1>2. CASE ~(pos >= limit)
  BY <1>2
<1> QED
  BY <1>1, <1>2

LEMMA IntervalSize ==
    ASSUME NEW s \in Nat, NEW n \in Nat, n > 0
    PROVE  Cardinality(s + 1 .. s + n) = n
<1> DEFINE a == s + 1
           b == s + n
<1>1. a \in Int /\ b \in Int /\ ~(a > b) /\ b - a + 1 = n
  OBVIOUS
<1> HIDE DEF a, b
<1>2. Cardinality(a .. b) = b - a + 1
  BY <1>1, FS_Interval
<1> QED
  BY <1>1, <1>2 DEF a, b

(* A call is recorded.                                                     *)
LEMMA Recorded ==
    ASSUME LogInv, NEW op \in {"open", "push"}, NEW w \in Writers, NEW n \in Nat,
           Call(op, w, n)
    PROVE  LET c == calls'[Len(calls) + 1]
               m == IF op = "push" THEN LineLen(n) ELSE 0
           IN  /\ calls' \in Seq(CallType) /\ Len(calls') = Len(calls) + 1
               /\ Len(calls) \in Nat /\ Total \in Nat
               /\ DOMAIN calls = 1 .. Len(calls) /\ DOMAIN calls' = 1 .. Len(calls) + 1
               /\ \A i \in DOMAIN calls : calls'[i] = calls[i] /\ calls[i] \in CallType
               /\ Total' = Total + m
               /\ c.op = op /\ c.by = w /\ c.len = n /\ c.upto = Total'
<1> DEFINE m == IF op = "push" THEN LineLen(n) ELSE 0
           c == [op |-> op, by |-> w, len |-> n, upto |-> Total + m]
<1>1. calls \in Seq(CallType) /\ Len(calls) \in Nat /\ DOMAIN calls = 1 .. Len(calls)
      /\ \A i \in DOMAIN calls : calls[i] \in CallType
  BY DEF LogInv, LogTypeOK
<1>2. Total \in Nat
  <2>1. CASE calls # <<>>
    <3>1. Len(calls) \in DOMAIN calls
      BY <1>1, <2>1
    <3> QED
      BY <1>1, <2>1, <3>1 DEF Total, CallType
  <2> QED
    BY <2>1 DEF Total
<1>3. m \in Nat
  BY LineLens
<1>4. c \in CallType
  BY <1>2, <1>3 DEF CallType
<1>5. calls' = Append(calls, c)
  BY DEF Call
<1> HIDE DEF c
<1>6. /\ calls' \in Seq(CallType) /\ Len(calls') = Len(calls) + 1 /\ calls' # <<>>
      /\ DOMAIN calls' = 1 .. Len(calls) + 1 /\ calls'[Len(calls) + 1] = c
      /\ \A i \in DOMAIN calls : calls'[i] = calls[i]
  BY <1>1, <1>4, <1>5, AppendProperties, LenProperties
<1>7. Total' = c.upto
  BY <1>6 DEF Total
<1> QED
  BY <1>1, <1>2, <1>6, <1>7 DEF c

LEMMA LogOpensInv == ASSUME LogInv, NEW w \in Writers, LogOpens(w) PROVE LogInv'
<1>1. Call("open", w, 0) /\ log' = OpenLog(log, w)
  BY DEF LogOpens
<1>2. /\ calls' \in Seq(CallType) /\ Len(calls') = Len(calls) + 1
      /\ Len(calls) \in Nat /\ Total \in Nat
      /\ DOMAIN calls = 1 .. Len(calls) /\ DOMAIN calls' = 1 .. Len(calls) + 1
      /\ \A i \in DOMAIN calls : calls'[i] = calls[i] /\ calls[i] \in CallType
      /\ Total' = Total
      /\ calls'[Len(calls) + 1].op = "open" /\ calls'[Len(calls) + 1].upto = Total'
  BY <1>1, Recorded
<1>3. log' = [data |-> <<>>, pos |-> [log.pos EXCEPT ![w] = 0]] /\ log.pos \in [Writers -> Nat]
  BY <1>1 DEF OpenLog, LogInv, LogTypeOK
<1>4. log'.data = <<>> /\ log'.pos \in [Writers -> Nat]
      /\ \A v \in Writers : log'.pos[v] = IF v = w THEN 0 ELSE log.pos[v]
  BY <1>3
<1>5. LogTypeOK'
  BY <1>2, <1>3, <1>4 DEF LogTypeOK
<1>6. InBounds'
  BY <1>4, LimitPositive, LineLens DEF InBounds, LogBounded, LogInv
<1>7. Dated'
  BY <1>2, <1>4 DEF Dated, LogInv
<1>8. \A i \in DOMAIN calls' : ~Newest(i)'
  <2> SUFFICES ASSUME NEW i \in DOMAIN calls' PROVE ~Newest(i)'
    OBVIOUS
  <2>1. Len(calls) + 1 \in i .. Len(calls')
    BY <1>2
  <2> QED
    BY <1>2, <2>1 DEF Newest
<1>9. NewestInPlace'
  BY <1>8 DEF NewestInPlace
<1> QED
  BY <1>5, <1>6, <1>7, <1>9 DEF LogInv

LEMMA LogPushesInv == ASSUME LogInv, NEW w \in Writers, LogPushes(w) PROVE LogInv'
<1>1. PICK n \in MessageLens : Call("push", w, n) /\ log' = PushString(log, w, n, Len(calls) + 1)
  BY DEF LogPushes
<1>id. PICK id \in Nat : id = Len(calls) + 1
  BY DEF LogInv, LogTypeOK
<1>p. PICK p \in Nat : p = IF log.pos[w] >= SizeLimit THEN 0 ELSE log.pos[w]
  BY DEF LogInv, LogTypeOK
<1> DEFINE m == LineLen(n)
           f == log.data
           g == Overwrite(f, p, m, id)
<1>2. n \in Nat /\ m \in Nat /\ m > 0 /\ m <= MaxLine /\ MaxLine \in Nat
      /\ SizeLimit \in Nat /\ SizeLimit > 0
  BY LineLens, LimitPositive
<1>3. /\ calls' \in Seq(CallType) /\ Len(calls') = id
      /\ Len(calls) \in Nat /\ Total \in Nat /\ id \in Nat
      /\ DOMAIN calls = 1 .. Len(calls) /\ DOMAIN calls' = 1 .. id
      /\ \A i \in DOMAIN calls : calls'[i] = calls[i] /\ calls[i] \in CallType
      /\ Total' = Total + m
      /\ calls'[id].op = "push" /\ calls'[id].by = w
      /\ calls'[id].len = n /\ calls'[id].upto = Total'
  BY <1>1, <1>2, <1>id, Recorded
<1>4. /\ log.pos \in [Writers -> Nat] /\ f \in Seq(Nat) /\ Len(f) \in Nat
      /\ DOMAIN f = 1 .. Len(f) /\ log.pos[w] \in Nat
      /\ p \in Nat /\ p < SizeLimit
  BY <1>2, <1>p DEF LogInv, LogTypeOK
<1>5. /\ log' = [data |-> g, pos |-> [log.pos EXCEPT ![w] = p + m]]
      /\ g = Overwrite(f, p, m, id)
  BY <1>1, <1>id, <1>p DEF PushString
<1> HIDE DEF m, f, g
<1>6. /\ g \in Seq(Nat) /\ Len(g) = (IF Len(f) > p + m THEN Len(f) ELSE p + m)
      /\ DOMAIN g = 1 .. Len(g)
      /\ \A b \in DOMAIN g : g[b] = IF b \in p + 1 .. p + m THEN id
                                    ELSE IF b <= Len(f) THEN f[b] ELSE 0
  <2>1. f \in Seq(Nat) /\ m \in Nat /\ g = Overwrite(f, p, m, id)
    BY <1>2, <1>4, <1>5
  <2> QED
    BY <2>1, Overwritten
<1>7. /\ log'.data = g /\ log'.pos \in [Writers -> Nat]
      /\ \A v \in Writers : log'.pos[v] = IF v = w THEN p + m ELSE log.pos[v]
  BY <1>2, <1>4, <1>5
<1>8. LogTypeOK'
  BY <1>3, <1>6, <1>5, <1>7 DEF LogTypeOK
<1>9. InBounds'
  <2>1. Len(f) < SizeLimit + MaxLine /\ p + m < SizeLimit + MaxLine
    BY <1>2, <1>4 DEF InBounds, LogBounded, LogInv, f
  <2>2. Len(g) < SizeLimit + MaxLine
    BY <1>6, <2>1
  <2>3. \A v \in Writers : log'.pos[v] < SizeLimit + MaxLine
    BY <1>7, <2>1 DEF InBounds, LogInv
  <2> QED
    BY <1>7, <2>2, <2>3 DEF InBounds, LogBounded
<1>10. Dated'
  <2>1. \A b \in DOMAIN g : g[b] <= id
    <3>1. \A b \in DOMAIN f : f[b] <= Len(calls) /\ f[b] \in Nat
      BY <1>4 DEF LogInv, Dated, f
    <3> SUFFICES ASSUME NEW b \in DOMAIN g PROVE g[b] <= id
      OBVIOUS
    <3>2. b \in 1 .. Len(g) /\ (b <= Len(f) => b \in DOMAIN f)
      BY <1>4, <1>6
    <3> QED
      BY <1>3, <1>6, <1>id, <3>1, <3>2
  <2>2. \A i \in DOMAIN calls' : calls'[i].upto <= Total'
    <3>1. ASSUME NEW i \in DOMAIN calls PROVE calls'[i].upto <= Total'
      BY <1>2, <1>3 DEF LogInv, Dated, CallType
    <3>2. DOMAIN calls' = DOMAIN calls \cup {id}
      BY <1>3, <1>id
    <3>3. calls'[id].upto <= Total'
      BY <1>2, <1>3
    <3> QED
      BY <3>1, <3>2, <3>3
  <2> QED
    BY <1>3, <1>7, <2>1, <2>2 DEF Dated
(* The new line.                                                           *)
<1>11. InPlace(id)'
  <2>1. At(id, p)'
    <3>1. p + LineLen(calls'[id].len) <= Len(log'.data)
      BY <1>2, <1>3, <1>4, <1>6, <1>7 DEF m
    <3>2. \A b \in DOMAIN g : g[b] = id <=> b \in p + 1 .. p + m
      <4>1. \A b \in DOMAIN f : f[b] # id
        BY <1>3, <1>4, <1>id DEF LogInv, Dated, f
      <4> SUFFICES ASSUME NEW b \in DOMAIN g PROVE g[b] = id <=> b \in p + 1 .. p + m
        OBVIOUS
      <4>2. b \in 1 .. Len(g) /\ (b <= Len(f) => b \in DOMAIN f) /\ id # 0
        BY <1>3, <1>4, <1>6, <1>id
      <4> QED
        BY <1>6, <4>1, <4>2
    <3> QED
      BY <1>3, <1>7, <3>1, <3>2 DEF At, m
  <2>2. Written(id)' = m
    BY <1>2, <1>3 DEF Written, m
  <2>3. p + Written(id)' = log'.pos[calls'[id].by]
    BY <1>3, <1>7, <2>2
  <2> QED
    BY <1>4, <2>1, <2>3 DEF InPlace
(* A line that was in place before.                                        *)
<1>12. ASSUME Lone', NEW i \in DOMAIN calls, Newest(i)' PROVE InPlace(i)'
  <2> DEFINE L == LineLen(calls[i].len)
             W == Written(i)
  <2>1. calls[i] \in CallType /\ calls[i].by = w /\ calls'[i] = calls[i]
        /\ i \in 1 .. Len(calls)
    <3>1. i \in DOMAIN calls' /\ id \in DOMAIN calls'
      BY <1>3, <1>id
    <3> QED
      BY <1>3, <1>12, <3>1 DEF Lone
  <2>2. L \in Nat /\ L > 0 /\ W \in Nat /\ L <= W /\ Written(i)' = W + m
    <3>1. L \in Nat /\ L > 0 /\ calls[i].upto \in Nat /\ calls[i].upto <= Total
      BY <2>1, LineLens DEF CallType, LogInv, Dated
    <3> QED
      BY <1>2, <1>3, <2>1, <3>1 DEF Written
  <2>3. W + m <= SizeLimit
    BY <1>12, <2>2 DEF Newest
  <2>4. Newest(i)
    <3>1. ASSUME NEW j \in i .. Len(calls) PROVE calls[j].op = "push"
      <4>1. j \in i .. Len(calls') /\ j \in DOMAIN calls
        BY <1>3, <2>1, <1>id
      <4> QED
        BY <1>3, <1>12, <4>1 DEF Newest
    <3> QED
      BY <1>2, <2>2, <2>3, <3>1 DEF Newest
  <2>5. Lone
    BY <1>3, <1>12, <1>id DEF Lone
  <2>6. InPlace(i)
    BY <2>4, <2>5 DEF LogInv, NewestInPlace
  <2>7. PICK s \in Nat :
           /\ s + L <= Len(f)
           /\ \A b \in DOMAIN f : f[b] = i <=> b \in s + 1 .. s + L
           /\ s + W = log.pos[w] \/ s + W >= SizeLimit + log.pos[w]
    BY <2>1, <2>6 DEF InPlace, At, f
  <2> HIDE DEF L, W
  <2>8. /\ s + L <= p \/ p + m <= s
        /\ s + (W + m) = p + m \/ s + (W + m) >= SizeLimit + (p + m)
    <3>1. /\ L \in Nat /\ W \in Nat /\ L <= W /\ W + m <= SizeLimit
          /\ m \in Nat /\ SizeLimit \in Nat /\ log.pos[w] \in Nat /\ s \in Nat
          /\ s + W = log.pos[w] \/ s + W >= SizeLimit + log.pos[w]
      BY <1>2, <1>4, <2>2, <2>3, <2>7
    <3> QED
      BY <1>p, <3>1, Apart
  <2>9. s + L <= Len(g)
    BY <1>2, <1>4, <1>6, <2>2, <2>7
  <2>10. \A b \in DOMAIN g : g[b] = i <=> b \in s + 1 .. s + L
    <3> SUFFICES ASSUME NEW b \in DOMAIN g PROVE g[b] = i <=> b \in s + 1 .. s + L
      OBVIOUS
    <3>1. i # id /\ i # 0
      BY <1>3, <2>1, <1>id
    <3>2. CASE b \in p + 1 .. p + m
      <4>1. b \notin s + 1 .. s + L
        BY <1>2, <1>4, <2>2, <2>8, <3>2
      <4> QED
        BY <1>6, <3>1, <3>2, <4>1
    <3>3. CASE b \notin p + 1 .. p + m /\ b <= Len(f)
      <4>1. b \in DOMAIN f
        BY <1>4, <1>6, <3>3
      <4> QED
        BY <1>6, <2>7, <3>3, <4>1
    <3>4. CASE b \notin p + 1 .. p + m /\ ~(b <= Len(f))
      <4>1. b \notin s + 1 .. s + L
        BY <1>4, <1>6, <2>2, <2>7, <3>4
      <4> QED
        BY <1>6, <3>1, <3>4, <4>1
    <3> QED
      BY <3>2, <3>3, <3>4
  <2>11. At(i, s)'
    BY <1>7, <2>1, <2>9, <2>10 DEF At, L
  <2>12. Written(i)' = W + m /\ log'.pos[calls'[i].by] = p + m
    BY <1>7, <2>1, <2>2
  <2> QED
    BY <2>8, <2>11, <2>12 DEF InPlace
<1>13. NewestInPlace'
  <2>1. DOMAIN calls' = DOMAIN calls \cup {id}
    BY <1>3, <1>id
  <2> QED
    BY <1>11, <1>12, <2>1 DEF NewestInPlace
<1> QED
  BY <1>8, <1>9, <1>10, <1>13 DEF LogInv

LEMMA LogInvariance == LogSpec => []LogInv
<1>1. LogInit => LogInv
  <2> SUFFICES ASSUME LogInit PROVE LogInv
    OBVIOUS
  <2>1. log = [data |-> <<>>, pos |-> [w \in Writers |-> 0]] /\ calls = <<>>
        /\ log.data = <<>> /\ log.pos = [w \in Writers |-> 0]
    BY DEF LogInit, NoLog
  <2>2. LogTypeOK
    BY <2>1 DEF LogTypeOK
  <2>3. InBounds
    BY <2>1, LimitPositive, LineLens DEF InBounds, LogBounded
  <2>4. Dated /\ NewestInPlace
    BY <2>1 DEF Dated, NewestInPlace
  <2> QED
    BY <2>2, <2>3, <2>4 DEF LogInv
<1>2. LogInv /\ [LogNext]_logVars => LogInv'
  <2> SUFFICES ASSUME LogInv, [LogNext]_logVars PROVE LogInv'
    OBVIOUS
  <2>1. CASE UNCHANGED logVars
    BY <2>1 DEF logVars, LogInv, LogTypeOK, InBounds, LogBounded, Dated, Total,
       NewestInPlace, Lone, Newest, InPlace, At, Written
  <2> QED
    BY <2>1, LogOpensInv, LogPushesInv DEF LogNext
<1> QED
  BY <1>1, <1>2, PTL DEF LogSpec

(* The log file of open_log and push_string never exceeds its limit by a   *)
(* whole line, with any number of daemons, each at its own position, that  *)
(* truncate it and write to it in any order.                               *)
THEOREM LogSize == LogSpec => []LogBounded
<1>1. LogInv => LogBounded
  BY DEF LogInv, InBounds
<1> QED
  BY <1>1, LogInvariance, PTL

(* What a daemon that logs alone has logged last, up to the size limit, is *)
(* whole in the file: push_string starts over at the top, and what it      *)
(* overwrites there is older.                                              *)
THEOREM NewestKept == LogSpec => []NewestLinesWhole
<1>1. LogInv => NewestLinesWhole
  <2> SUFFICES ASSUME LogInv, Lone, NEW i \in DOMAIN calls, Newest(i) PROVE Whole(i)
    BY DEF NewestLinesWhole, Lone, Newest
  <2> DEFINE L == LineLen(calls[i].len)
  <2>1. PICK s \in Nat : At(i, s)
    BY DEF LogInv, NewestInPlace, InPlace
  <2>2. L \in Nat /\ L > 0
    <3>1. calls[i] \in CallType
      BY DEF LogInv, LogTypeOK
    <3> QED
      BY <3>1, LineLens DEF CallType
  <2>3. {b \in DOMAIN log.data : log.data[b] = i} = s + 1 .. s + L
    BY <2>1, <2>2 DEF At, LogInv, LogTypeOK
  <2>4. Cardinality(s + 1 .. s + L) = L
    BY <2>2, IntervalSize
  <2> QED
    BY <2>3, <2>4 DEF Whole
<1> QED
  BY <1>1, LogInvariance, PTL
=============================================================================
