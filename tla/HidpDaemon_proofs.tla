------------------------- MODULE HidpDaemon_proofs -------------------------
(***************************************************************************)
(* What the steps of the daemon do, whoever writes its FIFO: they keep the *)
(* types, and of the packets of the FIFO they take one, or leave or lose   *)
(* all.  For any number of daemons and any capacity of the pipe.           *)
(***************************************************************************)
EXTENDS HidpDaemon, SequenceTheorems, TLAPS

USE SessionAssumption, ReportAssumption, ReportKindAssumption, HostPktAssumption,
    PipeCapAssumption

-----------------------------------------------------------------------------
(* The FIFO keeps its type under each operation.                           *)
LEMMA FifoOps ==
    ASSUME NEW P, NEW R, NEW f \in FifoType(P, R)
    PROVE  /\ Mkfifo(f) \in FifoType(P, R)
           /\ OpenForWriting(f) \in FifoType(P, R)
           /\ CloseWriter(f) \in FifoType(P, R)
           /\ \A r \in R : OpenForReading(f, r) \in FifoType(P, R)
                           /\ CloseReader(f, r) \in FifoType(P, R)
           /\ \A p \in P : Put(f, p) \in FifoType(P, R)
           /\ f.buf # <<>> => Drop1(f) \in FifoType(P, R) /\ Head(f.buf) \in P
<1>1. <<>> \in Seq(P)
  OBVIOUS
<1>2. f.buf \in Seq(P) /\ \A p \in P : Append(f.buf, p) \in Seq(P)
  BY DEF FifoType
<1>3. f.buf # <<>> => Tail(f.buf) \in Seq(P) /\ Head(f.buf) \in P
  BY <1>2
<1>4. Mkfifo(f) \in FifoType(P, R) /\ OpenForWriting(f) \in FifoType(P, R)
  BY DEF FifoType, Mkfifo, OpenForWriting
<1>5. \A r \in R : OpenForReading(f, r) \in FifoType(P, R)
  BY DEF FifoType, OpenForReading
<1>6. CloseWriter(f) \in FifoType(P, R)
  BY <1>1 DEF FifoType, CloseWriter
<1>7. \A r \in R : CloseReader(f, r) \in FifoType(P, R)
  BY <1>1 DEF FifoType, CloseReader
<1>8. \A p \in P : Put(f, p) \in FifoType(P, R)
  BY <1>2 DEF FifoType, Put
<1>9. f.buf # <<>> => Drop1(f) \in FifoType(P, R)
  BY <1>3 DEF FifoType, Drop1
<1> QED
  BY <1>3, <1>4, <1>5, <1>6, <1>7, <1>8, <1>9

LEMMA FifoHere ==
    ASSUME DaemonTypeOK
    PROVE  /\ fifo \in FifoType(Packet, Daemons)
           /\ Mkfifo(fifo) \in FifoType(Packet, Daemons)
           /\ OpenForWriting(fifo) \in FifoType(Packet, Daemons)
           /\ CloseWriter(fifo) \in FifoType(Packet, Daemons)
           /\ \A d \in Daemons :
                 /\ OpenForReading(fifo, d) \in FifoType(Packet, Daemons)
                 /\ CloseReader(fifo, d) \in FifoType(Packet, Daemons)
           /\ \A p \in Packet : Put(fifo, p) \in FifoType(Packet, Daemons)
           /\ fifo.buf # <<>> => /\ Drop1(fifo) \in FifoType(Packet, Daemons)
                                /\ Head(fifo.buf) \in Packet
<1>1. fifo \in FifoType(Packet, Daemons)
  BY DEF DaemonTypeOK
<1> QED
  BY <1>1, FifoOps

(* Changing one channel of one daemon.                                     *)
LEMMA Update ==
    ASSUME NEW V, NEW f \in [Daemons -> [Channels -> V]],
           NEW d \in Daemons, NEW c \in Channels
    PROVE  /\ f[d][c] \in V
           /\ \A v \in V : [f EXCEPT ![d][c] = v] \in [Daemons -> [Channels -> V]]
OBVIOUS

LEMMA InitDaemonType == fifo = AbsentFifo /\ DaemonInit => DaemonTypeOK
<1> SUFFICES ASSUME fifo = AbsentFifo, DaemonInit PROVE DaemonTypeOK
  OBVIOUS
<1>1. fifo \in FifoType(Packet, Daemons)
  BY DEF AbsentFifo, FifoType
<1>2. Shutdown(0) \in Packet
  BY DEF Shutdown, Packet, Kinds
<1>3. inq \in [Daemons -> [Channels -> Seq(HostPacket)]] /\ host \in Seq([daemon: Daemons, id: Nat])
  BY DEF DaemonInit
<1> QED
  BY <1>1, <1>2, <1>3 DEF DaemonInit, DaemonTypeOK, PCs, SockStates

-----------------------------------------------------------------------------
(* A step of a daemon that moves its pc.                                   *)
LEMMA GotoType ==
    ASSUME DaemonTypeOK, NEW d \in Daemons, NEW l \in PCs, Goto(d, l)
    PROVE  /\ pc' \in [Daemons -> PCs]
           /\ \A e \in Daemons : pc'[e] = IF e = d THEN l ELSE pc[e]
BY DEF DaemonTypeOK, Goto

LEMMA StartUpType ==
    ASSUME DaemonTypeOK, NEW d \in Daemons,
           Start(d) \/ OpenFifo(d) \/ OpenFifoReturns(d) \/ InitConn(d)
    PROVE  DaemonTypeOK'
<1>1. fifo' \in FifoType(Packet, Daemons)
  BY FifoHere DEF DaemonTypeOK, Start, OpenFifo, OpenFifoReturns, InitConn
<1>2. \E l \in PCs : Goto(d, l)
  BY DEF PCs, Start, OpenFifo, OpenFifoReturns, InitConn
<1>3. UNCHANGED <<sock, inq, todo, cur, host, asked, handshakes>>
  BY DEF Start, OpenFifo, OpenFifoReturns, InitConn
<1>4. pc' \in [Daemons -> PCs]
  BY <1>2, GotoType
<1> QED
  BY <1>1, <1>3, <1>4 DEF DaemonTypeOK

LEMMA ConnectType ==
    ASSUME DaemonTypeOK, NEW d \in Daemons, Connect(d)
    PROVE  DaemonTypeOK'
<1>1. \E l \in PCs : Goto(d, l)
  BY DEF PCs, Connect, Channels
<1>2. pc' \in [Daemons -> PCs]
  BY <1>1, GotoType
<1>3. sock' \in [Daemons -> [Channels -> SockStates]]
  <2>1. "up" \in SockStates /\ sock \in [Daemons -> [Channels -> SockStates]]
    BY DEF SockStates, DaemonTypeOK
  <2>2. \A c \in Channels, v \in SockStates :
           [sock EXCEPT ![d][c] = v] \in [Daemons -> [Channels -> SockStates]]
    BY <2>1, Update
  <2> QED
    BY <2>1, <2>2 DEF Connect
<1> QED
  BY <1>2, <1>3 DEF DaemonTypeOK, Connect

LEMMA LoopType ==
    ASSUME DaemonTypeOK, NEW d \in Daemons,
           Poll(d) \/ (\E c \in Channels : ProcessSk(d, c)) \/ ProcessSrc(d)
    PROVE  DaemonTypeOK'
<1>1. \E l \in PCs : Goto(d, l)
  BY DEF PCs, Poll, ProcessSk, ProcessSrc
<1>2. pc' \in [Daemons -> PCs]
  BY <1>1, GotoType
<1>3. todo' \in [Daemons -> SUBSET (Channels \cup {"src"})]
  <2>1. ReadySet(d) \in SUBSET (Channels \cup {"src"})
    BY DEF ReadySet
  <2>2. todo \in [Daemons -> SUBSET (Channels \cup {"src"})]
    BY DEF DaemonTypeOK
  <2>3. CASE Poll(d)
    BY <2>1, <2>2, <2>3 DEF Poll
  <2>4. CASE \E c \in Channels : ProcessSk(d, c)
    BY <2>2, <2>4 DEF ProcessSk
  <2>5. CASE ProcessSrc(d)
    BY <2>2, <2>5 DEF ProcessSrc
  <2> QED
    BY <2>3, <2>4, <2>5
<1>4. inq' \in [Daemons -> [Channels -> Seq(HostPacket)]]
      /\ handshakes' \in [Daemons -> [Channels -> Nat]]
  <2>1. CASE Poll(d) \/ ProcessSrc(d)
    BY <2>1 DEF DaemonTypeOK, Poll, ProcessSrc
  <2>2. ASSUME NEW c \in Channels, ProcessSk(d, c)
        PROVE  inq' \in [Daemons -> [Channels -> Seq(HostPacket)]]
               /\ handshakes' \in [Daemons -> [Channels -> Nat]]
    <3>1. /\ inq \in [Daemons -> [Channels -> Seq(HostPacket)]]
          /\ handshakes \in [Daemons -> [Channels -> Nat]]
      BY DEF DaemonTypeOK
    <3>2. inq[d][c] # <<>> => Tail(inq[d][c]) \in Seq(HostPacket)
      BY <3>1
    <3>3. inq' \in [Daemons -> [Channels -> Seq(HostPacket)]]
      <4>1. \A q \in Seq(HostPacket) :
               [inq EXCEPT ![d][c] = q] \in [Daemons -> [Channels -> Seq(HostPacket)]]
        BY <3>1, Update
      <4> QED
        BY <2>2, <3>1, <3>2, <4>1 DEF ProcessSk
    <3>4. handshakes' \in [Daemons -> [Channels -> Nat]]
      <4>1. handshakes[d][c] + 1 \in Nat
        BY <3>1
      <4>2. \A n \in Nat :
               [handshakes EXCEPT ![d][c] = n] \in [Daemons -> [Channels -> Nat]]
        BY <3>1, Update
      <4> QED
        BY <2>2, <3>1, <4>1, <4>2 DEF ProcessSk
    <3> QED
      BY <3>3, <3>4
  <2> QED
    BY <2>1, <2>2
<1>5. UNCHANGED <<fifo, sock, cur, host, asked>>
  BY DEF Poll, ProcessSk, ProcessSrc
<1> QED
  BY <1>2, <1>3, <1>4, <1>5 DEF DaemonTypeOK

LEMMA ReadType ==
    ASSUME DaemonTypeOK, NEW d \in Daemons,
           ReadPacket(d) \/ ReadEof(d)
    PROVE  DaemonTypeOK'
<1>1. \E l \in PCs : Goto(d, l)
  BY DEF PCs, ReadPacket, ReadEof
<1>2. pc' \in [Daemons -> PCs]
  BY <1>1, GotoType
<1>3. fifo' \in FifoType(Packet, Daemons) /\ cur' \in [Daemons -> Packet]
  <2>1. CASE ReadEof(d)
    BY <2>1 DEF DaemonTypeOK, ReadEof
  <2>2. CASE ReadPacket(d)
    <3>1. Drop1(fifo) \in FifoType(Packet, Daemons) /\ Head(fifo.buf) \in Packet
      BY <2>2, FifoHere DEF DaemonTypeOK, ReadPacket, Readable
    <3> QED
      BY <2>2, <3>1 DEF DaemonTypeOK, ReadPacket
  <2> QED
    BY <2>1, <2>2
<1>4. UNCHANGED <<sock, inq, todo, host, asked, handshakes>>
  BY DEF ReadPacket, ReadEof
<1> QED
  BY <1>2, <1>3, <1>4 DEF DaemonTypeOK

LEMMA SendType ==
    ASSUME DaemonTypeOK, NEW d \in Daemons, SendReport(d)
    PROVE  DaemonTypeOK'
<1>1. \E l \in PCs : Goto(d, l)
  BY DEF PCs, SendReport
<1>2. pc' \in [Daemons -> PCs]
  BY <1>1, GotoType
<1>3. host' \in Seq([daemon: Daemons, id: Nat])
  <2>1. [daemon |-> d, id |-> cur[d].id] \in [daemon: Daemons, id: Nat]
    BY DEF DaemonTypeOK, Packet
  <2>2. host \in Seq([daemon: Daemons, id: Nat])
    BY DEF DaemonTypeOK
  <2> DEFINE Entry == [daemon: Daemons, id: Nat]
             e == [daemon |-> d, id |-> cur[d].id]
  <2>3. host' = host \/ host' = Append(host, e)
    BY DEF SendReport
  <2>4. host \in Seq(Entry) /\ e \in Entry
    BY <2>1, <2>2
  <2> HIDE DEF Entry, e
  <2>5. host' \in Seq(Entry)
    BY <2>3, <2>4
  <2> QED
    BY <2>5 DEF Entry
<1> QED
  BY <1>2, <1>3 DEF DaemonTypeOK, SendReport

LEMMA ExitType ==
    ASSUME DaemonTypeOK, NEW d \in Daemons,
           CloseInt(d) \/ CloseCnt(d) \/ KilledCloseCnt(d) \/ KilledCloseInt(d)
    PROVE  DaemonTypeOK'
<1>1. \E l \in PCs : Goto(d, l)
  BY DEF PCs, CloseInt, CloseCnt, KilledCloseCnt, KilledCloseInt
<1>2. pc' \in [Daemons -> PCs]
  BY <1>1, GotoType
<1>3. fifo' \in FifoType(Packet, Daemons)
  BY FifoHere DEF DaemonTypeOK, CloseInt, CloseCnt, KilledCloseCnt, KilledCloseInt
<1>4. sock' \in [Daemons -> [Channels -> SockStates]]
  <2>1. /\ sock \in [Daemons -> [Channels -> SockStates]]
        /\ "int" \in Channels /\ "cnt" \in Channels
        /\ \A v : Closed(v) \in SockStates
    BY DEF DaemonTypeOK, Channels, Closed, SockStates
  <2>2. \A c \in Channels :
           [sock EXCEPT ![d][c] = Closed(sock[d][c])] \in [Daemons -> [Channels -> SockStates]]
    BY <2>1, Update
  <2> QED
    BY <2>1, <2>2 DEF CloseInt, CloseCnt, KilledCloseCnt, KilledCloseInt
<1>5. UNCHANGED <<inq, todo, cur, host, asked, handshakes>>
  BY DEF CloseInt, CloseCnt, KilledCloseCnt, KilledCloseInt
<1> QED
  BY <1>2, <1>3, <1>4, <1>5 DEF DaemonTypeOK

LEMMA HostType ==
    ASSUME DaemonTypeOK, NEW d \in Daemons, NEW c \in Channels,
           HostDisconnects(d, c) \/ \E p \in HostPacket : HostSends(d, c, p)
    PROVE  DaemonTypeOK'
<1>1. UNCHANGED <<fifo, pc, todo, cur, host, handshakes>>
  BY DEF HostSends, HostDisconnects
<1>2. sock' \in [Daemons -> [Channels -> SockStates]]
  <2>1. "lost" \in SockStates /\ sock \in [Daemons -> [Channels -> SockStates]]
    BY DEF SockStates, DaemonTypeOK
  <2>2. [sock EXCEPT ![d][c] = "lost"] \in [Daemons -> [Channels -> SockStates]]
    BY <2>1, Update
  <2> QED
    BY <2>1, <2>2 DEF HostSends, HostDisconnects
<1>3. inq' \in [Daemons -> [Channels -> Seq(HostPacket)]]
      /\ asked' \in [Daemons -> [Channels -> Nat]]
  <2>1. CASE HostDisconnects(d, c)
    BY <2>1 DEF DaemonTypeOK, HostDisconnects
  <2>2. ASSUME NEW p \in HostPacket, HostSends(d, c, p)
        PROVE  inq' \in [Daemons -> [Channels -> Seq(HostPacket)]]
               /\ asked' \in [Daemons -> [Channels -> Nat]]
    <3>1. Append(inq[d][c], p) \in Seq(HostPacket) /\ asked[d][c] \in Nat
      BY DEF DaemonTypeOK
    <3>2. inq' \in [Daemons -> [Channels -> Seq(HostPacket)]]
      BY <2>2, <3>1 DEF DaemonTypeOK, HostSends
    <3>3. asked' \in [Daemons -> [Channels -> Nat]]
      BY <2>2, <3>1 DEF DaemonTypeOK, HostSends
    <3> QED
      BY <3>2, <3>3
  <2> QED
    BY <2>1, <2>2
<1> QED
  BY <1>1, <1>2, <1>3 DEF DaemonTypeOK

(* What the operations do to the packets in the pipe.                      *)
LEMMA FifoBuf ==
    ASSUME NEW P, NEW R, NEW f \in FifoType(P, R)
    PROVE  /\ Mkfifo(f).buf = f.buf
           /\ OpenForWriting(f).buf = f.buf
           /\ CloseWriter(f).buf = f.buf \/ CloseWriter(f).buf = <<>>
           /\ \A r \in R : /\ OpenForReading(f, r).buf = f.buf
                           /\ \/ CloseReader(f, r).buf = f.buf
                              \/ CloseReader(f, r).buf = <<>>
           /\ \A p \in P : Put(f, p).buf = Append(f.buf, p)
           /\ Drop1(f).buf = Tail(f.buf)
BY DEF FifoType, Mkfifo, OpenForWriting, CloseWriter, OpenForReading,
       CloseReader, Put, Drop1

LEMMA BufHere ==
    ASSUME DaemonTypeOK
    PROVE  /\ fifo.buf \in Seq(Packet)
           /\ Mkfifo(fifo).buf = fifo.buf
           /\ OpenForWriting(fifo).buf = fifo.buf
           /\ CloseWriter(fifo).buf = fifo.buf \/ CloseWriter(fifo).buf = <<>>
           /\ \A d \in Daemons :
                 /\ OpenForReading(fifo, d).buf = fifo.buf
                 /\ \/ CloseReader(fifo, d).buf = fifo.buf
                    \/ CloseReader(fifo, d).buf = <<>>
           /\ \A p \in Packet : Put(fifo, p).buf = Append(fifo.buf, p)
           /\ Drop1(fifo).buf = Tail(fifo.buf)
<1>1. fifo \in FifoType(Packet, Daemons)
  BY DEF DaemonTypeOK
<1>2. fifo.buf \in Seq(Packet)
  BY <1>1 DEF FifoType
<1> QED
  BY <1>1, <1>2, FifoBuf

-----------------------------------------------------------------------------
LEMMA NotReport == \A s : ~IsReport(Shutdown(s))
BY ReportKindAssumption DEF IsReport, Shutdown, ReportKindAssumption

(* Steps that do not write or read the FIFO.                               *)
Quiet == fifo'.buf = fifo.buf \/ fifo'.buf = <<>>

LEMMA QuietDaemon ==
    ASSUME DaemonTypeOK, NEW d \in Daemons,
           \/ Start(d) \/ OpenFifo(d) \/ OpenFifoReturns(d) \/ InitConn(d)
           \/ Connect(d) \/ Poll(d) \/ (\E c \in Channels : ProcessSk(d, c))
           \/ ProcessSrc(d) \/ ReadEof(d)
           \/ CloseInt(d) \/ CloseCnt(d) \/ KilledCloseCnt(d) \/ KilledCloseInt(d)
    PROVE  /\ Quiet
           /\ UNCHANGED <<cur, host>>
           /\ pc[d] # "send"
           /\ \E l \in PCs \ {"send"} : Goto(d, l) /\ (pc[d] \in Ending => l \in Ending)
           /\ fifo'.buf # fifo.buf => pc'[d] \in Ending
<1>1. pc \in [Daemons -> PCs]
  BY DEF DaemonTypeOK
<1>2. CASE \/ Start(d) \/ OpenFifo(d) \/ OpenFifoReturns(d) \/ InitConn(d)
  BY <1>1, <1>2, BufHere DEF Start, OpenFifo, OpenFifoReturns, InitConn, Quiet,
     Goto, PCs, Ending
<1>3. CASE \/ Connect(d) \/ Poll(d) \/ (\E c \in Channels : ProcessSk(d, c))
           \/ ProcessSrc(d) \/ ReadEof(d)
  BY <1>1, <1>3 DEF Connect, Poll, ProcessSk, ProcessSrc, ReadEof, Quiet,
     Goto, PCs, Ending, Channels
<1>4. CASE CloseInt(d) \/ CloseCnt(d) \/ KilledCloseCnt(d) \/ KilledCloseInt(d)
  BY <1>1, <1>4, BufHere DEF CloseInt, CloseCnt, KilledCloseCnt, KilledCloseInt,
     Quiet, Goto, PCs, Ending
<1> QED
  BY <1>2, <1>3, <1>4

-----------------------------------------------------------------------------
(* The marks of a sequence of packets, as it grows and shrinks.            *)
LEMMA MarkType == ASSUME NEW p \in Packet PROVE Mark(p) \in Nat
BY DEF Mark, Packet

LEMMA MarksType ==
    ASSUME NEW s \in Seq(Packet)
    PROVE  /\ Marks(s) \in Seq(Nat) /\ Len(Marks(s)) = Len(s)
           /\ DOMAIN Marks(s) = 1 .. Len(s)
           /\ \A i \in 1 .. Len(s) : s[i] \in Packet /\ Marks(s)[i] = Mark(s[i])
<1>1. Len(s) \in Nat /\ DOMAIN s = 1 .. Len(s) /\ \A i \in 1 .. Len(s) : s[i] \in Packet
  OBVIOUS
<1>2. Marks(s) = [i \in 1 .. Len(s) |-> Mark(s[i])]
  BY <1>1 DEF Marks
<1>3. \A i \in 1 .. Len(s) : Mark(s[i]) \in Nat
  BY <1>1, MarkType
<1>4. Marks(s) \in [1 .. Len(s) -> Nat]
  BY <1>2, <1>3
<1>5. Marks(s) \in Seq(Nat)
  BY <1>1, <1>4, SeqDef
<1>6. Len(Marks(s)) = Len(s)
  BY <1>1, <1>4, <1>5, LenProperties
<1> QED
  BY <1>1, <1>2, <1>5, <1>6

LEMMA MarksAppend ==
    ASSUME NEW s \in Seq(Packet), NEW p \in Packet
    PROVE  Marks(Append(s, p)) = Append(Marks(s), Mark(p))
<1> DEFINE t == Append(s, p)
           l == Marks(t)
           r == Append(Marks(s), Mark(p))
<1>1. t \in Seq(Packet) /\ Len(t) = Len(s) + 1 /\ t[Len(s) + 1] = p
      /\ (\A i \in 1 .. Len(s) : t[i] = s[i]) /\ Len(s) \in Nat
  BY AppendProperties
<1>2. l \in Seq(Nat) /\ Len(l) = Len(s) + 1
      /\ \A i \in 1 .. Len(s) + 1 : l[i] = Mark(t[i])
  BY <1>1, MarksType
<1>3. Marks(s) \in Seq(Nat) /\ Len(Marks(s)) = Len(s) /\ Mark(p) \in Nat
      /\ \A i \in 1 .. Len(s) : Marks(s)[i] = Mark(s[i])
  BY MarksType, MarkType
<1>4. r \in Seq(Nat) /\ Len(r) = Len(s) + 1 /\ r[Len(s) + 1] = Mark(p)
      /\ \A i \in 1 .. Len(s) : r[i] = Marks(s)[i]
  BY <1>3, AppendProperties
<1>5. \A i \in 1 .. Len(l) : l[i] = r[i]
  BY <1>1, <1>2, <1>3, <1>4
<1> HIDE DEF l, r
<1>6. l = r
  BY <1>2, <1>4, <1>5, SeqEqual
<1> QED
  BY <1>6 DEF l, r

LEMMA MarksTail ==
    ASSUME NEW s \in Seq(Packet), s # <<>>
    PROVE  /\ Marks(s) # <<>> /\ Head(Marks(s)) = Mark(Head(s))
           /\ Marks(Tail(s)) = Tail(Marks(s))
<1> DEFINE l == Marks(Tail(s))
           r == Tail(Marks(s))
<1>1. Len(s) \in Nat /\ Len(s) >= 1 /\ Tail(s) \in Seq(Packet)
      /\ Len(Tail(s)) = Len(s) - 1 /\ Head(s) = s[1]
      /\ \A i \in 1 .. Len(Tail(s)) : Tail(s)[i] = s[i + 1]
  BY EmptySeq, HeadTailProperties
<1>2. Marks(s) \in Seq(Nat) /\ Len(Marks(s)) = Len(s)
      /\ \A i \in 1 .. Len(s) : Marks(s)[i] = Mark(s[i])
  BY MarksType
<1>3. Marks(s) # <<>>
  BY <1>1, <1>2
<1>4. r \in Seq(Nat) /\ Len(r) = Len(s) - 1 /\ Head(Marks(s)) = Marks(s)[1]
      /\ \A i \in 1 .. Len(r) : r[i] = Marks(s)[i + 1]
  BY <1>2, <1>3, HeadTailProperties
<1>5. l \in Seq(Nat) /\ Len(l) = Len(s) - 1
      /\ \A i \in 1 .. Len(l) : l[i] = Mark(Tail(s)[i])
  BY <1>1, MarksType
<1>6. \A i \in 1 .. Len(l) : l[i] = r[i]
  BY <1>1, <1>2, <1>4, <1>5
<1> HIDE DEF l, r
<1>7. l = r
  BY <1>4, <1>5, <1>6, SeqEqual
<1> QED
  BY <1>1, <1>2, <1>3, <1>4, <1>7 DEF l, r

LEMMA MarksEmpty == Marks(<<>>) = <<>>
<1>1. <<>> \in Seq(Packet)
  OBVIOUS
<1>2. Marks(<<>>) \in Seq(Nat) /\ Len(Marks(<<>>)) = 0
  BY <1>1, MarksType
<1> QED
  BY <1>2, EmptySeq

LEMMA QuietMarks ==
    ASSUME Quiet
    PROVE  Marks(fifo.buf)' = Marks(fifo.buf) \/ Marks(fifo.buf)' = <<>>
<1>1. CASE fifo'.buf = fifo.buf
  BY <1>1 DEF Marks
<1>2. CASE fifo'.buf = <<>>
  BY <1>2, MarksEmpty DEF Marks
<1> QED
  BY <1>1, <1>2 DEF Quiet

-----------------------------------------------------------------------------
(* What the channel sees of the daemons, as one of them moves on.          *)
DaemonsSeen == <<InFlight, Ended>>

LEMMA SeenAlone ==
    ASSUME UNCHANGED <<pc, cur>> PROVE UNCHANGED DaemonsSeen
BY DEF DaemonsSeen, InFlight, Ended

LEMMA QuietGoto ==
    ASSUME DaemonTypeOK, NEW d \in Daemons, NEW l, Goto(d, l), UNCHANGED cur,
           pc[d] # "send", l # "send", l \in Ending <=> pc[d] \in Ending
    PROVE  UNCHANGED DaemonsSeen
<1>1. pc \in [Daemons -> PCs]
  BY DEF DaemonTypeOK
<1>2. \A e \in Daemons : pc'[e] = IF e = d THEN l ELSE pc[e]
  BY <1>1 DEF Goto
<1>3. InFlight' = InFlight
  BY <1>2 DEF InFlight
<1>4. Ended' = Ended
  BY <1>2 DEF Ended
<1> QED
  BY <1>3, <1>4 DEF DaemonsSeen

LEMMA StopGoto ==
    ASSUME DaemonTypeOK, NEW d \in Daemons, NEW l \in Ending, Goto(d, l), UNCHANGED cur
    PROVE  /\ Ended' = Ended \cup {d}
           /\ InFlight' = [c \in Daemons |-> IF c \in {d} THEN 0 ELSE InFlight[c]]
<1>1. pc \in [Daemons -> PCs] /\ l # "send"
  BY DEF DaemonTypeOK, Ending
<1>2. \A e \in Daemons : pc'[e] = IF e = d THEN l ELSE pc[e]
  BY <1>1 DEF Goto
<1> QED
  BY <1>1, <1>2 DEF InFlight, Ended

(* To lose nothing, or all, is to lose some part of the head.              *)
LEMMA WholeOrNone ==
    ASSUME DaemonTypeOK,
           Marks(fifo.buf)' = Marks(fifo.buf) \/ Marks(fifo.buf)' = <<>>
    PROVE  \E k \in 1 .. Len(Marks(fifo.buf)) + 1 :
              Marks(fifo.buf)' = SubSeq(Marks(fifo.buf), k, Len(Marks(fifo.buf)))
<1> DEFINE M == Marks(fifo.buf)
<1>1. M \in Seq(Nat)
  BY MarksType DEF DaemonTypeOK, FifoType
<1> HIDE DEF M
<1>2. /\ M = SubSeq(M, 1, Len(M)) /\ <<>> = SubSeq(M, Len(M) + 1, Len(M))
      /\ 1 \in 1 .. Len(M) + 1 /\ Len(M) + 1 \in 1 .. Len(M) + 1
  BY <1>1
<1>3. M' = M \/ M' = <<>>
  BY DEF M
<1>4. \E k \in 1 .. Len(M) + 1 : M' = SubSeq(M, k, Len(M))
  BY <1>2, <1>3
<1> QED
  BY <1>4 DEF M
=============================================================================
