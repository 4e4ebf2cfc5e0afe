-------------------------------- MODULE Fifo --------------------------------
(***************************************************************************)
(* The named pipe /data/hidp_clientd.fifo that joins the application to    *)
(* the daemon.  The pipe itself is the kernel's: it is modelled from the   *)
(* system calls the repository makes on it (mkfifo, open, read, write,     *)
(* close), with one writer (the application) and any number of readers     *)
(* (daemons).  Packets are 20 bytes, below PIPE_BUF, so a write is atomic. *)
(*                                                                         *)
(* A FIFO is a record:                                                     *)
(*   made     the directory entry exists (it is never unlinked)            *)
(*   buf      the packets written and not yet read                         *)
(*   readers  the processes that have it open for reading, those still     *)
(*            blocked in open() included (the kernel counts them)          *)
(*   waitR    the readers still blocked in open()                          *)
(*   writer   the application has it open for writing, or is in open()     *)
(*   waitW    the application is still blocked in open()                   *)
(***************************************************************************)
EXTENDS Naturals, Sequences

CONSTANT PipeCap    \* packets the pipe buffer holds

ASSUME PipeCapAssumption == PipeCap \in Nat \ {0}

FifoType(Packet, Process) ==
    [made: BOOLEAN, buf: Seq(Packet), readers: SUBSET Process,
     waitR: SUBSET Process, writer: BOOLEAN, waitW: BOOLEAN]

AbsentFifo == [made |-> FALSE, buf |-> <<>>, readers |-> {}, waitR |-> {},
               writer |-> FALSE, waitW |-> FALSE]

Mkfifo(f) == [f EXCEPT !.made = TRUE]

(* open(O_RDONLY) wakes a waiting writer and waits when there is none.     *)
OpenForReading(f, p) ==
    [f EXCEPT !.readers = @ \cup {p},
              !.waitR   = IF f.writer THEN @ ELSE @ \cup {p},
              !.waitW   = FALSE]

(* open(O_WRONLY) wakes the waiting readers and waits when there is none.  *)
OpenForWriting(f) ==
    [f EXCEPT !.writer = TRUE, !.waitR = {}, !.waitW = (f.readers = {})]

(* The last close of either side throws the unread packets away.           *)
CloseReader(f, p) ==
    [f EXCEPT !.readers = @ \ {p},
              !.waitR   = @ \ {p},
              !.buf     = IF f.writer \/ f.readers \ {p} # {} THEN @ ELSE <<>>]

CloseWriter(f) ==
    [f EXCEPT !.writer = FALSE, !.waitW = FALSE,
              !.buf    = IF f.readers = {} THEN <<>> ELSE @]

HasRoom(f) == Len(f.buf) < PipeCap
Readable(f) == f.buf # <<>>
AtEof(f) == f.buf = <<>> /\ ~f.writer

Put(f, pkt) == [f EXCEPT !.buf = Append(@, pkt)]
Drop1(f) == [f EXCEPT !.buf = Tail(@)]
=============================================================================
