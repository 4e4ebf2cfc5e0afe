------------------------------ MODULE LogFile ------------------------------
(***************************************************************************)
(* The daemon's log file (log.c): open_log truncates the file, push_string *)
(* cuts a message to the line size, writes it behind the last line of this *)
(* process and starts over at the top of the file once it has reached the  *)
(* size limit, without truncating.  Each daemon has a stream, hence a      *)
(* position, of its own; two daemons that are alive at once share the file.*)
(*                                                                         *)
(* A byte of the file is the number of the call that wrote it; Hole is a   *)
(* byte nobody has written.                                                *)
(***************************************************************************)
EXTENDS Naturals, Sequences, FiniteSets

CONSTANTS
    LINE_SIZE, FILE_SIZE,   \* the arguments of start_log
    Header,                 \* what push_string puts before a message
    Writers,                \* processes that log
    MessageLens,            \* lengths of messages
    MaxCalls,               \* calls of all processes together,
    MaxOwnCalls             \* and of one that is alone

ASSUME LogAssumption ==
    /\ LINE_SIZE \in Nat /\ LINE_SIZE > 6
    /\ FILE_SIZE \in Nat /\ FILE_SIZE >= LINE_SIZE
    /\ Header \in Nat /\ MessageLens \subseteq Nat
    /\ MaxCalls \in Nat /\ MaxOwnCalls \in Nat

VARIABLES
    log,    \* the file, and each process's position in it
    calls   \* the calls made, for the properties

logVars == <<log, calls>>

Hole == 0
Smaller(a, b) == IF a < b THEN a ELSE b

(* _open_log: the limit is a multiple of the line size asked for, a        *)
(* message may take six characters less.                                   *)
SizeLimit == (FILE_SIZE \div LINE_SIZE) * LINE_SIZE
MaxMessage == LINE_SIZE - 6

(* "%.*s\n" behind the header.                                             *)
LineLen(n) == Header + Smaller(n, MaxMessage) + 1
MaxLine == Header + MaxMessage + 1

(* The positions of a process that has not opened the log do not matter.   *)
NoLog == [data |-> <<>>, pos |-> [w \in Writers |-> 0]]
LogInit == log = NoLog /\ calls = <<>>

(* fopen(path, "w").                                                       *)
OpenLog(l, w) == [data |-> <<>>, pos |-> [l.pos EXCEPT ![w] = 0]]

(* A line of length n over what is at position p, and behind a hole when   *)
(* the file is shorter than that.                                          *)
Overwrite(data, p, n, id) ==
    [i \in 1 .. (IF Len(data) > p + n THEN Len(data) ELSE p + n) |->
        IF i \in p + 1 .. p + n THEN id
        ELSE IF i <= Len(data) THEN data[i] ELSE Hole]

(* Fault: ftell() == file_size.                                            *)
PushStringAtLimit(l, w, n, id) ==
    LET p == IF l.pos[w] = SizeLimit THEN 0 ELSE l.pos[w]
    IN  [data |-> Overwrite(l.data, p, LineLen(n), id),
         pos  |-> [l.pos EXCEPT ![w] = p + LineLen(n)]]

(* Fault: the file is opened again at the limit.                           *)
PushStringReopens(l, w, n, id) ==
    LET full == l.pos[w] >= SizeLimit
        p    == IF full THEN 0 ELSE l.pos[w]
    IN  [data |-> Overwrite(IF full THEN <<>> ELSE l.data, p, LineLen(n), id),
         pos  |-> [l.pos EXCEPT ![w] = p + LineLen(n)]]

PushString(l, w, n, id) ==
    LET p == IF l.pos[w] >= SizeLimit THEN 0 ELSE l.pos[w]
    IN  [data |-> Overwrite(l.data, p, LineLen(n), id),
         pos  |-> [l.pos EXCEPT ![w] = p + LineLen(n)]]

-----------------------------------------------------------------------------
Opened(w) == \E i \in DOMAIN calls : calls[i].op = "open" /\ calls[i].by = w

(* Each call keeps what all processes have written when it is done.        *)
Total == IF calls = <<>> THEN 0 ELSE calls[Len(calls)].upto
Call(op, w, n) ==
    /\ calls' = Append(calls,
          [op |-> op, by |-> w, len |-> n,
           upto |-> Total + (IF op = "push" THEN LineLen(n) ELSE 0)])
    /\ Len(calls') <= IF \A i \in DOMAIN calls' : calls'[i].by = w
                      THEN MaxOwnCalls ELSE MaxCalls

LogOpens(w) == Call("open", w, 0) /\ log' = OpenLog(log, w)
LogPushes(w) ==
    /\ Opened(w)
    /\ \E n \in MessageLens :
          Call("push", w, n) /\ log' = PushString(log, w, n, Len(calls) + 1)

LogNext == \E w \in Writers : LogOpens(w) \/ LogPushes(w)
LogSpec == LogInit /\ [][LogNext]_logVars

-----------------------------------------------------------------------------
(* The file never grows beyond its limit by more than a line, also when    *)
(* two daemons write to it, each at its own position, and a new one        *)
(* truncates it under the feet of the other.                               *)
LogBounded == Len(log.data) < SizeLimit + MaxLine

(* What has been written from call i on.                                   *)
Written(i) == Total - calls[i].upto + LineLen(calls[i].len)
Whole(i) ==
    Cardinality({b \in DOMAIN log.data : log.data[b] = i}) = LineLen(calls[i].len)

(* What a daemon that logs alone has logged last can be read: each of its  *)
(* lines that, with all that came after it, fits into the size limit is    *)
(* whole in the file, wherever the file has started over.                  *)
NewestLinesWhole ==
    (\A i, j \in DOMAIN calls : calls[i].by = calls[j].by) =>
        \A i \in DOMAIN calls :
            (\A j \in i .. Len(calls) : calls[j].op = "push") /\ Written(i) <= SizeLimit
                => Whole(i)
=============================================================================
