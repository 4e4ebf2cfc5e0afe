--------------------------- MODULE ReportChannel ---------------------------
(***************************************************************************)
(* What the FIFO and the daemons together promise of the reports of the    *)
(* application: a lossy queue with competing consumers.  A report is made  *)
(* once, may be lost at any point on its way, and is otherwise taken off   *)
(* the queue by one consumer, which passes it on.  A stop mark that a      *)
(* consumer takes, or a failure, ends that consumer.                       *)
(***************************************************************************)
EXTENDS Naturals, Sequences

CONSTANT Consumers

StopMark == 0       \* the identities of reports start at 1
Nothing == 0

VARIABLES
    made,       \* reports made so far, the identity of the last one
    offer,      \* the report being written, Nothing when there is none
    queue,      \* reports and stop marks accepted and not yet taken
    held,       \* held[c]: the report c has taken and not yet passed on
    stopped,    \* the consumers that have ended
    got         \* the reports passed on, each with its consumer

vars == <<made, offer, queue, held, stopped, got>>

Init ==
    /\ made = 0 /\ offer = Nothing /\ queue = <<>>
    /\ held = [c \in Consumers |-> Nothing]
    /\ stopped = {} /\ got = <<>>

Make ==
    /\ offer = Nothing
    /\ made' = made + 1 /\ offer' = made + 1
    /\ UNCHANGED <<queue, held, stopped, got>>

Accept ==
    /\ offer # Nothing
    /\ queue' = Append(queue, offer) /\ offer' = Nothing
    /\ UNCHANGED <<made, held, stopped, got>>

AcceptStop ==
    /\ queue' = Append(queue, StopMark)
    /\ UNCHANGED <<made, offer, held, stopped, got>>

(* The writer gives up, or goes away; unread reports may go with it.       *)
Withdraw ==
    /\ offer' = Nothing /\ queue' \in {queue, <<>>}
    /\ UNCHANGED <<made, held, stopped, got>>

Take(c) ==
    /\ c \notin stopped /\ held[c] = Nothing /\ queue # <<>>
    /\ Head(queue) # StopMark
    /\ held' = [held EXCEPT ![c] = Head(queue)]
    /\ queue' = Tail(queue)
    /\ UNCHANGED <<made, offer, stopped, got>>

TakeStop(c) ==
    /\ c \notin stopped /\ held[c] = Nothing /\ queue # <<>>
    /\ Head(queue) = StopMark
    /\ stopped' = stopped \cup {c}
    /\ queue' = Tail(queue)
    /\ UNCHANGED <<made, offer, held, got>>

PassOn(c) ==
    /\ held[c] # Nothing
    /\ got' = Append(got, [daemon |-> c, id |-> held[c]])
    /\ held' = [held EXCEPT ![c] = Nothing]
    /\ UNCHANGED <<made, offer, queue, stopped>>

Lose(c) ==
    /\ held[c] # Nothing
    /\ held' = [held EXCEPT ![c] = Nothing]
    /\ UNCHANGED <<made, offer, queue, stopped, got>>

(* Consumers end; what is at the head of the queue may go with them.       *)
Stop(S) ==
    /\ stopped' = stopped \cup S
    /\ held' = [c \in Consumers |-> IF c \in S THEN Nothing ELSE held[c]]
    /\ \E k \in 1 .. Len(queue) + 1 : queue' = SubSeq(queue, k, Len(queue))
    /\ UNCHANGED <<made, offer, got>>

Next ==
    \/ Make \/ Accept \/ AcceptStop \/ Withdraw
    \/ \E c \in Consumers : Take(c) \/ TakeStop(c) \/ PassOn(c) \/ Lose(c)
    \/ \E S \in SUBSET Consumers : Stop(S)

Spec == Init /\ [][Next]_vars

-----------------------------------------------------------------------------
(* No report is passed on twice, by one consumer or by two.                *)
AtMostOnce ==
    \A i, j \in DOMAIN got : i # j => got[i].id # got[j].id

(* What one consumer passes on arrives in the order it was made.           *)
InOrder ==
    \A i, j \in DOMAIN got :
        i < j /\ got[i].daemon = got[j].daemon => got[i].id < got[j].id
=============================================================================
