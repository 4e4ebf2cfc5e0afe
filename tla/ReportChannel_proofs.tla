------------------------ MODULE ReportChannel_proofs ------------------------
(***************************************************************************)
(* The abstract channel keeps its two promises for any set of consumers    *)
(* and any number of reports.  Neither is inductive: a report is passed on *)
(* once, and in order, because at any time every report is older than      *)
(* those that still follow it on its way (got, held, queue, offer), which  *)
(* is what Inv adds.                                                       *)
(***************************************************************************)
EXTENDS ReportChannel, TLAPS

TypeOK ==
    /\ made \in Nat /\ offer \in Nat /\ queue \in Seq(Nat)
    /\ held \in [Consumers -> Nat]
    /\ got \in Seq([daemon: Consumers, id: Nat])

(* n is older than what is being written and than what is queued.          *)
Behind(n) ==
    /\ n <= made
    /\ offer # Nothing => n < offer
    /\ \A i \in DOMAIN queue : queue[i] # StopMark => n < queue[i]

QueueInv ==
    /\ offer # Nothing => offer = made
    /\ \A i \in DOMAIN queue :
          queue[i] <= made /\ (offer # Nothing => queue[i] < offer)
    /\ \A i, j \in DOMAIN queue :
          i < j /\ queue[i] # StopMark /\ queue[j] # StopMark => queue[i] < queue[j]

HeldInv ==
    /\ \A c \in Consumers : Behind(held[c])
    /\ \A c, e \in Consumers : c # e /\ held[c] # Nothing => held[c] # held[e]

GotInv ==
    /\ \A k \in DOMAIN got : Behind(got[k].id)
    /\ \A k \in DOMAIN got, c \in Consumers :
          held[c] # Nothing =>
              /\ got[k].id # held[c]
              /\ got[k].daemon = c => got[k].id < held[c]

Inv == TypeOK /\ QueueInv /\ HeldInv /\ GotInv /\ AtMostOnce /\ InOrder

-----------------------------------------------------------------------------
LEMMA InitInv == Init => Inv
BY DEF Init, Inv, TypeOK, QueueInv, HeldInv, GotInv, AtMostOnce, InOrder,
       Behind, Nothing

LEMMA Types ==
    ASSUME TypeOK
    PROVE  /\ \A i \in DOMAIN queue : i \in Nat /\ queue[i] \in Nat
           /\ \A k \in DOMAIN got :
                 k \in Nat /\ got[k].id \in Nat /\ got[k].daemon \in Consumers
<1>1. \A i \in DOMAIN queue : i \in Nat /\ queue[i] \in Nat
  BY DEF TypeOK
<1>2. \A k \in DOMAIN got : k \in Nat /\ got[k] \in [daemon: Consumers, id: Nat]
  <2> DEFINE Entry == [daemon: Consumers, id: Nat]
  <2>1. got \in Seq(Entry)
    BY DEF TypeOK
  <2> HIDE DEF Entry
  <2>2. \A k \in DOMAIN got : k \in Nat /\ got[k] \in Entry
    BY <2>1
  <2> QED
    BY <2>2 DEF Entry
<1> QED
  BY <1>1, <1>2

LEMMA MakeInv == Inv /\ Make => Inv'
<1> SUFFICES ASSUME Inv, Make PROVE Inv'
  OBVIOUS
<1>1. TypeOK'
  BY DEF Inv, TypeOK, Make
<1>2. \A n \in Nat : Behind(n) => Behind(n)'
  BY DEF Inv, TypeOK, Make, Behind
<1>3. QueueInv'
  BY Types DEF Inv, TypeOK, Make, QueueInv
<1>4. HeldInv'
  BY <1>2 DEF Inv, TypeOK, Make, HeldInv
<1>5. GotInv'
  BY <1>2, Types DEF Inv, Make, GotInv
<1>6. AtMostOnce' /\ InOrder'
  BY DEF Inv, Make, AtMostOnce, InOrder
<1> QED
  BY <1>1, <1>3, <1>4, <1>5, <1>6 DEF Inv

LEMMA AppendFacts ==
    ASSUME TypeOK, NEW x \in Nat, queue' = Append(queue, x)
    PROVE  /\ queue' \in Seq(Nat)
           /\ Len(queue) \in Nat
           /\ DOMAIN queue = 1 .. Len(queue)
           /\ DOMAIN queue' = 1 .. Len(queue) + 1
           /\ queue'[Len(queue) + 1] = x
           /\ \A i \in 1 .. Len(queue) : queue'[i] = queue[i]
BY DEF TypeOK

(* The report being written joins the end of the queue.                    *)
LEMMA AcceptInv == Inv /\ Accept => Inv'
<1> SUFFICES ASSUME Inv, Accept PROVE Inv'
  OBVIOUS
<1>1. /\ queue' = Append(queue, offer) /\ offer \in Nat
      /\ offer = made /\ offer # Nothing /\ offer' = Nothing
  BY DEF Inv, TypeOK, QueueInv, Accept
<1>2. TypeOK'
  BY <1>1, AppendFacts DEF Inv, TypeOK, Accept, Nothing
<1>3. QueueInv'
  BY <1>1, AppendFacts, Types DEF Inv, QueueInv, Accept
<1>4. \A n \in Nat : Behind(n) => Behind(n)'
  BY <1>1, AppendFacts, Types DEF Inv, Behind, Accept
<1>5. HeldInv' /\ GotInv'
  BY <1>4, Types DEF Inv, TypeOK, HeldInv, GotInv, Accept
<1>6. AtMostOnce' /\ InOrder'
  BY DEF Inv, Accept, AtMostOnce, InOrder
<1> QED
  BY <1>2, <1>3, <1>5, <1>6 DEF Inv

LEMMA AcceptStopInv == Inv /\ AcceptStop => Inv'
<1> SUFFICES ASSUME Inv, AcceptStop PROVE Inv'
  OBVIOUS
<1>1. queue' = Append(queue, 0) /\ 0 \in Nat
  BY DEF AcceptStop, StopMark
<1>2. TypeOK'
  BY <1>1, AppendFacts DEF Inv, TypeOK, AcceptStop
<1>3. QueueInv'
  BY <1>1, AppendFacts, Types
     DEF Inv, TypeOK, QueueInv, AcceptStop, StopMark, Nothing
<1>4. \A n \in Nat : Behind(n) => Behind(n)'
  BY <1>1, AppendFacts, Types DEF Inv, Behind, AcceptStop, StopMark
<1>5. HeldInv' /\ GotInv'
  BY <1>4, Types DEF Inv, TypeOK, HeldInv, GotInv, AcceptStop
<1>6. AtMostOnce' /\ InOrder'
  BY DEF Inv, AcceptStop, AtMostOnce, InOrder
<1> QED
  BY <1>2, <1>3, <1>5, <1>6 DEF Inv

LEMMA WithdrawInv == Inv /\ Withdraw => Inv'
<1> SUFFICES ASSUME Inv, Withdraw PROVE Inv'
  OBVIOUS
<1>1. TypeOK'
  <2>1. queue' \in Seq(Nat)
    <3>1. CASE queue' = queue
      BY <3>1 DEF Inv, TypeOK
    <3>2. CASE queue' = <<>>
      BY <3>2
    <3> QED
      BY <3>1, <3>2 DEF Withdraw
  <2> QED
    BY <2>1 DEF Inv, TypeOK, Withdraw, Nothing
<1>2. QueueInv' /\ HeldInv' /\ GotInv'
  BY DEF Inv, TypeOK, Withdraw, QueueInv, HeldInv, GotInv, Behind
<1>3. AtMostOnce' /\ InOrder'
  BY DEF Inv, Withdraw, AtMostOnce, InOrder
<1> QED
  BY <1>1, <1>2, <1>3 DEF Inv

(* Taking off the head shortens the queue; what was behind it still is.    *)
LEMMA TailFacts ==
    ASSUME TypeOK, queue # <<>>, queue' = Tail(queue)
    PROVE  /\ Head(queue) = queue[1] /\ 1 \in DOMAIN queue
           /\ queue' \in Seq(Nat)
           /\ \A i \in DOMAIN queue' :
                 i \in Nat /\ i + 1 \in DOMAIN queue /\ 1 < i + 1
                 /\ queue'[i] = queue[i + 1]
BY DEF TypeOK

LEMMA TakeInv ==
    ASSUME Inv, NEW c \in Consumers, Take(c) PROVE Inv'
<1> DEFINE h == Head(queue)
<1>1. queue # <<>> /\ queue' = Tail(queue) /\ h # StopMark /\ held[c] = Nothing
  BY DEF Take
<1>2. /\ h = queue[1] /\ 1 \in DOMAIN queue /\ queue' \in Seq(Nat)
      /\ \A i \in DOMAIN queue' :
            i \in Nat /\ i + 1 \in DOMAIN queue /\ 1 < i + 1
            /\ queue'[i] = queue[i + 1]
  BY <1>1, TailFacts DEF Inv
<1>3. h \in Nat
  BY <1>2 DEF Inv, TypeOK
<1>4. TypeOK'
  BY <1>2, <1>3 DEF Inv, TypeOK, Take
<1>5. \A e \in Consumers : held'[e] = IF e = c THEN h ELSE held[e]
  BY DEF Inv, TypeOK, Take
<1>6. QueueInv'
  BY <1>2 DEF Inv, TypeOK, QueueInv, Take
<1>7. \A n \in Nat : Behind(n) => Behind(n)'
  BY <1>2 DEF Behind, Take
<1>8. /\ h <= made /\ (offer # Nothing => h < offer)
      /\ \A i \in DOMAIN queue' : queue'[i] # StopMark => h < queue'[i]
  <2>1. h <= made /\ (offer # Nothing => h < offer)
    BY <1>2 DEF Inv, QueueInv
  <2>2. \A i \in DOMAIN queue' : queue'[i] # StopMark => h < queue'[i]
    BY <1>1, <1>2, Types DEF Inv, QueueInv
  <2> QED
    BY <2>1, <2>2
<1>9. HeldInv'
  <2>1. \A e \in Consumers : held[e] \in Nat /\ held[e] < h
    BY <1>1, <1>2 DEF Inv, TypeOK, HeldInv, Behind
  <2>2. \A e \in Consumers : Behind(held[e])'
    BY <1>5, <1>7, <1>8, <2>1 DEF Inv, HeldInv, Behind, Take
  <2>3. \A e, f \in Consumers :
           e # f /\ held'[e] # Nothing => held'[e] # held'[f]
    BY <1>3, <1>5, <2>1 DEF Inv, HeldInv
  <2> QED
    BY <2>2, <2>3 DEF HeldInv
<1>10. GotInv'
  <2>1. \A k \in DOMAIN got : got[k].id \in Nat /\ got[k].id < h
    BY <1>1, <1>2, Types DEF Inv, GotInv, Behind
  <2>2. \A k \in DOMAIN got : Behind(got[k].id)'
    BY <1>7, <2>1 DEF Inv, GotInv, Take
  <2>3. \A k \in DOMAIN got, e \in Consumers :
           held'[e] # Nothing =>
              /\ got[k].id # held'[e]
              /\ got[k].daemon = e => got[k].id < held'[e]
    BY <1>3, <1>5, <2>1 DEF Inv, GotInv
  <2> QED
    BY <2>2, <2>3 DEF GotInv, Take
<1>11. AtMostOnce' /\ InOrder'
  BY DEF Inv, AtMostOnce, InOrder, Take
<1> QED
  BY <1>4, <1>6, <1>9, <1>10, <1>11 DEF Inv

LEMMA TakeStopInv ==
    ASSUME Inv, NEW c \in Consumers, TakeStop(c) PROVE Inv'
<1>1. /\ queue' \in Seq(Nat)
      /\ \A i \in DOMAIN queue' :
            i \in Nat /\ i + 1 \in DOMAIN queue /\ 1 < i + 1
            /\ queue'[i] = queue[i + 1]
  BY TailFacts DEF Inv, TakeStop
<1>2. TypeOK'
  BY <1>1 DEF Inv, TypeOK, TakeStop
<1>3. QueueInv'
  BY <1>1 DEF Inv, TakeStop, QueueInv
<1>4. \A n \in Nat : Behind(n) => Behind(n)'
  BY <1>1 DEF TakeStop, Behind
<1>5. HeldInv' /\ GotInv'
  BY <1>4, Types DEF Inv, TypeOK, TakeStop, HeldInv, GotInv
<1>6. AtMostOnce' /\ InOrder'
  BY DEF Inv, AtMostOnce, InOrder, TakeStop
<1> QED
  BY <1>2, <1>3, <1>5, <1>6 DEF Inv

LEMMA PassOnInv ==
    ASSUME Inv, NEW c \in Consumers, PassOn(c) PROVE Inv'
<1> DEFINE g == [daemon |-> c, id |-> held[c]]
<1>1. got' = Append(got, g) /\ g \in [daemon: Consumers, id: Nat]
  BY DEF Inv, TypeOK, PassOn
<1>2. /\ DOMAIN got = 1 .. Len(got) /\ Len(got) \in Nat
      /\ DOMAIN got' = 1 .. Len(got) + 1
      /\ got'[Len(got) + 1] = g
      /\ \A k \in 1 .. Len(got) : got'[k] = got[k]
  BY <1>1 DEF Inv, TypeOK
<1>3. \A e \in Consumers : held'[e] = IF e = c THEN Nothing ELSE held[e]
  BY DEF Inv, TypeOK, PassOn
<1>4. TypeOK'
  BY <1>1 DEF Inv, TypeOK, PassOn, Nothing
<1>5. QueueInv'
  BY DEF Inv, QueueInv, PassOn
<1>6. \A n \in Nat : Behind(n) => Behind(n)'
  BY DEF Behind, PassOn
<1>7. HeldInv'
  BY <1>3 DEF Inv, TypeOK, HeldInv, Behind, PassOn, Nothing, StopMark
<1>8. held[c] # Nothing /\ held[c] \in Nat /\ Behind(held[c])
  BY DEF Inv, TypeOK, HeldInv, PassOn
<1>9. \A k \in DOMAIN got' :
         \/ k \in DOMAIN got /\ got'[k] = got[k]
         \/ k = Len(got) + 1 /\ got'[k].id = held[c] /\ got'[k].daemon = c
  BY <1>2
<1>10. GotInv'
  <2>1. \A k \in DOMAIN got' : Behind(got[k].id)'
    BY <1>6, <1>8, <1>9, Types DEF Inv, GotInv
  <2>2. \A k \in DOMAIN got', e \in Consumers :
           held'[e] # Nothing =>
              /\ got'[k].id # held'[e]
              /\ got'[k].daemon = e => got'[k].id < held'[e]
    BY <1>3, <1>8, <1>9 DEF Inv, GotInv, HeldInv
  <2> QED
    BY <2>1, <2>2 DEF GotInv
<1>11. AtMostOnce'
  BY <1>2, <1>8, <1>9 DEF Inv, GotInv, AtMostOnce
<1>12. InOrder'
  BY <1>2, <1>8, <1>9, Types DEF Inv, GotInv, InOrder
<1> QED
  BY <1>4, <1>5, <1>7, <1>10, <1>11, <1>12 DEF Inv

LEMMA LoseInv ==
    ASSUME Inv, NEW c \in Consumers, Lose(c) PROVE Inv'
<1>1. \A e \in Consumers : held'[e] = IF e = c THEN Nothing ELSE held[e]
  BY DEF Inv, TypeOK, Lose
<1>2. TypeOK' /\ QueueInv'
  BY DEF Inv, TypeOK, QueueInv, Lose, Nothing
<1>3. HeldInv' /\ GotInv'
  BY <1>1 DEF Inv, TypeOK, HeldInv, GotInv, Behind, Lose, Nothing, StopMark
<1>4. AtMostOnce' /\ InOrder'
  BY DEF Inv, AtMostOnce, InOrder, Lose
<1> QED
  BY <1>2, <1>3, <1>4 DEF Inv

(* What is left of the queue when a part of its head is lost.              *)
LEMMA RestFacts ==
    ASSUME TypeOK, NEW k \in 1 .. Len(queue) + 1,
           queue' = SubSeq(queue, k, Len(queue))
    PROVE  /\ queue' \in Seq(Nat)
           /\ \A i \in DOMAIN queue' :
                 i \in Nat /\ i + k - 1 \in DOMAIN queue
                 /\ queue'[i] = queue[i + k - 1]
<1>1. queue \in Seq(Nat) /\ Len(queue) \in Nat /\ k \in Nat /\ k >= 1
  BY DEF TypeOK
<1>2. DOMAIN queue' = 1 .. Len(queue) - k + 1
  BY <1>1
<1>3. \A i \in 1 .. Len(queue) - k + 1 :
         i + k - 1 \in 1 .. Len(queue) /\ queue'[i] = queue[i + k - 1]
  BY <1>1
<1>4. queue' \in Seq(Nat)
  BY <1>1, <1>2, <1>3
<1> QED
  BY <1>1, <1>2, <1>3, <1>4

LEMMA StopInv ==
    ASSUME Inv, NEW S \in SUBSET Consumers, Stop(S) PROVE Inv'
<1>1. \A e \in Consumers : held'[e] = IF e \in S THEN Nothing ELSE held[e]
  BY DEF Stop
<1>2. PICK k \in 1 .. Len(queue) + 1 : queue' = SubSeq(queue, k, Len(queue))
  BY DEF Stop
<1>3. /\ queue' \in Seq(Nat) /\ k \in Nat
      /\ \A i \in DOMAIN queue' :
            i \in Nat /\ i + k - 1 \in DOMAIN queue
            /\ queue'[i] = queue[i + k - 1]
  BY <1>2, RestFacts DEF Inv, TypeOK
<1>4. TypeOK'
  BY <1>3 DEF Inv, TypeOK, Stop, Nothing
<1>5. QueueInv'
  BY <1>3 DEF Inv, QueueInv, Stop
<1>6. \A n \in Nat : Behind(n) => Behind(n)'
  BY <1>3 DEF Behind, Stop
<1>7. HeldInv'
  <2>1. Behind(Nothing)'
    <3>1. made \in Nat /\ offer \in Nat /\ made' = made /\ offer' = offer
      BY DEF Inv, TypeOK, Stop
    <3>2. \A i \in DOMAIN queue' : queue'[i] \in Nat
      BY <1>3, Types DEF Inv
    <3> QED
      BY <3>1, <3>2 DEF Behind, Nothing, StopMark
  <2>2. \A e \in Consumers : Behind(held[e])'
    <3> TAKE e \in Consumers
    <3>1. held[e] \in Nat /\ Behind(held[e])
      BY DEF Inv, TypeOK, HeldInv
    <3>2. CASE e \in S
      BY <1>1, <2>1, <3>2 DEF Behind
    <3>3. CASE e \notin S
      BY <1>1, <1>3, <3>1, <3>3 DEF Behind, Stop
    <3> QED
      BY <3>2, <3>3
  <2>3. \A c, e \in Consumers : c # e /\ held'[c] # Nothing => held'[c] # held'[e]
    BY <1>1 DEF Inv, HeldInv
  <2> QED
    BY <2>2, <2>3 DEF HeldInv
<1>8. GotInv'
  BY <1>1, <1>6, Types DEF Inv, TypeOK, GotInv, Stop, Nothing
<1>9. AtMostOnce' /\ InOrder'
  BY DEF Inv, AtMostOnce, InOrder, Stop
<1> QED
  BY <1>4, <1>5, <1>7, <1>8, <1>9 DEF Inv

(* Inv is an invariant of the channel.                                     *)
THEOREM Invariance == Spec => []Inv
<1>1. Inv /\ [Next]_vars => Inv'
  <2> SUFFICES ASSUME Inv, [Next]_vars PROVE Inv'
    OBVIOUS
  <2>1. CASE Make
    BY <2>1, MakeInv
  <2>2. CASE Accept \/ AcceptStop
    BY <2>2, AcceptInv, AcceptStopInv
  <2>3. CASE Withdraw
    BY <2>3, WithdrawInv
  <2>4. CASE \E c \in Consumers : Take(c) \/ TakeStop(c) \/ PassOn(c) \/ Lose(c)
    BY <2>4, TakeInv, TakeStopInv, PassOnInv, LoseInv
  <2>5. CASE \E S \in SUBSET Consumers : Stop(S)
    BY <2>5, StopInv
  <2>6. CASE UNCHANGED vars
    BY <2>6 DEF vars, Inv, TypeOK, QueueInv, HeldInv, GotInv, AtMostOnce,
                InOrder, Behind
  <2> QED
    BY <2>1, <2>2, <2>3, <2>4, <2>5, <2>6 DEF Next
<1> QED
  BY <1>1, InitInv, PTL DEF Spec

(* A report is passed on at most once, whichever consumers compete for it, *)
(* and one consumer passes reports on in the order they were made.         *)
THEOREM Safety == Spec => [](AtMostOnce /\ InOrder)
<1>1. Inv => AtMostOnce /\ InOrder
  BY DEF Inv
<1> QED
  BY <1>1, Invariance, PTL
=============================================================================
