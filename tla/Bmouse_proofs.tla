---------------------------- MODULE Bmouse_proofs ----------------------------
(***************************************************************************)
(* The record that bmouse registers, for any attributes that are added to  *)
(* it, and the calls it makes, for any number of processes, tries, useless *)
(* events and faults.                                                      *)
(*                                                                         *)
(* The size of the buffer for a record is computed by other code than the  *)
(* one that fills it.  Both walk over the nodes of an element, so what     *)
(* they compute is compared position by position (CountsBound, PduSizes);  *)
(* over the attributes the sizes add up (Totals), and the head of the      *)
(* whole record, which nobody counts, finds room in what the first         *)
(* attribute is counted too high (Room).                                   *)
(*                                                                         *)
(* What is read back is found by going down the nodes again: where the     *)
(* bytes of a node occur, the reader gets what the node holds (NodeReads,  *)
(* ElementReads, AttrReads).  Appending an attribute leaves the bytes of   *)
(* the others where they are, or one further when the head of the whole    *)
(* record grows (AppendKeeps), so that all of them still occur (Written).  *)
(*                                                                         *)
(* What bmouse may rely on at its end rests on what is still on its way:   *)
(* each process has at most one request at the SDP server, and none once   *)
(* it has an answer (Requests, Answers); an event that has reached a       *)
(* socket was made by a command of the same kind after the filter was set  *)
(* (Events).                                                               *)
(***************************************************************************)
EXTENDS BmouseCalls, SdpRecord, SequenceTheorems, FiniteSetTheorems, FunctionTheorems,
        WellFoundedInduction, TLAPS

-----------------------------------------------------------------------------
(* The record                                                              *)

(* What holds at a position when it holds at all that come before it holds *)
(* at each.                                                                *)
LEMMA PositionInduction ==
    ASSUME NEW n \in Nat, NEW S,
           \A i \in 0 .. n : (\A j \in 0 .. n : j < i => j \in S) => i \in S
    PROVE  \A i \in 0 .. n : i \in S
<1> DEFINE Bad == {i \in 0 .. n : i \notin S}
           Less == {ss \in Nat \X Nat : ss[1] < ss[2]}
<1> SUFFICES ASSUME Bad # {} PROVE FALSE
  OBVIOUS
<1>1. Bad \subseteq Nat
  OBVIOUS
<1> HIDE DEF Bad
<1>2. PICK h \in Bad : \A g \in Bad : <<g, h>> \notin Less
  BY <1>1, NatLessThanWellFounded, WFMin DEF OpToRel
<1>3. \A j \in 0 .. n : j < h => j \in S
  <2> TAKE j \in 0 .. n
  <2> HAVE j < h
  <2>1. j \in Nat /\ h \in Nat
    BY <1>1
  <2>2. <<j, h>> \in Less
    BY <2>1
  <2> QED
    BY <1>2, <2>2 DEF Bad
<1>4. h \in 0 .. n /\ h \notin S
  BY <1>2 DEF Bad
<1> QED
  BY <1>3, <1>4

(* A function over the positions may be given by what it is at a position, *)
(* from what it is at two that come before.                                *)
Follows(n, base, l, r, G, f) ==
    f = [i \in 0 .. n |-> IF i = 0 THEN base ELSE G[i][f[l[i]]][f[r[i]]]]

LEMMA FunctionOverPositions ==
    ASSUME NEW n \in Nat, NEW T, NEW base \in T,
           NEW l \in [1 .. n -> Nat], NEW r \in [1 .. n -> Nat],
           \A i \in 1 .. n : l[i] < i /\ r[i] < i,
           NEW G \in [1 .. n -> [T -> [T -> T]]]
    PROVE  \E f \in [0 .. n -> T] : Follows(n, base, l, r, G, f)
<1> DEFINE S == {m \in 0 .. n : \E f \in [0 .. m -> T] : Follows(m, base, l, r, G, f)}
<1>1. ASSUME NEW m \in 0 .. n, \A j \in 0 .. n : j < m => j \in S
      PROVE  m \in S
  <2>1. CASE m = 0
    <3> DEFINE f == [i \in 0 .. 0 |-> base]
    <3>1. f \in [0 .. 0 -> T]
      OBVIOUS
    <3>2. f = [i \in 0 .. 0 |-> IF i = 0 THEN base ELSE G[i][f[l[i]]][f[r[i]]]]
      OBVIOUS
    <3> HIDE DEF f
    <3>3. Follows(0, base, l, r, G, f)
      BY <3>2 DEF Follows
    <3> QED
      BY <2>1, <3>1, <3>3
  <2>2. CASE m # 0
    <3> HIDE DEF S
    <3>1. m - 1 \in 0 .. n /\ m - 1 < m
      BY <2>2
    <3>2. m - 1 \in S
      BY <1>1, <3>1
    <3>3. PICK f \in [0 .. m - 1 -> T] : Follows(m - 1, base, l, r, G, f)
      BY <3>2 DEF S
    <3> DEFINE g == [i \in 0 .. m |-> IF i = m THEN G[m][f[l[m]]][f[r[m]]] ELSE f[i]]
    <3>4. f[l[m]] \in T /\ f[r[m]] \in T /\ m \in 1 .. n
      BY <2>2
    <3>5. G[m][f[l[m]]][f[r[m]]] \in T
      <4>1. G[m] \in [T -> [T -> T]]
        BY <3>4
      <4>2. G[m][f[l[m]]] \in [T -> T]
        BY <3>4, <4>1
      <4> QED
        BY <3>4, <4>2
    <3>6. g \in [0 .. m -> T]
      BY <3>5
    <3>7. \A i \in 0 .. m : i # m => g[i] = f[i]
      OBVIOUS
    <3>8. g[m] = G[m][f[l[m]]][f[r[m]]]
      OBVIOUS
    <3>9. ASSUME NEW i \in 0 .. m
          PROVE  g[i] = IF i = 0 THEN base ELSE G[i][g[l[i]]][g[r[i]]]
      <4> HIDE DEF g
      <4>1. CASE i = m
        <5>1. l[m] \in 0 .. m /\ r[m] \in 0 .. m /\ l[m] # m /\ r[m] # m
          BY <3>4
        <5>2. g[l[m]] = f[l[m]] /\ g[r[m]] = f[r[m]]
          BY <5>1, <3>7
        <5> QED
          BY <5>2, <3>8, <4>1, <2>2
      <4>2. CASE i # m
        <5>1. i \in 0 .. m - 1 /\ g[i] = f[i]
          BY <4>2, <3>7
        <5>2. f[i] = IF i = 0 THEN base ELSE G[i][f[l[i]]][f[r[i]]]
          BY <5>1, <3>3 DEF Follows
        <5>3. ASSUME i # 0 PROVE g[l[i]] = f[l[i]] /\ g[r[i]] = f[r[i]]
          <6>1. i \in 1 .. n /\ l[i] \in 0 .. m /\ r[i] \in 0 .. m /\ l[i] # m /\ r[i] # m
            BY <5>1, <5>3
          <6> QED
            BY <6>1, <3>7
        <5> QED
          BY <5>1, <5>2, <5>3
      <4> QED
        BY <4>1, <4>2
    <3> HIDE DEF g
    <3>10. g = [i \in 0 .. m |-> IF i = 0 THEN base ELSE G[i][g[l[i]]][g[r[i]]]]
      BY <3>6, <3>9
    <3> QED
      BY <3>6, <3>10 DEF Follows, S
  <2> QED
    BY <2>1, <2>2
<1> HIDE DEF S
<1>2. \A m \in 0 .. n : m \in S
  BY <1>1, PositionInduction
<1> QED
  BY <1>2 DEF S

LEMMA TypedPositions ==
    ASSUME NEW n \in Nat, NEW T, NEW f, NEW l, NEW r, f[0] \in T,
           \A i \in 1 .. n : l[i] \in 0 .. n /\ l[i] < i /\ r[i] \in 0 .. n /\ r[i] < i,
           \A i \in 1 .. n : f[l[i]] \in T /\ f[r[i]] \in T => f[i] \in T
    PROVE  \A i \in 0 .. n : f[i] \in T
<1> DEFINE S == {i \in 0 .. n : f[i] \in T}
<1>1. ASSUME NEW i \in 0 .. n, \A j \in 0 .. n : j < i => j \in S PROVE i \in S
  <2>1. CASE i = 0
    BY <2>1
  <2>2. CASE i # 0
    <3>1. i \in 1 .. n
      BY <2>2
    <3>2. f[l[i]] \in T /\ f[r[i]] \in T
      BY <1>1, <3>1
    <3> QED
      BY <3>1, <3>2
  <2> QED
    BY <2>1, <2>2
<1> HIDE DEF S
<1>2. \A i \in 0 .. n : i \in S
  BY <1>1, PositionInduction
<1> QED
  BY <1>2 DEF S

(* What an element consists of.                                            *)
LEMMA ElementNodes ==
    ASSUME NEW d, IsElement(d)
    PROVE  /\ Len(d) \in Nat \ {0} /\ DOMAIN d = 1 .. Len(d) /\ d \in [1 .. Len(d) -> Node]
           /\ \A i \in 1 .. Len(d) :
                 /\ d[i] \in Node /\ d[i].dtd \in DOMAIN Code /\ d[i].val \in Nat
                 /\ d[i].sub \in 0 .. Len(d) /\ d[i].sub < i
                 /\ d[i].next \in 0 .. Len(d) /\ d[i].next < i
<1>1. d \in Seq(Node) /\ d # <<>> /\ PointsBack(d)
  BY DEF IsElement
<1>2. Len(d) \in Nat \ {0} /\ DOMAIN d = 1 .. Len(d) /\ d \in [1 .. Len(d) -> Node]
  BY <1>1, LenProperties, EmptySeq
<1>3. ASSUME NEW i \in 1 .. Len(d)
      PROVE  /\ d[i] \in Node /\ d[i].dtd \in DOMAIN Code /\ d[i].val \in Nat
             /\ d[i].sub \in 0 .. Len(d) /\ d[i].sub < i
             /\ d[i].next \in 0 .. Len(d) /\ d[i].next < i
  <2>1. d[i] \in Node
    BY <1>2
  <2>2. d[i].dtd \in DOMAIN Code /\ d[i].val \in Nat /\ d[i].sub \in Nat /\ d[i].next \in Nat
    BY <2>1 DEF Node
  <2>3. d[i].sub < i /\ d[i].next < i
    BY <1>1, <1>2 DEF PointsBack
  <2> QED
    BY <1>2, <2>1, <2>2, <2>3
<1> QED
  BY <1>2, <1>3

LEMMA TypedNodes ==
    ASSUME NEW d, IsElement(d), NEW T, NEW f, f[0] \in T,
           \A i \in 1 .. Len(d) : f[d[i].sub] \in T /\ f[d[i].next] \in T => f[i] \in T
    PROVE  \A i \in 0 .. Len(d) : f[i] \in T
<1> DEFINE l == [i \in 1 .. Len(d) |-> d[i].sub]
           r == [i \in 1 .. Len(d) |-> d[i].next]
<1>1. Len(d) \in Nat
  BY ElementNodes
<1>2. \A i \in 1 .. Len(d) : l[i] = d[i].sub /\ r[i] = d[i].next
  OBVIOUS
<1> HIDE DEF l, r
<1>3. \A i \in 1 .. Len(d) : /\ l[i] \in 0 .. Len(d) /\ l[i] < i
                              /\ r[i] \in 0 .. Len(d) /\ r[i] < i
  BY <1>2, ElementNodes
<1>4. \A i \in 1 .. Len(d) : f[l[i]] \in T /\ f[r[i]] \in T => f[i] \in T
  BY <1>2
<1> QED
  BY <1>1, <1>3, <1>4, TypedPositions

LEMMA Types == DOMAIN Code = {"uint8", "uint16", "uint32", "uuid16", "text8", "seq8", "seq16"}
  BY DEF Code

LEMMA Widths ==
    /\ Width["uint8"] = 1 /\ Width["uint16"] = 2 /\ Width["uint32"] = 4 /\ Width["uuid16"] = 2
  BY DEF Width

LEMMA NodeMeasures ==
    ASSUME NEW node \in Node
    PROVE  /\ TypeSize(node.dtd) \in 1 .. 3
           /\ ~IsSeq(node) => ValueLen(node) \in Nat
           /\ \A p \in Nat :
                 /\ LongType(node, p) \in DOMAIN Code /\ DataSize(node, p) \in Nat
                 /\ TypeSize(LongType(node, p)) \in 1 .. 3
<1>1. node.dtd \in DOMAIN Code /\ node.val \in Nat
  BY DEF Node
<1>2. node.dtd \in DOMAIN Code => TypeSize(node.dtd) \in 1 .. 3
  BY DEF TypeSize
<1>3. ~IsSeq(node) => ValueLen(node) \in Nat
  BY <1>1, Types, Widths DEF IsSeq, ValueLen, IsText
<1>4. ASSUME NEW p \in Nat
      PROVE  /\ LongType(node, p) \in DOMAIN Code /\ DataSize(node, p) \in Nat
             /\ TypeSize(LongType(node, p)) \in 1 .. 3
  BY <1>1, <1>3, Types DEF LongType, TypeSize, DataSize
<1> QED
  BY <1>1, <1>2, <1>3, <1>4

LEMMA LongTypeMeasures ==
    ASSUME NEW node \in Node, NEW p \in Nat
    PROVE  TypeSize(LongType(node, p)) \in Nat /\ DataSize(node, p) \in Nat
<1>1. TypeSize(LongType(node, p)) \in 1 .. 3 /\ DataSize(node, p) \in Nat
  BY NodeMeasures
<1> QED
  BY <1>1

(* Sizes is what its definition says.                                      *)
LEMMA SizesAre ==
    ASSUME NEW d, IsElement(d)
    PROVE  /\ Sizes(d) \in [0 .. Len(d) -> Nat]
           /\ Sizes(d)[0] = 0
           /\ \A i \in 1 .. Len(d) :
                 Sizes(d)[i] = SizeStep(d[i], Sizes(d)[d[i].sub], Sizes(d)[d[i].next])
<1> DEFINE n == Len(d)
           l == [i \in 1 .. n |-> d[i].sub]
           r == [i \in 1 .. n |-> d[i].next]
           G == [i \in 1 .. n |-> [p \in Nat |-> [q \in Nat |-> SizeStep(d[i], p, q)]]]
           Body(f) == [i \in 0 .. n |->
                         IF i = NULL THEN 0 ELSE SizeStep(d[i], f[d[i].sub], f[d[i].next])]
<1>1. \A i \in 1 .. n : \A p, q \in Nat : SizeStep(d[i], p, q) \in Nat
  BY ElementNodes, NodeMeasures DEF SizeStep
<1>2. \E f : f = Body(f)
  <2>1. n \in Nat /\ 0 \in Nat
    BY ElementNodes
  <2>2. l \in [1 .. n -> Nat] /\ r \in [1 .. n -> Nat] /\ \A i \in 1 .. n : l[i] < i /\ r[i] < i
    BY ElementNodes
  <2>3. G \in [1 .. n -> [Nat -> [Nat -> Nat]]]
    BY <1>1
  <2> HIDE DEF l, r, G, n
  <2>4. PICK f \in [0 .. n -> Nat] : Follows(n, 0, l, r, G, f)
    BY <2>1, <2>2, <2>3, FunctionOverPositions
  <2>5. ASSUME NEW i \in 0 .. n
        PROVE  f[i] = IF i = NULL THEN 0 ELSE SizeStep(d[i], f[d[i].sub], f[d[i].next])
    <3>1. f[i] = IF i = 0 THEN 0 ELSE G[i][f[l[i]]][f[r[i]]]
      BY <2>4 DEF Follows
    <3>2. i # 0 => /\ l[i] = d[i].sub /\ r[i] = d[i].next
                   /\ d[i].sub \in 0 .. n /\ d[i].next \in 0 .. n /\ i \in 1 .. n
      BY <2>1, ElementNodes DEF l, r, n
    <3> QED
      BY <3>1, <3>2 DEF NULL, G
  <2> QED
    BY <2>4, <2>5
<1>3. Sizes(d) = CHOOSE f : f = Body(f)
  BY DEF Sizes
<1>4. Sizes(d) = Body(Sizes(d))
  BY <1>2, <1>3
<1> DEFINE f == Sizes(d)
<1>5. \A i \in 0 .. n : f[i] = IF i = NULL THEN 0 ELSE SizeStep(d[i], f[d[i].sub], f[d[i].next])
  BY <1>4
<1>6. n \in Nat
  BY ElementNodes
<1> HIDE DEF f
<1>7. \A i \in 1 .. n : f[i] = SizeStep(d[i], f[d[i].sub], f[d[i].next])
  BY <1>5, <1>6 DEF NULL
<1>8. f[0] \in Nat
  BY <1>5, <1>6 DEF NULL
<1>9. \A i \in 1 .. n : f[d[i].sub] \in Nat /\ f[d[i].next] \in Nat => f[i] \in Nat
  BY <1>1, <1>7
<1>10. \A i \in 0 .. n : f[i] \in Nat
  <2> HIDE DEF n
  <2> QED
    BY <1>8, <1>9, TypedNodes DEF n
<1> QED
  BY <1>4, <1>5, <1>6, <1>7, <1>10 DEF NULL, f

(* The size that is counted for a node is a number, and exceeds what is    *)
(* written for it by three bytes, and by what its parts are counted for    *)
(* too much.                                                               *)
LEMMA CountNodeBounds ==
    ASSUME NEW node \in Node, NEW late \in BOOLEAN, NEW size \in Nat,
           NEW parts \in [Nat -> Nat], NEW p \in Nat, NEW extra \in Nat,
           \A s \in Nat : parts[s] >= s + p + extra
    PROVE  LET count == CountNode(late, node, size, parts)
               least == size + 3 + TypeSize(LongType(node, p)) + DataSize(node, p)
           IN  count \in Nat /\ count >= least /\ (IsSeq(node) => count >= least + extra)
<1> DEFINE own   == size + 3 + TypeSize(node.dtd)
           inner == IF IsSeq(node) THEN parts[own] ELSE own + ValueLen(node)
           full  == IF IsSeq(node) /\ late THEN inner + (inner - own) ELSE inner
           count == CountNode(late, node, size, parts)
           t     == TypeSize(LongType(node, p))
           w     == DataSize(node, p)
<1>1. own \in Nat /\ own = size + 3 + TypeSize(node.dtd) /\ TypeSize(node.dtd) \in 1 .. 3
  BY NodeMeasures
<1>2. count = IF full > UCHAR_MAX /\ node.dtd = "seq8" THEN full + 1 ELSE full
  BY DEF CountNode
<1> HIDE DEF own
<1>3. /\ w \in Nat /\ t \in Nat /\ inner \in Nat
      /\ inner >= own + w /\ (IsSeq(node) => inner >= own + w + extra)
  <2>1. w \in Nat /\ t \in Nat
    BY LongTypeMeasures
  <2>2. CASE IsSeq(node)
    <3>1. inner = parts[own] /\ w = p
      BY <2>2 DEF DataSize
    <3>2. parts[own] \in Nat /\ parts[own] >= own + p + extra
      BY <1>1
    <3> HIDE DEF inner, w
    <3> QED
      BY <1>1, <2>1, <3>1, <3>2
  <2>3. CASE ~IsSeq(node)
    <3>1. inner = own + w
      BY <2>3 DEF DataSize
    <3> HIDE DEF inner, w
    <3> QED
      BY <1>1, <2>1, <2>3, <3>1
  <2> QED
    BY <2>2, <2>3
<1> HIDE DEF inner
<1>4. full \in Nat /\ full >= inner
  BY <1>1, <1>3
<1> HIDE DEF full, count
<1>5. CASE p > UCHAR_MAX /\ node.dtd = "seq8"
  <2>1. t = 3 /\ TypeSize(node.dtd) = 2 /\ w = p /\ IsSeq(node)
    BY <1>5 DEF LongType, TypeSize, DataSize, IsSeq
  <2> HIDE DEF t, w
  <2>2. full > UCHAR_MAX
    BY <1>1, <1>3, <1>4, <1>5, <2>1 DEF UCHAR_MAX
  <2>3. count = full + 1
    BY <1>2, <1>5, <2>2
  <2>4. count \in Nat /\ count >= size + 3 + t + w + extra
    BY <1>1, <1>3, <1>4, <2>1, <2>3
  <2>5. count >= size + 3 + t + w
    BY <1>3, <2>4
  <2> QED
    BY <2>4, <2>5 DEF t, w, count
<1>6. CASE ~(p > UCHAR_MAX /\ node.dtd = "seq8")
  <2>1. t = TypeSize(node.dtd)
    BY <1>6 DEF LongType
  <2> HIDE DEF t, w
  <2>2. count \in Nat /\ count >= full
    BY <1>2, <1>4
  <2>3. count >= size + 3 + t + w /\ (IsSeq(node) => count >= size + 3 + t + w + extra)
    BY <1>1, <1>3, <1>4, <2>1, <2>2
  <2> QED
    BY <2>2, <2>3 DEF t, w, count
<1> QED
  BY <1>5, <1>6

Counters == {g \in [Nat -> Nat] : \A s \in Nat : g[s] >= s}

LEMMA CountStepCounts ==
    ASSUME NEW node \in Node, NEW late \in BOOLEAN, NEW parts \in Counters, NEW rest \in Counters
    PROVE  CountStep(late, node, parts, rest) \in Counters
<1>1. parts \in [Nat -> Nat] /\ \A s \in Nat : parts[s] >= s + 0 + 0
  BY DEF Counters
<1>2. ASSUME NEW size \in Nat
      PROVE  /\ rest[CountNode(late, node, size, parts)] \in Nat
             /\ rest[CountNode(late, node, size, parts)] >= size
  <2> DEFINE c == CountNode(late, node, size, parts)
  <2>1. TypeSize(LongType(node, 0)) \in Nat /\ DataSize(node, 0) \in Nat
    BY LongTypeMeasures
  <2>2. c \in Nat /\ c >= size + 3 + TypeSize(LongType(node, 0)) + DataSize(node, 0)
    BY <1>1, CountNodeBounds
  <2> HIDE DEF c
  <2>3. rest[c] \in Nat /\ rest[c] >= c
    BY <2>2 DEF Counters
  <2>4. rest[c] >= size
    BY <2>1, <2>2, <2>3
  <2> QED
    BY <2>3, <2>4 DEF c
<1> QED
  BY <1>2 DEF CountStep, Counters

(* Counts is what its definition says.                                     *)
LEMMA CountsAre ==
    ASSUME NEW d, IsElement(d), NEW late \in BOOLEAN
    PROVE  /\ Counts(late, d) \in [0 .. Len(d) -> Counters]
           /\ Counts(late, d)[0] = [size \in Nat |-> size]
           /\ \A i \in 1 .. Len(d) :
                 Counts(late, d)[i] =
                    CountStep(late, d[i], Counts(late, d)[d[i].sub], Counts(late, d)[d[i].next])
<1> DEFINE n == Len(d)
           base == [size \in Nat |-> size]
           l == [i \in 1 .. n |-> d[i].sub]
           r == [i \in 1 .. n |-> d[i].next]
           G == [i \in 1 .. n |-> [p \in Counters |-> [q \in Counters |-> CountStep(late, d[i], p, q)]]]
           Body(f) == [i \in 0 .. n |->
                         IF i = NULL THEN base
                         ELSE CountStep(late, d[i], f[d[i].sub], f[d[i].next])]
<1>1. \A i \in 1 .. n : \A p, q \in Counters : CountStep(late, d[i], p, q) \in Counters
  BY ElementNodes, CountStepCounts
<1>2. base \in Counters
  BY DEF Counters
<1>3. Counts(late, d) = CHOOSE f : f = Body(f)
  BY DEF Counts
<1> HIDE DEF base
<1>4. \E f : f = Body(f)
  <2>1. n \in Nat
    BY ElementNodes
  <2>2. l \in [1 .. n -> Nat] /\ r \in [1 .. n -> Nat] /\ \A i \in 1 .. n : l[i] < i /\ r[i] < i
    BY ElementNodes
  <2>3. G \in [1 .. n -> [Counters -> [Counters -> Counters]]]
    BY <1>1
  <2> HIDE DEF l, r, G, n
  <2>4. PICK f \in [0 .. n -> Counters] : Follows(n, base, l, r, G, f)
    BY <1>2, <2>1, <2>2, <2>3, FunctionOverPositions
  <2>5. ASSUME NEW i \in 0 .. n
        PROVE  f[i] = IF i = NULL THEN base ELSE CountStep(late, d[i], f[d[i].sub], f[d[i].next])
    <3>1. f[i] = IF i = 0 THEN base ELSE G[i][f[l[i]]][f[r[i]]]
      BY <2>4 DEF Follows
    <3>2. i # 0 => /\ l[i] = d[i].sub /\ r[i] = d[i].next
                   /\ d[i].sub \in 0 .. n /\ d[i].next \in 0 .. n /\ i \in 1 .. n
      BY <2>1, ElementNodes DEF l, r, n
    <3> QED
      BY <3>1, <3>2 DEF NULL, G
  <2> QED
    BY <2>4, <2>5
<1>5. Counts(late, d) = Body(Counts(late, d))
  BY <1>3, <1>4
<1> DEFINE f == Counts(late, d)
<1>6. \A i \in 0 .. n : f[i] = IF i = NULL THEN base ELSE CountStep(late, d[i], f[d[i].sub], f[d[i].next])
  BY <1>5
<1>7. n \in Nat
  BY ElementNodes
<1> HIDE DEF f
<1>8. \A i \in 1 .. n : f[i] = CountStep(late, d[i], f[d[i].sub], f[d[i].next])
  BY <1>6, <1>7 DEF NULL
<1>9. f[0] = base
  BY <1>6, <1>7 DEF NULL
<1>10. \A i \in 1 .. n : f[d[i].sub] \in Counters /\ f[d[i].next] \in Counters => f[i] \in Counters
  BY <1>1, <1>8
<1>11. \A i \in 0 .. n : f[i] \in Counters
  <2> HIDE DEF n
  <2> QED
    BY <1>2, <1>9, <1>10, TypedNodes DEF n
<1> QED
  BY <1>5, <1>8, <1>9, <1>11 DEF f, base

(* The buffer has room for what is written for a node and those that       *)
(* follow it.                                                              *)
LEMMA CountsBound ==
    ASSUME NEW d, IsElement(d), NEW late \in BOOLEAN
    PROVE  \A i \in 0 .. Len(d) : \A s \in Nat :
              /\ Counts(late, d)[i][s] >= s + Sizes(d)[i]
              /\ i # NULL => Counts(late, d)[i][s] >= s + Sizes(d)[i] + 3
<1> DEFINE n == Len(d)
           c == Counts(late, d)
           z == Sizes(d)
           S == {i \in 0 .. n : \A s \in Nat : c[i][s] >= s + z[i] /\ (i # NULL => c[i][s] >= s + z[i] + 3)}
<1>1. n \in Nat /\ c \in [0 .. n -> Counters] /\ z \in [0 .. n -> Nat]
  BY ElementNodes, CountsAre, SizesAre
<1>2. c[0] = [size \in Nat |-> size] /\ z[0] = 0
  BY CountsAre, SizesAre
<1>3. \A i \in 1 .. n :
         /\ c[i] = CountStep(late, d[i], c[d[i].sub], c[d[i].next])
         /\ z[i] = SizeStep(d[i], z[d[i].sub], z[d[i].next])
  BY CountsAre, SizesAre
<1> HIDE DEF c, z, n
<1>4. ASSUME NEW i \in 0 .. n, \A j \in 0 .. n : j < i => j \in S
      PROVE  i \in S
  <2>1. CASE i = 0
    BY <1>1, <1>2, <2>1 DEF NULL
  <2>2. CASE i # 0
    <3> DEFINE node == d[i]
               a == node.sub
               b == node.next
    <3>1. /\ i \in 1 .. n /\ node \in Node
          /\ a \in 0 .. n /\ b \in 0 .. n /\ a < i /\ b < i
      BY <1>1, <2>2, ElementNodes DEF n
    <3>2. /\ c[i] = CountStep(late, node, c[a], c[b])
          /\ z[i] = SizeStep(node, z[a], z[b])
      BY <1>3, <3>1
    <3> HIDE DEF node, a, b
    <3>3. a \in S /\ b \in S
      BY <1>4, <3>1
    <3>4. /\ c[a] \in [Nat -> Nat] /\ c[b] \in [Nat -> Nat] /\ z[a] \in Nat /\ z[b] \in Nat
      BY <1>1, <3>1 DEF Counters
    <3>5. \A s \in Nat : c[a][s] >= s + z[a] + 0 /\ c[b][s] >= s + z[b]
      <4>1. \A s \in Nat : c[a][s] >= s + z[a] /\ c[b][s] >= s + z[b]
        BY <3>3
      <4> QED
        BY <3>4, <4>1
    <3>6. ASSUME NEW s \in Nat
          PROVE  c[i][s] >= s + z[i] /\ c[i][s] >= s + z[i] + 3
      <4> DEFINE m == CountNode(late, node, s, c[a])
                 t == TypeSize(LongType(node, z[a]))
                 w == DataSize(node, z[a])
      <4>1. t \in Nat /\ w \in Nat
        BY <3>1, <3>4, LongTypeMeasures
      <4>2. m \in Nat /\ m >= s + 3 + t + w
        BY <3>1, <3>4, <3>5, CountNodeBounds
      <4>3. c[i][s] = c[b][m]
        BY <3>2 DEF CountStep
      <4>4. z[i] = t + w + z[b]
        BY <3>2 DEF SizeStep
      <4> HIDE DEF m, t, w
      <4>5. c[b][m] \in Nat /\ c[b][m] >= m + z[b]
        BY <3>4, <3>5, <4>2
      <4>6. m + z[b] >= s + z[i] + 3
        BY <3>4, <4>1, <4>2, <4>4
      <4>7. c[i][s] >= s + z[i] + 3
        BY <3>4, <4>1, <4>2, <4>3, <4>4, <4>5, <4>6
      <4> QED
        BY <3>4, <4>1, <4>4, <4>5, <4>3, <4>7
    <3> QED
      BY <3>1, <3>6, <2>2 DEF NULL
  <2> QED
    BY <2>1, <2>2
<1> HIDE DEF S
<1>5. \A i \in 0 .. n : i \in S
  BY <1>1, <1>4, PositionInduction
<1> QED
  BY <1>5 DEF S, c, z, n

(* An attribute is counted three bytes too high, for each that it needs    *)
(* for its identifier; the parts of a sequence are counted so, too.        *)
SizeOf(d) == Sizes(d)[Len(d)]
HasParts(d) == IsSeq(d[Len(d)]) /\ d[Len(d)].sub # NULL

LEMMA GenBufferBounds ==
    ASSUME NEW d, IsElement(d), NEW late \in BOOLEAN, NEW size \in Nat
    PROVE  /\ GenBuffer(late, size, d) \in Nat /\ SizeOf(d) \in Nat
           /\ GenBuffer(late, size, d) >= size + SizeOf(d) + 3
           /\ HasParts(d) => GenBuffer(late, size, d) >= size + SizeOf(d) + 6
<1> DEFINE n == Len(d)
           node == d[n]
           c == Counts(late, d)
           z == Sizes(d)
           a == node.sub
           m == CountNode(late, node, size, c[a])
           t == TypeSize(LongType(node, z[a]))
           w == DataSize(node, z[a])
           extra == IF a = NULL THEN 0 ELSE 3
<1>1. n \in 1 .. n /\ n \in Nat /\ node \in Node /\ a \in 0 .. n
  BY ElementNodes
<1>2. c[a] \in [Nat -> Nat] /\ z[a] \in Nat /\ z[n] \in Nat
  <2>1. c \in [0 .. n -> Counters] /\ z \in [0 .. n -> Nat]
    BY CountsAre, SizesAre
  <2> HIDE DEF c, z, n, a
  <2>2. n \in 0 .. n
    BY <1>1
  <2> QED
    BY <1>1, <2>1, <2>2 DEF Counters
<1>3. \A s \in Nat : c[a][s] >= s + z[a] + extra
  <2>1. \A s \in Nat : c[a][s] >= s + z[a] /\ (a # NULL => c[a][s] >= s + z[a] + 3)
    BY <1>1, CountsBound
  <2>2. CASE a = NULL
    <3>1. extra = 0
      BY <2>2
    <3> HIDE DEF c, z, a, n, extra
    <3> QED
      BY <1>2, <2>1, <3>1
  <2>3. CASE a # NULL
    <3>1. extra = 3
      BY <2>3
    <3> HIDE DEF c, z, a, n, extra
    <3> QED
      BY <1>2, <2>1, <2>3, <3>1
  <2> QED
    BY <2>2, <2>3
<1>4. node.next = NULL
  BY DEF IsElement
<1>5. t \in Nat /\ w \in Nat
  BY <1>1, <1>2, LongTypeMeasures
<1>6. m \in Nat /\ m >= size + 3 + t + w /\ (IsSeq(node) => m >= size + 3 + t + w + extra)
  BY <1>1, <1>2, <1>3, CountNodeBounds
<1>7. c[n] = CountStep(late, node, c[a], [s \in Nat |-> s])
  BY <1>1, <1>4, CountsAre DEF NULL
<1>8. c[n][size] = m
  BY <1>6, <1>7 DEF CountStep
<1>9. z[n] = t + w
  BY <1>1, <1>4, <1>5, SizesAre DEF NULL, SizeStep
<1>10. HasParts(d) => IsSeq(node) /\ extra = 3
  BY DEF HasParts
<1>11. GenBuffer(late, size, d) = m /\ SizeOf(d) = z[n]
  BY <1>8 DEF GenBuffer, SizeOf
<1> HIDE DEF m, t, w, extra
<1> QED
  BY <1>2, <1>5, <1>6, <1>9, <1>10, <1>11

(* The types that sdp_gen_pdu leaves in the nodes are those with which it  *)
(* has computed the sizes, and it would not change them again.             *)
Settled(d) == \A i \in 1 .. Len(d) : LongType(d[i], Sizes(d)[d[i].sub]) = d[i].dtd

LEMMA LongTypeSettles ==
    ASSUME NEW node \in Node, NEW p \in Nat, NEW long \in Node,
           long.dtd = LongType(node, p), long.val = node.val
    PROVE  /\ LongType(long, p) = long.dtd /\ (IsSeq(long) <=> IsSeq(node))
           /\ \A q \in Nat : SizeStep(long, p, q) = SizeStep(node, p, q)
<1>1. CASE p > UCHAR_MAX /\ node.dtd = "seq8"
  <2>1. long.dtd = "seq16"
    BY <1>1 DEF LongType
  <2>2. LongType(long, p) = "seq16" /\ IsSeq(long) /\ IsSeq(node)
    BY <1>1, <2>1 DEF LongType, IsSeq
  <2> QED
    BY <2>1, <2>2 DEF SizeStep, DataSize
<1>2. CASE ~(p > UCHAR_MAX /\ node.dtd = "seq8")
  <2>1. long.dtd = node.dtd
    BY <1>2 DEF LongType
  <2> QED
    BY <2>1, <1>2 DEF LongType, IsSeq, SizeStep, DataSize, ValueLen, IsText
<1> QED
  BY <1>1, <1>2

LEMMA LengthenedKeepsSizes ==
    ASSUME NEW d, IsElement(d)
    PROVE  LET long == Lengthened(d)
           IN  /\ IsElement(long) /\ Len(long) = Len(d) /\ Settled(long)
               /\ SizeOf(long) = SizeOf(d) /\ (HasParts(long) <=> HasParts(d))
<1> DEFINE n == Len(d)
           long == Lengthened(d)
           z == Sizes(d)
           y == Sizes(long)
           S == {i \in 0 .. n : y[i] = z[i]}
<1>1. n \in Nat \ {0} /\ DOMAIN d = 1 .. n
  BY ElementNodes
<1>2. ASSUME NEW i \in 1 .. n
      PROVE  /\ long[i] \in Node /\ long[i].dtd = LongType(d[i], z[d[i].sub])
             /\ long[i].val = d[i].val /\ long[i].sub = d[i].sub /\ long[i].next = d[i].next
  <2>1. d[i] \in Node /\ z[d[i].sub] \in Nat
    BY ElementNodes, SizesAre
  <2>2. LongType(d[i], z[d[i].sub]) \in DOMAIN Code
    BY <2>1, NodeMeasures
  <2>3. long[i] = [d[i] EXCEPT !.dtd = LongType(d[i], z[d[i].sub])]
    BY <1>1 DEF Lengthened
  <2> QED
    BY <2>1, <2>2, <2>3 DEF Node
<1>3. long \in Seq(Node) /\ Len(long) = n /\ DOMAIN long = 1 .. n
  <2>1. long = [i \in 1 .. n |-> [d[i] EXCEPT !.dtd = LongType(d[i], Sizes(d)[d[i].sub])]]
    BY <1>1 DEF Lengthened
  <2> HIDE DEF n, long
  <2>2. long \in [1 .. n -> Node]
    BY <1>2, <2>1
  <2> QED
    BY <1>1, <2>2
<1>4. IsElement(long)
  <2>1. \A i \in 1 .. n : d[i].sub < i /\ d[i].next < i
    BY ElementNodes
  <2>2. PointsBack(long)
    BY <1>2, <1>3, <2>1 DEF PointsBack
  <2>3. long[n].next = d[n].next /\ d[n].next = NULL
    BY <1>1, <1>2 DEF IsElement
  <2> HIDE DEF n, long
  <2>4. long # <<>>
    BY <1>1, <1>3
  <2> QED
    BY <1>3, <2>2, <2>3, <2>4 DEF IsElement
<1>5. /\ y \in [0 .. n -> Nat] /\ y[0] = 0
      /\ z \in [0 .. n -> Nat] /\ z[0] = 0
      /\ \A i \in 1 .. n : y[i] = SizeStep(long[i], y[long[i].sub], y[long[i].next])
      /\ \A i \in 1 .. n : z[i] = SizeStep(d[i], z[d[i].sub], z[d[i].next])
  BY <1>3, <1>4, SizesAre
<1>6. \A i \in 1 .. n : /\ d[i] \in Node /\ d[i].sub \in 0 .. n /\ d[i].sub < i
                        /\ d[i].next \in 0 .. n /\ d[i].next < i
  BY ElementNodes
<1> HIDE DEF y, z, n, long
<1>7. \A i \in 1 .. n :
         /\ LongType(long[i], z[d[i].sub]) = long[i].dtd /\ (IsSeq(long[i]) <=> IsSeq(d[i]))
         /\ \A q \in Nat : SizeStep(long[i], z[d[i].sub], q) = SizeStep(d[i], z[d[i].sub], q)
  <2> TAKE i \in 1 .. n
  <2>1. z[d[i].sub] \in Nat
    BY <1>5, <1>6
  <2> QED
    BY <1>2, <1>6, <2>1, LongTypeSettles
<1>8. ASSUME NEW i \in 0 .. n, \A j \in 0 .. n : j < i => j \in S
      PROVE  i \in S
  <2>1. CASE i = 0
    BY <1>5, <2>1
  <2>2. CASE i # 0
    <3>1. i \in 1 .. n
      BY <1>1, <2>2
    <3>2. y[d[i].sub] = z[d[i].sub] /\ y[d[i].next] = z[d[i].next]
      BY <1>6, <1>8, <3>1
    <3>3. z[d[i].next] \in Nat
      BY <1>5, <1>6, <3>1
    <3>4. y[i] = SizeStep(long[i], z[d[i].sub], z[d[i].next])
      BY <1>2, <1>5, <3>1, <3>2
    <3>5. y[i] = SizeStep(d[i], z[d[i].sub], z[d[i].next])
      BY <1>7, <3>1, <3>3, <3>4
    <3> QED
      BY <1>5, <3>1, <3>5
  <2> QED
    BY <2>1, <2>2
<1>9. \A i \in 0 .. n : y[i] = z[i]
  <2> HIDE DEF S
  <2>1. \A i \in 0 .. n : i \in S
    BY <1>1, <1>8, PositionInduction
  <2> QED
    BY <2>1 DEF S
<1>10. \A i \in 1 .. n : LongType(long[i], y[long[i].sub]) = long[i].dtd
  BY <1>2, <1>6, <1>7, <1>9
<1>11. Settled(long)
  BY <1>3, <1>10 DEF Settled, y
<1>12. y[n] = z[n] /\ (IsSeq(long[n]) <=> IsSeq(d[n])) /\ long[n].sub = d[n].sub
  BY <1>1, <1>2, <1>7, <1>9
<1>13. SizeOf(long) = SizeOf(d) /\ (HasParts(long) <=> HasParts(d))
  BY <1>3, <1>12 DEF SizeOf, HasParts, y, z, n
<1> QED
  BY <1>3, <1>4, <1>11, <1>13 DEF n, long

LEMMA BigEndianBytes ==
    ASSUME NEW v \in Nat, NEW width \in 0 .. 4
    PROVE  BigEndian(v, width) \in Seq(Nat) /\ Len(BigEndian(v, width)) = width
<1>1. ASSUME NEW k \in 1 .. 4 PROVE (v \div Power[k]) % 256 \in Nat
  <2>1. Power[k] \in Nat /\ Power[k] > 0
    BY DEF Power
  <2>2. v \div Power[k] \in Nat
    BY <2>1
  <2> QED
    BY <2>2
<1>2. BigEndian(v, width) \in [1 .. width -> Nat]
  <2>1. \A i \in 1 .. width : width - i + 1 \in 1 .. 4
    OBVIOUS
  <2> QED
    BY <1>1, <2>1 DEF BigEndian
<1> QED
  BY <1>2

LEMMA ValueBytes ==
    ASSUME NEW node \in Node, ~IsSeq(node)
    PROVE  Value(node) \in Seq(Nat) /\ Len(Value(node)) = ValueLen(node)
<1>1. node.dtd \in DOMAIN Code /\ node.val \in Nat
  BY DEF Node
<1>2. CASE IsText(node)
  <2>1. [i \in 1 .. node.val |-> 1] \in [1 .. node.val -> Nat]
    OBVIOUS
  <2>2. [i \in 1 .. node.val |-> 1] \in Seq(Nat) /\ Len([i \in 1 .. node.val |-> 1]) = node.val
    BY <1>1, <2>1
  <2> QED
    BY <1>2, <2>2 DEF Value, ValueLen
<1>3. CASE ~IsText(node)
  <2>1. Width[node.dtd] \in 0 .. 4
    BY <1>1, <1>3, Types, Widths DEF IsSeq, IsText
  <2>2. /\ BigEndian(node.val, Width[node.dtd]) \in Seq(Nat)
        /\ Len(BigEndian(node.val, Width[node.dtd])) = Width[node.dtd]
    BY <1>1, <2>1, BigEndianBytes
  <2> QED
    BY <1>3, <2>2 DEF Value, ValueLen
<1> QED
  BY <1>2, <1>3

(* The head of an element takes as many bytes as its type says.            *)
LEMMA HeadBytes ==
    ASSUME NEW dtd \in DOMAIN Code, NEW len \in Nat
    PROVE  /\ <<Code[dtd]>> \o SeqLen(dtd, len) \in Seq(Nat)
           /\ Len(<<Code[dtd]>> \o SeqLen(dtd, len)) = TypeSize(dtd)
           /\ (<<Code[dtd]>> \o SeqLen(dtd, len))[1] = Code[dtd]
<1>1. TypeSize(dtd) \in 1 .. 3
  BY DEF TypeSize
<1>2. SeqLen(dtd, len) \in Seq(Nat) /\ Len(SeqLen(dtd, len)) = TypeSize(dtd) - 1
  <2>1. CASE TypeSize(dtd) = 1
    <3>1. SeqLen(dtd, len) = <<>>
      BY <2>1 DEF SeqLen
    <3> QED
      BY <2>1, <3>1
  <2>2. CASE TypeSize(dtd) # 1
    <3>1. SeqLen(dtd, len) = BigEndian(len, TypeSize(dtd) - 1) /\ TypeSize(dtd) - 1 \in 0 .. 4
      BY <1>1, <2>2 DEF SeqLen
    <3> QED
      BY <3>1, BigEndianBytes
  <2> QED
    BY <2>1, <2>2
<1>3. Code[dtd] \in Nat
  BY DEF Code
<1>4. <<Code[dtd]>> \in Seq(Nat) /\ Len(<<Code[dtd]>>) = 1 /\ <<Code[dtd]>>[1] = Code[dtd]
  BY <1>3
<1> QED
  BY <1>1, <1>2, <1>4, ConcatProperties

Texts == [Nat -> Seq(Nat)]

LEMMA PduNodeBytes ==
    ASSUME NEW node \in Node, NEW size \in Nat, NEW at \in Nat, NEW p \in Nat, NEW parts \in Texts
    PROVE  PduNode(size, at, node, p, parts) \in Seq(Nat)
<1> DEFINE t == TypeSize(node.dtd)
           head == <<Code[node.dtd]>> \o SeqLen(node.dtd, DataSize(node, p))
           rest == IF IsSeq(node) THEN parts[at + t]
                   ELSE IF size >= at + t + ValueLen(node) THEN Value(node) ELSE <<>>
<1>1. node.dtd \in DOMAIN Code /\ DataSize(node, p) \in Nat
  BY LongTypeMeasures DEF Node
<1>2. t \in Nat
  <2>1. t \in 1 .. 3
    BY NodeMeasures
  <2> QED
    BY <2>1
<1>3. head \in Seq(Nat)
  BY <1>1, HeadBytes
<1>4. PduNode(size, at, node, p, parts) = head \o rest
  BY DEF PduNode
<1> HIDE DEF head, t
<1>5. rest \in Seq(Nat)
  BY <1>2, ValueBytes DEF Texts
<1> HIDE DEF rest
<1> QED
  BY <1>3, <1>4, <1>5, ConcatProperties

LEMMA PduNodeWhole ==
    ASSUME NEW node \in Node, NEW size \in Nat, NEW at \in Nat, NEW p \in Nat, NEW parts \in Texts,
           at + TypeSize(node.dtd) + DataSize(node, p) <= size,
           IsSeq(node) => Len(parts[at + TypeSize(node.dtd)]) = p
    PROVE  Len(PduNode(size, at, node, p, parts)) = TypeSize(node.dtd) + DataSize(node, p)
<1> DEFINE t == TypeSize(node.dtd)
           w == DataSize(node, p)
           head == <<Code[node.dtd]>> \o SeqLen(node.dtd, w)
           rest == IF IsSeq(node) THEN parts[at + t]
                   ELSE IF size >= at + t + ValueLen(node) THEN Value(node) ELSE <<>>
<1>1. node.dtd \in DOMAIN Code /\ w \in Nat
  BY LongTypeMeasures DEF Node
<1>2. t \in Nat
  <2>1. t \in 1 .. 3
    BY NodeMeasures
  <2> QED
    BY <2>1
<1>3. head \in Seq(Nat) /\ Len(head) = t
  BY <1>1, HeadBytes
<1>4. PduNode(size, at, node, p, parts) = head \o rest
  BY DEF PduNode
<1>5. rest \in Seq(Nat) /\ Len(rest) = w
  <2>1. CASE IsSeq(node)
    <3>1. rest = parts[at + t] /\ w = p
      BY <2>1 DEF DataSize
    <3> HIDE DEF t
    <3>2. parts[at + t] \in Seq(Nat)
      BY <1>2 DEF Texts
    <3> QED
      BY <2>1, <3>1, <3>2 DEF t
  <2>2. CASE ~IsSeq(node)
    <3>1. w = ValueLen(node)
      BY <2>2 DEF DataSize
    <3>2. size >= at + t + ValueLen(node)
      BY <1>1, <1>2, <3>1
    <3> QED
      BY <2>2, <3>1, <3>2, ValueBytes
  <2> QED
    BY <2>1, <2>2
<1> HIDE DEF head, rest, t, w
<1>6. Len(head \o rest) = t + w
  BY <1>3, <1>5, ConcatProperties
<1> QED
  BY <1>4, <1>6 DEF t, w

LEMMA PduStepBytes ==
    ASSUME NEW node \in Node, NEW size \in Nat, NEW p \in Nat, NEW parts \in Texts, NEW rest \in Texts
    PROVE  /\ PduStep(size, node, p, parts, rest) \in Texts
           /\ \A at \in Nat :
                 LET first == PduNode(size, at, node, p, parts)
                 IN  Len(PduStep(size, node, p, parts, rest)[at])
                        = Len(first) + Len(rest[at + Len(first)])
<1>1. ASSUME NEW at \in Nat
      PROVE  LET first == PduNode(size, at, node, p, parts)
             IN  /\ first \o rest[at + Len(first)] \in Seq(Nat)
                 /\ Len(first \o rest[at + Len(first)]) = Len(first) + Len(rest[at + Len(first)])
  <2> DEFINE first == PduNode(size, at, node, p, parts)
  <2>1. first \in Seq(Nat)
    BY PduNodeBytes
  <2> HIDE DEF first
  <2>2. at + Len(first) \in Nat
    BY <2>1, LenProperties
  <2>3. rest[at + Len(first)] \in Seq(Nat)
    BY <2>2 DEF Texts
  <2> QED
    BY <2>1, <2>3, ConcatProperties DEF first
<1>2. PduStep(size, node, p, parts, rest) \in Texts
  BY <1>1 DEF PduStep, Texts
<1>3. ASSUME NEW at \in Nat
      PROVE  LET first == PduNode(size, at, node, p, parts)
             IN  Len(PduStep(size, node, p, parts, rest)[at])
                        = Len(first) + Len(rest[at + Len(first)])
  BY <1>1 DEF PduStep
<1> QED
  BY <1>2, <1>3

(* Pdus is what its definition says.                                       *)
LEMMA PdusAre ==
    ASSUME NEW d, IsElement(d), NEW size \in Nat
    PROVE  /\ Pdus(size, d) \in [0 .. Len(d) -> Texts]
           /\ Pdus(size, d)[0] = [at \in Nat |-> <<>>]
           /\ \A i \in 1 .. Len(d) :
                 Pdus(size, d)[i] =
                    PduStep(size, d[i], Sizes(d)[d[i].sub],
                            Pdus(size, d)[d[i].sub], Pdus(size, d)[d[i].next])
<1> DEFINE n == Len(d)
           z == Sizes(d)
           base == [at \in Nat |-> <<>>]
           l == [i \in 1 .. n |-> d[i].sub]
           r == [i \in 1 .. n |-> d[i].next]
           Step(i, p, q) == PduStep(size, d[i], z[d[i].sub], p, q)
           G == [i \in 1 .. n |-> [p \in Texts |-> [q \in Texts |-> Step(i, p, q)]]]
           Body(f) == [i \in 0 .. n |->
                         IF i = NULL THEN base ELSE Step(i, f[d[i].sub], f[d[i].next])]
<1>1. \A i \in 1 .. n : \A p, q \in Texts : Step(i, p, q) \in Texts
  BY ElementNodes, SizesAre, PduStepBytes
<1>2. base \in Texts
  BY DEF Texts
<1>3. Pdus(size, d) = CHOOSE f : f = Body(f)
  BY DEF Pdus
<1> HIDE DEF base, Step
<1>4. \E f : f = Body(f)
  <2>1. n \in Nat
    BY ElementNodes
  <2>2. l \in [1 .. n -> Nat] /\ r \in [1 .. n -> Nat] /\ \A i \in 1 .. n : l[i] < i /\ r[i] < i
    BY ElementNodes
  <2>3. G \in [1 .. n -> [Texts -> [Texts -> Texts]]]
    BY <1>1
  <2> HIDE DEF l, r, G, n
  <2>4. PICK f \in [0 .. n -> Texts] : Follows(n, base, l, r, G, f)
    BY <1>2, <2>1, <2>2, <2>3, FunctionOverPositions
  <2>5. ASSUME NEW i \in 0 .. n
        PROVE  f[i] = IF i = NULL THEN base ELSE Step(i, f[d[i].sub], f[d[i].next])
    <3>1. f[i] = IF i = 0 THEN base ELSE G[i][f[l[i]]][f[r[i]]]
      BY <2>4 DEF Follows
    <3>2. i # 0 => /\ l[i] = d[i].sub /\ r[i] = d[i].next
                   /\ d[i].sub \in 0 .. n /\ d[i].next \in 0 .. n /\ i \in 1 .. n
      BY <2>1, ElementNodes DEF l, r, n
    <3> QED
      BY <3>1, <3>2 DEF NULL, G
  <2> QED
    BY <2>4, <2>5
<1>5. Pdus(size, d) = Body(Pdus(size, d))
  BY <1>3, <1>4
<1> DEFINE f == Pdus(size, d)
<1>6. \A i \in 0 .. n : f[i] = IF i = NULL THEN base ELSE Step(i, f[d[i].sub], f[d[i].next])
  BY <1>5
<1>7. n \in Nat
  BY ElementNodes
<1> HIDE DEF f
<1>8. \A i \in 1 .. n : f[i] = Step(i, f[d[i].sub], f[d[i].next])
  BY <1>6, <1>7 DEF NULL
<1>9. f[0] = base
  BY <1>6, <1>7 DEF NULL
<1>10. \A i \in 1 .. n : f[d[i].sub] \in Texts /\ f[d[i].next] \in Texts => f[i] \in Texts
  BY <1>1, <1>8
<1>11. \A i \in 0 .. n : f[i] \in Texts
  <2> HIDE DEF n
  <2> QED
    BY <1>2, <1>9, <1>10, TypedNodes DEF n
<1> QED
  BY <1>5, <1>8, <1>9, <1>11 DEF f, base, Step

(* With a buffer large enough, what is written has the size that is        *)
(* reported for it.                                                        *)
LEMMA PduSizes ==
    ASSUME NEW d, IsElement(d), Settled(d), NEW size \in Nat
    PROVE  \A i \in 0 .. Len(d) : \A at \in Nat :
              at + Sizes(d)[i] <= size => Len(Pdus(size, d)[i][at]) = Sizes(d)[i]
<1> DEFINE n == Len(d)
           z == Sizes(d)
           x == Pdus(size, d)
           S == {i \in 0 .. n : \A at \in Nat : at + z[i] <= size => Len(x[i][at]) = z[i]}
<1>1. n \in Nat /\ x \in [0 .. n -> Texts] /\ z \in [0 .. n -> Nat]
  BY ElementNodes, PdusAre, SizesAre
<1>2. x[0] = [at \in Nat |-> <<>>] /\ z[0] = 0
  BY PdusAre, SizesAre
<1>3. \A i \in 1 .. n :
         /\ x[i] = PduStep(size, d[i], z[d[i].sub], x[d[i].sub], x[d[i].next])
         /\ z[i] = SizeStep(d[i], z[d[i].sub], z[d[i].next])
         /\ LongType(d[i], z[d[i].sub]) = d[i].dtd
  BY PdusAre, SizesAre DEF Settled
<1>4. \A i \in 1 .. n : /\ d[i] \in Node /\ d[i].sub \in 0 .. n /\ d[i].sub < i
                        /\ d[i].next \in 0 .. n /\ d[i].next < i
  BY ElementNodes
<1> HIDE DEF x, z, n
<1>5. ASSUME NEW i \in 0 .. n, \A j \in 0 .. n : j < i => j \in S
      PROVE  i \in S
  <2>1. CASE i = 0
    BY <1>1, <1>2, <2>1
  <2>2. CASE i # 0
    <3> DEFINE node == d[i]
               a == node.sub
               b == node.next
               t == TypeSize(node.dtd)
               w == DataSize(node, z[a])
    <3>1. /\ i \in 1 .. n /\ node \in Node
          /\ a \in 0 .. n /\ b \in 0 .. n /\ a < i /\ b < i
      BY <1>1, <1>4, <2>2
    <3>2. x[i] = PduStep(size, node, z[a], x[a], x[b])
      BY <1>3, <3>1
    <3>3. z[i] = t + w + z[b] /\ (IsSeq(node) => w = z[a])
      BY <1>3, <3>1 DEF SizeStep, DataSize
    <3>4. x[a] \in Texts /\ x[b] \in Texts /\ z[a] \in Nat /\ z[b] \in Nat
      BY <1>1, <3>1
    <3>5. t \in Nat /\ w \in Nat
      BY <1>3, <3>1, <3>4, LongTypeMeasures
    <3> HIDE DEF node, a, b
    <3>6. a \in S /\ b \in S
      BY <1>5, <3>1
    <3> DEFINE own == x[a]
               rest == x[b]
               p == z[a]
    <3>7. own \in Texts /\ rest \in Texts /\ p \in Nat /\ w = DataSize(node, p)
      BY <3>4
    <3> HIDE DEF own, rest, p
    <3>8. ASSUME NEW at \in Nat, at + z[i] <= size
          PROVE  Len(x[i][at]) = z[i]
      <4> DEFINE first == PduNode(size, at, node, p, own)
      <4> HIDE DEF S
      <4>1. Len(x[i][at]) = Len(first) + Len(rest[at + Len(first)])
        <5>1. Len(PduStep(size, node, p, own, rest)[at]) = Len(first) + Len(rest[at + Len(first)])
          BY <3>1, <3>7, PduStepBytes
        <5> QED
          BY <3>2, <5>1 DEF own, rest, p
      <4> HIDE DEF t, w
      <4>2. at + t + p \in Nat /\ (IsSeq(node) => at + t + p <= size) /\ at + t + w <= size
        BY <3>3, <3>4, <3>5, <3>8 DEF p
      <4>3. IsSeq(node) => Len(own[at + t]) = p
        BY <3>4, <3>5, <3>6, <4>2 DEF own, p, S
      <4>4. Len(first) = t + w
        BY <3>1, <3>7, <4>2, <4>3, PduNodeWhole DEF t
      <4>5. at + (t + w) \in Nat /\ at + (t + w) + z[b] <= size
        BY <3>3, <3>4, <3>5, <3>8
      <4>6. Len(rest[at + (t + w)]) = z[b]
        BY <3>6, <4>5 DEF rest, S
      <4> QED
        BY <3>3, <4>1, <4>4, <4>6
    <3> QED
      BY <3>1, <3>8
  <2> QED
    BY <2>1, <2>2
<1> HIDE DEF S
<1>6. \A i \in 0 .. n : i \in S
  BY <1>1, <1>5, PositionInduction
<1> QED
  BY <1>6 DEF S, x, z, n

(* Nothing of an attribute is left out: sdp_gen_buffer, however it is      *)
(* compiled, gives sdp_append_to_pdu the room that sdp_gen_pdu needs.      *)
THEOREM AttrPduWhole ==
    ASSUME NEW a, a.id \in Nat, IsElement(a.data), NEW late \in BOOLEAN
    PROVE  AttrPdu(late, a) \in Seq(Nat) /\ Len(AttrPdu(late, a)) = 3 + SizeOf(a.data)
<1> DEFINE d == a.data
           long == Lengthened(d)
           size == GenBuffer(late, 0, d)
           bytes == GenPdu(size, 3, d)
           id == BigEndian(a.id, 2)
<1>1. size \in Nat /\ SizeOf(d) \in Nat /\ size >= 0 + SizeOf(d) + 3
  BY GenBufferBounds
<1>2. /\ IsElement(long) /\ Len(long) = Len(d) /\ Settled(long)
      /\ SizeOf(long) = SizeOf(d)
  BY LengthenedKeepsSizes
<1>3. AttrPdu(late, a) = <<Code["uint16"]>> \o id \o bytes
  BY DEF AttrPdu
<1>4. bytes = Pdus(size, long)[Len(long)][3]
  BY <1>2 DEF GenPdu
<1> HIDE DEF size, bytes
<1>5. Len(long) \in 0 .. Len(long)
  BY <1>2, ElementNodes
<1>6. bytes \in Seq(Nat)
  <2> HIDE DEF long
  <2> DEFINE x == Pdus(size, long)
  <2>1. x \in [0 .. Len(long) -> Texts]
    BY <1>1, <1>2, PdusAre
  <2> HIDE DEF x
  <2>2. x[Len(long)] \in [Nat -> Seq(Nat)]
    BY <1>5, <2>1 DEF Texts
  <2> QED
    BY <1>4, <2>2 DEF x
<1>7. Len(bytes) = SizeOf(d)
  <2> DEFINE z == SizeOf(d)
  <2>1. Sizes(long)[Len(long)] = z
    BY <1>2 DEF SizeOf
  <2> HIDE DEF z
  <2>2. z \in Nat /\ 3 + z <= size
    BY <1>1 DEF z
  <2>3. 3 + Sizes(long)[Len(long)] <= size
    BY <2>1, <2>2
  <2>4. Len(bytes) = Sizes(long)[Len(long)]
    <3> HIDE DEF long
    <3>1. \A i \in 0 .. Len(long) : \A at \in Nat :
             at + Sizes(long)[i] <= size => Len(Pdus(size, long)[i][at]) = Sizes(long)[i]
      BY <1>1, <1>2, PduSizes
    <3> QED
      BY <1>4, <1>5, <2>3, <3>1
  <2> QED
    BY <2>1, <2>4 DEF z
<1>8. id \in Seq(Nat) /\ Len(id) = 2
  BY BigEndianBytes
<1> DEFINE tag == <<Code["uint16"]>>
<1>9. tag \in Seq(Nat) /\ Len(tag) = 1
  BY DEF Code
<1> HIDE DEF id, tag
<1>10. tag \o id \in Seq(Nat) /\ Len(tag \o id) = 3
  <2>1. Len(tag \o id) = Len(tag) + Len(id)
    BY <1>8, <1>9, ConcatProperties
  <2>2. tag \o id \in Seq(Nat)
    BY <1>8, <1>9, ConcatProperties
  <2> QED
    BY <1>8, <1>9, <2>1, <2>2
<1>11. AttrPdu(late, a) = (tag \o id) \o bytes
  BY <1>3 DEF tag
<1> QED
  BY <1>1, <1>6, <1>7, <1>10, <1>11, ConcatProperties

(* The buffer of a record: the head of its outer sequence, then the bytes  *)
(* of the attributes.                                                      *)
HeadSize(b) == TypeSize(TypeOf(b[1]))
IsOuter(b) == b \in Seq(Nat) /\ b # <<>> /\ b[1] \in {53, 54} /\ HeadSize(b) <= Len(b)
Content(b) == IF b = <<>> THEN 0 ELSE Len(b) - HeadSize(b)

LEMMA OuterTypes ==
    /\ TypeOf(53) = "seq8" /\ TypeOf(54) = "seq16" /\ Code["seq8"] = 53 /\ Code["seq16"] = 54
    /\ TypeSize("seq8") = 2 /\ TypeSize("seq16") = 3
<1>1. \A t \in DOMAIN Code : /\ Code[t] = 53 <=> t = "seq8"
                            /\ Code[t] = 54 <=> t = "seq16"
  BY DEF Code
<1>2. "seq8" \in DOMAIN Code /\ "seq16" \in DOMAIN Code
  BY Types
<1> QED
  BY <1>1, <1>2 DEF TypeOf, TypeSize, Code

LEMMA OuterLenSet ==
    ASSUME NEW all, IsOuter(all)
    PROVE  IsOuter(SetOuterLen(all)) /\ Content(SetOuterLen(all)) = Content(all)
<1> DEFINE head == HeadSize(all)
           dtd  == IF Len(all) > UCHAR_MAX /\ all[1] = Code["seq8"] THEN "seq16" ELSE TypeOf(all[1])
           body == SubSeq(all, head + 1, Len(all))
           new  == <<Code[dtd]>> \o SeqLen(dtd, Len(body))
           res  == new \o body
<1>1. SetOuterLen(all) = res
  BY DEF SetOuterLen, HeadSize
<1>2. all \in Seq(Nat) /\ all # <<>> /\ Len(all) \in Nat /\ head \in {2, 3} /\ head <= Len(all)
  BY OuterTypes DEF IsOuter, HeadSize
<1>3. dtd \in {"seq8", "seq16"}
  BY OuterTypes DEF IsOuter
<1> HIDE DEF head, dtd
<1>4. body \in Seq(Nat) /\ Len(body) = Len(all) - head
  <2>1. \A i \in head + 1 .. Len(all) : all[i] \in Nat
    BY <1>2
  <2>2. head + 1 \in Int /\ Len(all) \in Int
    BY <1>2
  <2>3. body \in Seq(Nat) /\ Len(body) = IF head + 1 <= Len(all) THEN Len(all) - (head + 1) + 1 ELSE 0
    BY <2>1, <2>2, SubSeqProperties
  <2> HIDE DEF body
  <2> QED
    BY <1>2, <2>3
<1> HIDE DEF body
<1>5. dtd \in DOMAIN Code /\ Len(body) \in Nat /\ TypeSize(dtd) \in {2, 3} /\ Code[dtd] \in {53, 54}
  BY <1>2, <1>3, <1>4, Types, OuterTypes
<1>6. new \in Seq(Nat) /\ Len(new) = TypeSize(dtd) /\ new[1] = Code[dtd]
  BY <1>5, HeadBytes
<1> HIDE DEF new
<1>7. /\ res \in Seq(Nat) /\ Len(res) = TypeSize(dtd) + Len(body) /\ res[1] = Code[dtd]
  <2>1. 1 \in 1 .. Len(new) + Len(body) /\ 1 <= Len(new)
    BY <1>5, <1>6
  <2> QED
    BY <1>4, <1>6, <2>1, ConcatProperties
<1> HIDE DEF res
<1>8. TypeOf(Code[dtd]) = dtd
  BY <1>3, OuterTypes
<1>9. HeadSize(res) = TypeSize(dtd)
  BY <1>7, <1>8 DEF HeadSize
<1>10. res # <<>>
  BY <1>5, <1>7
<1>11. IsOuter(res)
  BY <1>5, <1>7, <1>9, <1>10 DEF IsOuter
<1>12. Content(res) = Len(body)
  BY <1>5, <1>7, <1>9, <1>10 DEF Content
<1>13. Content(all) = Len(all) - head
  BY <1>2 DEF Content, head
<1> QED
  BY <1>1, <1>4, <1>11, <1>12, <1>13

LEMMA AppendGrows ==
    ASSUME NEW dst, dst = <<>> \/ IsOuter(dst), NEW data \in Seq(Nat)
    PROVE  /\ IsOuter(AppendToBuf(dst, data))
           /\ Content(AppendToBuf(dst, data)) = Content(dst) + Len(data)
<1>1. CASE dst = <<>>
  <2> DEFINE start == <<53, 0>>
             all == start \o data
  <2>1. start \in Seq(Nat) /\ Len(start) = 2 /\ start[1] = 53
    OBVIOUS
  <2>2. all \in Seq(Nat) /\ Len(all) = 2 + Len(data) /\ all[1] = 53 /\ Len(data) \in Nat
    <3>1. Len(data) \in Nat
      OBVIOUS
    <3> HIDE DEF start
    <3>2. 1 \in 1 .. Len(start) + Len(data) /\ 1 <= Len(start)
      BY <2>1, <3>1
    <3>3. all \in Seq(Nat) /\ Len(all) = Len(start) + Len(data) /\ all[1] = start[1]
      BY <2>1, <3>1, <3>2, ConcatProperties
    <3> HIDE DEF all
    <3> QED
      BY <2>1, <3>1, <3>3
  <2>3. AppendToBuf(dst, data) = SetOuterLen(all)
    BY <1>1, OuterTypes DEF AppendToBuf
  <2> HIDE DEF all
  <2>4. HeadSize(all) = 2 /\ all # <<>>
    BY <2>2, OuterTypes DEF HeadSize
  <2>5. IsOuter(all) /\ Content(all) = Len(data)
    BY <2>2, <2>4 DEF IsOuter, Content
  <2>6. Content(dst) = 0
    BY <1>1 DEF Content
  <2> QED
    BY <2>2, <2>3, <2>5, <2>6, OuterLenSet
<1>2. CASE dst # <<>>
  <2> DEFINE all == dst \o data
  <2>1. IsOuter(dst) /\ dst \in Seq(Nat) /\ Len(dst) \in Nat /\ Len(data) \in Nat
        /\ HeadSize(dst) \in {2, 3} /\ HeadSize(dst) <= Len(dst)
    BY <1>2, OuterTypes DEF IsOuter, HeadSize
  <2>2. all \in Seq(Nat) /\ Len(all) = Len(dst) + Len(data) /\ all[1] = dst[1]
    <3>1. 1 \in 1 .. Len(dst) + Len(data) /\ 1 <= Len(dst)
      BY <2>1
    <3> QED
      BY <2>1, <3>1, ConcatProperties
  <2>3. AppendToBuf(dst, data) = SetOuterLen(all)
    BY <1>2 DEF AppendToBuf
  <2> HIDE DEF all
  <2>4. HeadSize(all) = HeadSize(dst) /\ all # <<>>
    BY <2>1, <2>2 DEF HeadSize
  <2>5. IsOuter(all)
    BY <2>1, <2>2, <2>4 DEF IsOuter
  <2>6. Content(all) = Content(dst) + Len(data)
    BY <1>2, <2>1, <2>2, <2>4 DEF Content
  <2> QED
    BY <2>3, <2>5, <2>6, OuterLenSet
<1> QED
  BY <1>1, <1>2

(* The elements that are built.                                            *)
Elts == {d \in Seq(Node) : IsElement(d) /\ Fits(d)}
Lists == {d \in Seq(Node) : PointsBack(d) /\ Fits(d)}

LEMMA LeafIsElement ==
    ASSUME NEW dtd \in DOMAIN Code, NEW val \in Nat, ValueFits(dtd, val)
    PROVE  Leaf(dtd, val) \in Elts
<1> DEFINE node == [dtd |-> dtd, val |-> val, sub |-> 0, next |-> 0]
           d == <<node>>
<1>1. node \in Node
  BY DEF Node
<1>2. d \in Seq(Node) /\ d # <<>> /\ Len(d) = 1 /\ DOMAIN d = {1} /\ d[1] = node
  BY <1>1
<1>3. Leaf(dtd, val) = d
  BY DEF Leaf, NULL
<1>4. node.sub = 0 /\ node.next = 0 /\ node.dtd = dtd /\ node.val = val
  OBVIOUS
<1> HIDE DEF node, d
<1>5. PointsBack(d)
  BY <1>2, <1>4 DEF PointsBack
<1>6. IsElement(d)
  BY <1>2, <1>4, <1>5 DEF IsElement, NULL
<1>7. Fits(d)
  BY <1>2, <1>4 DEF Fits
<1> QED
  BY <1>2, <1>3, <1>6, <1>7 DEF Elts

LEMMA ConsIsList ==
    ASSUME NEW d \in Elts, NEW list \in Lists
    PROVE  Cons(d, list) \in Lists /\ Len(Cons(d, list)) # 0
<1> DEFINE n == Len(d)
           m == Len(list)
           moved == [i \in DOMAIN d |->
                       [d[i] EXCEPT !.sub = Moved(d[i].sub, m),
                                    !.next = IF i = n THEN m ELSE Moved(d[i].next, m)]]
           res == list \o moved
<1>1. /\ n \in Nat \ {0} /\ DOMAIN d = 1 .. n
      /\ \A i \in 1 .. n : /\ d[i] \in Node /\ d[i].sub \in Nat /\ d[i].sub < i
                            /\ d[i].next \in Nat /\ d[i].next < i
                            /\ ValueFits(d[i].dtd, d[i].val)
  <2>1. IsElement(d) /\ Fits(d)
    BY DEF Elts
  <2>2. \A k \in 0 .. n : k \in Nat
    OBVIOUS
  <2>3. /\ n \in Nat \ {0} /\ DOMAIN d = 1 .. n
        /\ \A i \in 1 .. n : /\ d[i] \in Node /\ d[i].sub \in Nat /\ d[i].sub < i
                              /\ d[i].next \in Nat /\ d[i].next < i
    BY <2>1, <2>2, ElementNodes
  <2>4. \A i \in 1 .. n : ValueFits(d[i].dtd, d[i].val)
    BY <2>1, <2>3 DEF Fits
  <2> QED
    BY <2>3, <2>4
<1>2. /\ list \in Seq(Node) /\ m \in Nat /\ DOMAIN list = 1 .. m
      /\ \A i \in 1 .. m : /\ list[i] \in Node /\ list[i].sub < i /\ list[i].next < i
                            /\ ValueFits(list[i].dtd, list[i].val)
  <2>1. list \in Seq(Node) /\ m \in Nat /\ DOMAIN list = 1 .. m
    BY DEF Lists
  <2>2. \A i \in 1 .. m : list[i] \in Node
    BY <2>1
  <2>3. \A i \in 1 .. m : list[i].sub < i /\ list[i].next < i
    BY <2>1 DEF Lists, PointsBack
  <2>4. \A i \in 1 .. m : ValueFits(list[i].dtd, list[i].val)
    BY <2>1 DEF Lists, Fits
  <2> QED
    BY <2>1, <2>2, <2>3, <2>4
<1> HIDE DEF n, m
<1>3. \A p \in Nat : Moved(p, m) \in Nat /\ \A i \in Nat : p < i => Moved(p, m) < m + i
  BY <1>2 DEF Moved, NULL
<1>4. ASSUME NEW i \in 1 .. n
      PROVE  /\ moved[i] \in Node /\ moved[i].sub < m + i /\ moved[i].next < m + i
             /\ ValueFits(moved[i].dtd, moved[i].val)
  <2> DEFINE p == Moved(d[i].sub, m)
             q == IF i = n THEN m ELSE Moved(d[i].next, m)
  <2>1. i \in Nat /\ i > 0
    BY <1>1
  <2>2. p \in Nat /\ p < m + i
    BY <1>1, <1>3, <2>1
  <2>3. q \in Nat /\ q < m + i
    <3>1. m < m + i
      BY <1>2, <2>1
    <3>2. Moved(d[i].next, m) \in Nat /\ Moved(d[i].next, m) < m + i
      BY <1>1, <1>3, <2>1
    <3> QED
      BY <1>2, <3>1, <3>2
  <2>4. moved[i] = [d[i] EXCEPT !.sub = p, !.next = q]
    BY <1>1
  <2> HIDE DEF p, q
  <2>5. d[i] \in Node
    BY <1>1
  <2>6. /\ moved[i] \in Node /\ moved[i].sub = p /\ moved[i].next = q
        /\ moved[i].dtd = d[i].dtd /\ moved[i].val = d[i].val
    <3> HIDE DEF moved
    <3>1. d[i].dtd \in DOMAIN Code /\ d[i].val \in Nat
      BY <2>5 DEF Node
    <3>2. moved[i] = [dtd |-> d[i].dtd, val |-> d[i].val, sub |-> p, next |-> q]
      BY <2>4, <2>5 DEF Node
    <3> QED
      BY <2>2, <2>3, <3>1, <3>2 DEF Node
  <2> QED
    BY <1>1, <2>2, <2>3, <2>6
<1>5. moved \in Seq(Node) /\ Len(moved) = n
  <2>1. moved \in [1 .. n -> Node]
    <3>1. moved = [i \in 1 .. n |-> moved[i]]
      BY <1>1
    <3> HIDE DEF moved
    <3> QED
      BY <1>4, <3>1
  <2> HIDE DEF moved
  <2> QED
    BY <1>1, <2>1
<1> HIDE DEF moved
<1>6. /\ res \in Seq(Node) /\ Len(res) = m + n /\ DOMAIN res = 1 .. m + n
      /\ \A i \in 1 .. m + n : res[i] = IF i <= m THEN list[i] ELSE moved[i - m]
  <2>1. Len(list) = m /\ Len(moved) = n
    BY <1>5 DEF m
  <2>2. /\ res \in Seq(Node) /\ Len(res) = Len(list) + Len(moved)
        /\ \A i \in 1 .. Len(list) + Len(moved) :
              res[i] = IF i <= Len(list) THEN list[i] ELSE moved[i - Len(list)]
    BY <1>2, <1>5, ConcatProperties
  <2> HIDE DEF res
  <2>3. DOMAIN res = 1 .. Len(res)
    BY <2>2
  <2> QED
    BY <2>1, <2>2, <2>3
<1>7. Cons(d, list) = res
  BY DEF Cons, moved, m, n
<1> HIDE DEF res
<1>8. ASSUME NEW i \in 1 .. m + n
      PROVE  res[i].sub < i /\ res[i].next < i /\ ValueFits(res[i].dtd, res[i].val)
  <2>1. CASE i <= m
    BY <1>1, <1>2, <1>6, <2>1
  <2>2. CASE ~(i <= m)
    <3>1. i - m \in 1 .. n /\ m + (i - m) = i /\ res[i] = moved[i - m]
      BY <1>1, <1>2, <1>6, <2>2
    <3> QED
      BY <1>4, <3>1
  <2> QED
    BY <2>1, <2>2
<1>9. PointsBack(res) /\ Fits(res)
  BY <1>6, <1>8 DEF PointsBack, Fits
<1> QED
  BY <1>1, <1>2, <1>6, <1>7, <1>9 DEF Lists

(* Linked is what its definition says, from the last part to the first.    *)
LEMMA LinkedIsList ==
    ASSUME NEW parts \in Seq(Elts)
    PROVE  Linked(parts) \in Lists /\ (parts # <<>> => Len(Linked(parts)) # 0)
<1> DEFINE n == Len(parts)
           l == [i \in 1 .. n |-> i - 1]
           Step(i, p) == Cons(parts[n - i + 1], p)
           G == [i \in 1 .. n |-> [p \in Lists |-> [q \in Lists |-> Step(i, p)]]]
           Body(f) == [i \in 0 .. n |-> IF i = 0 THEN <<>> ELSE Step(i, f[i - 1])]
           last == CHOOSE f : f = Body(f)
<1>1. n \in Nat
  OBVIOUS
<1>2. \A i \in 1 .. n : \A p \in Lists : Step(i, p) \in Lists /\ Len(Step(i, p)) # 0
  <2> TAKE i \in 1 .. n
  <2>1. n - i + 1 \in 1 .. n
    BY <1>1
  <2>2. parts[n - i + 1] \in Elts
    BY <2>1
  <2> QED
    BY <2>2, ConsIsList
<1>3. <<>> \in Lists
  BY DEF Lists, PointsBack, Fits
<1>4. Linked(parts) = last[n]
  BY DEF Linked
<1> HIDE DEF Step, n
<1>5. \E f : f = Body(f)
  <2>1. l \in [1 .. n -> Nat] /\ \A i \in 1 .. n : l[i] < i
    BY <1>1
  <2>2. G \in [1 .. n -> [Lists -> [Lists -> Lists]]]
    BY <1>2
  <2> HIDE DEF l, G
  <2>3. PICK f \in [0 .. n -> Lists] : Follows(n, <<>>, l, l, G, f)
    BY <1>1, <1>3, <2>1, <2>2, FunctionOverPositions
  <2>4. ASSUME NEW i \in 0 .. n
        PROVE  f[i] = IF i = 0 THEN <<>> ELSE Step(i, f[i - 1])
    <3>1. f[i] = IF i = 0 THEN <<>> ELSE G[i][f[l[i]]][f[l[i]]]
      BY <2>3 DEF Follows
    <3>2. i # 0 => l[i] = i - 1 /\ i - 1 \in 0 .. n /\ i \in 1 .. n
      BY <1>1 DEF l
    <3> QED
      BY <3>1, <3>2 DEF G
  <2> QED
    BY <2>3, <2>4
<1>6. last = Body(last)
  BY <1>5
<1> HIDE DEF last
<1>7. \A i \in 0 .. n : last[i] = IF i = 0 THEN <<>> ELSE Step(i, last[i - 1])
  BY <1>6
<1> DEFINE S == {i \in 0 .. n : last[i] \in Lists}
<1>8. ASSUME NEW i \in 0 .. n, \A j \in 0 .. n : j < i => j \in S
      PROVE  i \in S
  <2>1. CASE i = 0
    BY <1>3, <1>7, <2>1
  <2>2. CASE i # 0
    <3>1. i \in 1 .. n /\ i - 1 \in 0 .. n /\ i - 1 < i
      BY <1>1, <2>2
    <3>2. last[i - 1] \in Lists
      BY <1>8, <3>1
    <3> QED
      BY <1>2, <1>7, <2>2, <3>1, <3>2
  <2> QED
    BY <2>1, <2>2
<1> HIDE DEF S
<1>9. \A i \in 0 .. n : i \in S
  BY <1>1, <1>8, PositionInduction
<1>10. \A i \in 0 .. n : last[i] \in Lists
  BY <1>9 DEF S
<1>11. n \in 0 .. n
  BY <1>1
<1>12. ASSUME parts # <<>> PROVE Len(last[n]) # 0
  <2>1. n # 0
    BY <1>12 DEF n
  <2>2. n \in 1 .. n /\ n - 1 \in 0 .. n
    BY <1>1, <2>1
  <2> QED
    BY <1>2, <1>7, <1>10, <1>11, <2>1, <2>2
<1> QED
  BY <1>4, <1>10, <1>11, <1>12

LEMMA SeqOfIsElement ==
    ASSUME NEW dtd \in {"seq8", "seq16"}, NEW parts \in Seq(Elts)
    PROVE  SeqOf(dtd, parts) \in Elts /\ (parts # <<>> => HasParts(SeqOf(dtd, parts)))
<1> DEFINE list == Linked(parts)
           m == Len(list)
           root == [dtd |-> dtd, val |-> 0, sub |-> m, next |-> 0]
           res == Append(list, root)
<1>1. SeqOf(dtd, parts) = res
  BY DEF SeqOf, NULL
<1>2. list \in Lists /\ (parts # <<>> => m # 0)
  BY LinkedIsList
<1> HIDE DEF list
<1>3. list \in Seq(Node) /\ m \in Nat /\ DOMAIN list = 1 .. m
  BY <1>2 DEF Lists
<1>4. \A i \in 1 .. m : /\ list[i].sub < i /\ list[i].next < i
                         /\ ValueFits(list[i].dtd, list[i].val)
  BY <1>2, <1>3 DEF Lists, PointsBack, Fits
<1>5. /\ root \in Node /\ root.sub = m /\ root.next = 0 /\ IsSeq(root)
      /\ ValueFits(root.dtd, root.val)
  <2>1. dtd \in DOMAIN Code
    BY Types
  <2>2. dtd \notin DOMAIN Width /\ dtd # "text8"
    BY DEF Width
  <2>3. root.dtd = dtd
    OBVIOUS
  <2> QED
    BY <1>3, <2>1, <2>2, <2>3 DEF Node, IsSeq, ValueFits
<1> HIDE DEF root
<1>6. /\ res \in Seq(Node) /\ Len(res) = m + 1 /\ DOMAIN res = 1 .. m + 1
      /\ \A i \in 1 .. m : res[i] = list[i]
      /\ res[m + 1] = root
  BY <1>3, <1>5, AppendProperties
<1> HIDE DEF res
<1>7. \A i \in 1 .. m + 1 : res[i].sub < i /\ res[i].next < i /\ ValueFits(res[i].dtd, res[i].val)
  <2> TAKE i \in 1 .. m + 1
  <2> HIDE DEF m
  <2>1. CASE i = m + 1
    BY <1>3, <1>5, <1>6, <2>1
  <2>2. CASE i # m + 1
    <3>1. i \in 1 .. m
      BY <1>3, <2>2
    <3> QED
      BY <1>4, <1>6, <3>1
  <2> QED
    BY <2>1, <2>2
<1>8. PointsBack(res) /\ Fits(res)
  BY <1>6, <1>7 DEF PointsBack, Fits
<1>9. res # <<>> /\ res[Len(res)] = root
  BY <1>3, <1>6
<1>10. IsElement(res)
  BY <1>5, <1>6, <1>8, <1>9 DEF IsElement, NULL
<1>11. parts # <<>> => HasParts(res)
  BY <1>2, <1>5, <1>9 DEF HasParts, NULL
<1> QED
  BY <1>1, <1>6, <1>8, <1>10, <1>11 DEF Elts

(* A record is a list of attributes in the order of their identifiers,     *)
(* with browse groups among them.                                          *)
Ids == {id \in Nat : ValueFits("uint16", id)}
Attrs == [id: Ids, data: Elts]
IsBrowseGroups(a) == a.id = BrowseGroupsId /\ HasParts(a.data)
InOrder(rec) == \A i, j \in 1 .. Len(rec) : i < j => rec[i].id < rec[j].id
Records == {rec \in Seq(Attrs) : /\ \E k \in 1 .. Len(rec) : IsBrowseGroups(rec[k])
                                  /\ InOrder(rec)}

(* Where sdp_list_insert_sorted puts an attribute.                         *)
IsInserted(rec, a, n, res) ==
    /\ n \in 0 .. Len(rec) /\ Before(rec, a.id, n)
    /\ res \in Seq(Attrs) /\ Len(res) = Len(rec) + 1
    /\ \A k \in 1 .. n : res[k] = rec[k]
    /\ res[n + 1] = a
    /\ \A k \in n + 1 .. Len(rec) : res[k + 1] = rec[k]

LEMMA InsertSortedAt ==
    ASSUME NEW rec \in Seq(Attrs), NEW a \in Attrs
    PROVE  \E n : IsInserted(rec, a, n, InsertSorted(rec, a))
<1> DEFINE n == CHOOSE k \in 0 .. Len(rec) : Before(rec, a.id, k)
           m == Len(rec)
           s == SubSeq(rec, 1, n)
           t == SubSeq(rec, n + 1, Len(rec))
           res == (s \o <<a>>) \o t
<1>1. m \in Nat /\ \A i \in 1 .. m : rec[i] \in Attrs /\ rec[i].id \in Nat
  <2>1. m \in Nat /\ \A i \in 1 .. m : rec[i] \in Attrs
    OBVIOUS
  <2>2. \A b \in Attrs : b.id \in Nat
    BY DEF Attrs, Ids
  <2> QED
    BY <2>1, <2>2
<1>2. a.id \in Nat
  BY DEF Attrs, Ids
<1>3. \E k \in 0 .. m : Before(rec, a.id, k)
  <2> SUFFICES ASSUME \A k \in 0 .. m : ~Before(rec, a.id, k)
               PROVE  FALSE
    OBVIOUS
  <2> DEFINE S == {k \in 0 .. m : \A i \in 1 .. k : rec[i].id < a.id}
  <2>1. ASSUME NEW k \in 0 .. m, \A j \in 0 .. m : j < k => j \in S
        PROVE  k \in S
    <3>1. CASE k = 0
      BY <3>1
    <3>2. CASE k # 0
      <4>1. k - 1 \in 0 .. m /\ k - 1 < k /\ k \in 1 .. m /\ k - 1 < m /\ k - 1 + 1 = k
        BY <1>1, <3>2
      <4>2. \A i \in 1 .. k - 1 : rec[i].id < a.id
        BY <2>1, <4>1
      <4>3. ~Before(rec, a.id, k - 1)
        BY <4>1
      <4>4. ~(rec[k].id >= a.id)
        BY <4>1, <4>2, <4>3 DEF Before
      <4>5. rec[k].id < a.id
        BY <1>1, <1>2, <4>1, <4>4
      <4> QED
        BY <4>1, <4>2, <4>5
    <3> QED
      BY <3>1, <3>2
  <2> HIDE DEF S
  <2>2. \A k \in 0 .. m : k \in S
    BY <1>1, <2>1, PositionInduction
  <2>3. m \in S
    BY <1>1, <2>2
  <2>4. \A i \in 1 .. m : rec[i].id < a.id
    BY <2>3 DEF S
  <2>5. Before(rec, a.id, m)
    BY <2>4 DEF Before
  <2> QED
    BY <1>1, <2>5
<1>4. n \in 0 .. m /\ Before(rec, a.id, n)
  BY <1>3
<1>5. InsertSorted(rec, a) = res
  <2>1. InsertSorted(rec, a) = s \o <<a>> \o t
    BY DEF InsertSorted
  <2> QED
    BY <2>1
<1> HIDE DEF n, m
<1>6. /\ s \in Seq(Attrs) /\ Len(s) = n /\ \A i \in 1 .. n : s[i] = rec[i]
  <2>1. \A i \in 1 .. n : rec[i] \in Attrs
    BY <1>1, <1>4
  <2>2. s \in Seq(Attrs) /\ Len(s) = (IF 1 <= n THEN n - 1 + 1 ELSE 0)
        /\ \A i \in 1 .. n - 1 + 1 : s[i] = rec[1 + i - 1]
    BY <1>1, <1>4, <2>1, SubSeqProperties
  <2> HIDE DEF s
  <2> QED
    BY <1>1, <1>4, <2>2
<1>7. /\ t \in Seq(Attrs) /\ Len(t) = m - n /\ \A i \in 1 .. m - n : t[i] = rec[n + i]
  <2>1. \A i \in n + 1 .. m : rec[i] \in Attrs
    BY <1>1, <1>4
  <2>2. /\ t \in Seq(Attrs) /\ Len(t) = (IF n + 1 <= m THEN m - (n + 1) + 1 ELSE 0)
        /\ \A i \in 1 .. m - (n + 1) + 1 : t[i] = rec[n + 1 + i - 1]
    BY <1>1, <1>4, <2>1, SubSeqProperties DEF m
  <2> HIDE DEF t
  <2> QED
    BY <1>1, <1>4, <2>2
<1> HIDE DEF s, t
<1>8. /\ s \o <<a>> \in Seq(Attrs) /\ Len(s \o <<a>>) = n + 1
      /\ \A i \in 1 .. n : (s \o <<a>>)[i] = rec[i]
      /\ (s \o <<a>>)[n + 1] = a
  <2> DEFINE u == <<a>>
  <2>1. u \in Seq(Attrs) /\ Len(u) = 1 /\ u[1] = a
    OBVIOUS
  <2> HIDE DEF u
  <2>2. /\ s \o u \in Seq(Attrs) /\ Len(s \o u) = Len(s) + Len(u)
        /\ \A i \in 1 .. Len(s) + Len(u) : (s \o u)[i] = IF i <= Len(s) THEN s[i] ELSE u[i - Len(s)]
    BY <1>6, <2>1, ConcatProperties
  <2>3. /\ s \o u \in Seq(Attrs) /\ Len(s \o u) = n + 1
        /\ \A i \in 1 .. n : (s \o u)[i] = rec[i]
        /\ (s \o u)[n + 1] = a
    BY <1>1, <1>4, <1>6, <2>1, <2>2
  <2> QED
    BY <2>3 DEF u
<1> DEFINE v == s \o <<a>>
<1> HIDE DEF v
<1>9. /\ v \in Seq(Attrs) /\ Len(v) = n + 1 /\ v[n + 1] = a /\ \A i \in 1 .. n : v[i] = rec[i]
  BY <1>8 DEF v
<1>10. res = v \o t
  BY DEF v
<1> HIDE DEF res
<1>11. /\ res \in Seq(Attrs) /\ Len(res) = m + 1
       /\ \A i \in 1 .. m + 1 : res[i] = IF i <= n + 1 THEN v[i] ELSE t[i - (n + 1)]
  <2>1. /\ res \in Seq(Attrs) /\ Len(res) = Len(v) + Len(t)
        /\ \A i \in 1 .. Len(v) + Len(t) : res[i] = IF i <= Len(v) THEN v[i] ELSE t[i - Len(v)]
    BY <1>7, <1>9, <1>10, ConcatProperties
  <2> QED
    BY <1>1, <1>4, <1>7, <1>9, <2>1
<1>12. ASSUME NEW k \in 1 .. n PROVE res[k] = rec[k]
  <2>1. k \in 1 .. m + 1 /\ k <= n + 1
    BY <1>1, <1>4
  <2> QED
    BY <1>9, <1>11, <2>1
<1>13. ASSUME NEW k \in n + 1 .. m PROVE res[k + 1] = rec[k]
  <2> DEFINE j == k + 1
  <2>1. /\ j \in 1 .. m + 1 /\ ~(j <= n + 1) /\ j - (n + 1) = k - n
        /\ k - n \in 1 .. m - n /\ n + (k - n) = k
    BY <1>1, <1>4
  <2> HIDE DEF j
  <2>2. res[j] = t[j - (n + 1)]
    BY <1>11, <2>1
  <2>3. t[k - n] = rec[n + (k - n)]
    BY <1>7, <2>1
  <2> QED
    BY <2>1, <2>2, <2>3 DEF j
<1>14. res[n + 1] = a
  <2>1. n + 1 \in 1 .. m + 1 /\ n + 1 <= n + 1
    BY <1>1, <1>4
  <2> QED
    BY <1>9, <1>11, <2>1
<1>15. IsInserted(rec, a, n, res)
  BY <1>4, <1>11, <1>12, <1>13, <1>14 DEF IsInserted, m
<1> QED
  BY <1>5, <1>15

LEMMA InsertSortedKeeps ==
    ASSUME NEW rec \in Seq(Attrs), NEW a \in Attrs
    PROVE  LET res == InsertSorted(rec, a)
           IN  /\ res \in Seq(Attrs)
               /\ \A k \in 1 .. Len(rec) : \E j \in 1 .. Len(res) : res[j] = rec[k]
               /\ \E j \in 1 .. Len(res) : res[j] = a
               /\ InOrder(rec) /\ ~Has(rec, a.id) => InOrder(res)
<1> DEFINE res == InsertSorted(rec, a)
           m == Len(rec)
<1>1. PICK n : IsInserted(rec, a, n, res)
  BY InsertSortedAt
<1>2. /\ m \in Nat /\ DOMAIN rec = 1 .. m /\ a.id \in Nat
      /\ \A i \in 1 .. m : rec[i].id \in Nat
  <2>1. m \in Nat /\ DOMAIN rec = 1 .. m /\ \A i \in 1 .. m : rec[i] \in Attrs
    OBVIOUS
  <2>2. \A b \in Attrs : b.id \in Nat
    BY DEF Attrs, Ids
  <2> QED
    BY <2>1, <2>2
<1> HIDE DEF res, m
<1>3. /\ n \in 0 .. m /\ res \in Seq(Attrs) /\ Len(res) = m + 1
      /\ \A k \in 1 .. n : res[k] = rec[k]
      /\ res[n + 1] = a
      /\ \A k \in n + 1 .. m : res[k + 1] = rec[k]
  BY <1>1 DEF IsInserted, m
<1>4. /\ \A i \in 1 .. n : rec[i].id < a.id
      /\ n < m => rec[n + 1].id >= a.id
  BY <1>1 DEF IsInserted, Before, m
<1>5. ASSUME NEW k \in 1 .. m PROVE \E j \in 1 .. Len(res) : res[j] = rec[k]
  <2>1. CASE k <= n
    <3>1. k \in 1 .. n /\ k \in 1 .. m + 1
      BY <1>2, <1>3, <2>1
    <3> QED
      BY <1>3, <3>1
  <2>2. CASE ~(k <= n)
    <3>1. k \in n + 1 .. m /\ k + 1 \in 1 .. m + 1
      BY <1>2, <1>3, <2>2
    <3> QED
      BY <1>3, <3>1
  <2> QED
    BY <2>1, <2>2
<1>6. n + 1 \in 1 .. Len(res)
  BY <1>2, <1>3
<1>7. ASSUME InOrder(rec), ~Has(rec, a.id) PROVE InOrder(res)
  <2>1. \A i, j \in 1 .. m : i < j => rec[i].id < rec[j].id
    BY <1>7 DEF InOrder, m
  <2>2. \A i \in 1 .. m : rec[i].id # a.id
    BY <1>2, <1>7 DEF Has
  <2>3. \A i \in n + 1 .. m : a.id < rec[i].id
    <3> TAKE i \in n + 1 .. m
    <3>1. n + 1 \in 1 .. m /\ n < m /\ i \in 1 .. m
      BY <1>2, <1>3
    <3>2. a.id < rec[n + 1].id
      BY <1>2, <1>4, <2>2, <3>1
    <3>3. i = n + 1 \/ rec[n + 1].id < rec[i].id
      BY <1>2, <1>3, <2>1, <3>1
    <3> QED
      BY <1>2, <3>1, <3>2, <3>3
  <2>4. ASSUME NEW i \in 1 .. m + 1, NEW j \in 1 .. m + 1, i < j
        PROVE  res[i].id < res[j].id
    <3>1. CASE j <= n
      <4>1. i \in 1 .. n /\ j \in 1 .. n /\ i \in 1 .. m /\ j \in 1 .. m
        BY <1>2, <1>3, <2>4, <3>1
      <4> QED
        BY <1>3, <2>1, <2>4, <4>1
    <3>2. CASE j = n + 1
      <4>1. i \in 1 .. n
        BY <1>2, <1>3, <2>4, <3>2
      <4> QED
        BY <1>3, <1>4, <3>2, <4>1
    <3>3. CASE j > n + 1
      <4>1. j - 1 \in n + 1 .. m /\ (j - 1) + 1 = j /\ j - 1 \in 1 .. m
        BY <1>2, <1>3, <3>3
      <4>2. res[j] = rec[j - 1]
        BY <1>3, <4>1
      <4>3. CASE i <= n
        <5>1. i \in 1 .. n /\ i \in 1 .. m /\ i < j - 1
          BY <1>2, <1>3, <3>3, <4>3
        <5> QED
          BY <1>3, <2>1, <4>1, <4>2, <5>1
      <4>4. CASE i = n + 1
        BY <1>3, <2>3, <4>1, <4>2, <4>4
      <4>5. CASE i > n + 1
        <5>1. i - 1 \in n + 1 .. m /\ (i - 1) + 1 = i /\ i - 1 \in 1 .. m /\ i - 1 < j - 1
          BY <1>2, <1>3, <2>4, <4>5
        <5>2. res[i] = rec[i - 1]
          BY <1>3, <5>1
        <5> QED
          BY <2>1, <4>1, <4>2, <5>1, <5>2
      <4> QED
        BY <1>3, <4>3, <4>4, <4>5
    <3> QED
      BY <1>3, <3>1, <3>2, <3>3
  <2> QED
    BY <1>3, <2>4 DEF InOrder
<1> QED
  BY <1>3, <1>5, <1>6, <1>7 DEF res, m

LEMMA WithoutKeeps ==
    ASSUME NEW rec \in Seq(Attrs), NEW id
    PROVE  LET res == Without(rec, id)
           IN  /\ res \in Seq(Attrs)
               /\ \A k \in 1 .. Len(rec) : rec[k].id # id => \E j \in 1 .. Len(res) : res[j] = rec[k]
               /\ InOrder(rec) => InOrder(res) /\ ~Has(res, id)
<1>1. CASE ~Has(rec, id)
  BY <1>1 DEF Without
<1>2. CASE Has(rec, id)
  <2> DEFINE p == CHOOSE i \in DOMAIN rec : rec[i].id = id
             m == Len(rec)
             s == SubSeq(rec, 1, p - 1)
             t == SubSeq(rec, p + 1, Len(rec))
             res == s \o t
  <2>1. m \in Nat /\ DOMAIN rec = 1 .. m /\ \A i \in 1 .. m : rec[i] \in Attrs
    OBVIOUS
  <2>2. p \in 1 .. m /\ rec[p].id = id
    BY <1>2, <2>1 DEF Has
  <2>3. Without(rec, id) = res
    BY <1>2 DEF Without
  <2> HIDE DEF p, m
  <2>4. /\ s \in Seq(Attrs) /\ Len(s) = p - 1 /\ \A i \in 1 .. p - 1 : s[i] = rec[i]
    <3>1. \A i \in 1 .. p - 1 : rec[i] \in Attrs
      BY <2>1, <2>2
    <3>2. /\ s \in Seq(Attrs) /\ Len(s) = (IF 1 <= p - 1 THEN p - 1 - 1 + 1 ELSE 0)
          /\ \A i \in 1 .. p - 1 - 1 + 1 : s[i] = rec[1 + i - 1]
      BY <2>1, <2>2, <3>1, SubSeqProperties
    <3> HIDE DEF s
    <3> QED
      BY <2>1, <2>2, <3>2
  <2>5. /\ t \in Seq(Attrs) /\ Len(t) = m - p /\ \A i \in 1 .. m - p : t[i] = rec[p + i]
    <3>1. \A i \in p + 1 .. m : rec[i] \in Attrs
      BY <2>1, <2>2
    <3>2. /\ t \in Seq(Attrs) /\ Len(t) = (IF p + 1 <= m THEN m - (p + 1) + 1 ELSE 0)
          /\ \A i \in 1 .. m - (p + 1) + 1 : t[i] = rec[p + 1 + i - 1]
      BY <2>1, <2>2, <3>1, SubSeqProperties DEF m
    <3> HIDE DEF t
    <3> QED
      BY <2>1, <2>2, <3>2
  <2> HIDE DEF s, t
  <2>6. /\ res \in Seq(Attrs) /\ Len(res) = Len(s) + Len(t)
        /\ \A i \in 1 .. Len(s) + Len(t) : res[i] = IF i <= Len(s) THEN s[i] ELSE t[i - Len(s)]
    BY <2>4, <2>5, ConcatProperties
  <2> HIDE DEF res
  <2>7. /\ Len(res) = m - 1
        /\ \A i \in 1 .. m - 1 : res[i] = IF i <= p - 1 THEN s[i] ELSE t[i - (p - 1)]
    BY <2>1, <2>2, <2>4, <2>5, <2>6
  <2>8. ASSUME NEW k \in 1 .. m, rec[k].id # id PROVE \E j \in 1 .. Len(res) : res[j] = rec[k]
    <3>1. CASE k < p
      <4>1. k \in 1 .. m - 1 /\ k <= p - 1 /\ k \in 1 .. p - 1
        BY <2>1, <2>2, <3>1
      <4>2. res[k] = rec[k]
        BY <2>4, <2>7, <4>1
      <4> QED
        BY <2>7, <4>1, <4>2
    <3>2. CASE k > p
      <4>1. k - 1 \in 1 .. m - 1 /\ ~(k - 1 <= p - 1) /\ k - 1 - (p - 1) = k - p
            /\ k - p \in 1 .. m - p /\ p + (k - p) = k
        BY <2>1, <2>2, <3>2
      <4>2. res[k - 1] = rec[k]
        BY <2>5, <2>7, <4>1
      <4> QED
        BY <2>7, <4>1, <4>2
    <3>3. k # p
      BY <2>2, <2>8
    <3> QED
      BY <2>1, <2>2, <3>1, <3>2, <3>3
  <2>9. ASSUME NEW k \in 1 .. m - 1
        PROVE  \E i \in 1 .. m : res[k] = rec[i] /\ i # p /\ i = IF k < p THEN k ELSE k + 1
    <3>1. CASE k < p
      <4>1. k <= p - 1 /\ k \in 1 .. p - 1 /\ k \in 1 .. m /\ k # p
        BY <2>1, <2>2, <3>1
      <4> QED
        BY <2>4, <2>7, <3>1, <4>1
    <3>2. CASE ~(k < p)
      <4>1. /\ ~(k <= p - 1) /\ k - (p - 1) \in 1 .. m - p /\ p + (k - (p - 1)) = k + 1
            /\ k + 1 \in 1 .. m /\ k + 1 # p
        BY <2>1, <2>2, <3>2
      <4>2. res[k] = rec[k + 1]
        BY <2>5, <2>7, <4>1
      <4> QED
        BY <3>2, <4>1, <4>2
    <3> QED
      BY <3>1, <3>2
  <2>10. ASSUME InOrder(rec) PROVE InOrder(res) /\ ~Has(res, id)
    <3>1. \A i, j \in 1 .. m : i < j => rec[i].id < rec[j].id
      BY <2>10 DEF InOrder, m
    <3>2. \A i \in 1 .. m : rec[i].id \in Nat
      BY <2>1 DEF Attrs, Ids
    <3>3. ASSUME NEW i \in 1 .. m - 1, NEW j \in 1 .. m - 1, i < j
          PROVE  res[i].id < res[j].id
      <4>1. PICK u \in 1 .. m : res[i] = rec[u] /\ u = IF i < p THEN i ELSE i + 1
        BY <2>9
      <4>2. PICK v \in 1 .. m : res[j] = rec[v] /\ v = IF j < p THEN j ELSE j + 1
        BY <2>9
      <4>3. u < v
        BY <2>1, <2>2, <3>3, <4>1, <4>2
      <4> QED
        BY <3>1, <4>1, <4>2, <4>3
    <3>4. InOrder(res)
      BY <2>7, <3>3 DEF InOrder
    <3>5. ASSUME NEW k \in 1 .. m - 1 PROVE res[k].id # id
      <4>1. PICK u \in 1 .. m : res[k] = rec[u] /\ u # p
        BY <2>9
      <4>2. rec[u].id < rec[p].id \/ rec[p].id < rec[u].id
        BY <2>1, <2>2, <3>1, <4>1
      <4> QED
        BY <2>2, <3>2, <4>1, <4>2
    <3>6. DOMAIN res = 1 .. m - 1
      <4>1. DOMAIN res = 1 .. Len(res)
        BY <2>6
      <4> QED
        BY <2>7, <4>1
    <3> QED
      BY <3>4, <3>5, <3>6 DEF Has
  <2> QED
    BY <2>3, <2>6, <2>8, <2>10 DEF m
<1> QED
  BY <1>1, <1>2

(* Browse groups are kept, whatever else is added or replaced.             *)
LEMMA SetAttrKeepsRecord ==
    ASSUME NEW rec \in Records, NEW id \in Ids \ {BrowseGroupsId}, NEW d \in Elts
    PROVE  AttrAdd(rec, id, d) \in Records /\ AttrReplace(rec, id, d) \in Records
<1> DEFINE a == [id |-> id, data |-> d]
           less == Without(rec, id)
<1>1. rec \in Seq(Attrs) /\ a \in Attrs /\ a.id = id /\ InOrder(rec)
  BY DEF Records, Attrs
<1>2. PICK k \in 1 .. Len(rec) : IsBrowseGroups(rec[k])
  BY DEF Records
<1>3. AttrAdd(rec, id, d) = (IF Has(rec, id) THEN rec ELSE InsertSorted(rec, a))
  BY DEF AttrAdd
<1>4. AttrReplace(rec, id, d) = InsertSorted(less, a)
  BY DEF AttrReplace
<1> HIDE DEF a
<1>5. ~Has(rec, id) => InsertSorted(rec, a) \in Records
  <2>1. PICK j \in 1 .. Len(InsertSorted(rec, a)) : InsertSorted(rec, a)[j] = rec[k]
    BY <1>1, InsertSortedKeeps
  <2> QED
    BY <1>1, <1>2, <2>1, InsertSortedKeeps DEF Records
<1>6. rec[k].id # id
  BY <1>2 DEF IsBrowseGroups
<1>7. less \in Seq(Attrs) /\ InOrder(less) /\ ~Has(less, id) /\ \E j \in 1 .. Len(less) : less[j] = rec[k]
  BY <1>1, <1>6, WithoutKeeps
<1> HIDE DEF less
<1>8. PICK j \in 1 .. Len(less) : less[j] = rec[k]
  BY <1>7
<1>9. PICK i \in 1 .. Len(InsertSorted(less, a)) : InsertSorted(less, a)[i] = less[j]
  BY <1>1, <1>7, InsertSortedKeeps
<1>10. InsertSorted(less, a) \in Records
  BY <1>1, <1>2, <1>7, <1>8, <1>9, InsertSortedKeeps DEF Records
<1> QED
  BY <1>3, <1>4, <1>5, <1>10

BuildStep == [replace: BOOLEAN, id: Ids \ {BrowseGroupsId}, data: Elts]

LEMMA BuiltKeepsRecord ==
    ASSUME NEW rec \in Records, NEW steps \in Seq(BuildStep)
    PROVE  Built(rec, steps) \in Records
<1> DEFINE n == Len(steps)
           l == [i \in 1 .. n |-> i - 1]
           Step(i, p) == IF steps[i].replace THEN AttrReplace(p, steps[i].id, steps[i].data)
                         ELSE AttrAdd(p, steps[i].id, steps[i].data)
           G == [i \in 1 .. n |-> [p \in Records |-> [q \in Records |-> Step(i, p)]]]
           Body(f) == [i \in 0 .. n |-> IF i = 0 THEN rec ELSE Step(i, f[i - 1])]
           last == CHOOSE f : f = Body(f)
<1>1. n \in Nat
  OBVIOUS
<1>2. \A i \in 1 .. n : \A p \in Records : Step(i, p) \in Records
  <2> TAKE i \in 1 .. n
  <2>1. steps[i] \in BuildStep
    OBVIOUS
  <2>2. steps[i].id \in Ids \ {BrowseGroupsId} /\ steps[i].data \in Elts
    BY <2>1 DEF BuildStep
  <2> QED
    BY <2>2, SetAttrKeepsRecord
<1>3. Built(rec, steps) = last[n]
  BY DEF Built
<1> HIDE DEF Step, n
<1>4. \E f : f = Body(f)
  <2>1. l \in [1 .. n -> Nat] /\ \A i \in 1 .. n : l[i] < i
    BY <1>1
  <2>2. G \in [1 .. n -> [Records -> [Records -> Records]]]
    BY <1>2
  <2> HIDE DEF l, G
  <2>3. PICK f \in [0 .. n -> Records] : Follows(n, rec, l, l, G, f)
    BY <1>1, <2>1, <2>2, FunctionOverPositions
  <2>4. ASSUME NEW i \in 0 .. n
        PROVE  f[i] = IF i = 0 THEN rec ELSE Step(i, f[i - 1])
    <3>1. f[i] = IF i = 0 THEN rec ELSE G[i][f[l[i]]][f[l[i]]]
      BY <2>3 DEF Follows
    <3>2. i # 0 => l[i] = i - 1 /\ i - 1 \in 0 .. n /\ i \in 1 .. n
      BY <1>1 DEF l
    <3> QED
      BY <3>1, <3>2 DEF G
  <2> QED
    BY <2>3, <2>4
<1>5. last = Body(last)
  BY <1>4
<1> HIDE DEF last
<1>6. \A i \in 0 .. n : last[i] = IF i = 0 THEN rec ELSE Step(i, last[i - 1])
  BY <1>5
<1> DEFINE S == {i \in 0 .. n : last[i] \in Records}
<1>7. ASSUME NEW i \in 0 .. n, \A j \in 0 .. n : j < i => j \in S
      PROVE  i \in S
  <2>1. CASE i = 0
    BY <1>6, <2>1
  <2>2. CASE i # 0
    <3>1. i \in 1 .. n /\ i - 1 \in 0 .. n /\ i - 1 < i
      BY <1>1, <2>2
    <3>2. last[i - 1] \in Records
      BY <1>7, <3>1
    <3> QED
      BY <1>2, <1>6, <2>2, <3>1, <3>2
  <2> QED
    BY <2>1, <2>2
<1> HIDE DEF S
<1>8. \A i \in 0 .. n : i \in S
  BY <1>1, <1>7, PositionInduction
<1>9. n \in 0 .. n
  BY <1>1
<1> QED
  BY <1>3, <1>8, <1>9 DEF S

(* The values that fit their types.                                        *)
LEMMA FittingValues ==
    /\ \A v \in Nat : v <= 255 => UInt8(v) \in Elts /\ Text8(v) \in Elts
    /\ \A v \in Nat : v \div 256 <= 255 => v \in Ids
    /\ \A v \in Ids : UInt16(v) \in Elts /\ Uuid16(v) \in Elts /\ v \in Nat
    /\ \A v \in Nat : v \div Power[4] <= 255 => UInt32(v) \in Elts
<1>1. DOMAIN Width = {"uint8", "uint16", "uint32", "uuid16"}
  BY DEF Width
<1>2. \A v \in Nat : v <= 255 => ValueFits("uint8", v) /\ ValueFits("text8", v)
  <2>1. Power[1] = 1 /\ \A v \in Nat : v \div 1 = v
    BY SMT DEF Power
  <2> QED
    BY <1>1, <2>1, Widths DEF ValueFits, UCHAR_MAX
<1>3. Power[2] = 256
  BY SMT DEF Power
<1>4. \A v \in Nat : v \div 256 <= 255 => ValueFits("uint16", v)
  BY <1>1, <1>3, Widths DEF ValueFits, UCHAR_MAX
<1>5. \A v \in Nat : ValueFits("uint16", v) => ValueFits("uuid16", v)
  <2>1. "uint16" \in DOMAIN Width /\ Width["uint16"] = Width["uuid16"] /\ "uuid16" # "text8"
    BY <1>1, Widths
  <2> QED
    BY <2>1 DEF ValueFits
<1>6. \A v \in Nat : v \div Power[4] <= 255 => ValueFits("uint32", v)
  BY <1>1, Widths DEF ValueFits, UCHAR_MAX
<1>7. \A t \in DOMAIN Code : \A v \in Nat : ValueFits(t, v) => Leaf(t, v) \in Elts
  BY LeafIsElement
<1>8. /\ "uint8" \in DOMAIN Code /\ "uint16" \in DOMAIN Code /\ "uint32" \in DOMAIN Code
      /\ "uuid16" \in DOMAIN Code /\ "text8" \in DOMAIN Code
  BY Types
<1>9. \A v \in Nat : v <= 255 => UInt8(v) \in Elts /\ Text8(v) \in Elts
  BY <1>2, <1>7, <1>8 DEF UInt8, Text8
<1>10. \A v \in Ids : UInt16(v) \in Elts /\ Uuid16(v) \in Elts /\ v \in Nat
  BY <1>5, <1>7, <1>8 DEF UInt16, Uuid16, Ids
<1>11. \A v \in Nat : v \div 256 <= 255 => v \in Ids
  BY <1>4 DEF Ids
<1>12. \A v \in Nat : v \div Power[4] <= 255 => UInt32(v) \in Elts
  BY <1>6, <1>7, <1>8 DEF UInt32
<1> QED
  BY <1>9, <1>10, <1>11, <1>12

LEMMA BuiltRecords ==
    BrowseGroups \in Records /\ build_hid_mouse \in Records /\ build_hid_multidev \in Records
<1>1. /\ \A v \in Nat : v <= 255 => UInt8(v) \in Elts /\ Text8(v) \in Elts
      /\ \A v \in Ids : UInt16(v) \in Elts /\ Uuid16(v) \in Elts
  BY FittingValues
<1> DEFINE Low == {v \in Nat : v \div 256 <= 255}
<1>2. \A v \in Low : v \in Ids /\ v \in Nat
  BY FittingValues
<1>3. 5 \in Low /\ 4098 \in Low /\ 25966 \in Low /\ 4388 \in Low /\ 8000 \in Low /\ 1033 \in Low
  BY SMT
<1>4. \A v \in Nat : v <= 600 => v \in Low
  BY SMT
<1> HIDE DEF Low
<1>5. /\ \A p \in Elts : Seq8(<<p>>) \in Elts /\ HasParts(Seq8(<<p>>))
      /\ \A p, q \in Elts : Seq8(<<p, q>>) \in Elts
      /\ \A p, q, r \in Elts : Seq8(<<p, q, r>>) \in Elts
  <2>1. ASSUME NEW p \in Elts PROVE Seq8(<<p>>) \in Elts /\ HasParts(Seq8(<<p>>))
    <3>1. <<p>> \in Seq(Elts) /\ <<p>> # <<>>
      OBVIOUS
    <3> QED
      BY <3>1, SeqOfIsElement DEF Seq8
  <2>2. ASSUME NEW p \in Elts, NEW q \in Elts PROVE Seq8(<<p, q>>) \in Elts
    <3>1. <<p, q>> \in Seq(Elts)
      OBVIOUS
    <3> QED
      BY <3>1, SeqOfIsElement DEF Seq8
  <2>3. ASSUME NEW p \in Elts, NEW q \in Elts, NEW r \in Elts PROVE Seq8(<<p, q, r>>) \in Elts
    <3>1. <<p, q, r>> \in Seq(Elts)
      OBVIOUS
    <3> QED
      BY <3>1, SeqOfIsElement DEF Seq8
  <2> QED
    BY <2>1, <2>2, <2>3
<1>6. BrowseGroups \in Records
  <2> DEFINE d == Seq8(<<Uuid16(4098)>>)
             a == [id |-> BrowseGroupsId, data |-> d]
             none == <<>>
  <2>1. d \in Elts /\ HasParts(d)
    BY <1>1, <1>5, <1>2, <1>3
  <2> HIDE DEF d
  <2>2. a \in Attrs /\ IsBrowseGroups(a)
    BY <1>2, <1>3, <2>1 DEF Attrs, IsBrowseGroups, BrowseGroupsId
  <2>3. none \in Seq(Attrs) /\ ~Has(none, BrowseGroupsId) /\ ~Has(none, a.id) /\ InOrder(none)
    BY DEF Has, InOrder
  <2>4. BrowseGroups = InsertSorted(none, a)
    BY <2>3 DEF BrowseGroups, AttrReplace, Without, d
  <2> HIDE DEF a, none
  <2>5. PICK j \in 1 .. Len(InsertSorted(none, a)) : InsertSorted(none, a)[j] = a
    BY <2>2, <2>3, InsertSortedKeeps
  <2> QED
    BY <2>2, <2>3, <2>4, <2>5, InsertSortedKeeps DEF Records
<1>7. ASSUME NEW len \in Nat, len <= 255 PROVE BuildHid(len) \in Records
  <2> DEFINE first == <<Add(6, Seq8(<<UInt16(25966), UInt16(106), UInt16(256)>>)),
                        Put(1, Seq8(<<Uuid16(4388)>>)),
                        Add(9, Seq8(<<Seq8(<<Uuid16(4388), UInt16(256)>>)>>)),
                        Add(4, AccessProtos(17)),
                        Add(13, Seq8(<<AccessProtos(19)>>)),
                        Put(256, Text8(9))>>
             second == PutAll(<<512, 513, 514, 515, 516, 517>>, <<256, 273, 128, 0, 1, 1>>)
             third == <<Add(518, Seq8(<<Seq8(<<UInt8(34), Text8(len)>>)>>)),
                        Add(519, Seq8(<<Seq8(<<UInt16(1033), UInt16(256)>>)>>))>>
             fourth == PutAll(<<520, 522, 523, 524, 525, 526>>, <<0, 1, 256, 8000, 1, 1>>)
  <2>1. \A id \in Low, d \in Elts :
           id # BrowseGroupsId => Add(id, d) \in BuildStep /\ Put(id, d) \in BuildStep
    BY <1>2 DEF Add, Put, BuildStep
  <2>2. \A v \in Low : UInt16(v) \in Elts /\ Uuid16(v) \in Elts
    BY <1>1, <1>2
  <2>3. /\ 256 \in Low /\ 17 \in Low /\ 106 \in Low /\ 19 \in Low /\ 6 \in Low /\ 1 \in Low /\ 9 \in Low
         /\ 4 \in Low /\ 13 \in Low /\ 518 \in Low /\ 519 \in Low
    BY <1>4, SMT
  <2>4. \A channel \in Low : AccessProtos(channel) \in Elts
    <3>1. Uuid16(256) \in Elts /\ Uuid16(17) \in Elts
      BY <2>2, <2>3
    <3> QED
      BY <1>5, <2>2, <3>1 DEF AccessProtos
  <2>5. /\ Add(6, Seq8(<<UInt16(25966), UInt16(106), UInt16(256)>>)) \in BuildStep
        /\ Put(1, Seq8(<<Uuid16(4388)>>)) \in BuildStep
        /\ Add(9, Seq8(<<Seq8(<<Uuid16(4388), UInt16(256)>>)>>)) \in BuildStep
        /\ Add(4, AccessProtos(17)) \in BuildStep
        /\ Add(13, Seq8(<<AccessProtos(19)>>)) \in BuildStep
        /\ Put(256, Text8(9)) \in BuildStep
    <3>1. /\ UInt16(25966) \in Elts /\ UInt16(106) \in Elts /\ UInt16(256) \in Elts
          /\ Uuid16(4388) \in Elts /\ Text8(9) \in Elts
          /\ AccessProtos(17) \in Elts /\ AccessProtos(19) \in Elts
      BY <1>1, <1>3, <2>2, <2>3, <2>4, SMT
    <3> QED
      BY <1>5, <2>1, <2>3, <3>1, SMT DEF BrowseGroupsId
  <2>6. /\ Add(518, Seq8(<<Seq8(<<UInt8(34), Text8(len)>>)>>)) \in BuildStep
         /\ Add(519, Seq8(<<Seq8(<<UInt16(1033), UInt16(256)>>)>>)) \in BuildStep
    <3>1. /\ UInt8(34) \in Elts /\ Text8(len) \in Elts
          /\ UInt16(1033) \in Elts /\ UInt16(256) \in Elts
      BY <1>1, <1>7, <1>3, <2>2, <2>3, SMT
    <3> QED
      BY <1>5, <2>1, <2>3, <3>1, SMT DEF BrowseGroupsId
  <2>7. \A id, v \in Low : id # BrowseGroupsId => Put(id, UInt16(v)) \in BuildStep
    BY <2>1, <2>2
  <2>8. /\ 512 \in Low /\ 513 \in Low /\ 514 \in Low /\ 515 \in Low /\ 516 \in Low /\ 517 \in Low
         /\ 520 \in Low /\ 522 \in Low /\ 523 \in Low /\ 524 \in Low /\ 525 \in Low /\ 526 \in Low
         /\ 273 \in Low /\ 128 \in Low /\ 0 \in Low /\ 1 \in Low /\ 256 \in Low /\ 8000 \in Low
    BY <1>3, <1>4, SMT
  <2>9. first \in Seq(BuildStep)
    BY <2>5
  <2>10. second \in Seq(BuildStep)
    BY <2>7, <2>8, SMT DEF PutAll, BrowseGroupsId
  <2>11. third \in Seq(BuildStep)
    BY <2>6
  <2>12. fourth \in Seq(BuildStep)
    BY <2>7, <2>8, SMT DEF PutAll, BrowseGroupsId
  <2>13. BuildHid(len) = Built(BrowseGroups, first \o second \o third \o fourth)
    BY DEF BuildHid
  <2> HIDE DEF first, second, third, fourth
  <2>14. first \o second \o third \o fourth \in Seq(BuildStep)
    BY <2>9, <2>10, <2>11, <2>12
  <2> QED
    BY <1>6, <2>13, <2>14, BuiltKeepsRecord
<1>8. 54 <= 255 /\ 153 <= 255
  BY SMT
<1> QED
  BY <1>6, <1>7, <1>8 DEF build_hid_mouse, build_hid_multidev

-----------------------------------------------------------------------------
(* What the first attributes of a record take, each with its identifier.   *)
Totals(rec) ==
    LET tot[k \in 0 .. Len(rec)] == IF k = 0 THEN 0 ELSE tot[k - 1] + 3 + SizeOf(rec[k].data)
    IN  tot

LEMMA RecordAttrs ==
    ASSUME NEW rec \in Records
    PROVE  /\ rec \in Seq(Attrs) /\ Len(rec) \in Nat /\ DOMAIN rec = 1 .. Len(rec)
           /\ \A k \in 1 .. Len(rec) : /\ rec[k] \in Attrs /\ rec[k].id \in Nat
                                        /\ rec[k].data \in Elts /\ IsElement(rec[k].data)
                                        /\ SizeOf(rec[k].data) \in Nat
<1>1. rec \in Seq(Attrs)
  BY DEF Records
<1>2. Len(rec) \in Nat /\ DOMAIN rec = 1 .. Len(rec) /\ \A k \in 1 .. Len(rec) : rec[k] \in Attrs
  BY <1>1
<1>3. \A a \in Attrs : a.id \in Nat /\ a.data \in Elts /\ IsElement(a.data)
  BY DEF Attrs, Elts, Ids
<1>4. \A d : IsElement(d) => SizeOf(d) \in Nat
  BY TRUE \in BOOLEAN, 0 \in Nat, GenBufferBounds
<1> QED
  BY <1>1, <1>2, <1>3, <1>4

LEMMA TotalsAre ==
    ASSUME NEW rec \in Records
    PROVE  /\ Totals(rec) \in [0 .. Len(rec) -> Nat] /\ Totals(rec)[0] = 0
           /\ \A k \in 1 .. Len(rec) : Totals(rec)[k] = Totals(rec)[k - 1] + 3 + SizeOf(rec[k].data)
<1> DEFINE n == Len(rec)
           l == [i \in 1 .. n |-> i - 1]
           Step(i, p) == p + 3 + SizeOf(rec[i].data)
           G == [i \in 1 .. n |-> [p \in Nat |-> [q \in Nat |-> Step(i, p)]]]
           Body(f) == [i \in 0 .. n |-> IF i = 0 THEN 0 ELSE Step(i, f[i - 1])]
           tot == Totals(rec)
<1>1. n \in Nat /\ \A i \in 1 .. n : SizeOf(rec[i].data) \in Nat
  BY RecordAttrs
<1>2. tot = CHOOSE f : f = Body(f)
  BY DEF Totals
<1> HIDE DEF n, tot
<1>3. \A i \in 1 .. n : \A p \in Nat : Step(i, p) \in Nat
  BY <1>1
<1> HIDE DEF Step
<1>4. \E f : f = Body(f)
  <2>1. l \in [1 .. n -> Nat] /\ \A i \in 1 .. n : l[i] < i
    BY <1>1
  <2>2. G \in [1 .. n -> [Nat -> [Nat -> Nat]]]
    BY <1>3
  <2> HIDE DEF l, G
  <2>3. PICK f \in [0 .. n -> Nat] : Follows(n, 0, l, l, G, f)
    BY <1>1, <2>1, <2>2, FunctionOverPositions
  <2>4. ASSUME NEW i \in 0 .. n
        PROVE  f[i] = IF i = 0 THEN 0 ELSE Step(i, f[i - 1])
    <3>1. f[i] = IF i = 0 THEN 0 ELSE G[i][f[l[i]]][f[l[i]]]
      BY <2>3 DEF Follows
    <3>2. i # 0 => l[i] = i - 1 /\ i - 1 \in 0 .. n /\ i \in 1 .. n
      BY <1>1 DEF l
    <3> QED
      BY <3>1, <3>2 DEF G
  <2> QED
    BY <2>3, <2>4
<1>5. tot = Body(tot)
  BY <1>2, <1>4
<1>6. \A i \in 0 .. n : tot[i] = IF i = 0 THEN 0 ELSE Step(i, tot[i - 1])
  BY <1>5
<1> DEFINE S == {i \in 0 .. n : tot[i] \in Nat}
<1>7. ASSUME NEW i \in 0 .. n, \A j \in 0 .. n : j < i => j \in S
      PROVE  i \in S
  <2>1. CASE i = 0
    BY <1>6, <2>1
  <2>2. CASE i # 0
    <3>1. i \in 1 .. n /\ i - 1 \in 0 .. n /\ i - 1 < i
      BY <1>1, <2>2
    <3>2. tot[i - 1] \in Nat
      BY <1>7, <3>1
    <3> QED
      BY <1>3, <1>6, <2>2, <3>1, <3>2
  <2> QED
    BY <2>1, <2>2
<1> HIDE DEF S
<1>8. \A i \in 0 .. n : i \in S
  BY <1>1, <1>7, PositionInduction
<1>9. \A i \in 0 .. n : tot[i] \in Nat
  BY <1>8 DEF S
<1>10. tot[0] = 0
  BY <1>1, <1>6
<1>11. \A k \in 1 .. n : tot[k] = tot[k - 1] + 3 + SizeOf(rec[k].data)
  BY <1>1, <1>6 DEF Step
<1> QED
  BY <1>5, <1>9, <1>10, <1>11 DEF tot, n

LEMMA TotalsOrder ==
    ASSUME NEW rec \in Records, NEW k \in 0 .. Len(rec), NEW m \in 0 .. Len(rec), k <= m
    PROVE  Totals(rec)[k] <= Totals(rec)[m]
<1> DEFINE n == Len(rec)
           tot == Totals(rec)
           S == {i \in 0 .. n : k <= i => tot[k] <= tot[i]}
<1>1. n \in Nat /\ tot \in [0 .. n -> Nat] /\ k \in 0 .. n /\ m \in 0 .. n
  BY RecordAttrs, TotalsAre
<1>2. \A i \in 1 .. n : tot[i] >= tot[i - 1]
  <2> TAKE i \in 1 .. n
  <2>1. tot[i] = tot[i - 1] + 3 + SizeOf(rec[i].data) /\ SizeOf(rec[i].data) \in Nat
    BY TotalsAre, RecordAttrs
  <2> HIDE DEF tot, n
  <2>2. tot[i - 1] \in Nat
    BY <1>1
  <2> QED
    BY <2>1, <2>2
<1> HIDE DEF n, tot
<1>3. ASSUME NEW i \in 0 .. n, \A j \in 0 .. n : j < i => j \in S
      PROVE  i \in S
  <2>1. CASE i = 0
    <3>1. k <= i => k = i
      BY <2>1
    <3> QED
      BY <1>1, <2>1, <3>1
  <2>2. CASE i # 0
    <3>1. i \in 1 .. n /\ i - 1 \in 0 .. n /\ i - 1 < i /\ (k <= i => k = i \/ k <= i - 1)
      BY <1>1, <2>2
    <3>2. k <= i - 1 => tot[k] <= tot[i - 1]
      BY <1>3, <3>1
    <3>3. tot[i] >= tot[i - 1]
      BY <1>2, <3>1
    <3>4. tot[k] \in Nat /\ tot[i] \in Nat /\ tot[i - 1] \in Nat
      BY <1>1, <3>1
    <3> QED
      BY <3>1, <3>2, <3>3, <3>4
  <2> QED
    BY <2>1, <2>2
<1> HIDE DEF S
<1>4. \A i \in 0 .. n : i \in S
  BY <1>1, <1>3, PositionInduction
<1>5. m \in S
  BY <1>1, <1>4
<1> QED
  BY <1>5 DEF S, tot

(* The inductive invariant: what is counted is no less than what will be   *)
(* written, and three bytes more when the browse groups are counted, which *)
(* is what the head of the whole record may take.                          *)
RecordTypeOK ==
    /\ attrlist \in Records /\ bufSize \in Nat /\ sizeReadLate \in BOOLEAN
    /\ counted \in 0 .. Len(attrlist) /\ written \in 0 .. counted
    /\ pdu = <<>> \/ IsOuter(pdu)

Progress ==
    /\ written > 0 => counted = Len(attrlist)
    /\ written = 0 => pdu = <<>>

BrowseGroupsCounted == \E k \in 1 .. counted : IsBrowseGroups(attrlist[k])
Room ==
    /\ bufSize >= Totals(attrlist)[counted]
    /\ BrowseGroupsCounted => bufSize >= Totals(attrlist)[counted] + 3
    /\ Content(pdu) = Totals(attrlist)[written]

RecordInv == RecordTypeOK /\ Progress /\ Room

LEMMA EmptyBuffer == Content(<<>>) = 0
  BY DEF Content

LEMMA RecordInvInit == RecordInit => RecordInv
<1> SUFFICES ASSUME RecordInit PROVE RecordInv
  OBVIOUS
<1>1. attrlist \in Records
  BY BuiltRecords DEF RecordInit
<1>2. bufSize = 0 /\ counted = 0 /\ pdu = <<>> /\ written = 0 /\ sizeReadLate \in BOOLEAN
  BY DEF RecordInit
<1>3. Len(attrlist) \in Nat /\ Totals(attrlist)[0] = 0
  BY <1>1, RecordAttrs, TotalsAre
<1>4. ~BrowseGroupsCounted
  BY <1>2 DEF BrowseGroupsCounted
<1> QED
  BY <1>1, <1>2, <1>3, <1>4, EmptyBuffer DEF RecordInv, RecordTypeOK, Progress, Room

(* A request starts with any record and nothing counted or written.        *)
LEMMA StartsAgain ==
    ASSUME attrlist' \in Records, bufSize' \in Nat, counted' = 0, pdu' = <<>>, written' = 0,
           sizeReadLate' \in BOOLEAN
    PROVE  RecordInv'
<1>1. Len(attrlist') \in Nat /\ Totals(attrlist')[0] = 0
  BY RecordAttrs, TotalsAre
<1>2. ~BrowseGroupsCounted'
  BY DEF BrowseGroupsCounted
<1> QED
  BY <1>1, <1>2, EmptyBuffer DEF RecordInv, RecordTypeOK, Progress, Room

LEMMA SetAttrKeepsInv == RecordInv /\ SetAttr => RecordInv'
<1> SUFFICES ASSUME RecordInv, SetAttr PROVE RecordInv'
  OBVIOUS
<1>1. /\ attrlist \in Records /\ bufSize \in Nat /\ counted = 0 /\ written = 0 /\ pdu = <<>>
      /\ sizeReadLate \in BOOLEAN
  BY DEF RecordInv, RecordTypeOK, Progress, SetAttr
<1>2. PICK id \in AttrIds, d \in Elements :
         attrlist' \in {AttrAdd(attrlist, id, d), AttrReplace(attrlist, id, d)}
  BY DEF SetAttr
<1>3. id \in Ids \ {BrowseGroupsId} /\ d \in Elts
  BY RecordAssumption, ReadAssumption DEF Elts, IsElement, Ids
<1>4. attrlist' \in Records
  BY <1>1, <1>2, <1>3, SetAttrKeepsRecord
<1> QED
  BY <1>1, <1>4, StartsAgain DEF SetAttr

LEMMA SetHandleKeepsInv == RecordInv /\ SetHandle => RecordInv'
<1> SUFFICES ASSUME RecordInv, SetHandle PROVE RecordInv'
  OBVIOUS
<1>1. attrlist \in Records /\ sizeReadLate \in BOOLEAN
  BY DEF RecordInv, RecordTypeOK
<1>2. UInt32(65537) \in Elts /\ 0 \in Ids \ {BrowseGroupsId}
  <2>1. Power[4] = 16777216
    BY SMT DEF Power
  <2>2. 65537 \div Power[4] <= 255 /\ 0 \div 256 <= 255 /\ 0 # BrowseGroupsId
    BY <2>1, SMT DEF BrowseGroupsId
  <2> QED
    BY <2>2, FittingValues, SMT
<1>3. attrlist' \in Records
  BY <1>1, <1>2, SetAttrKeepsRecord DEF SetHandle
<1> QED
  BY <1>1, <1>3, StartsAgain DEF SetHandle

LEMMA CountAttrKeepsInv == RecordInv /\ CountAttr => RecordInv'
<1> SUFFICES ASSUME RecordInv, CountAttr PROVE RecordInv'
  OBVIOUS
<1> DEFINE c == counted + 1
           d == attrlist[c].data
           tot == Totals(attrlist)
           more == GenBuffer(sizeReadLate, bufSize, d)
<1>1. /\ attrlist \in Records /\ bufSize \in Nat /\ sizeReadLate \in BOOLEAN
      /\ counted \in 0 .. Len(attrlist) /\ written \in 0 .. counted
      /\ counted < Len(attrlist) /\ Len(attrlist) \in Nat
  BY RecordAttrs DEF RecordInv, RecordTypeOK, CountAttr
<1>2. written = 0 /\ pdu = <<>>
  BY <1>1 DEF RecordInv, Progress
<1>3. /\ counted' = c /\ bufSize' = more
      /\ attrlist' = attrlist /\ pdu' = pdu /\ written' = written /\ sizeReadLate' = sizeReadLate
  BY DEF CountAttr
<1>4. c \in 1 .. Len(attrlist) /\ c - 1 = counted /\ c \in 0 .. Len(attrlist) /\ 0 \in 0 .. c
  BY <1>1
<1>5. IsElement(d) /\ SizeOf(d) \in Nat
  BY <1>1, <1>4, RecordAttrs
<1>6. tot \in [0 .. Len(attrlist) -> Nat] /\ tot[c] = tot[counted] + 3 + SizeOf(d) /\ tot[0] = 0
  BY <1>1, <1>4, TotalsAre
<1>7. /\ more \in Nat /\ more >= bufSize + SizeOf(d) + 3
      /\ HasParts(d) => more >= bufSize + SizeOf(d) + 6
  BY <1>1, <1>5, GenBufferBounds
<1>8. /\ bufSize >= tot[counted]
      /\ BrowseGroupsCounted => bufSize >= tot[counted] + 3
  BY DEF RecordInv, Room
<1>9. tot[counted] \in Nat
  BY <1>1, <1>6
<1>10. BrowseGroupsCounted' => BrowseGroupsCounted \/ HasParts(d)
  <2> SUFFICES ASSUME BrowseGroupsCounted' PROVE BrowseGroupsCounted \/ HasParts(d)
    OBVIOUS
  <2>1. PICK k \in 1 .. c : IsBrowseGroups(attrlist[k])
    BY <1>3 DEF BrowseGroupsCounted
  <2>2. CASE k = c
    BY <2>1, <2>2 DEF IsBrowseGroups
  <2>3. CASE k # c
    <3>1. k \in 1 .. counted
      BY <1>1, <2>3
    <3> QED
      BY <2>1, <3>1 DEF BrowseGroupsCounted
  <2> QED
    BY <2>2, <2>3
<1> HIDE DEF more, tot, d
<1>11. more >= tot[c]
  BY <1>1, <1>5, <1>6, <1>7, <1>8, <1>9
<1>12. BrowseGroupsCounted' => more >= tot[c] + 3
  <2>1. ASSUME BrowseGroupsCounted PROVE more >= tot[c] + 3
    BY <1>1, <1>5, <1>6, <1>7, <1>8, <1>9, <2>1
  <2>2. ASSUME HasParts(d) PROVE more >= tot[c] + 3
    BY <1>1, <1>5, <1>6, <1>7, <1>8, <1>9, <2>2
  <2> QED
    BY <1>10, <2>1, <2>2
<1>13. Room'
  <2>1. Content(pdu) = tot[0]
    BY <1>2, <1>6, EmptyBuffer
  <2> HIDE DEF c
  <2> QED
    BY <1>2, <1>3, <1>11, <1>12, <2>1 DEF Room, tot
<1>14. RecordTypeOK'
  BY <1>1, <1>2, <1>3, <1>4, <1>7 DEF RecordTypeOK
<1>15. Progress'
  BY <1>2, <1>3 DEF Progress
<1> QED
  BY <1>13, <1>14, <1>15 DEF RecordInv

(* The attribute that is written may end up with longer heads, which the   *)
(* sizes have taken into account.                                          *)
LEMMA LengthenedFits ==
    ASSUME NEW d, IsElement(d), Fits(d)
    PROVE  Fits(Lengthened(d))
<1> DEFINE long == Lengthened(d)
           n == Len(d)
<1>1. DOMAIN d = 1 .. n
  BY ElementNodes
<1>2. DOMAIN long = 1 .. n
  BY <1>1 DEF Lengthened
<1>3. ASSUME NEW i \in 1 .. n PROVE ValueFits(long[i].dtd, long[i].val)
  <2> DEFINE t == LongType(d[i], Sizes(d)[d[i].sub])
  <2>1. d[i] \in Node
    BY ElementNodes
  <2>2. long[i] = [d[i] EXCEPT !.dtd = t]
    BY <1>1 DEF Lengthened
  <2>3. t = d[i].dtd \/ t = "seq16"
    BY DEF LongType
  <2> HIDE DEF t, long
  <2>4. long[i].dtd = t /\ long[i].val = d[i].val
    BY <2>1, <2>2 DEF Node
  <2>5. ValueFits(d[i].dtd, d[i].val)
    BY <1>1 DEF Fits
  <2>6. "seq16" \notin DOMAIN Width
    BY DEF Width
  <2> QED
    BY <2>3, <2>4, <2>5, <2>6 DEF ValueFits
<1> QED
  BY <1>2, <1>3 DEF Fits

LEMMA LengthenedKeepsRecord ==
    ASSUME NEW rec \in Records, NEW w \in 1 .. Len(rec)
    PROVE  LET res == [rec EXCEPT ![w].data = Lengthened(rec[w].data)]
           IN  res \in Records /\ Len(res) = Len(rec) /\ Totals(res) = Totals(rec)
<1> DEFINE n == Len(rec)
           long == Lengthened(rec[w].data)
           a == [rec[w] EXCEPT !.data = long]
           res == [rec EXCEPT ![w].data = long]
<1>1. /\ rec \in Seq(Attrs) /\ n \in Nat /\ DOMAIN rec = 1 .. n
      /\ \A k \in 1 .. n : rec[k] \in Attrs /\ IsElement(rec[k].data) /\ Fits(rec[k].data)
  BY RecordAttrs DEF Elts
<1>2. IsElement(long) /\ SizeOf(long) = SizeOf(rec[w].data) /\ (HasParts(long) <=> HasParts(rec[w].data))
  BY <1>1, LengthenedKeepsSizes
<1>3. long \in Elts
  BY <1>1, <1>2, LengthenedFits DEF Elts, IsElement
<1> HIDE DEF long
<1>4. a \in Attrs /\ a.id = rec[w].id /\ a.data = long
  BY <1>1, <1>3 DEF Attrs
<1>5. res = [rec EXCEPT ![w] = a]
  BY <1>1
<1> HIDE DEF a, res
<1>6. /\ res \in Seq(Attrs) /\ Len(res) = n
      /\ \A k \in 1 .. n : res[k] = IF k = w THEN a ELSE rec[k]
  BY <1>1, <1>4, <1>5, ExceptSeq
<1>7. \A k \in 1 .. n : /\ IsBrowseGroups(rec[k]) => IsBrowseGroups(res[k])
                        /\ SizeOf(res[k].data) = SizeOf(rec[k].data)
                        /\ res[k].id = rec[k].id
  BY <1>2, <1>4, <1>6 DEF IsBrowseGroups
<1>8. InOrder(rec) /\ \E k \in 1 .. n : IsBrowseGroups(rec[k])
  BY DEF Records
<1>9. InOrder(res) /\ \E k \in 1 .. n : IsBrowseGroups(res[k])
  BY <1>6, <1>7, <1>8 DEF InOrder
<1>10. res \in Records
  BY <1>6, <1>9 DEF Records
<1>11. Totals(res) = Totals(rec)
  <2> DEFINE x == Totals(res)
             y == Totals(rec)
             S == {i \in 0 .. n : x[i] = y[i]}
  <2>1. /\ x \in [0 .. n -> Nat] /\ x[0] = 0
        /\ \A k \in 1 .. n : x[k] = x[k - 1] + 3 + SizeOf(res[k].data)
    BY <1>6, <1>10, TotalsAre
  <2>2. /\ y \in [0 .. n -> Nat] /\ y[0] = 0
        /\ \A k \in 1 .. n : y[k] = y[k - 1] + 3 + SizeOf(rec[k].data)
    BY TotalsAre
  <2> HIDE DEF x, y, n
  <2>3. ASSUME NEW i \in 0 .. n, \A j \in 0 .. n : j < i => j \in S
        PROVE  i \in S
    <3>1. CASE i = 0
      BY <2>1, <2>2, <3>1
    <3>2. CASE i # 0
      <4>1. i \in 1 .. n /\ i - 1 \in 0 .. n /\ i - 1 < i
        BY <1>1, <3>2
      <4>2. x[i - 1] = y[i - 1]
        BY <2>3, <4>1
      <4>3. x[i] = y[i]
        BY <1>7, <2>1, <2>2, <4>1, <4>2
      <4> QED
        BY <4>3
    <3> QED
      BY <3>1, <3>2
  <2> HIDE DEF S
  <2>4. \A i \in 0 .. n : i \in S
    BY <1>1, <2>3, PositionInduction
  <2>5. \A i \in 0 .. n : x[i] = y[i]
    BY <2>4 DEF S
  <2>6. x = y
    <3>1. x \in [0 .. n -> Nat] /\ y \in [0 .. n -> Nat]
      BY <2>1, <2>2
    <3>2. x = [i \in 0 .. n |-> x[i]] /\ y = [i \in 0 .. n |-> y[i]]
      BY <3>1
    <3>3. [i \in 0 .. n |-> x[i]] = [i \in 0 .. n |-> y[i]]
      BY <2>5
    <3> QED
      BY <3>2, <3>3, Zenon
  <2> QED
    BY <2>6 DEF x, y
<1> QED
  BY <1>6, <1>10, <1>11 DEF res, long, n

LEMMA WriteAttrKeepsInv == RecordInv /\ WriteAttr => RecordInv'
<1> SUFFICES ASSUME RecordInv, WriteAttr PROVE RecordInv'
  OBVIOUS
<1> DEFINE w == written + 1
           a == attrlist[w]
           tot == Totals(attrlist)
           data == AttrPdu(sizeReadLate, a)
           new == AppendToBuf(pdu, data)
<1>1. /\ attrlist \in Records /\ bufSize \in Nat /\ sizeReadLate \in BOOLEAN
      /\ counted = Len(attrlist) /\ written \in 0 .. counted
      /\ written < Len(attrlist) /\ Len(attrlist) \in Nat
      /\ (pdu = <<>> \/ IsOuter(pdu))
  BY RecordAttrs DEF RecordInv, RecordTypeOK, WriteAttr
<1>2. /\ written' = w /\ pdu' = new
      /\ attrlist' = [attrlist EXCEPT ![w].data = Lengthened(attrlist[w].data)]
      /\ bufSize' = bufSize /\ counted' = counted /\ sizeReadLate' = sizeReadLate
  BY DEF WriteAttr
<1>3. w \in 1 .. Len(attrlist) /\ w - 1 = written /\ w \in 0 .. counted /\ w > 0
  BY <1>1
<1>4. a.id \in Nat /\ IsElement(a.data) /\ SizeOf(a.data) \in Nat
  BY <1>1, <1>3, RecordAttrs
<1>5. tot \in [0 .. Len(attrlist) -> Nat] /\ tot[w] = tot[written] + 3 + SizeOf(a.data)
  BY <1>1, <1>3, TotalsAre
<1>6. attrlist' \in Records /\ Len(attrlist') = Len(attrlist) /\ Totals(attrlist') = tot
  BY <1>1, <1>2, <1>3, LengthenedKeepsRecord
<1>7. data \in Seq(Nat) /\ Len(data) = 3 + SizeOf(a.data)
  BY <1>1, <1>4, AttrPduWhole
<1> HIDE DEF a, data, tot
<1>8. IsOuter(new) /\ Content(new) = Content(pdu) + Len(data)
  BY <1>1, <1>7, AppendGrows
<1> HIDE DEF new, w
<1>9. Content(pdu) = tot[written] /\ bufSize >= tot[counted]
      /\ (BrowseGroupsCounted => bufSize >= tot[counted] + 3)
  BY DEF RecordInv, Room, tot
<1>10. tot[written] \in Nat
  BY <1>1, <1>5
<1>11. Content(new) = tot[w]
  BY <1>4, <1>5, <1>7, <1>8, <1>9, <1>10
<1>12. bufSize >= tot[counted] + 3
  <2>1. BrowseGroupsCounted
    BY <1>1 DEF BrowseGroupsCounted, Records
  <2> QED
    BY <1>9, <2>1
<1>13. Room'
  BY <1>2, <1>6, <1>9, <1>11, <1>12 DEF Room
<1>14. RecordTypeOK'
  BY <1>1, <1>2, <1>3, <1>6, <1>8 DEF RecordTypeOK
<1>15. Progress'
  BY <1>1, <1>2, <1>3, <1>6 DEF Progress
<1> QED
  BY <1>13, <1>14, <1>15 DEF RecordInv

(* The inductive invariant holds in every state.                           *)
THEOREM RecordInvariant == RecordSpec => []RecordInv
<1>1. RecordInv /\ [RecordNext]_recordVars => RecordInv'
  <2> SUFFICES ASSUME RecordInv, [RecordNext]_recordVars PROVE RecordInv'
    OBVIOUS
  <2>1. CASE SetAttr
    BY <2>1, SetAttrKeepsInv
  <2>2. CASE CountAttr
    BY <2>2, CountAttrKeepsInv
  <2>3. CASE WriteAttr
    BY <2>3, WriteAttrKeepsInv
  <2>4. CASE SetHandle
    BY <2>4, SetHandleKeepsInv
  <2>5. CASE UNCHANGED recordVars
    BY <2>5 DEF recordVars, RecordInv, RecordTypeOK, Progress, Room, BrowseGroupsCounted
  <2> QED
    BY <2>1, <2>2, <2>3, <2>4, <2>5 DEF RecordNext
<1> QED
  BY <1>1, RecordInvInit, PTL DEF RecordSpec

(* What is written never exceeds the buffer, however sdp_gen_buffer is     *)
(* compiled, and for any attributes added to the record.                   *)
THEOREM RecordNeverOverflows == RecordSpec => []RecordFits
<1>1. RecordInv => RecordFits
  <2> SUFFICES ASSUME RecordInv, pdu # <<>> PROVE Len(pdu) <= bufSize
    BY DEF RecordFits
  <2> DEFINE tot == Totals(attrlist)
  <2>1. /\ attrlist \in Records /\ bufSize \in Nat /\ IsOuter(pdu)
        /\ written \in 0 .. counted /\ counted = Len(attrlist) /\ Len(attrlist) \in Nat
    BY RecordAttrs DEF RecordInv, RecordTypeOK, Progress
  <2>2. BrowseGroupsCounted
    BY <2>1 DEF BrowseGroupsCounted, Records
  <2>3. bufSize >= tot[counted] + 3 /\ Content(pdu) = tot[written]
    BY <2>2 DEF RecordInv, Room
  <2>4. tot[written] <= tot[counted] /\ tot[written] \in Nat /\ tot[counted] \in Nat
    BY <2>1, TotalsOrder, TotalsAre
  <2>5. HeadSize(pdu) \in {2, 3} /\ Content(pdu) = Len(pdu) - HeadSize(pdu) /\ Len(pdu) \in Nat
    BY <2>1, OuterTypes DEF IsOuter, HeadSize, Content
  <2> HIDE DEF tot
  <2> QED
    BY <2>1, <2>3, <2>4, <2>5
<1> QED
  BY <1>1, RecordInvariant, PTL

-----------------------------------------------------------------------------
(* The reader: what it finds at a position depends on what it finds behind *)
(* that position only, so that ExtractLists is what its definition says.   *)
LEMMA TypeOfCode == \A t \in DOMAIN Code : TypeOf(Code[t]) = t
<1>1. \A t, u \in DOMAIN Code : Code[t] = Code[u] => t = u
  BY DEF Code
<1> QED
  BY <1>1 DEF TypeOf

LEMMA NumberIsNat ==
    ASSUME NEW b \in Seq(Nat), NEW at \in Nat \ {0}, NEW width \in {1, 2, 4}, at + width - 1 <= Len(b)
    PROVE  Number(b, at, width) \in Nat
<1>1. \A i \in 1 .. Len(b) : b[i] \in Nat
  OBVIOUS
<1>2. CASE width = 1
  BY <1>1, <1>2 DEF Number
<1>3. CASE width = 2
  <2>1. b[at] \in Nat /\ b[at + 1] \in Nat
    BY <1>1, <1>3
  <2> QED
    BY <2>1, <1>3 DEF Number
<1>4. CASE width = 4
  <2>1. b[at] \in Nat /\ b[at + 1] \in Nat /\ b[at + 2] \in Nat /\ b[at + 3] \in Nat
    BY <1>1, <1>4
  <2>2. Number(b, at, 4) = 256 * (256 * (256 * b[at] + b[at + 1]) + b[at + 2]) + b[at + 3]
    BY DEF Number
  <2>3. \A p, q \in Nat : 256 * p + q \in Nat
    OBVIOUS
  <2>4. 256 * b[at] + b[at + 1] \in Nat
    BY <2>1, <2>3
  <2>5. 256 * (256 * b[at] + b[at + 1]) + b[at + 2] \in Nat
    BY <2>1, <2>3, <2>4
  <2>6. 256 * (256 * (256 * b[at] + b[at + 1]) + b[at + 2]) + b[at + 3] \in Nat
    BY <2>1, <2>3, <2>5
  <2> QED
    BY <2>2, <2>6, <1>4
<1> QED
  BY <1>2, <1>3, <1>4

(* Within bounds: what is found from a position on ends within the bytes.  *)
Within(b, f, at) ==
    \A end \in Nat : f[at][end].len \in Nat /\ at + f[at][end].len <= Len(b) + 1

LEMMA ExtractAttrBounds ==
    ASSUME NEW b \in Seq(Nat), NEW at \in 1 .. Len(b) + 1, NEW f,
           \A i \in at + 1 .. Len(b) + 1 : Within(b, f, i)
    PROVE  /\ ExtractAttr(b, at, f).len \in Nat
           /\ at + ExtractAttr(b, at, f).len <= Len(b) + 1
<1> DEFINE n == Len(b)
           t == TypeOf(b[at])
           h == TypeSize(t)
           body == at + h
           len == IF h = 1 THEN Width[t] ELSE Number(b, at + 1, h - 1)
           known == \E u \in DOMAIN Code : Code[u] = b[at]
           res == ExtractAttr(b, at, f)
<1>1. n \in Nat
  OBVIOUS
<1>2. CASE at > n \/ ~known \/ body - 1 > n
  <2>1. res = NoElement
    BY <1>2 DEF ExtractAttr
  <2> QED
    BY <1>1, <2>1 DEF NoElement
<1>3. CASE ~(at > n \/ ~known \/ body - 1 > n)
  <2>1. t \in DOMAIN Code
    BY <1>3, TypeOfCode
  <2>2. h \in 1 .. 3
    BY <2>1 DEF TypeSize
  <2> HIDE DEF n, h
  <2>3. body \in at + 1 .. n + 1 /\ body \in Nat
    BY <1>1, <1>3, <2>2
  <2>4. t \in {"seq8", "seq16"} \/ h = 1 \/ t = "text8"
    BY <2>1, Types DEF h, TypeSize
  <2>5. len \in Nat
    <3>1. CASE h = 1
      <4>1. t \in {"uint8", "uint16", "uint32", "uuid16"}
        BY <2>1, <3>1, Types DEF h, TypeSize
      <4> QED
        BY <3>1, <4>1, Widths
    <3>2. CASE h # 1
      <4>1. h - 1 \in {1, 2, 4} /\ at + 1 \in Nat \ {0} /\ (at + 1) + (h - 1) - 1 <= Len(b)
        BY <1>1, <1>3, <2>2, <3>2 DEF n
      <4> HIDE DEF h
      <4>2. Number(b, at + 1, h - 1) \in Nat
        BY <4>1, NumberIsNat
      <4> QED
        BY <3>2, <4>2
    <3> QED
      BY <3>1, <3>2
  <2> HIDE DEF len
  <2>6. CASE t \in {"seq8", "seq16"}
    <3>1. res = ExtractSeq(t, f[body][body + len])
      BY <1>3, <2>6 DEF ExtractAttr, n, h, len
    <3>2. Within(b, f, body) /\ body + len \in Nat
      BY <2>3, <2>5 DEF n
    <3> DEFINE l == f[body][body + len].len
    <3>3. l \in Nat /\ body + l <= n + 1
      BY <3>2 DEF Within, n
    <3>4. res.len = h + l
      BY <3>1 DEF ExtractSeq, h
    <3> HIDE DEF l, res, body
    <3>5. res.len \in Nat /\ at + res.len <= n + 1
      BY <1>1, <2>2, <3>3, <3>4 DEF body
    <3> QED
      BY <3>5 DEF res, n
  <2>7. CASE t \notin {"seq8", "seq16"}
    <3>1. res = ExtractLeaf(b, body, t, len)
      BY <1>3, <2>7 DEF ExtractAttr, n, h, len
    <3>2. CASE body + len - 1 > n
      <4>1. res = NoElement
        BY <3>1, <3>2 DEF ExtractLeaf, n
      <4> QED
        BY <1>1, <4>1 DEF NoElement, n
    <3>3. CASE ~(body + len - 1 > n)
      <4>1. res.len = h + len
        BY <3>1, <3>3 DEF ExtractLeaf, h, n
      <4> HIDE DEF res, body
      <4>2. res.len \in Nat /\ at + res.len <= n + 1
        BY <1>1, <2>2, <2>5, <3>3, <4>1 DEF body
      <4> QED
        BY <4>2 DEF res, n
    <3> QED
      BY <3>2, <3>3
  <2> QED
    BY <2>6, <2>7
<1> QED
  BY <1>2, <1>3

LEMMA ExtractAttrAgrees ==
    ASSUME NEW b \in Seq(Nat), NEW at \in 1 .. Len(b) + 1, NEW f, NEW g,
           \A i \in at + 1 .. Len(b) + 1 : f[i] = g[i]
    PROVE  ExtractAttr(b, at, f) = ExtractAttr(b, at, g)
<1> DEFINE t == TypeOf(b[at])
           body == at + TypeSize(t)
           len == IF TypeSize(t) = 1 THEN Width[t] ELSE Number(b, at + 1, TypeSize(t) - 1)
           none == at > Len(b) \/ ~(\E u \in DOMAIN Code : Code[u] = b[at]) \/ body - 1 > Len(b)
<1>1. ~none => f[body] = g[body]
  <2> SUFFICES ASSUME ~none PROVE f[body] = g[body]
    OBVIOUS
  <2>1. t \in DOMAIN Code
    BY TypeOfCode
  <2>2. TypeSize(t) \in 1 .. 3
    BY <2>1 DEF TypeSize
  <2>3. body \in at + 1 .. Len(b) + 1
    BY <2>2
  <2> QED
    BY <2>3
<1> HIDE DEF none
<1>2. \A x : ExtractAttr(b, at, x) =
                IF none THEN NoElement
                ELSE IF t \in {"seq8", "seq16"} THEN ExtractSeq(t, x[body][body + len])
                ELSE ExtractLeaf(b, body, t, len)
  BY DEF ExtractAttr, none
<1> HIDE DEF t, body, len
<1> QED
  BY <1>1, <1>2

LEMMA ExtractStepAgrees ==
    ASSUME NEW b \in Seq(Nat), NEW at \in 1 .. Len(b) + 1, NEW f, NEW g,
           \A i \in at + 1 .. Len(b) + 1 : f[i] = g[i] /\ Within(b, f, i)
    PROVE  /\ ExtractStep(b, at, f) = ExtractStep(b, at, g)
           /\ \A h : h[at] = ExtractStep(b, at, f) => Within(b, h, at)
<1> DEFINE n == Len(b)
           first == ExtractAttr(b, at, f)
           len == first.len
<1>1. n \in Nat
  OBVIOUS
<1>2. first = ExtractAttr(b, at, g)
  BY ExtractAttrAgrees
<1>3. len \in Nat /\ at + len <= n + 1
  BY ExtractAttrBounds
<1>4. len # 0 => at + len \in at + 1 .. n + 1
  BY <1>1, <1>3
<1>5. len # 0 => f[at + len] = g[at + len] /\ Within(b, f, at + len)
  BY <1>4
<1>6. \A x : ExtractAttr(b, at, x) = first =>
         ExtractStep(b, at, x) =
            [end \in Nat |->
                IF at >= end \/ len = 0 THEN [len |-> 0, parts |-> <<>>]
                ELSE [len |-> len + x[at + len][end].len,
                      parts |-> <<first.data>> \o x[at + len][end].parts]]
  BY DEF ExtractStep
<1> HIDE DEF first
<1>7. ExtractStep(b, at, f) = ExtractStep(b, at, g)
  BY <1>2, <1>5, <1>6 DEF first
<1> DEFINE found == [end \in Nat |->
                       IF at >= end \/ len = 0 THEN [len |-> 0, parts |-> <<>>]
                       ELSE [len |-> len + f[at + len][end].len,
                             parts |-> <<first.data>> \o f[at + len][end].parts]]
<1>8. ExtractStep(b, at, f) = found
  BY <1>6 DEF first
<1>9. ASSUME NEW h, h[at] = ExtractStep(b, at, f)
      PROVE  Within(b, h, at)
  <2>1. ASSUME NEW end \in Nat
        PROVE  h[at][end].len \in Nat /\ at + h[at][end].len <= n + 1
    <3>1. h[at][end] = IF at >= end \/ len = 0 THEN [len |-> 0, parts |-> <<>>]
                       ELSE [len |-> len + f[at + len][end].len,
                             parts |-> <<first.data>> \o f[at + len][end].parts]
      BY <1>8, <1>9
    <3>2. CASE at >= end \/ len = 0
      <4>1. h[at][end].len = 0
        BY <3>1, <3>2
      <4> QED
        BY <1>1, <4>1
    <3>3. CASE ~(at >= end \/ len = 0)
      <4> DEFINE l == f[at + len][end].len
      <4>1. h[at][end].len = len + l
        BY <3>1, <3>3
      <4>2. l \in Nat /\ (at + len) + l <= n + 1
        BY <1>5, <3>3 DEF Within
      <4> HIDE DEF l, len, n
      <4> QED
        BY <1>1, <1>3, <4>1, <4>2
    <3> QED
      BY <3>2, <3>3
  <2> QED
    BY <2>1 DEF Within
<1> QED
  BY <1>7, <1>9

LEMMA ExtractListsAre ==
    ASSUME NEW b \in Seq(Nat)
    PROVE  LET f == ExtractLists(b)
           IN  \A at \in 1 .. Len(b) + 1 : f[at] = ExtractStep(b, at, f) /\ Within(b, f, at)
<1> DEFINE n == Len(b)
           Found(f, at) == f[at] = ExtractStep(b, at, f) /\ Within(b, f, at)
           S == {m \in 0 .. n : \E f : \A at \in n + 1 - m .. n + 1 : Found(f, at)}
<1>1. n \in Nat
  OBVIOUS
<1>2. ASSUME NEW from \in 1 .. n + 1, NEW f, \A at \in from + 1 .. n + 1 : Found(f, at)
      PROVE  \E g : \A at \in from .. n + 1 : Found(g, at)
  <2> DEFINE g == [i \in 1 .. n + 1 |-> IF i = from THEN ExtractStep(b, from, f) ELSE f[i]]
  <2>1. g[from] = ExtractStep(b, from, f) /\ \A i \in from + 1 .. n + 1 : g[i] = f[i]
    OBVIOUS
  <2> HIDE DEF g
  <2>2. \A i \in from + 1 .. n + 1 : f[i] = g[i] /\ Within(b, f, i)
    BY <1>2, <2>1
  <2>3. ASSUME NEW at \in from .. n + 1
        PROVE  Found(g, at)
    <3>1. at \in 1 .. Len(b) + 1 /\ \A i \in at + 1 .. Len(b) + 1 : i \in from + 1 .. n + 1
      BY <1>1
    <3>2. \A i \in at + 1 .. Len(b) + 1 : f[i] = g[i] /\ Within(b, f, i)
      BY <2>2, <3>1
    <3>3. /\ ExtractStep(b, at, f) = ExtractStep(b, at, g)
          /\ \A h : h[at] = ExtractStep(b, at, f) => Within(b, h, at)
      BY <3>1, <3>2, ExtractStepAgrees
    <3>4. g[at] = ExtractStep(b, at, f)
      <4>1. CASE at = from
        BY <2>1, <4>1
      <4>2. CASE at # from
        <5>1. at \in from + 1 .. n + 1
          BY <1>1, <4>2
        <5> QED
          BY <1>2, <2>1, <5>1
      <4> QED
        BY <4>1, <4>2
    <3> QED
      BY <3>3, <3>4
  <2> QED
    BY <2>3
<1>3. ASSUME NEW m \in 0 .. n, \A j \in 0 .. n : j < m => j \in S
      PROVE  m \in S
  <2> DEFINE from == n + 1 - m
  <2>1. from \in 1 .. n + 1
    BY <1>1
  <2>2. \E f : \A at \in from + 1 .. n + 1 : Found(f, at)
    <3> HIDE DEF Found
    <3>1. CASE m = 0
      BY <1>1, <3>1
    <3>2. CASE m # 0
      <4>1. m - 1 \in 0 .. n /\ m - 1 < m /\ n + 1 - (m - 1) = from + 1
        BY <1>1, <3>2
      <4>2. m - 1 \in S
        BY <1>3, <4>1
      <4> QED
        BY <4>1, <4>2
    <3> QED
      BY <3>1, <3>2
  <2> HIDE DEF from, Found
  <2>3. PICK f : \A at \in from + 1 .. n + 1 : Found(f, at)
    BY <2>2
  <2>4. \E g : \A at \in from .. n + 1 : Found(g, at)
    BY <1>2, <2>1, <2>3
  <2> QED
    BY <2>4 DEF from
<1> HIDE DEF S
<1>4. \A m \in 0 .. n : m \in S
  BY <1>1, <1>3, PositionInduction
<1>5. n \in 0 .. n /\ n + 1 - n = 1
  BY <1>1
<1>6. PICK f : \A at \in 1 .. n + 1 : Found(f, at)
  BY <1>4, <1>5 DEF S
<1> DEFINE Body(g) == [at \in 1 .. n + 1 |-> ExtractStep(b, at, g)]
           g == [at \in 1 .. n + 1 |-> f[at]]
<1>7. \A at \in 1 .. n + 1 : ExtractStep(b, at, f) = ExtractStep(b, at, g)
  <2> TAKE at \in 1 .. n + 1
  <2>1. \A i \in at + 1 .. Len(b) + 1 : i \in 1 .. n + 1
    BY <1>1
  <2>2. \A i \in at + 1 .. Len(b) + 1 : f[i] = g[i] /\ Within(b, f, i)
    BY <1>6, <2>1
  <2> HIDE DEF g
  <2> QED
    BY <2>2, ExtractStepAgrees
<1>8. g = Body(g)
  BY <1>6, <1>7
<1>9. ExtractLists(b) = CHOOSE h : h = Body(h)
  BY DEF ExtractLists
<1> DEFINE lists == ExtractLists(b)
<1>10. lists = Body(lists)
  BY <1>8, <1>9
<1>11. \A at \in 1 .. n + 1 : lists[at] = ExtractStep(b, at, lists)
  BY <1>10
<1> HIDE DEF lists
<1> DEFINE W == {m \in 0 .. n : Within(b, lists, n + 1 - m)}
<1>12. ASSUME NEW m \in 0 .. n, \A j \in 0 .. n : j < m => j \in W
      PROVE  m \in W
  <2> DEFINE at == n + 1 - m
  <2>1. at \in 1 .. n + 1
    BY <1>1
  <2>2. \A i \in at + 1 .. n + 1 : lists[i] = lists[i] /\ Within(b, lists, i)
    <3> TAKE i \in at + 1 .. n + 1
    <3>1. n + 1 - i \in 0 .. n /\ n + 1 - i < m /\ n + 1 - (n + 1 - i) = i
      BY <1>1
    <3> QED
      BY <1>12, <3>1
  <2> HIDE DEF at
  <2>3. Within(b, lists, at)
    BY <1>11, <2>1, <2>2, ExtractStepAgrees
  <2> QED
    BY <2>3 DEF at
<1> HIDE DEF W
<1>13. \A m \in 0 .. n : m \in W
  BY <1>1, <1>12, PositionInduction
<1>14. \A at \in 1 .. n + 1 : Within(b, lists, at)
  <2> TAKE at \in 1 .. n + 1
  <2>1. n + 1 - at \in 0 .. n /\ n + 1 - (n + 1 - at) = at
    BY <1>1
  <2>2. n + 1 - at \in W
    BY <1>13, <2>1
  <2> QED
    BY <2>1, <2>2 DEF W
<1> QED
  BY <1>11, <1>14 DEF lists, n

(* Some bytes are found at a position of others.                           *)
Occurs(s, b, at) == at + Len(s) <= Len(b) + 1 /\ \A k \in 1 .. Len(s) : b[at + (k - 1)] = s[k]

LEMMA OccursParts ==
    ASSUME NEW b \in Seq(Nat), NEW at \in Nat \ {0}, NEW s \in Seq(Nat), NEW t \in Seq(Nat),
           Occurs(s \o t, b, at)
    PROVE  Occurs(s, b, at) /\ Occurs(t, b, at + Len(s))
<1> DEFINE x == s \o t
           m == Len(s)
           n == Len(t)
<1>1. m \in Nat /\ n \in Nat /\ Len(b) \in Nat
  OBVIOUS
<1>2. Len(x) = m + n
  BY ConcatProperties
<1>3. \A k \in 1 .. m : x[k] = s[k]
  BY <1>1, ConcatProperties
<1>4. \A k \in 1 .. n : x[m + k] = t[k]
  <2> TAKE k \in 1 .. n
  <2>1. m + k \in 1 .. m + n /\ ~(m + k <= m) /\ (m + k) - m = k
    BY <1>1
  <2> QED
    BY <2>1, ConcatProperties
<1>5. at + Len(x) <= Len(b) + 1 /\ \A k \in 1 .. Len(x) : b[at + (k - 1)] = x[k]
  BY DEF Occurs
<1> HIDE DEF x, m, n
<1>6. Occurs(s, b, at)
  <2>1. at + m <= Len(b) + 1
    BY <1>1, <1>2, <1>5
  <2>2. \A k \in 1 .. m : b[at + (k - 1)] = s[k]
    <3> TAKE k \in 1 .. m
    <3>1. k \in 1 .. Len(x)
      BY <1>1, <1>2
    <3> QED
      BY <1>3, <1>5, <3>1
  <2> QED
    BY <2>1, <2>2 DEF Occurs, m
<1>7. Occurs(t, b, at + m)
  <2>1. at + m + n <= Len(b) + 1
    BY <1>1, <1>2, <1>5
  <2>2. \A k \in 1 .. n : b[at + m + (k - 1)] = t[k]
    <3> TAKE k \in 1 .. n
    <3>1. m + k \in 1 .. Len(x) /\ at + ((m + k) - 1) = at + m + (k - 1)
      BY <1>1, <1>2
    <3>2. b[at + ((m + k) - 1)] = x[m + k]
      BY <1>5, <3>1
    <3> QED
      BY <1>4, <3>1, <3>2
  <2> QED
    BY <2>1, <2>2 DEF Occurs, n
<1> QED
  BY <1>6, <1>7 DEF m

(* A number is read as it was written, when it fits into its bytes.        *)
LEMMA DigitsOne == \A v \in Nat : v <= 255 => (v \div 1) % 256 = v
  BY SMT

LEMMA DigitsTwo ==
    \A v \in Nat : v \div 256 <= 255 => (256 * ((v \div 256) % 256)) + ((v \div 1) % 256) = v
  BY SMT

LEMMA DigitsFour ==
    ASSUME NEW v \in Nat, v \div 16777216 <= 255
    PROVE  (256 * ((256 * ((256 * ((v \div 16777216) % 256)) + ((v \div 65536) % 256)))
                     + ((v \div 256) % 256))) + ((v \div 1) % 256) = v
  BY SMT

LEMMA NumberUndoes ==
    ASSUME NEW v \in Nat, NEW width \in {1, 2, 4}, v \div Power[width] <= 255,
           NEW b \in Seq(Nat), NEW at \in Nat \ {0}, Occurs(BigEndian(v, width), b, at)
    PROVE  Number(b, at, width) = v
<1>1. Power[1] = 1 /\ Power[2] = 256 /\ Power[3] = 65536 /\ Power[4] = 16777216
  BY SMT DEF Power
<1>2. BigEndian(v, width) \in Seq(Nat) /\ Len(BigEndian(v, width)) = width
  <2>1. width \in 0 .. 4
    BY SMT
  <2> QED
    BY <2>1, BigEndianBytes
<1>3. \A k \in 1 .. width : b[at + (k - 1)] = (v \div Power[(width - k) + 1]) % 256
  <2>1. \A k \in 1 .. width : b[at + (k - 1)] = BigEndian(v, width)[k]
    BY <1>2 DEF Occurs
  <2>2. \A k \in 1 .. width : BigEndian(v, width)[k] = (v \div Power[(width - k) + 1]) % 256
    BY DEF BigEndian
  <2> QED
    BY <2>1, <2>2
<1>4. CASE width = 1
  <2>1. at + (1 - 1) = at /\ (1 - 1) + 1 = 1 /\ 1 \in 1 .. 1
    OBVIOUS
  <2> DEFINE D(p) == (v \div Power[p]) % 256
  <2> HIDE DEF D
  <2>2. \A k \in 1 .. 1 : b[at + (k - 1)] = D((1 - k) + 1)
    BY <1>3, <1>4 DEF D
  <2>3. b[at] = D(1)
    BY <2>1, <2>2
  <2>4. b[at] = (v \div 1) % 256
    BY <1>1, <2>3 DEF D
  <2>5. v <= 255
    BY SMT, <1>1, <1>4
  <2> QED
    BY <1>4, <2>4, <2>5, DigitsOne DEF Number
<1>5. CASE width = 2
  <2>1. /\ at + (1 - 1) = at /\ (2 - 1) + 1 = 2 /\ 1 \in 1 .. 2
        /\ at + (2 - 1) = at + 1 /\ (2 - 2) + 1 = 1 /\ 2 \in 1 .. 2
    OBVIOUS
  <2> DEFINE D(p) == (v \div Power[p]) % 256
  <2> HIDE DEF D
  <2>2. \A k \in 1 .. 2 : b[at + (k - 1)] = D((2 - k) + 1)
    BY <1>3, <1>5 DEF D
  <2>3. b[at] = D(2) /\ b[at + 1] = D(1)
    BY <2>1, <2>2
  <2>4. b[at] = (v \div 256) % 256 /\ b[at + 1] = (v \div 1) % 256
    BY <1>1, <2>3 DEF D
  <2>5. (256 * ((v \div 256) % 256)) + ((v \div 1) % 256) = v
    BY <1>1, <1>5, DigitsTwo
  <2>6. Number(b, at, 2) = 256 * b[at] + b[at + 1]
    BY DEF Number
  <2> QED
    BY <1>5, <2>4, <2>5, <2>6
<1>6. CASE width = 4
  <2>1. /\ at + (1 - 1) = at /\ (4 - 1) + 1 = 4 /\ 1 \in 1 .. 4
        /\ at + (2 - 1) = at + 1 /\ (4 - 2) + 1 = 3 /\ 2 \in 1 .. 4
        /\ at + (3 - 1) = at + 2 /\ (4 - 3) + 1 = 2 /\ 3 \in 1 .. 4
        /\ at + (4 - 1) = at + 3 /\ (4 - 4) + 1 = 1 /\ 4 \in 1 .. 4
    OBVIOUS
  <2> DEFINE D(p) == (v \div Power[p]) % 256
  <2> HIDE DEF D
  <2>2. \A k \in 1 .. 4 : b[at + (k - 1)] = D((4 - k) + 1)
    BY <1>3, <1>6 DEF D
  <2>3. b[at] = D(4) /\ b[at + 1] = D(3) /\ b[at + 2] = D(2) /\ b[at + 3] = D(1)
    BY <2>1, <2>2
  <2>4. Number(b, at, 4) = 256 * (256 * (256 * b[at] + b[at + 1]) + b[at + 2]) + b[at + 3]
    BY DEF Number
  <2>5. v \div 16777216 <= 255
    BY <1>1, <1>6
  <2>6. (256 * ((256 * ((256 * D(4)) + D(3))) + D(2))) + D(1) = v
    BY <1>1, <2>5, DigitsFour DEF D
  <2> QED
    BY <1>6, <2>3, <2>4, <2>6
<1> QED
  BY <1>4, <1>5, <1>6

(* What a node holds is an element again, so that Copies is what its       *)
(* definition says.                                                        *)
LEMMA CopyNodeIsElement ==
    ASSUME NEW node \in Node, ValueFits(node.dtd, node.val), NEW parts \in Seq(Elts)
    PROVE  CopyNode(node, parts) \in Elts
<1>1. node.dtd \in DOMAIN Code /\ node.val \in Nat
  BY DEF Node
<1>2. CASE IsSeq(node)
  <2>1. node.dtd \in {"seq8", "seq16"}
    BY <1>2 DEF IsSeq
  <2> QED
    BY <1>2, <2>1, SeqOfIsElement DEF CopyNode
<1>3. CASE ~IsSeq(node)
  BY <1>1, <1>3, LeafIsElement DEF CopyNode
<1> QED
  BY <1>2, <1>3

CopyStep(node, parts, rest) == <<CopyNode(node, parts)>> \o rest

LEMMA CopiesAre ==
    ASSUME NEW d, IsElement(d), Fits(d)
    PROVE  /\ \A i \in 0 .. Len(d) : Copies(d)[i] \in Seq(Elts)
           /\ Copies(d)[0] = <<>>
           /\ \A i \in 1 .. Len(d) :
                 Copies(d)[i] = <<CopyNode(d[i], Copies(d)[d[i].sub])>> \o Copies(d)[d[i].next]
<1> DEFINE n == Len(d)
           T == Seq(Elts)
           base == <<>>
           l == [i \in 1 .. n |-> d[i].sub]
           r == [i \in 1 .. n |-> d[i].next]
           G == [i \in 1 .. n |-> [p \in T |-> [q \in T |-> CopyStep(d[i], p, q)]]]
           Body(f) == [i \in 0 .. n |->
                         IF i = NULL THEN base
                         ELSE CopyStep(d[i], f[d[i].sub], f[d[i].next])]
<1>1. \A i \in 1 .. n : \A p, q \in T : CopyStep(d[i], p, q) \in T
  <2> TAKE i \in 1 .. n
  <2> TAKE p, q \in T
  <2>1. CopyNode(d[i], p) \in Elts
    <3>1. d[i] \in Node /\ i \in DOMAIN d
      BY ElementNodes
    <3> QED
      BY <3>1, CopyNodeIsElement DEF Fits
  <2>2. <<CopyNode(d[i], p)>> \in Seq(Elts)
    BY <2>1
  <2> QED
    BY <2>2, ConcatProperties DEF CopyStep
<1>2. base \in T
  OBVIOUS
<1>3. Copies(d) = CHOOSE f : f = Body(f)
  BY DEF Copies, CopyStep
<1> HIDE DEF base, T
<1>4. \E f : f = Body(f)
  <2>1. n \in Nat
    BY ElementNodes
  <2>2. l \in [1 .. n -> Nat] /\ r \in [1 .. n -> Nat] /\ \A i \in 1 .. n : l[i] < i /\ r[i] < i
    BY ElementNodes
  <2>3. G \in [1 .. n -> [T -> [T -> T]]]
    BY <1>1
  <2> HIDE DEF l, r, G, n
  <2>4. PICK f \in [0 .. n -> T] : Follows(n, base, l, r, G, f)
    BY <1>2, <2>1, <2>2, <2>3, FunctionOverPositions
  <2>5. ASSUME NEW i \in 0 .. n
        PROVE  f[i] = IF i = NULL THEN base ELSE CopyStep(d[i], f[d[i].sub], f[d[i].next])
    <3>1. f[i] = IF i = 0 THEN base ELSE G[i][f[l[i]]][f[r[i]]]
      BY <2>4 DEF Follows
    <3>2. i # 0 => /\ l[i] = d[i].sub /\ r[i] = d[i].next
                   /\ d[i].sub \in 0 .. n /\ d[i].next \in 0 .. n /\ i \in 1 .. n
      BY <2>1, ElementNodes DEF l, r, n
    <3> QED
      BY <3>1, <3>2 DEF NULL, G
  <2> QED
    BY <2>4, <2>5
<1>5. Copies(d) = Body(Copies(d))
  BY <1>3, <1>4
<1> DEFINE f == Copies(d)
<1>6. \A i \in 0 .. n : f[i] = IF i = NULL THEN base ELSE CopyStep(d[i], f[d[i].sub], f[d[i].next])
  BY <1>5
<1>7. n \in Nat
  BY ElementNodes
<1> HIDE DEF f
<1>8. \A i \in 1 .. n : f[i] = CopyStep(d[i], f[d[i].sub], f[d[i].next])
  BY <1>6, <1>7 DEF NULL
<1>9. f[0] = base
  BY <1>6, <1>7 DEF NULL
<1>10. \A i \in 1 .. n : f[d[i].sub] \in T /\ f[d[i].next] \in T => f[i] \in T
  BY <1>1, <1>8
<1>11. \A i \in 0 .. n : f[i] \in T
  <2> HIDE DEF n
  <2> QED
    BY <1>2, <1>9, <1>10, TypedNodes DEF n
<1> QED
  BY <1>8, <1>9, <1>11 DEF f, base, T, CopyStep

(* The head of a node says what the node is and how long.                  *)
LEMMA HeadIsRead ==
    ASSUME NEW dtd \in DOMAIN Code, NEW len \in Nat,
           TypeSize(dtd) # 1 => len \div Power[TypeSize(dtd) - 1] <= 255,
           NEW b \in Seq(Nat), NEW p \in Nat \ {0},
           Occurs(<<Code[dtd]>> \o SeqLen(dtd, len), b, p)
    PROVE  /\ b[p] = Code[dtd] /\ TypeOf(b[p]) = dtd
           /\ TypeSize(dtd) # 1 => Number(b, p + 1, TypeSize(dtd) - 1) = len
           /\ p + TypeSize(dtd) <= Len(b) + 1
<1> DEFINE h == TypeSize(dtd)
           head == <<Code[dtd]>> \o SeqLen(dtd, len)
<1>1. h \in 1 .. 3
  BY DEF TypeSize
<1>2. Code[dtd] \in Nat
  BY DEF Code
<1>3. head \in Seq(Nat) /\ Len(head) = h /\ head[1] = Code[dtd]
  BY HeadBytes
<1> HIDE DEF head
<1>4. p + h <= Len(b) + 1 /\ \A k \in 1 .. h : b[p + (k - 1)] = head[k]
  BY <1>3 DEF Occurs, head
<1> HIDE DEF h
<1>5. b[p] = Code[dtd]
  <2>1. 1 \in 1 .. h /\ p + (1 - 1) = p
    BY <1>1
  <2> QED
    BY <1>3, <1>4, <2>1
<1>6. CASE h = 1
  BY <1>4, <1>5, <1>6, TypeOfCode DEF h
<1>7. CASE h # 1
  <2>1. h - 1 \in {1, 2, 4} /\ h - 1 \in 0 .. 4
    BY <1>1, <1>7
  <2>2. SeqLen(dtd, len) = BigEndian(len, h - 1)
    BY <1>7 DEF SeqLen, h
  <2>3. BigEndian(len, h - 1) \in Seq(Nat) /\ <<Code[dtd]>> \in Seq(Nat) /\ Len(<<Code[dtd]>>) = 1
    BY <1>2, <2>1, BigEndianBytes
  <2>4. Occurs(BigEndian(len, h - 1), b, p + 1)
    BY <2>2, <2>3, OccursParts
  <2>5. p + 1 \in Nat \ {0}
    OBVIOUS
  <2>6. Number(b, p + 1, h - 1) = len
    BY <1>7, <2>1, <2>4, <2>5, NumberUndoes DEF h
  <2> QED
    BY <1>4, <1>5, <2>6, TypeOfCode DEF h
<1> QED
  BY <1>6, <1>7

(* What sdp_gen_pdu writes for a node is read as that node, if what it     *)
(* writes for the parts is read as those.                                  *)
LEMMA NodeIsRead ==
    ASSUME NEW node \in Node, ValueFits(node.dtd, node.val), NEW size \in Nat,
           NEW at \in Nat, NEW p \in Nat, IsSeq(node) => p \div 256 <= 255,
           NEW parts \in Texts, LongType(node, p) = node.dtd,
           at + TypeSize(node.dtd) + DataSize(node, p) <= size,
           IsSeq(node) => Len(parts[at + TypeSize(node.dtd)]) = p,
           NEW b \in Seq(Nat), NEW pos \in Nat \ {0},
           Occurs(PduNode(size, at, node, p, parts), b, pos), NEW f, NEW copies,
           IsSeq(node) => LET body == pos + TypeSize(node.dtd)
                          IN  f[body][body + p] = [len |-> p, parts |-> copies]
    PROVE  ExtractAttr(b, pos, f) =
                [len |-> TypeSize(node.dtd) + DataSize(node, p), data |-> CopyNode(node, copies)]
<1> DEFINE dtd == node.dtd
           h == TypeSize(dtd)
           w == DataSize(node, p)
           head == <<Code[dtd]>> \o SeqLen(dtd, w)
           rest == IF IsSeq(node) THEN parts[at + h]
                   ELSE IF size >= at + h + ValueLen(node) THEN Value(node) ELSE <<>>
           body == pos + h
           res == ExtractAttr(b, pos, f)
<1>1. dtd \in DOMAIN Code /\ w \in Nat /\ node.val \in Nat /\ h \in 1 .. 3
  <2>1. dtd \in DOMAIN Code /\ node.val \in Nat
    BY DEF Node
  <2> QED
    BY <2>1, NodeMeasures
<1>2. head \in Seq(Nat) /\ Len(head) = h
  BY <1>1, HeadBytes
<1>3. PduNode(size, at, node, p, parts) = head \o rest
  BY DEF PduNode
<1>4. rest \in Seq(Nat) /\ (~IsSeq(node) => rest = Value(node))
  <2>1. CASE IsSeq(node)
    <3> HIDE DEF h
    <3>1. at + h \in Nat
      BY <1>1
    <3> DEFINE q == at + h
    <3> HIDE DEF q
    <3>2. parts[q] \in Seq(Nat)
      BY <3>1 DEF Texts, q
    <3>3. parts[at + h] \in Seq(Nat)
      BY <3>2 DEF q
    <3> QED
      BY <2>1, <3>3
  <2>2. CASE ~IsSeq(node)
    <3>1. w = ValueLen(node)
      BY <2>2 DEF DataSize
    <3>2. size >= at + h + ValueLen(node)
      BY <1>1, <3>1
    <3> QED
      BY <2>2, <3>2, ValueBytes
  <2> QED
    BY <2>1, <2>2
<1>5. Len(rest) = w
  <2>1. CASE IsSeq(node)
    <3>1. w = p
      BY <2>1 DEF DataSize
    <3> QED
      BY <2>1, <3>1
  <2>2. CASE ~IsSeq(node)
    <3>1. w = ValueLen(node)
      BY <2>2 DEF DataSize
    <3> QED
      BY <1>4, <2>2, <3>1, ValueBytes
  <2> QED
    BY <2>1, <2>2
<1> HIDE DEF rest
<1>6. Occurs(head, b, pos) /\ Occurs(rest, b, pos + h)
  <2> HIDE DEF head, h
  <2>1. Occurs(head \o rest, b, pos)
    BY <1>3
  <2>2. Occurs(head, b, pos) /\ Occurs(rest, b, pos + Len(head))
    BY <1>2, <1>4, <2>1, OccursParts
  <2> QED
    BY <1>2, <2>2
<1>7. h # 1 => w \div Power[h - 1] <= 255
  <2>1. Power[1] = 1 /\ Power[2] = 256
    BY SMT DEF Power
  <2>2. CASE dtd = "text8"
    <3>1. h = 2 /\ w = node.val /\ w <= 255
      BY <1>1, <2>2 DEF TypeSize, DataSize, IsSeq, IsText, ValueLen, ValueFits, UCHAR_MAX
    <3> QED
      BY <1>1, <2>1, <3>1
  <2>3. CASE dtd = "seq8"
    <3>1. h = 2 /\ w = p /\ p <= 255
      BY <1>1, <2>3 DEF TypeSize, DataSize, IsSeq, LongType, UCHAR_MAX
    <3> QED
      BY <1>1, <2>1, <3>1
  <2>4. CASE dtd = "seq16"
    <3>1. h = 3 /\ w = p /\ IsSeq(node)
      BY <1>1, <2>4 DEF TypeSize, DataSize, IsSeq
    <3> QED
      BY <1>1, <2>1, <3>1
  <2>5. CASE dtd \notin {"text8", "seq8", "seq16"}
    BY <2>5 DEF TypeSize
  <2> QED
    BY <2>2, <2>3, <2>4, <2>5
<1>8. /\ b[pos] = Code[dtd] /\ TypeOf(b[pos]) = dtd
      /\ h # 1 => Number(b, pos + 1, h - 1) = w
  <2> HIDE DEF w, dtd
  <2> QED
    BY <1>1, <1>6, <1>7, HeadIsRead
<1>9. body + w <= Len(b) + 1
  BY <1>5, <1>6 DEF Occurs
<1> DEFINE len == IF h = 1 THEN Width[dtd] ELSE Number(b, pos + 1, h - 1)
<1>10. len = w
  <2>1. CASE h = 1
    <3>1. dtd \notin {"text8", "seq8", "seq16"}
      BY <2>1 DEF TypeSize
    <3> QED
      BY <2>1, <3>1 DEF DataSize, IsSeq, IsText, ValueLen
  <2>2. CASE h # 1
    BY <1>8, <2>2
  <2> QED
    BY <2>1, <2>2
<1>11. Len(b) \in Nat
  OBVIOUS
<1>12. ~(pos > Len(b) \/ ~(\E t \in DOMAIN Code : Code[t] = b[pos]) \/ body - 1 > Len(b))
  <2>1. \E t \in DOMAIN Code : Code[t] = b[pos]
    BY <1>1, <1>8
  <2> DEFINE n == Len(b)
  <2> HIDE DEF h, w, n
  <2>2. n \in Nat /\ pos + h + w <= n + 1 /\ h \in Nat /\ h >= 1 /\ w \in Nat
    BY <1>1, <1>9, <1>11 DEF n
  <2>3. ~(pos > n) /\ ~((pos + h) - 1 > n)
    BY <2>2
  <2>4. ~(pos > Len(b)) /\ ~(body - 1 > Len(b))
    BY <2>3 DEF n
  <2> QED
    BY <2>1, <2>4
<1>13. res = IF dtd \in {"seq8", "seq16"} THEN ExtractSeq(dtd, f[body][body + w])
             ELSE ExtractLeaf(b, body, dtd, w)
  <2>1. res = IF dtd \in {"seq8", "seq16"} THEN ExtractSeq(dtd, f[body][body + len])
              ELSE ExtractLeaf(b, body, dtd, len)
    BY <1>8, <1>12 DEF ExtractAttr
  <2> HIDE DEF res, len, w
  <2> QED
    BY <1>10, <2>1
<1> HIDE DEF res
<1>14. CASE IsSeq(node)
  <2>1. w = p /\ dtd \in {"seq8", "seq16"}
    BY <1>14 DEF DataSize, IsSeq
  <2>2. f[body][body + p] = [len |-> p, parts |-> copies]
    BY <1>14
  <2> HIDE DEF w
  <2>3. res = ExtractSeq(dtd, [len |-> p, parts |-> copies])
    BY <1>13, <2>1, <2>2
  <2>4. res = [len |-> h + p, data |-> SeqOf(dtd, copies)]
    BY <2>3 DEF ExtractSeq
  <2> QED
    BY <1>14, <2>1, <2>4 DEF res, w, CopyNode
<1>15. CASE ~IsSeq(node)
  <2>1. w = ValueLen(node) /\ dtd \notin {"seq8", "seq16"}
    BY <1>15 DEF DataSize, IsSeq
  <2>2. ~(body + w - 1 > Len(b))
    <3> HIDE DEF h, w
    <3> QED
      BY <1>1, <1>9, <1>11
  <2> DEFINE data == IF dtd = "text8" THEN Text8(w) ELSE Leaf(dtd, Number(b, body, w))
  <2>3. res = [len |-> h + w, data |-> data]
    <3> HIDE DEF w
    <3> QED
      BY <1>13, <2>1, <2>2 DEF ExtractLeaf
  <2>4. data = Leaf(dtd, node.val)
    <3>1. CASE dtd = "text8"
      <4>1. w = node.val
        BY <1>15, <3>1 DEF DataSize, IsText, ValueLen
      <4> QED
        BY <3>1, <4>1 DEF Text8
    <3>2. CASE dtd # "text8"
      <4>1. w = Width[dtd] /\ Value(node) = BigEndian(node.val, w)
        BY <2>1, <3>2 DEF ValueLen, IsText, Value
      <4>2. w \in {1, 2, 4}
        <5>1. dtd \in {"uint8", "uint16", "uint32", "uuid16"}
          BY <1>1, <2>1, <3>2, Types
        <5> HIDE DEF w, dtd
        <5> QED
          BY <4>1, <5>1, Widths
      <4>3. node.val \div Power[w] <= 255
        <5>1. dtd \in DOMAIN Width
          BY <1>1, <2>1, <3>2, Types DEF Width
        <5>2. node.val \div Power[Width[dtd]] <= UCHAR_MAX
          BY <5>1 DEF ValueFits
        <5> HIDE DEF w, dtd
        <5> QED
          BY <4>1, <5>2 DEF UCHAR_MAX
      <4>4. Occurs(BigEndian(node.val, w), b, body)
        BY <1>4, <1>6, <1>15, <4>1
      <4>5. body \in Nat \ {0}
        BY <1>1
      <4> HIDE DEF w, body
      <4>6. Number(b, body, w) = node.val
        BY <1>1, <4>2, <4>3, <4>4, <4>5, NumberUndoes
      <4> QED
        BY <3>2, <4>6
    <3> QED
      BY <3>1, <3>2
  <2> HIDE DEF data
  <2> QED
    BY <1>15, <2>3, <2>4 DEF res, CopyNode
<1> QED
  BY <1>14, <1>15

-----------------------------------------------------------------------------
(* What an element is written as, node by node.                            *)
IsWritten(size, d, i, at) ==
    LET node == d[i]
        h == TypeSize(node.dtd)
        w == DataSize(node, Sizes(d)[node.sub])
        first == PduNode(size, at, node, Sizes(d)[node.sub], Pdus(size, d)[node.sub])
        rest == Pdus(size, d)[node.next][at + (h + w)]
    IN  /\ h \in 1 .. 3 /\ w \in Nat /\ Sizes(d)[i] = (h + w) + Sizes(d)[node.next]
        /\ LongType(node, Sizes(d)[node.sub]) = node.dtd
        /\ at + h + w <= size /\ at + (h + w) + Sizes(d)[node.next] <= size
        /\ IsSeq(node) => /\ w = Sizes(d)[node.sub] /\ at + h + Sizes(d)[node.sub] <= size
                          /\ Len(Pdus(size, d)[node.sub][at + h]) = Sizes(d)[node.sub]
        /\ Pdus(size, d)[node.sub] \in Texts
        /\ first \in Seq(Nat) /\ Len(first) = h + w /\ rest \in Seq(Nat)
        /\ Pdus(size, d)[i][at] = first \o rest

LEMMA NodeIsWritten ==
    ASSUME NEW d, IsElement(d), Settled(d), NEW size \in Nat, NEW i \in 1 .. Len(d), NEW at \in Nat,
           at + Sizes(d)[i] <= size
    PROVE  IsWritten(size, d, i, at)
<1> DEFINE n == Len(d)
           z == Sizes(d)
           x == Pdus(size, d)
           node == d[i]
           a == node.sub
           c == node.next
           h == TypeSize(node.dtd)
           w == DataSize(node, z[a])
<1>1. x \in [0 .. n -> Texts] /\ z \in [0 .. n -> Nat]
  BY PdusAre, SizesAre
<1>2. /\ x[i] = PduStep(size, node, z[a], x[a], x[c])
      /\ z[i] = SizeStep(node, z[a], z[c])
      /\ LongType(node, z[a]) = node.dtd
  BY PdusAre, SizesAre DEF Settled
<1>3. node \in Node /\ a \in 0 .. n /\ c \in 0 .. n
  BY ElementNodes
<1>4. \A j \in 0 .. n : \A q \in Nat : q + z[j] <= size => Len(x[j][q]) = z[j]
  BY PduSizes
<1> HIDE DEF x, z, n, node, a, c
<1>5. x[a] \in Texts /\ x[c] \in Texts /\ z[a] \in Nat /\ z[c] \in Nat
  BY <1>1, <1>3
<1>6. h \in 1 .. 3 /\ w \in Nat
  BY <1>3, <1>5, NodeMeasures
<1>7. z[i] = (h + w) + z[c] /\ (IsSeq(node) => w = z[a])
  <2>1. z[i] = h + w + z[c]
    BY <1>2 DEF SizeStep
  <2>2. IsSeq(node) => w = z[a]
    BY DEF DataSize
  <2> HIDE DEF h, w
  <2> QED
    BY <1>5, <1>6, <2>1, <2>2
<1>8. at + z[i] <= size
  BY DEF z
<1> HIDE DEF h, w
<1>9. at + h + w <= size /\ at + (h + w) + z[c] <= size /\ at + h \in Nat /\ at + (h + w) \in Nat
  BY <1>5, <1>6, <1>7, <1>8
<1>10. IsSeq(node) => at + h + z[a] <= size /\ Len(x[a][at + h]) = z[a]
  <2> SUFFICES ASSUME IsSeq(node) PROVE at + h + z[a] <= size /\ Len(x[a][at + h]) = z[a]
    OBVIOUS
  <2>1. at + h + z[a] <= size
    BY <1>7, <1>9
  <2> QED
    BY <1>3, <1>4, <1>9, <2>1
<1> DEFINE own == x[a]
           p == z[a]
           first == PduNode(size, at, node, p, own)
<1> HIDE DEF own, p
<1>11. first \in Seq(Nat) /\ Len(first) = h + w
  <2>1. own \in Texts /\ p \in Nat
    BY <1>5 DEF own, p
  <2>2. at + h + w <= size /\ (IsSeq(node) => Len(own[at + h]) = p)
    BY <1>9, <1>10 DEF own, p
  <2>3. first \in Seq(Nat)
    BY <1>3, <2>1, PduNodeBytes
  <2>4. Len(first) = TypeSize(node.dtd) + DataSize(node, p)
    <3>1. at + TypeSize(node.dtd) + DataSize(node, p) <= size
      BY <2>2 DEF h, w, p
    <3>2. IsSeq(node) => Len(own[at + TypeSize(node.dtd)]) = p
      BY <2>2 DEF h
    <3> QED
      BY <1>3, <2>1, <3>1, <3>2, PduNodeWhole
  <2> QED
    BY <2>3, <2>4 DEF h, w, p
<1> HIDE DEF first
<1>12. x[c][at + (h + w)] \in Seq(Nat)
  <2> DEFINE q == at + (h + w)
  <2>1. q \in Nat
    BY <1>9
  <2> HIDE DEF q
  <2>2. x[c][q] \in Seq(Nat)
    BY <1>5, <2>1 DEF Texts
  <2> QED
    BY <2>2 DEF q
<1>13. x[i][at] = first \o x[c][at + (h + w)]
  <2>1. x[i][at] = first \o x[c][at + Len(first)]
    BY <1>2 DEF PduStep, first, own, p
  <2> QED
    BY <1>11, <2>1
<1> QED
  BY <1>2, <1>5, <1>6, <1>7, <1>9, <1>10, <1>11, <1>12, <1>13
     DEF IsWritten, h, w, x, z, n, node, a, c, own, p, first

(* Two bytes are enough for the length of all, and what has been written   *)
(* for a node and those after it is read as copies of them.                *)
Short(b) == Len(b) \div 256 <= UCHAR_MAX

Reads(size, d, b, i) ==
    \A at \in Nat : \A pos \in Nat \ {0} :
       at + Sizes(d)[i] <= size /\ Occurs(Pdus(size, d)[i][at], b, pos) =>
          ExtractLists(b)[pos][pos + Sizes(d)[i]] = [len |-> Sizes(d)[i], parts |-> Copies(d)[i]]

(* The reader finds, where a node has been written, what it holds.         *)
LEMMA NodeReads ==
    ASSUME NEW d, IsElement(d), Settled(d), Fits(d), NEW size \in Nat,
           NEW b \in Seq(Nat), Short(b), NEW i \in 1 .. Len(d), NEW at \in Nat, at + Sizes(d)[i] <= size,
           NEW pos \in Nat \ {0}, Occurs(Pdus(size, d)[i][at], b, pos),
           Reads(size, d, b, d[i].sub)
    PROVE  LET node == d[i]
               len == TypeSize(node.dtd) + DataSize(node, Sizes(d)[node.sub])
           IN  /\ ExtractAttr(b, pos, ExtractLists(b))
                    = [len |-> len, data |-> CopyNode(node, Copies(d)[node.sub])]
               /\ len \in Nat /\ len > 0 /\ Sizes(d)[i] = len + Sizes(d)[node.next]
               /\ at + len + Sizes(d)[node.next] <= size
               /\ Occurs(Pdus(size, d)[node.next][at + len], b, pos + len)
<1> DEFINE z == Sizes(d)
           x == Pdus(size, d)
           f == ExtractLists(b)
           node == d[i]
           a == node.sub
           c == node.next
           h == TypeSize(node.dtd)
           w == DataSize(node, z[a])
           p == z[a]
           own == x[a]
           first == PduNode(size, at, node, p, own)
           rest == x[c][at + (h + w)]
<1>1. IsWritten(size, d, i, at)
  BY NodeIsWritten
<1>2. h \in 1 .. 3 /\ w \in Nat /\ z[i] = (h + w) + z[c] /\ at + (h + w) + z[c] <= size
  BY <1>1 DEF IsWritten
<1>3. LongType(node, p) = node.dtd /\ at + h + w <= size
  BY <1>1 DEF IsWritten
<1>4. IsSeq(node) => w = p /\ at + h + p <= size /\ Len(own[at + h]) = p
  BY <1>1 DEF IsWritten
<1>5. own \in Texts /\ first \in Seq(Nat) /\ Len(first) = h + w /\ rest \in Seq(Nat)
  BY <1>1 DEF IsWritten
<1>6. x[i][at] = first \o rest
  BY <1>1 DEF IsWritten
<1>7. p \in Nat /\ node \in Node /\ ValueFits(node.dtd, node.val)
  <2>1. a \in 0 .. Len(d) /\ node \in Node /\ i \in DOMAIN d
    BY ElementNodes
  <2> HIDE DEF a, node
  <2>2. z[a] \in Nat
    BY <2>1, SizesAre
  <2> QED
    BY <2>1, <2>2 DEF Fits, node
<1>8. Occurs(x[i][at], b, pos)
  OBVIOUS
<1> DEFINE copies == Copies(d)[a]
           body == pos + h
<1>9. \A q \in Nat : \A r \in Nat \ {0} :
         q + p <= size /\ Occurs(own[q], b, r) => f[r][r + p] = [len |-> p, parts |-> copies]
  BY DEF Reads
<1> HIDE DEF x, z, f, p, own, copies, first, rest, h, w
<1>10. Occurs(first, b, pos) /\ Occurs(rest, b, pos + (h + w))
  <2>1. Occurs(first \o rest, b, pos)
    BY <1>6, <1>8
  <2>2. Occurs(first, b, pos) /\ Occurs(rest, b, pos + Len(first))
    BY <1>5, <2>1, OccursParts
  <2> QED
    BY <1>5, <2>2
<1>11. pos + (h + w) <= Len(b) + 1
  BY <1>5, <1>10 DEF Occurs
<1>12. IsSeq(node) => p \div 256 <= 255 /\ f[body][body + p] = [len |-> p, parts |-> copies]
  <2> SUFFICES ASSUME IsSeq(node)
               PROVE  p \div 256 <= 255 /\ f[body][body + p] = [len |-> p, parts |-> copies]
    OBVIOUS
  <2> DEFINE head == <<Code[node.dtd]>> \o SeqLen(node.dtd, w)
             q == at + h
             y == own[q]
  <2>1. first = head \o y
    BY DEF PduNode, first, h, w, p, own
  <2>2. head \in Seq(Nat) /\ Len(head) = h
    <3>1. node.dtd \in DOMAIN Code
      BY <1>7 DEF Node
    <3> QED
      BY <1>2, <3>1, HeadBytes DEF h
  <2>3. q \in Nat
    BY <1>2
  <2> HIDE DEF q
  <2>4. y \in Seq(Nat)
    BY <1>5, <2>3 DEF Texts
  <2> HIDE DEF head, y
  <2>5. Occurs(y, b, pos + Len(head))
    BY <1>10, <2>1, <2>2, <2>4, OccursParts
  <2>6. Occurs(y, b, body)
    BY <2>2, <2>5
  <2>7. body \in Nat \ {0}
    BY <1>2
  <2>8. q + p <= size
    BY <1>4 DEF q
  <2> HIDE DEF body
  <2>9. f[body][body + p] = [len |-> p, parts |-> copies]
    BY <1>9, <2>3, <2>6, <2>7, <2>8 DEF y
  <2>10. p <= Len(b) /\ Len(b) \in Nat
    <3> DEFINE n == Len(b)
    <3>1. n \in Nat
      OBVIOUS
    <3>2. pos + (h + p) <= n + 1
      BY <1>11, <1>4
    <3> HIDE DEF n
    <3>3. p <= n
      BY <1>7, <1>2, <3>1, <3>2
    <3> QED
      BY <3>1, <3>3 DEF n
  <2>11. \A u, v \in Nat : u <= v /\ v \div 256 <= 255 => u \div 256 <= 255
    BY SMT
  <2> QED
    BY <1>7, <2>9, <2>10, <2>11 DEF Short, UCHAR_MAX
<1> HIDE DEF node, a, c
<1>13. ExtractAttr(b, pos, f) = [len |-> h + w, data |-> CopyNode(node, copies)]
  <2>1. at + TypeSize(node.dtd) + DataSize(node, p) <= size
    BY <1>3 DEF h, w, p
  <2>2. IsSeq(node) => Len(own[at + TypeSize(node.dtd)]) = p
    BY <1>4 DEF h
  <2>3. Occurs(PduNode(size, at, node, p, own), b, pos)
    BY <1>10 DEF first
  <2>4. IsSeq(node) => p \div 256 <= 255
    BY <1>12
  <2>5. IsSeq(node) => f[pos + TypeSize(node.dtd)][(pos + TypeSize(node.dtd)) + p]
                          = [len |-> p, parts |-> copies]
    BY <1>12 DEF h
  <2>6. ExtractAttr(b, pos, f) =
             [len |-> TypeSize(node.dtd) + DataSize(node, p), data |-> CopyNode(node, copies)]
    BY SMTT(30), <1>7, <1>3, <1>5, <2>1, <2>2, <2>3, <2>4, <2>5, NodeIsRead
  <2> QED
    BY <2>6 DEF h, w, p
<1>14. h + w \in Nat /\ h + w > 0
  BY <1>2
<1>15. Occurs(x[c][at + (h + w)], b, pos + (h + w))
  BY <1>10 DEF rest
<1> QED
  BY <1>13, <1>14, <1>15, <1>2 DEF f, h, w, x, z, p, copies, a, c, node

(* By induction on the position: what a node has as its parts, and what    *)
(* follows it, comes before it.                                            *)
LEMMA NodesRead ==
    ASSUME NEW d, IsElement(d), Settled(d), Fits(d), NEW size \in Nat, NEW b \in Seq(Nat), Short(b)
    PROVE  \A i \in 0 .. Len(d) : Reads(size, d, b, i)
<1> DEFINE n == Len(d)
           S == {i \in 0 .. n : Reads(size, d, b, i)}
           z == Sizes(d)
           x == Pdus(size, d)
           y == Copies(d)
           f == ExtractLists(b)
<1>1. n \in Nat
  BY ElementNodes
<1>2. ASSUME NEW pos \in Nat \ {0}, pos <= Len(b) + 1, NEW end \in Nat
      PROVE  LET first == ExtractAttr(b, pos, f)
             IN  f[pos][end] = IF pos >= end \/ first.len = 0 THEN [len |-> 0, parts |-> <<>>]
                               ELSE [len |-> first.len + f[pos + first.len][end].len,
                                     parts |-> <<first.data>> \o f[pos + first.len][end].parts]
  <2>1. pos \in 1 .. Len(b) + 1
    BY <1>2
  <2>2. f[pos] = ExtractStep(b, pos, f)
    BY <2>1, ExtractListsAre
  <2> HIDE DEF f
  <2> QED
    BY <1>2, <2>2 DEF ExtractStep
<1>3. Reads(size, d, b, 0)
  <2> SUFFICES ASSUME NEW at \in Nat, NEW pos \in Nat \ {0}, Occurs(x[0][at], b, pos)
               PROVE  f[pos][pos + z[0]] = [len |-> z[0], parts |-> y[0]]
    BY DEF Reads
  <2>1. x[0][at] = <<>> /\ z[0] = 0 /\ y[0] = <<>>
    BY PdusAre, SizesAre, CopiesAre
  <2> HIDE DEF x, z, y, f
  <2>2. Occurs(<<>>, b, pos)
    BY <2>1
  <2>3. pos <= Len(b) + 1
    <3>1. pos + Len(<<>>) <= Len(b) + 1
      BY <2>2 DEF Occurs
    <3> DEFINE m == Len(b)
    <3>2. m \in Nat /\ Len(<<>>) = 0
      OBVIOUS
    <3> HIDE DEF m
    <3>3. pos + 0 <= m + 1
      BY <3>1, <3>2 DEF m
    <3>4. pos <= m + 1
      BY <3>2, <3>3
    <3> QED
      BY <3>4 DEF m
  <2>4. pos + 0 \in Nat /\ pos >= pos + 0
    OBVIOUS
  <2> QED
    BY <1>2, <2>1, <2>3, <2>4
<1>4. ASSUME NEW i \in 0 .. n, \A j \in 0 .. n : j < i => j \in S
      PROVE  i \in S
  <2>1. CASE i = 0
    BY <1>1, <1>3, <2>1
  <2>2. CASE i # 0
    <3> DEFINE node == d[i]
               a == node.sub
               c == node.next
               len == TypeSize(node.dtd) + DataSize(node, z[a])
               data == CopyNode(node, y[a])
    <3>1. i \in 1 .. n /\ a \in 0 .. n /\ c \in 0 .. n /\ a < i /\ c < i
      BY <1>1, <2>2, ElementNodes
    <3>2. Reads(size, d, b, a) /\ Reads(size, d, b, c)
      <4> HIDE DEF a, c, n
      <4> QED
        BY <1>4, <3>1
    <3>3. z[c] \in Nat /\ y[i] = <<data>> \o y[c]
      <4>1. z[c] \in Nat
        BY <3>1, SizesAre
      <4>2. y[i] = <<data>> \o y[c]
        BY <3>1, CopiesAre
      <4> QED
        BY <4>1, <4>2
    <3>4. ASSUME NEW at \in Nat, NEW pos \in Nat \ {0}, at + z[i] <= size, Occurs(x[i][at], b, pos)
          PROVE  f[pos][pos + z[i]] = [len |-> z[i], parts |-> y[i]]
      <4>1. /\ ExtractAttr(b, pos, f) = [len |-> len, data |-> data]
            /\ len \in Nat /\ len > 0 /\ z[i] = len + z[c] /\ at + len + z[c] <= size
            /\ Occurs(x[c][at + len], b, pos + len)
        BY <3>1, <3>2, <3>4, NodeReads
      <4> HIDE DEF len, data
      <4>2. at + len \in Nat /\ pos + len \in Nat \ {0}
        BY <4>1
      <4>3. f[pos + len][(pos + len) + z[c]] = [len |-> z[c], parts |-> y[c]]
        BY <3>2, <4>1, <4>2 DEF Reads
      <4>4. pos <= Len(b) + 1
        <5> DEFINE m == Len(b)
                   k == Len(x[c][at + len])
        <5>1. m \in Nat
          OBVIOUS
        <5>2. x[c][at + len] \in Seq(Nat)
          <6>1. x[c] \in Texts
            BY <3>1, PdusAre
          <6> DEFINE q == at + len
          <6>2. q \in Nat
            BY <4>2
          <6> HIDE DEF q, x
          <6>3. x[c][q] \in Seq(Nat)
            BY <6>1, <6>2 DEF Texts
          <6> QED
            BY <6>3 DEF q
        <5>3. k \in Nat
          BY <5>2, LenProperties
        <5>4. pos + len + k <= m + 1
          BY <4>1 DEF Occurs
        <5> HIDE DEF m, k
        <5>5. pos <= m + 1
          BY <4>1, <5>1, <5>3, <5>4
        <5> QED
          BY <5>5 DEF m
      <4> HIDE DEF f, x, y, z, a, c
      <4> DEFINE k == z[c]
      <4>5. len \in Nat /\ len > 0 /\ z[i] = len + k /\ k \in Nat
        BY <3>3, <4>1
      <4> HIDE DEF k
      <4>6. z[i] \in Nat /\ len # 0
        BY <4>5
      <4>7. pos + z[i] = (pos + len) + k /\ ~(pos >= pos + z[i]) /\ pos + z[i] \in Nat
        BY <4>5, <4>6
      <4>8. pos + z[i] = (pos + len) + z[c] /\ pos + z[i] \in Nat /\ ~(pos >= pos + z[i]) /\ len # 0
        BY <4>6, <4>7 DEF k
      <4> DEFINE end == pos + z[i]
      <4> HIDE DEF end
      <4>9. end \in Nat /\ ~(pos >= end) /\ f[pos + len][end] = [len |-> z[c], parts |-> y[c]]
        BY <4>3, <4>8 DEF end
      <4>10. f[pos][end] = [len |-> len + z[c], parts |-> <<data>> \o y[c]]
        <5> DEFINE first == ExtractAttr(b, pos, f)
        <5>1. first.len = len /\ first.data = data
          BY <4>1
        <5>2. f[pos][end] = IF pos >= end \/ first.len = 0 THEN [len |-> 0, parts |-> <<>>]
                            ELSE [len |-> first.len + f[pos + first.len][end].len,
                                  parts |-> <<first.data>> \o f[pos + first.len][end].parts]
          BY <1>2, <4>4, <4>9 DEF f
        <5> HIDE DEF first
        <5> QED
          BY <4>8, <4>9, <5>1, <5>2
      <4> QED
        BY <3>3, <4>1, <4>10 DEF end
    <3> QED
      BY <3>4, <1>1 DEF Reads
  <2> QED
    BY <2>1, <2>2
<1> HIDE DEF S, n
<1>5. \A i \in 0 .. n : i \in S
  BY <1>1, <1>4, PositionInduction
<1> QED
  BY <1>5 DEF S, n

(* Where an element has been written, sdp_extract_attr finds it.           *)
(* An element is its last node, and nothing follows that.                  *)
LEMMA ElementReads ==
    ASSUME NEW d, IsElement(d), Settled(d), Fits(d), NEW size \in Nat, NEW at \in Nat,
           at + SizeOf(d) <= size, NEW b \in Seq(Nat), Short(b),
           NEW pos \in Nat \ {0}, Occurs(Pdus(size, d)[Len(d)][at], b, pos)
    PROVE  ExtractAttr(b, pos, ExtractLists(b)) = [len |-> SizeOf(d), data |-> Copy(d)] /\ SizeOf(d) > 0
<1> DEFINE n == Len(d)
           node == d[n]
           a == node.sub
           len == TypeSize(node.dtd) + DataSize(node, Sizes(d)[a])
<1>1. n \in 1 .. n /\ n \in Nat /\ a \in 0 .. n
  BY ElementNodes
<1>2. node.next = 0
  BY DEF IsElement, NULL
<1>3. Reads(size, d, b, a)
  BY <1>1, NodesRead
<1>4. at + Sizes(d)[n] <= size
  BY DEF SizeOf
<1>5. /\ ExtractAttr(b, pos, ExtractLists(b)) = [len |-> len, data |-> CopyNode(node, Copies(d)[a])]
      /\ len \in Nat /\ len > 0 /\ Sizes(d)[n] = len + Sizes(d)[node.next]
  BY <1>1, <1>3, <1>4, NodeReads
<1>6. Sizes(d)[0] = 0
  BY SizesAre
<1>7. SizeOf(d) = len
  <2> HIDE DEF len, node
  <2>1. Sizes(d)[n] = len + 0
    BY <1>2, <1>5, <1>6
  <2> QED
    BY <1>5, <2>1 DEF SizeOf
<1>8. Copy(d) = CopyNode(node, Copies(d)[a])
  <2>1. Copies(d)[n] = <<CopyNode(node, Copies(d)[a])>> \o Copies(d)[0]
    BY <1>1, <1>2, CopiesAre
  <2>2. Copies(d)[0] = <<>>
    BY CopiesAre
  <2> DEFINE e == CopyNode(node, Copies(d)[a])
  <2> HIDE DEF e
  <2>3. Copies(d)[n] = <<e>>
    BY <2>1, <2>2 DEF e
  <2> QED
    BY <2>3 DEF Copy, e
<1> HIDE DEF len, a, node
<1> QED
  BY <1>5, <1>7, <1>8

-----------------------------------------------------------------------------
(* What is written for an attribute, and how it is read.                   *)
AttrBytes(size, a) ==
    (<<Code["uint16"]>> \o BigEndian(a.id, 2)) \o Pdus(size, a.data)[Len(a.data)][3]
IsInPdu(a, b, pos) ==
    /\ Settled(a.data)
    /\ \E size \in Nat : 3 + SizeOf(a.data) <= size /\ Occurs(AttrBytes(size, a), b, pos)

LEMMA AttrBytesAre ==
    ASSUME NEW a \in Attrs, NEW size \in Nat
    PROVE  /\ <<Code["uint16"]>> \in Seq(Nat) /\ Len(<<Code["uint16"]>>) = 1
           /\ BigEndian(a.id, 2) \in Seq(Nat) /\ Len(BigEndian(a.id, 2)) = 2
           /\ <<Code["uint16"]>> \o BigEndian(a.id, 2) \in Seq(Nat)
           /\ Len(<<Code["uint16"]>> \o BigEndian(a.id, 2)) = 3
           /\ Pdus(size, a.data)[Len(a.data)][3] \in Seq(Nat)
<1> DEFINE d == a.data
           n == Len(d)
           x == Pdus(size, d)
           tag == <<Code["uint16"]>>
           id == BigEndian(a.id, 2)
<1>1. IsElement(d) /\ a.id \in Nat
  BY DEF Attrs, Elts, Ids
<1>2. id \in Seq(Nat) /\ Len(id) = 2
  BY <1>1, BigEndianBytes
<1>3. tag \in Seq(Nat) /\ Len(tag) = 1
  BY DEF Code
<1> HIDE DEF id, tag
<1>4. tag \o id \in Seq(Nat) /\ Len(tag \o id) = 3
  <2>1. Len(tag \o id) = Len(tag) + Len(id) /\ tag \o id \in Seq(Nat)
    BY <1>2, <1>3, ConcatProperties
  <2> QED
    BY <1>2, <1>3, <2>1
<1>5. n \in 0 .. n
  BY <1>1, ElementNodes
<1>6. x \in [0 .. n -> Texts]
  BY <1>1, PdusAre
<1> HIDE DEF x, n
<1>7. x[n] \in [Nat -> Seq(Nat)]
  BY <1>5, <1>6 DEF Texts
<1>8. x[n][3] \in Seq(Nat)
  BY <1>7
<1> QED
  BY <1>2, <1>3, <1>4, <1>8 DEF id, tag, x, n

LEMMA AttrReads ==
    ASSUME NEW a \in Attrs, NEW b \in Seq(Nat), Short(b), NEW pos \in Nat \ {0}, IsInPdu(a, b, pos)
    PROVE  /\ Number(b, pos + 1, 2) = a.id
           /\ ExtractAttr(b, pos + 3, ExtractLists(b)) = [len |-> SizeOf(a.data), data |-> Copy(a.data)]
           /\ SizeOf(a.data) \in Nat /\ SizeOf(a.data) > 0
           /\ pos + 3 + SizeOf(a.data) <= Len(b) + 1
<1> DEFINE d == a.data
           n == Len(d)
           tag == <<Code["uint16"]>>
           id == BigEndian(a.id, 2)
<1>1. IsElement(d) /\ Fits(d) /\ a.id \in Nat /\ ValueFits("uint16", a.id)
  BY DEF Attrs, Elts, Ids
<1>2. PICK size \in Nat : 3 + SizeOf(d) <= size /\ Occurs(AttrBytes(size, a), b, pos)
  BY DEF IsInPdu
<1>3. Settled(d)
  BY DEF IsInPdu
<1> DEFINE bytes == Pdus(size, d)[n][3]
<1>4. /\ tag \in Seq(Nat) /\ Len(tag) = 1 /\ id \in Seq(Nat) /\ Len(id) = 2
      /\ tag \o id \in Seq(Nat) /\ Len(tag \o id) = 3 /\ bytes \in Seq(Nat)
  BY AttrBytesAre
<1> HIDE DEF tag, id, bytes
<1>5. Occurs((tag \o id) \o bytes, b, pos)
  BY <1>2 DEF AttrBytes, tag, id, bytes
<1>6. Occurs(tag \o id, b, pos) /\ Occurs(bytes, b, pos + 3)
  <2> DEFINE head == tag \o id
  <2>1. head \in Seq(Nat) /\ Len(head) = 3 /\ Occurs(head \o bytes, b, pos)
    BY <1>4, <1>5
  <2> HIDE DEF head
  <2>2. Occurs(head, b, pos) /\ Occurs(bytes, b, pos + Len(head))
    BY <1>4, <2>1, OccursParts
  <2> QED
    BY <2>1, <2>2 DEF head
<1>7. Occurs(id, b, pos + 1)
  BY <1>4, <1>6, OccursParts
<1>8. pos + 1 \in Nat \ {0} /\ pos + 3 \in Nat \ {0}
  OBVIOUS
<1>9. Number(b, pos + 1, 2) = a.id
  <2>1. a.id \div Power[2] <= 255
    <3>1. "uint16" \in DOMAIN Width
      BY DEF Width
    <3> QED
      BY <1>1, <3>1, Widths DEF ValueFits, UCHAR_MAX
  <2>2. 2 \in {1, 2, 4}
    OBVIOUS
  <2> QED
    BY <1>1, <1>7, <1>8, <2>1, <2>2, NumberUndoes DEF id
<1>10. ExtractAttr(b, pos + 3, ExtractLists(b)) = [len |-> SizeOf(d), data |-> Copy(d)] /\ SizeOf(d) > 0
  <2>1. Occurs(Pdus(size, d)[Len(d)][3], b, pos + 3)
    BY <1>6 DEF bytes
  <2>2. 3 \in Nat
    OBVIOUS
  <2> DEFINE p == pos + 3
  <2>3. p \in Nat \ {0} /\ Occurs(Pdus(size, d)[Len(d)][3], b, p)
    BY <1>8, <2>1
  <2> HIDE DEF p
  <2>4. ExtractAttr(b, p, ExtractLists(b)) = [len |-> SizeOf(d), data |-> Copy(d)] /\ SizeOf(d) > 0
    BY <1>1, <1>2, <1>3, <2>2, <2>3, ElementReads
  <2> QED
    BY <2>4 DEF p
<1>11. SizeOf(d) \in Nat
  BY <1>1, TRUE \in BOOLEAN, 0 \in Nat, GenBufferBounds
<1>12. Len(bytes) = SizeOf(d)
  <2>1. n \in 0 .. n
    BY <1>1, ElementNodes
  <2>2. 3 + Sizes(d)[n] <= size /\ 3 \in Nat
    BY <1>2 DEF SizeOf
  <2>3. \A i \in 0 .. n : \A at \in Nat :
           at + Sizes(d)[i] <= size => Len(Pdus(size, d)[i][at]) = Sizes(d)[i]
    BY <1>1, <1>3, PduSizes
  <2> HIDE DEF n
  <2>4. Len(Pdus(size, d)[n][3]) = Sizes(d)[n]
    BY <2>1, <2>2, <2>3
  <2> QED
    BY <2>4 DEF n, bytes, SizeOf
<1>13. pos + 3 + SizeOf(d) <= Len(b) + 1
  BY <1>6, <1>12 DEF Occurs
<1> QED
  BY <1>9, <1>10, <1>11, <1>13

(* sdp_append_to_pdu writes an attribute so, with heads as long as needed. *)
LEMMA AttrPduBytes ==
    ASSUME NEW a \in Attrs, NEW long \in Attrs, long.id = a.id, long.data = Lengthened(a.data),
           NEW late \in BOOLEAN
    PROVE  /\ Settled(long.data)
           /\ \E size \in Nat : 3 + SizeOf(long.data) <= size /\ AttrPdu(late, a) = AttrBytes(size, long)
<1> DEFINE d == a.data
           size == GenBuffer(late, 0, d)
<1>1. IsElement(d)
  BY DEF Attrs, Elts
<1>2. size \in Nat /\ SizeOf(d) \in Nat /\ size >= 0 + SizeOf(d) + 3
  BY <1>1, GenBufferBounds
<1>3. Len(long.data) = Len(d) /\ Settled(long.data) /\ SizeOf(long.data) = SizeOf(d)
  BY <1>1, LengthenedKeepsSizes
<1> HIDE DEF size
<1>4. 3 + SizeOf(long.data) <= size
  BY <1>2, <1>3
<1>5. AttrPdu(late, a) = <<Code["uint16"]>> \o BigEndian(a.id, 2) \o GenPdu(size, 3, d)
  BY DEF AttrPdu, size
<1>6. GenPdu(size, 3, d) = Pdus(size, long.data)[Len(long.data)][3]
  BY <1>3 DEF GenPdu
<1>7. AttrPdu(late, a) = AttrBytes(size, long)
  BY <1>5, <1>6 DEF AttrBytes
<1> QED
  BY <1>2, <1>3, <1>4, <1>7

LEMMA ConcatAt ==
    ASSUME NEW s \in Seq(Nat), NEW t \in Seq(Nat)
    PROVE  /\ s \o t \in Seq(Nat) /\ Len(s \o t) = Len(s) + Len(t)
           /\ \A k \in 1 .. Len(s) : (s \o t)[k] = s[k]
           /\ \A k \in 1 .. Len(t) : (s \o t)[Len(s) + k] = t[k]
<1> DEFINE x == s \o t
           m == Len(s)
           n == Len(t)
<1>1. m \in Nat /\ n \in Nat
  OBVIOUS
<1>2. x \in Seq(Nat) /\ Len(x) = m + n
  BY ConcatProperties
<1>3. \A k \in 1 .. m : x[k] = s[k]
  BY <1>1, ConcatProperties
<1>4. \A k \in 1 .. n : x[m + k] = t[k]
  <2> TAKE k \in 1 .. n
  <2>1. m + k \in 1 .. m + n /\ ~(m + k <= m) /\ (m + k) - m = k
    BY <1>1
  <2> QED
    BY <2>1, ConcatProperties
<1> QED
  BY <1>2, <1>3, <1>4

(* The outer sequence says how long it is, and keeps what is in it when    *)
(* its head grows.                                                         *)
SaysLength(b) ==
    Content(b) \div 256 <= 255 => Number(b, 2, HeadSize(b) - 1) = Content(b)
KeepsBytes(b, new) ==
    \A s \in Seq(Nat) : \A q \in Nat \ {0} :
       Occurs(s, b, HeadSize(b) + q) => Occurs(s, new, HeadSize(new) + q)

LEMMA OuterLenKeeps ==
    ASSUME NEW all, IsOuter(all)
    PROVE  SaysLength(SetOuterLen(all)) /\ KeepsBytes(all, SetOuterLen(all))
<1> DEFINE n == Len(all)
           h == HeadSize(all)
           dtd  == IF n > UCHAR_MAX /\ all[1] = Code["seq8"] THEN "seq16" ELSE TypeOf(all[1])
           body == SubSeq(all, h + 1, n)
           head == <<Code[dtd]>> \o SeqLen(dtd, Len(body))
           new  == head \o body
<1>1. SetOuterLen(all) = new
  BY DEF SetOuterLen, HeadSize
<1>2. /\ all \in Seq(Nat) /\ n \in Nat /\ h \in {2, 3} /\ h <= n
      /\ \A i \in 1 .. n : all[i] \in Nat
  <2>1. all \in Seq(Nat) /\ n \in Nat /\ h \in {2, 3} /\ h <= n
    BY OuterTypes DEF IsOuter, HeadSize
  <2>2. \A i \in 1 .. n : all[i] \in Nat
    BY <2>1
  <2> QED
    BY <2>1, <2>2
<1>3. dtd \in {"seq8", "seq16"} /\ (dtd = "seq8" => n <= 255)
  <2>1. all[1] \in {53, 54}
    BY DEF IsOuter
  <2> QED
    BY <1>2, <2>1, OuterTypes DEF UCHAR_MAX
<1> HIDE DEF h, dtd
<1>4. body \in Seq(Nat) /\ Len(body) = n - h /\ \A i \in 1 .. n - h : body[i] = all[h + i]
  <2>1. \A i \in h + 1 .. n : all[i] \in Nat
    BY <1>2
  <2>2. h + 1 \in Int /\ n \in Int
    BY <1>2
  <2>3. /\ body \in Seq(Nat) /\ Len(body) = (IF h + 1 <= n THEN n - (h + 1) + 1 ELSE 0)
        /\ \A i \in 1 .. n - (h + 1) + 1 : body[i] = all[h + 1 + i - 1]
    BY <2>1, <2>2, SubSeqProperties
  <2> HIDE DEF body, n
  <2> QED
    BY <1>2, <2>3
<1> HIDE DEF body
<1> DEFINE m == Len(body)
           t == TypeSize(dtd)
<1>5. /\ dtd \in DOMAIN Code /\ m \in Nat /\ t \in {2, 3} /\ Code[dtd] \in {53, 54}
      /\ TypeOf(Code[dtd]) = dtd
  <2>1. m \in Nat
    BY <1>4
  <2> HIDE DEF m
  <2> QED
    BY <1>3, <2>1, Types, OuterTypes
<1>6. head \in Seq(Nat) /\ Len(head) = t /\ head[1] = Code[dtd]
  BY <1>5, HeadBytes
<1>7. /\ new \in Seq(Nat) /\ Len(new) = t + m
      /\ \A k \in 1 .. t : new[k] = head[k]
      /\ \A k \in 1 .. m : new[t + k] = body[k]
  <2> HIDE DEF head, t
  <2>1. /\ new \in Seq(Nat) /\ Len(new) = Len(head) + Len(body)
        /\ \A k \in 1 .. Len(head) : new[k] = head[k]
        /\ \A k \in 1 .. Len(body) : new[Len(head) + k] = body[k]
    BY <1>4, <1>6, ConcatAt
  <2> HIDE DEF new
  <2> QED
    BY <1>6, <2>1
<1>8. new[1] = Code[dtd] /\ new # <<>>
  <2>1. 1 \in 1 .. t
    BY <1>5
  <2>2. new[1] = Code[dtd]
    BY <1>6, <1>7, <2>1
  <2>3. Len(new) # 0
    <3> HIDE DEF t, m, new
    <3> QED
      BY <1>5, <1>7
  <2> HIDE DEF new
  <2> QED
    BY <2>2, <2>3
<1>9. HeadSize(new) = t /\ Content(new) = m
  <2> HIDE DEF new
  <2>1. HeadSize(new) = t
    BY <1>5, <1>8 DEF HeadSize
  <2> HIDE DEF t, m
  <2> QED
    BY <1>5, <1>7, <1>8, <2>1 DEF Content
<1>10. Occurs(head, new, 1)
  <2> HIDE DEF head, new, t, m
  <2>1. 1 + Len(head) <= Len(new) + 1
    BY <1>5, <1>6, <1>7
  <2>2. \A k \in 1 .. Len(head) : new[1 + (k - 1)] = head[k]
    <3> TAKE k \in 1 .. Len(head)
    <3>1. k \in 1 .. t /\ 1 + (k - 1) = k
      BY <1>5, <1>6
    <3> QED
      BY <1>7, <3>1
  <2> QED
    BY <2>1, <2>2 DEF Occurs
<1>11. SaysLength(new)
  <2> SUFFICES ASSUME m \div 256 <= 255 PROVE Number(new, 2, t - 1) = m
    BY <1>9 DEF SaysLength
  <2>1. Power[1] = 1 /\ Power[2] = 256
    BY SMT DEF Power
  <2>2. t # 1 => m \div Power[t - 1] <= 255
    <3>1. CASE dtd = "seq8"
      <4>1. t = 2 /\ n <= 255
        BY <1>3, <3>1, OuterTypes
      <4> HIDE DEF t, m, n
      <4>2. m <= 255 /\ m \div 1 = m
        BY <1>2, <1>4, <1>5, <4>1 DEF m
      <4> QED
        BY <2>1, <4>1, <4>2
    <3>2. CASE dtd = "seq16"
      <4>1. t = 3
        BY <3>2, OuterTypes
      <4> HIDE DEF t, m
      <4> QED
        BY <2>1, <4>1
    <3> QED
      BY <1>3, <3>1, <3>2
  <2>3. 1 \in Nat \ {0} /\ 1 + 1 = 2 /\ t # 1
    BY <1>5
  <2> HIDE DEF m, new
  <2>4. Occurs(<<Code[dtd]>> \o SeqLen(dtd, m), new, 1)
    BY <1>10 DEF m
  <2>5. Number(new, 1 + 1, TypeSize(dtd) - 1) = m
    BY <1>5, <1>7, <2>2, <2>3, <2>4, HeadIsRead
  <2> QED
    BY <2>3, <2>5
<1>12. KeepsBytes(all, new)
  <2> SUFFICES ASSUME NEW s \in Seq(Nat), NEW q \in Nat \ {0}, Occurs(s, all, h + q)
               PROVE  Occurs(s, new, t + q)
    BY <1>9 DEF KeepsBytes, h
  <2> DEFINE k == Len(s)
  <2>1. k \in Nat
    OBVIOUS
  <2>2. (h + q) + k <= n + 1 /\ \A i \in 1 .. k : all[(h + q) + (i - 1)] = s[i]
    BY DEF Occurs
  <2> HIDE DEF n, k, new, t, m
  <2>3. (t + q) + k <= Len(new) + 1
    BY <1>2, <1>4, <1>5, <1>7, <2>1, <2>2 DEF m
  <2>4. ASSUME NEW i \in 1 .. k PROVE new[(t + q) + (i - 1)] = s[i]
    <3> DEFINE j == q + (i - 1)
    <3>1. j \in 1 .. n - h /\ t + j = (t + q) + (i - 1) /\ h + j = (h + q) + (i - 1)
      BY <1>2, <1>5, <2>1, <2>2
    <3> HIDE DEF j
    <3>2. j \in 1 .. m
      BY <1>4, <3>1 DEF m
    <3>3. new[t + j] = all[h + j]
      BY <1>4, <1>7, <3>1, <3>2
    <3> QED
      BY <2>2, <3>1, <3>3
  <2> QED
    BY <2>3, <2>4 DEF Occurs, k
<1> QED
  BY <1>1, <1>11, <1>12

(* sdp_append_to_buf says how long all of it is, keeps what is there, and  *)
(* puts data behind it.                                                    *)
LEMMA AppendKeeps ==
    ASSUME NEW dst, dst = <<>> \/ IsOuter(dst), NEW data \in Seq(Nat)
    PROVE  LET new == AppendToBuf(dst, data)
           IN  /\ SaysLength(new)
               /\ dst # <<>> => KeepsBytes(dst, new)
               /\ Occurs(data, new, HeadSize(new) + (Content(dst) + 1))
<1> DEFINE from == IF dst = <<>> THEN <<Code["seq8"], 0>> ELSE dst
           all == from \o data
           new == AppendToBuf(dst, data)
           h == HeadSize(from)
           n == Len(from)
<1>1. new = SetOuterLen(all)
  BY DEF AppendToBuf
<1>2. IsOuter(from) /\ Content(from) = Content(dst)
  <2>1. CASE dst = <<>>
    <3>1. Code["seq8"] = 53
      BY DEF Code
    <3>2. from = <<53, 0>>
      BY <2>1, <3>1
    <3> HIDE DEF from
    <3>3. from \in Seq(Nat) /\ from # <<>> /\ from[1] = 53 /\ Len(from) = 2
      BY <3>2
    <3>4. HeadSize(from) = 2
      BY <3>3, OuterTypes DEF HeadSize
    <3>5. Content(from) = 0 /\ Content(dst) = 0
      BY <2>1, <3>3, <3>4 DEF Content
    <3> QED
      BY <3>3, <3>4, <3>5 DEF IsOuter
  <2>2. CASE dst # <<>>
    BY <2>2
  <2> QED
    BY <2>1, <2>2
<1> HIDE DEF from
<1>3. from \in Seq(Nat) /\ from # <<>> /\ n \in Nat /\ n # 0 /\ from[1] \in {53, 54} /\ h <= n /\ h \in {2, 3}
  BY <1>2, OuterTypes DEF IsOuter, HeadSize
<1> DEFINE c == Content(from)
<1>4. c = n - h
  BY <1>3 DEF Content
<1>5. /\ all \in Seq(Nat) /\ Len(all) = n + Len(data)
      /\ \A k \in 1 .. n : all[k] = from[k]
      /\ \A k \in 1 .. Len(data) : all[n + k] = data[k]
  BY <1>3, ConcatAt
<1> HIDE DEF all, n, h, c
<1>6. Len(data) \in Nat
  OBVIOUS
<1>7. all[1] = from[1] /\ all # <<>>
  <2>1. 1 \in 1 .. n /\ Len(all) # 0
    BY <1>3, <1>5, <1>6
  <2> QED
    BY <1>5, <2>1
<1>8. HeadSize(all) = h
  BY <1>7 DEF HeadSize, h
<1>9. IsOuter(all)
  <2>1. h <= Len(all)
    BY <1>3, <1>5, <1>6
  <2> QED
    BY <1>3, <1>5, <1>7, <1>8, <2>1 DEF IsOuter
<1>10. SaysLength(new) /\ KeepsBytes(all, new)
  BY <1>1, <1>9, OuterLenKeeps
<1> HIDE DEF new
<1>11. dst # <<>> => KeepsBytes(dst, new)
  <2> SUFFICES ASSUME dst # <<>>, NEW s \in Seq(Nat), NEW q \in Nat \ {0},
                      Occurs(s, dst, HeadSize(dst) + q)
               PROVE  Occurs(s, new, HeadSize(new) + q)
    BY DEF KeepsBytes
  <2> DEFINE at == h + q
             k == Len(s)
  <2>1. from = dst
    BY DEF from
  <2>2. Occurs(s, from, at)
    BY <2>1 DEF h
  <2>3. at + k <= n + 1 /\ \A i \in 1 .. k : from[at + (i - 1)] = s[i]
    BY <2>2 DEF Occurs, n
  <2>4. k \in Nat /\ at \in Nat \ {0}
    BY <1>3
  <2> HIDE DEF at, k
  <2>5. at + k <= Len(all) + 1
    BY <1>3, <1>5, <1>6, <2>3, <2>4
  <2>6. ASSUME NEW i \in 1 .. k PROVE all[at + (i - 1)] = s[i]
    <3>1. at + (i - 1) \in 1 .. n
      BY <1>3, <2>3, <2>4
    <3> QED
      BY <1>5, <2>3, <3>1
  <2>7. Occurs(s, all, h + q)
    BY <2>5, <2>6 DEF Occurs, at, k
  <2> QED
    BY <1>8, <1>10, <2>7 DEF KeepsBytes
<1>12. Occurs(data, all, h + (c + 1))
  <2> DEFINE k == Len(data)
             at == h + (c + 1)
  <2>1. at = n + 1
    BY <1>3, <1>4
  <2> HIDE DEF at
  <2>2. at + k <= Len(all) + 1
    BY <1>3, <1>5, <1>6, <2>1
  <2>3. ASSUME NEW i \in 1 .. k PROVE all[at + (i - 1)] = data[i]
    <3>1. at + (i - 1) = n + i
      BY <1>3, <2>1
    <3> QED
      BY <1>5, <3>1
  <2> QED
    BY <2>2, <2>3 DEF Occurs, at
<1>13. c + 1 \in Nat \ {0}
  BY <1>3, <1>4
<1>14. Occurs(data, new, HeadSize(new) + (c + 1))
  BY <1>8, <1>10, <1>12, <1>13 DEF KeepsBytes
<1> QED
  BY <1>2, <1>10, <1>11, <1>14 DEF new, c

(* An attribute that has been written stays readable when another follows. *)
LEMMA InPduMoves ==
    ASSUME NEW a \in Attrs, NEW b, NEW new, KeepsBytes(b, new), NEW q \in Nat \ {0},
           IsInPdu(a, b, HeadSize(b) + q)
    PROVE  IsInPdu(a, new, HeadSize(new) + q)
<1>1. Settled(a.data)
  BY DEF IsInPdu
<1>2. PICK size \in Nat : 3 + SizeOf(a.data) <= size /\ Occurs(AttrBytes(size, a), b, HeadSize(b) + q)
  BY DEF IsInPdu
<1> DEFINE bytes == AttrBytes(size, a)
<1>3. bytes \in Seq(Nat)
  <2> DEFINE s == <<Code["uint16"]>> \o BigEndian(a.id, 2)
             t == Pdus(size, a.data)[Len(a.data)][3]
  <2>1. s \in Seq(Nat) /\ t \in Seq(Nat)
    BY AttrBytesAre
  <2>2. bytes = s \o t
    BY DEF AttrBytes
  <2> HIDE DEF s, t, bytes
  <2> QED
    BY <2>1, <2>2, ConcatAt
<1> HIDE DEF bytes
<1>4. Occurs(bytes, b, HeadSize(b) + q)
  BY <1>2 DEF bytes
<1>5. Occurs(bytes, new, HeadSize(new) + q)
  BY <1>3, <1>4 DEF KeepsBytes
<1> QED
  BY <1>1, <1>2, <1>5 DEF IsInPdu, bytes

-----------------------------------------------------------------------------
(* The attributes that are written are found in the request one after the  *)
(* other, and the request says how long it is.                             *)
PlaceOf(k) == HeadSize(pdu) + (Totals(attrlist)[k - 1] + 1)
Written ==
    /\ written > 0 => pdu # <<>> /\ SaysLength(pdu)
    /\ \A k \in 1 .. written : IsInPdu(attrlist[k], pdu, PlaceOf(k))

LEMMA NothingWritten == written = 0 => Written
  BY DEF Written

LEMMA WriteAttrKeepsWritten == RecordInv /\ Written /\ WriteAttr => Written'
<1> SUFFICES ASSUME RecordInv, Written, WriteAttr PROVE Written'
  OBVIOUS
<1> DEFINE n == Len(attrlist)
           w == written + 1
           a == attrlist[w]
           long == attrlist'[w]
           tot == Totals(attrlist)
           data == AttrPdu(sizeReadLate, a)
           new == AppendToBuf(pdu, data)
<1>1. /\ attrlist \in Records /\ sizeReadLate \in BOOLEAN
      /\ written \in 0 .. n /\ written < n /\ n \in Nat
      /\ (pdu = <<>> \/ IsOuter(pdu))
  BY RecordAttrs DEF RecordInv, RecordTypeOK, WriteAttr
<1>2. /\ written' = w /\ pdu' = new
      /\ attrlist' = [attrlist EXCEPT ![w].data = Lengthened(attrlist[w].data)]
  BY DEF WriteAttr
<1>3. w \in 1 .. n /\ w - 1 = written /\ w > 0
  BY <1>1
<1>4. /\ \A k \in 1 .. n : attrlist[k] \in Attrs
      /\ DOMAIN attrlist = 1 .. n /\ IsElement(a.data) /\ a.id \in Nat
  BY <1>1, <1>3, RecordAttrs
<1>5. attrlist' \in Records /\ Len(attrlist') = n /\ Totals(attrlist') = tot
  BY <1>1, <1>2, <1>3, LengthenedKeepsRecord
<1>6. \A k \in 1 .. n : attrlist'[k] \in Attrs
  BY <1>5, RecordAttrs
<1>7. \A k \in 1 .. written : attrlist'[k] = attrlist[k] /\ k \in 1 .. n
  BY <1>1, <1>2, <1>4
<1>8. long.id = a.id /\ long.data = Lengthened(a.data) /\ long \in Attrs
  <2>1. long \in Attrs
    BY <1>3, <1>6
  <2>2. long = [a EXCEPT !.data = Lengthened(a.data)]
    BY <1>2, <1>3, <1>4
  <2>3. a \in Attrs
    BY <1>3, <1>4
  <2> HIDE DEF long, a
  <2> QED
    BY <2>1, <2>2, <2>3 DEF Attrs
<1>9. data \in Seq(Nat)
  BY <1>1, <1>4, AttrPduWhole
<1>10. tot \in [0 .. n -> Nat]
  BY <1>1, TotalsAre
<1>11. Content(pdu) = tot[written]
  BY DEF RecordInv, Room
<1>12. Settled(long.data) /\ \E size \in Nat : 3 + SizeOf(long.data) <= size /\ data = AttrBytes(size, long)
  BY <1>1, <1>3, <1>4, <1>8, AttrPduBytes
<1> HIDE DEF a, data, tot, long, n
<1>13. /\ SaysLength(new) /\ (pdu # <<>> => KeepsBytes(pdu, new)) /\ IsOuter(new)
       /\ Occurs(data, new, HeadSize(new) + (Content(pdu) + 1))
  BY <1>1, <1>9, AppendKeeps, AppendGrows
<1> HIDE DEF new
<1>14. new # <<>>
  BY <1>13 DEF IsOuter
<1>15. ASSUME NEW k \in 1 .. written
       PROVE  IsInPdu(attrlist'[k], new, HeadSize(new) + (tot[k - 1] + 1))
  <2> DEFINE q == tot[k - 1] + 1
             b == attrlist[k]
  <2>1. q \in Nat \ {0}
    <3>1. k - 1 \in 0 .. n
      BY <1>1
    <3>2. tot[k - 1] \in Nat
      BY <1>10, <3>1
    <3> QED
      BY <3>2
  <2>2. KeepsBytes(pdu, new)
    BY <1>1, <1>13 DEF Written
  <2>3. b \in Attrs /\ attrlist'[k] = b
    BY <1>4, <1>7
  <2>4. IsInPdu(b, pdu, HeadSize(pdu) + q)
    BY DEF Written, PlaceOf, tot
  <2> HIDE DEF q, b
  <2>5. IsInPdu(b, new, HeadSize(new) + q)
    BY <2>1, <2>2, <2>3, <2>4, InPduMoves
  <2> QED
    BY <2>3, <2>5 DEF q
<1>16. IsInPdu(long, new, HeadSize(new) + (tot[w - 1] + 1))
  <2>1. tot[w - 1] = Content(pdu)
    BY <1>3, <1>11
  <2>2. Occurs(data, new, HeadSize(new) + (tot[w - 1] + 1))
    BY <1>13, <2>1
  <2> QED
    BY <1>12, <2>2 DEF IsInPdu
<1>17. \A k \in 1 .. w : IsInPdu(attrlist'[k], new, HeadSize(new) + (tot[k - 1] + 1))
  <2> TAKE k \in 1 .. w
  <2>1. CASE k = w
    BY <1>16, <2>1 DEF long
  <2>2. CASE k # w
    <3>1. k \in 1 .. written
      BY <1>1, <2>2
    <3> QED
      BY <1>15, <3>1
  <2> QED
    BY <2>1, <2>2
<1> HIDE DEF w
<1>18. \A k \in 1 .. w : PlaceOf(k)' = HeadSize(new) + (tot[k - 1] + 1)
  BY <1>2, <1>5 DEF PlaceOf, HeadSize
<1> QED
  BY <1>2, <1>5, <1>13, <1>14, <1>17, <1>18 DEF Written

(* In every state the request has the attributes that are written in their *)
(* order, and says its own length: the inductive invariant for the reader. *)
THEOREM RecordIsWritten == RecordSpec => [](RecordInv /\ Written)
<1>1. RecordInit => RecordInv /\ Written
  BY RecordInvInit, NothingWritten DEF RecordInit
<1>2. RecordInv /\ Written /\ [RecordNext]_recordVars => RecordInv' /\ Written'
  <2> SUFFICES ASSUME RecordInv, Written, [RecordNext]_recordVars PROVE RecordInv' /\ Written'
    OBVIOUS
  <2>1. CASE SetAttr
    <3>1. written' = 0
      BY <2>1 DEF SetAttr, RecordInv, RecordTypeOK
    <3> QED
      BY <2>1, <3>1, SetAttrKeepsInv DEF Written
  <2>2. CASE CountAttr
    <3>1. written' = 0
      <4>1. written = 0
        BY <2>2 DEF CountAttr, RecordInv, RecordTypeOK, Progress
      <4> QED
        BY <2>2, <4>1 DEF CountAttr
    <3> QED
      BY <2>2, <3>1, CountAttrKeepsInv DEF Written
  <2>3. CASE WriteAttr
    BY <2>3, WriteAttrKeepsInv, WriteAttrKeepsWritten
  <2>4. CASE SetHandle
    <3>1. written' = 0
      BY <2>4 DEF SetHandle
    <3> QED
      BY <2>4, <3>1, SetHandleKeepsInv DEF Written
  <2>5. CASE UNCHANGED recordVars
    <3>1. Written' /\ UNCHANGED recordVars
      BY <2>5 DEF recordVars, Written, PlaceOf, HeadSize
    <3> QED
      BY <3>1 DEF recordVars, RecordInv, RecordTypeOK, Progress, Room, BrowseGroupsCounted
  <2> QED
    BY <2>1, <2>2, <2>3, <2>4, <2>5 DEF RecordNext
<1> QED
  BY <1>1, <1>2, PTL DEF RecordSpec

-----------------------------------------------------------------------------
(* The first attributes of a record as a reader gets them.                 *)
ReadBack(rec, k) == [j \in 1 .. k |-> [id |-> rec[j].id, data |-> Copy(rec[j].data)]]

LEMMA CopyIsElement == \A d \in Elts : Copy(d) \in Elts
<1> SUFFICES ASSUME NEW d \in Elts PROVE Copy(d) \in Elts
  OBVIOUS
<1> DEFINE n == Len(d)
           node == d[n]
           parts == Copies(d)[node.sub]
           rest == Copies(d)[node.next]
           x == CopyNode(node, parts)
<1>1. IsElement(d) /\ Fits(d)
  BY DEF Elts
<1>2. n \in 1 .. n /\ node \in Node /\ node.sub \in 0 .. n /\ node.next \in 0 .. n /\ n \in DOMAIN d
  <2>1. n \in 1 .. n
    BY <1>1, ElementNodes
  <2> HIDE DEF n
  <2> QED
    BY <1>1, <2>1, ElementNodes DEF n
<1>3. ValueFits(node.dtd, node.val)
  BY <1>1, <1>2 DEF Fits
<1>4. parts \in Seq(Elts) /\ rest \in Seq(Elts) /\ Copies(d)[n] = <<x>> \o rest
  BY <1>1, <1>2, CopiesAre
<1> HIDE DEF n, node, parts, rest
<1>5. x \in Elts
  BY <1>2, <1>3, <1>4, CopyNodeIsElement
<1> HIDE DEF x
<1>6. (<<x>> \o rest)[1] = x
  BY <1>4, <1>5
<1> QED
  BY <1>4, <1>5, <1>6 DEF Copy, n

LEMMA ReadBackIs ==
    ASSUME NEW rec \in Seq(Attrs), NEW k \in 0 .. Len(rec)
    PROVE  /\ ReadBack(rec, k) \in Seq(Attrs) /\ Len(ReadBack(rec, k)) = k
           /\ \A j \in 1 .. k : /\ ReadBack(rec, k)[j] = [id |-> rec[j].id, data |-> Copy(rec[j].data)]
                                /\ ReadBack(rec, k)[j] \in Attrs
<1> DEFINE n == Len(rec)
           At(j) == [id |-> rec[j].id, data |-> Copy(rec[j].data)]
<1>1. n \in Nat /\ k \in Nat /\ k <= n
  OBVIOUS
<1>2. ASSUME NEW j \in 1 .. k PROVE At(j) \in Attrs
  <2>1. rec[j] \in Attrs
    BY <1>1
  <2> QED
    BY <2>1, CopyIsElement DEF Attrs
<1>3. ReadBack(rec, k) = [j \in 1 .. k |-> At(j)]
  BY DEF ReadBack
<1> HIDE DEF At, n
<1>4. ReadBack(rec, k) \in [1 .. k -> Attrs]
  BY <1>2, <1>3
<1>5. ReadBack(rec, k) \in Seq(Attrs) /\ Len(ReadBack(rec, k)) = k
  BY <1>1, <1>4
<1> QED
  BY <1>2, <1>3, <1>5 DEF At

(* An attribute that is read is put behind those before it.                *)
LEMMA ReplaceAppends ==
    ASSUME NEW rec \in Seq(Attrs), InOrder(rec), NEW k \in 1 .. Len(rec)
    PROVE  AttrReplace(ReadBack(rec, k - 1), rec[k].id, Copy(rec[k].data)) = ReadBack(rec, k)
<1> DEFINE m == k - 1
           old == ReadBack(rec, m)
           all == ReadBack(rec, k)
           a == [id |-> rec[k].id, data |-> Copy(rec[k].data)]
           res == InsertSorted(old, a)
<1>1. m \in 0 .. Len(rec) /\ k \in 0 .. Len(rec) /\ k = m + 1 /\ m \in Nat
  OBVIOUS
<1>2. /\ old \in Seq(Attrs) /\ Len(old) = m
      /\ \A j \in 1 .. m : old[j] = [id |-> rec[j].id, data |-> Copy(rec[j].data)] /\ old[j] \in Attrs
  BY <1>1, ReadBackIs
<1>3. /\ all \in Seq(Attrs) /\ Len(all) = k
      /\ \A j \in 1 .. k : all[j] = [id |-> rec[j].id, data |-> Copy(rec[j].data)] /\ all[j] \in Attrs
  BY <1>1, ReadBackIs
<1>4. a \in Attrs /\ a.id = rec[k].id /\ a.id \in Nat /\ all[k] = a
  <2>1. k \in 1 .. k
    OBVIOUS
  <2>2. all[k] = a /\ a \in Attrs
    BY <1>3, <2>1
  <2> QED
    BY <2>2 DEF Attrs, Ids
<1>5. \A j \in 1 .. m : old[j] = all[j] /\ old[j].id < a.id /\ old[j].id \in Nat
  <2> TAKE j \in 1 .. m
  <2>1. j \in 1 .. k /\ j \in 1 .. Len(rec) /\ j < k
    BY <1>1
  <2>2. old[j] = all[j] /\ old[j].id = rec[j].id
    BY <1>2, <1>3, <2>1
  <2>3. rec[j].id < rec[k].id
    BY <2>1 DEF InOrder
  <2>4. old[j].id \in Nat
    BY <1>2 DEF Attrs, Ids
  <2> QED
    BY <1>4, <2>2, <2>3, <2>4
<1> HIDE DEF old, all, m
<1>6. AttrReplace(old, rec[k].id, Copy(rec[k].data)) = res
  <2>1. DOMAIN old = 1 .. m
    BY <1>2
  <2>2. ~Has(old, rec[k].id)
    <3> HIDE DEF a
    <3> QED
      BY <1>4, <1>5, <2>1 DEF Has
  <2> QED
    BY <2>2 DEF AttrReplace, Without
<1> HIDE DEF a
<1>7. PICK n : IsInserted(old, a, n, res)
  BY <1>2, <1>4, InsertSortedAt
<1> HIDE DEF res
<1>8. /\ n \in 0 .. m /\ res \in Seq(Attrs) /\ Len(res) = m + 1
      /\ \A j \in 1 .. n : res[j] = old[j]
      /\ res[n + 1] = a
      /\ n < m => old[n + 1].id >= a.id
  BY <1>2, <1>7 DEF IsInserted, Before
<1>9. n = m
  <2> SUFFICES ASSUME n # m PROVE FALSE
    OBVIOUS
  <2>1. n < m /\ n + 1 \in 1 .. m
    BY <1>1, <1>8
  <2>2. old[n + 1].id >= a.id /\ old[n + 1].id < a.id /\ old[n + 1].id \in Nat
    BY <1>5, <1>8, <2>1
  <2> QED
    BY <1>4, <2>2
<1>10. \A j \in 1 .. k : res[j] = all[j]
  <2> TAKE j \in 1 .. k
  <2>1. CASE j = k
    BY <1>1, <1>4, <1>8, <1>9, <2>1
  <2>2. CASE j # k
    <3>1. j \in 1 .. m
      BY <1>1, <2>2
    <3> QED
      BY <1>5, <1>8, <1>9, <3>1
  <2> QED
    BY <2>1, <2>2
<1>11. res = all
  <2>1. Len(res) = k /\ Len(all) = k /\ res \in Seq(Attrs) /\ all \in Seq(Attrs)
    BY <1>1, <1>3, <1>8
  <2> QED
    BY <1>10, <2>1, SeqEqual
<1> QED
  BY <1>6, <1>11 DEF old, all, m

(* Attributes that are put in one after the other, in the order of their   *)
(* identifiers, make the record that they are taken from.                  *)
StepTo(steps, i, rec) ==
    IF steps[i].replace THEN AttrReplace(rec, steps[i].id, steps[i].data)
    ELSE AttrAdd(rec, steps[i].id, steps[i].data)
IsBuilding(rec, steps, n, f) ==
    f = [i \in 0 .. n |-> IF i = 0 THEN rec ELSE StepTo(steps, i, f[i - 1])]

LEMMA BuildingExists ==
    ASSUME NEW rec, NEW steps, NEW n \in Nat
    PROVE  \E f : IsBuilding(rec, steps, n, f)
<1> DEFINE Follow(i, s) == StepTo(steps, i, s)
           Body(m, f) == [k \in 0 .. m |-> IF k = 0 THEN rec ELSE Follow(k, f[k - 1])]
           S == {m \in 0 .. n : \E f : f = Body(m, f)}
<1> HIDE DEF Follow
<1>1. ASSUME NEW m \in 0 .. n, \A j \in 0 .. n : j < m => j \in S
      PROVE  m \in S
  <2>1. CASE m = 0
    <3> DEFINE f == [k \in 0 .. 0 |-> rec]
    <3>1. f = Body(0, f)
      OBVIOUS
    <3> QED
      BY <2>1, <3>1
  <2>2. CASE m # 0
    <3> HIDE DEF S
    <3>1. m - 1 \in 0 .. n /\ m - 1 < m
      BY <2>2
    <3>2. m - 1 \in S
      BY <1>1, <3>1
    <3>3. PICK f : f = Body(m - 1, f)
      BY <3>2 DEF S
    <3> DEFINE g == [k \in 0 .. m |-> IF k = m THEN Follow(m, f[m - 1]) ELSE f[k]]
    <3>4. \A k \in 0 .. m : g[k] = IF k = 0 THEN rec ELSE Follow(k, g[k - 1])
      <4> TAKE k \in 0 .. m
      <4>1. CASE k = m
        <5>1. g[k] = Follow(k, f[m - 1]) /\ g[k - 1] = f[m - 1] /\ k # 0
          BY <2>2, <4>1
        <5> HIDE DEF g
        <5> QED
          BY <5>1
      <4>2. CASE k # m
        <5>1. k \in 0 .. m - 1
          BY <4>2
        <5>2. f[k] = IF k = 0 THEN rec ELSE Follow(k, f[k - 1])
          BY <3>3, <5>1
        <5>3. k # 0 => k - 1 \in 0 .. m /\ k - 1 # m
          BY <5>1
        <5>4. g[k] = f[k] /\ (k # 0 => g[k - 1] = f[k - 1])
          BY <4>2, <5>3
        <5> HIDE DEF g
        <5> QED
          BY <5>2, <5>4
      <4> QED
        BY <4>1, <4>2
    <3>5. g = [k \in 0 .. m |-> g[k]]
      OBVIOUS
    <3> HIDE DEF g
    <3>6. g = Body(m, g)
      BY <3>4, <3>5
    <3> QED
      BY <3>6 DEF S
  <2> QED
    BY <2>1, <2>2
<1> HIDE DEF S
<1>2. \A m \in 0 .. n : m \in S
  BY <1>1, PositionInduction
<1>3. n \in S
  BY <1>2
<1> QED
  BY <1>3 DEF S, Follow, IsBuilding

PutOf(a) == Put(a.id, Copy(a.data))

LEMMA BuiltInOrder ==
    ASSUME NEW rec \in Seq(Attrs), InOrder(rec), NEW w \in 0 .. Len(rec), NEW steps, Len(steps) = w,
           \A k \in 1 .. w : steps[k] = PutOf(rec[k])
    PROVE  Built(<<>>, steps) = ReadBack(rec, w)
<1> DEFINE last == CHOOSE f : IsBuilding(<<>>, steps, w, f)
           S == {i \in 0 .. w : last[i] = ReadBack(rec, i)}
<1>1. Len(rec) \in Nat /\ w \in Nat /\ w <= Len(rec)
  OBVIOUS
<1>2. Built(<<>>, steps) = last[w]
  BY DEF Built, IsBuilding, StepTo
<1>3. IsBuilding(<<>>, steps, w, last)
  BY <1>1, BuildingExists
<1> HIDE DEF last
<1>4. \A i \in 0 .. w : last[i] = IF i = 0 THEN <<>> ELSE StepTo(steps, i, last[i - 1])
  BY <1>3 DEF IsBuilding
<1>5. ASSUME NEW i \in 0 .. w, \A j \in 0 .. w : j < i => j \in S
      PROVE  i \in S
  <2>1. CASE i = 0
    <3>1. ReadBack(rec, 0) \in Seq(Attrs) /\ Len(ReadBack(rec, 0)) = 0
      BY <1>1, ReadBackIs
    <3>2. ReadBack(rec, 0) = <<>>
      BY <3>1, EmptySeq
    <3> QED
      BY <1>4, <2>1, <3>2
  <2>2. CASE i # 0
    <3>1. i \in 1 .. w /\ i \in 1 .. Len(rec) /\ i - 1 \in 0 .. w /\ i - 1 < i
      BY <1>1, <2>2
    <3>2. last[i - 1] = ReadBack(rec, i - 1)
      BY <1>5, <3>1
    <3>3. last[i] = StepTo(steps, i, ReadBack(rec, i - 1))
      BY <1>4, <2>2, <3>2
    <3>4. steps[i].replace /\ steps[i].id = rec[i].id /\ steps[i].data = Copy(rec[i].data)
      BY <3>1 DEF PutOf, Put
    <3>5. last[i] = AttrReplace(ReadBack(rec, i - 1), rec[i].id, Copy(rec[i].data))
      BY <3>3, <3>4 DEF StepTo
    <3> QED
      BY <3>1, <3>5, ReplaceAppends
  <2> QED
    BY <2>1, <2>2
<1> HIDE DEF S
<1>6. \A i \in 0 .. w : i \in S
  BY <1>1, <1>5, PositionInduction
<1>7. w \in S
  BY <1>1, <1>6
<1> QED
  BY <1>2, <1>7 DEF S

(* The attributes that are left from the k-th on.                          *)
Puts == [replace: BOOLEAN, id: Ids, data: Elts]
Left(rec, k, w) == [j \in 1 .. w - k |-> PutOf(rec[k + j])]

LEMMA LeftIs ==
    ASSUME NEW rec \in Seq(Attrs), NEW w \in 0 .. Len(rec)
    PROVE  /\ \A k \in 0 .. w : /\ Left(rec, k, w) \in Seq(Puts) /\ Len(Left(rec, k, w)) = w - k
                               /\ \A j \in 1 .. w - k : Left(rec, k, w)[j] = PutOf(rec[k + j])
           /\ Left(rec, w, w) = <<>>
           /\ \A k \in 1 .. w : Left(rec, k - 1, w) = <<PutOf(rec[k])>> \o Left(rec, k, w)
<1>1. Len(rec) \in Nat /\ w \in Nat /\ w <= Len(rec) /\ \A i \in 1 .. Len(rec) : rec[i] \in Attrs
  OBVIOUS
<1>2. \A i \in 1 .. w : PutOf(rec[i]) \in Puts
  <2> TAKE i \in 1 .. w
  <2>1. rec[i] \in Attrs
    BY <1>1
  <2> QED
    BY <2>1, CopyIsElement DEF PutOf, Put, Puts, Attrs
<1>3. ASSUME NEW k \in 0 .. w
      PROVE  /\ Left(rec, k, w) \in Seq(Puts) /\ Len(Left(rec, k, w)) = w - k
             /\ \A j \in 1 .. w - k : Left(rec, k, w)[j] = PutOf(rec[k + j])
  <2> DEFINE m == w - k
             At(j) == PutOf(rec[k + j])
  <2>1. m \in Nat /\ \A j \in 1 .. m : k + j \in 1 .. w
    BY <1>1
  <2>2. \A j \in 1 .. m : At(j) \in Puts
    BY <1>2, <2>1
  <2>3. Left(rec, k, w) = [j \in 1 .. m |-> At(j)]
    BY DEF Left
  <2> HIDE DEF m, At
  <2>4. Left(rec, k, w) \in [1 .. m -> Puts] /\ \A j \in 1 .. m : Left(rec, k, w)[j] = At(j)
    BY <2>2, <2>3
  <2>5. Left(rec, k, w) \in Seq(Puts) /\ Len(Left(rec, k, w)) = m
    BY <2>1, <2>4
  <2> QED
    BY <2>4, <2>5 DEF m, At
<1>4. Left(rec, w, w) = <<>>
  <2>1. w \in 0 .. w /\ w - w = 0
    BY <1>1
  <2>2. Left(rec, w, w) \in Seq(Puts) /\ Len(Left(rec, w, w)) = 0
    BY <1>3, <2>1
  <2> QED
    BY <2>2, EmptySeq
<1>5. ASSUME NEW k \in 1 .. w PROVE Left(rec, k - 1, w) = <<PutOf(rec[k])>> \o Left(rec, k, w)
  <2> DEFINE x == Left(rec, k - 1, w)
             t == Left(rec, k, w)
             p == PutOf(rec[k])
             y == <<p>> \o t
  <2>1. k - 1 \in 0 .. w /\ k \in 0 .. w /\ w - (k - 1) = (w - k) + 1 /\ w - k \in Nat
    BY <1>1
  <2>2. x \in Seq(Puts) /\ Len(x) = (w - k) + 1 /\ \A j \in 1 .. (w - k) + 1 : x[j] = PutOf(rec[(k - 1) + j])
    BY <1>3, <2>1
  <2>3. t \in Seq(Puts) /\ Len(t) = w - k /\ \A j \in 1 .. w - k : t[j] = PutOf(rec[k + j])
    BY <1>3, <2>1
  <2>4. p \in Puts
    BY <1>2
  <2> HIDE DEF x, t, p
  <2>5. y \in Seq(Puts) /\ Len(y) = (w - k) + 1 /\ y[1] = p /\ \A j \in 1 .. w - k : y[j + 1] = t[j]
    <3> DEFINE l == w - k
               q == <<p>>
    <3>1. q \in Seq(Puts) /\ Len(q) = 1 /\ q[1] = p
      BY <2>4
    <3>2. l \in Nat /\ Len(t) = l
      BY <2>1, <2>3
    <3> HIDE DEF q, l
    <3>3. /\ q \o t \in Seq(Puts) /\ Len(q \o t) = Len(q) + Len(t)
          /\ \A i \in 1 .. Len(q) + Len(t) : (q \o t)[i] = IF i <= Len(q) THEN q[i] ELSE t[i - Len(q)]
      <4> HIDE DEF Puts
      <4>1. q \in Seq(Puts) /\ t \in Seq(Puts)
        BY <2>3, <3>1
      <4> QED
        BY <4>1, ConcatProperties
    <3>4. Len(q) = 1 /\ Len(t) = l
      BY <3>1, <3>2
    <3>5. /\ q \o t \in Seq(Puts) /\ Len(q \o t) = 1 + l
          /\ \A i \in 1 .. 1 + l : (q \o t)[i] = IF i <= 1 THEN q[i] ELSE t[i - 1]
      <4> HIDE DEF Puts
      <4> QED
        BY <3>3, <3>4
    <3>6. y = q \o t
      BY DEF q
    <3> HIDE DEF y
    <3>7. y[1] = p
      BY <3>1, <3>2, <3>5, <3>6
    <3>8. \A j \in 1 .. l : y[j + 1] = t[j]
      <4> TAKE j \in 1 .. l
      <4>1. j + 1 \in 1 .. 1 + l /\ ~(j + 1 <= 1) /\ (j + 1) - 1 = j
        BY <3>2
      <4> QED
        BY <3>5, <3>6, <4>1
    <3>9. Len(y) = l + 1 /\ y \in Seq(Puts)
      BY <3>2, <3>5, <3>6
    <3> QED
      BY <3>7, <3>8, <3>9 DEF l
  <2>6. \A j \in 1 .. (w - k) + 1 : x[j] = y[j]
    <3> TAKE j \in 1 .. (w - k) + 1
    <3>1. CASE j = 1
      <4>1. (k - 1) + j = k /\ x[j] = PutOf(rec[(k - 1) + j])
        BY <2>2, <3>1
      <4> HIDE DEF y
      <4> QED
        BY <2>5, <3>1, <4>1 DEF p
    <3>2. CASE j # 1
      <4>1. j - 1 \in 1 .. w - k /\ (j - 1) + 1 = j /\ k + (j - 1) = (k - 1) + j
        BY <2>1, <3>2
      <4> HIDE DEF y
      <4>2. y[(j - 1) + 1] = t[j - 1] /\ t[j - 1] = PutOf(rec[k + (j - 1)])
        BY <2>3, <2>5, <4>1
      <4> QED
        BY <2>2, <4>1, <4>2
    <3> QED
      BY <3>1, <3>2
  <2> HIDE DEF y
  <2>7. x = y
    BY <2>2, <2>5, <2>6, SeqEqual
  <2> QED
    BY <2>7 DEF x, y, t, p
<1> QED
  BY <1>3, <1>4, <1>5

(* What is put in from a position on depends on what is put in behind it   *)
(* only, so that ExtractPuts is what its definition says.                  *)
LEMMA ExtractPutAgrees ==
    ASSUME NEW b \in Seq(Nat), NEW end, NEW at \in 1 .. Len(b) + 1, NEW f, NEW g,
           \A i \in at + 1 .. Len(b) + 1 : f[i] = g[i]
    PROVE  ExtractPut(b, end, at, f) = ExtractPut(b, end, at, g)
<1> DEFINE n == Len(b)
           lists == ExtractLists(b)
           first == ExtractAttr(b, at + 3, lists)
           none == at >= end \/ at + 2 > n \/ first.len = 0
           next == at + 3 + first.len
<1>1. ~none => f[next] = g[next]
  <2> SUFFICES ASSUME ~none PROVE f[next] = g[next]
    OBVIOUS
  <2>1. n \in Nat /\ at + 3 \in 1 .. n + 1
    OBVIOUS
  <2>2. \A i \in (at + 3) + 1 .. n + 1 : Within(b, lists, i)
    <3> TAKE i \in (at + 3) + 1 .. n + 1
    <3>1. i \in 1 .. n + 1
      BY <2>1
    <3> QED
      BY <3>1, ExtractListsAre
  <2> HIDE DEF lists
  <2>3. first.len \in Nat /\ (at + 3) + first.len <= n + 1
    BY <2>1, <2>2, ExtractAttrBounds
  <2> HIDE DEF first
  <2>4. next \in at + 1 .. n + 1
    BY <2>1, <2>3
  <2> QED
    BY <2>4
<1>2. \A x : ExtractPut(b, end, at, x) =
                IF none THEN <<>> ELSE <<Put(Number(b, at + 1, 2), first.data)>> \o x[next]
  BY DEF ExtractPut
<1> HIDE DEF none, next, first
<1> QED
  BY <1>1, <1>2

LEMMA ExtractPutsAre ==
    ASSUME NEW b \in Seq(Nat), NEW end
    PROVE  \A at \in 1 .. Len(b) + 1 :
               ExtractPuts(b, end)[at] = ExtractPut(b, end, at, ExtractPuts(b, end))
<1> DEFINE n == Len(b)
           Found(f, at) == f[at] = ExtractPut(b, end, at, f)
           S == {m \in 0 .. n : \E f : \A at \in n + 1 - m .. n + 1 : Found(f, at)}
<1>1. n \in Nat
  OBVIOUS
<1>2. ASSUME NEW from \in 1 .. n + 1, NEW f, \A at \in from + 1 .. n + 1 : Found(f, at)
      PROVE  \E g : \A at \in from .. n + 1 : Found(g, at)
  <2> DEFINE g == [i \in 1 .. n + 1 |-> IF i = from THEN ExtractPut(b, end, from, f) ELSE f[i]]
  <2>1. g[from] = ExtractPut(b, end, from, f) /\ \A i \in from + 1 .. n + 1 : g[i] = f[i]
    OBVIOUS
  <2> HIDE DEF g
  <2>2. ASSUME NEW at \in from .. n + 1
        PROVE  Found(g, at)
    <3>1. at \in 1 .. Len(b) + 1 /\ \A i \in at + 1 .. Len(b) + 1 : i \in from + 1 .. n + 1
      BY <1>1
    <3>2. \A i \in at + 1 .. Len(b) + 1 : f[i] = g[i]
      BY <2>1, <3>1
    <3>3. ExtractPut(b, end, at, f) = ExtractPut(b, end, at, g)
      BY <3>1, <3>2, ExtractPutAgrees
    <3>4. g[at] = ExtractPut(b, end, at, f)
      <4>1. CASE at = from
        BY <2>1, <4>1
      <4>2. CASE at # from
        <5>1. at \in from + 1 .. n + 1
          BY <1>1, <4>2
        <5> QED
          BY <1>2, <2>1, <5>1
      <4> QED
        BY <4>1, <4>2
    <3> QED
      BY <3>3, <3>4
  <2> QED
    BY <2>2
<1>3. ASSUME NEW m \in 0 .. n, \A j \in 0 .. n : j < m => j \in S
      PROVE  m \in S
  <2> DEFINE from == n + 1 - m
  <2>1. from \in 1 .. n + 1
    BY <1>1
  <2>2. \E f : \A at \in from + 1 .. n + 1 : Found(f, at)
    <3> HIDE DEF Found
    <3>1. CASE m = 0
      BY <1>1, <3>1
    <3>2. CASE m # 0
      <4>1. m - 1 \in 0 .. n /\ m - 1 < m /\ n + 1 - (m - 1) = from + 1
        BY <1>1, <3>2
      <4>2. m - 1 \in S
        BY <1>3, <4>1
      <4> QED
        BY <4>1, <4>2
    <3> QED
      BY <3>1, <3>2
  <2> HIDE DEF from, Found
  <2>3. PICK f : \A at \in from + 1 .. n + 1 : Found(f, at)
    BY <2>2
  <2>4. \E g : \A at \in from .. n + 1 : Found(g, at)
    BY <1>2, <2>1, <2>3
  <2> QED
    BY <2>4 DEF from
<1> HIDE DEF S
<1>4. \A m \in 0 .. n : m \in S
  BY <1>1, <1>3, PositionInduction
<1>5. n \in 0 .. n /\ n + 1 - n = 1
  BY <1>1
<1>6. PICK f : \A at \in 1 .. n + 1 : Found(f, at)
  BY <1>4, <1>5 DEF S
<1> DEFINE Body(g) == [at \in 1 .. n + 1 |-> ExtractPut(b, end, at, g)]
           g == [at \in 1 .. n + 1 |-> f[at]]
<1>7. \A at \in 1 .. n + 1 : ExtractPut(b, end, at, f) = ExtractPut(b, end, at, g)
  <2> TAKE at \in 1 .. n + 1
  <2>1. \A i \in at + 1 .. Len(b) + 1 : i \in 1 .. n + 1
    BY <1>1
  <2>2. \A i \in at + 1 .. Len(b) + 1 : f[i] = g[i]
    BY <2>1
  <2> HIDE DEF g
  <2> QED
    BY <2>2, ExtractPutAgrees
<1>8. g = Body(g)
  BY <1>6, <1>7
<1>9. ExtractPuts(b, end) = CHOOSE h : h = Body(h)
  BY DEF ExtractPuts
<1> DEFINE puts == ExtractPuts(b, end)
<1>10. puts = Body(puts)
  BY <1>8, <1>9
<1> HIDE DEF puts
<1>11. \A at \in 1 .. n + 1 : puts[at] = ExtractPut(b, end, at, puts)
  BY <1>10
<1> QED
  BY <1>11 DEF puts, n

(* The first w attributes of a record, found in bytes that say how long    *)
(* they are, are what the reader gets: behind k of them it finds those     *)
(* that are left, and behind the last one it is at the end.                *)
LEMMA ExtractReads ==
    ASSUME NEW rec \in Records, NEW b, IsOuter(b), Short(b), SaysLength(b),
           NEW w \in 1 .. Len(rec), Content(b) = Totals(rec)[w],
           \A k \in 1 .. w : IsInPdu(rec[k], b, HeadSize(b) + (Totals(rec)[k - 1] + 1))
    PROVE  Extract(b) = ReadBack(rec, w)
<1> DEFINE n == Len(b)
           h == HeadSize(b)
           tot == Totals(rec)
           end == h + 1 + Number(b, 2, h - 1)
           puts == ExtractPuts(b, end)
           At(k) == h + 1 + tot[k]
<1>1. Extract(b) = Built(<<>>, puts[h + 1])
  BY DEF Extract, HeadSize
<1>2. b \in Seq(Nat) /\ n \in Nat /\ h \in {2, 3} /\ h <= n /\ Content(b) = n - h
  BY OuterTypes DEF IsOuter, HeadSize, Content
<1>3. /\ rec \in Seq(Attrs) /\ InOrder(rec) /\ Len(rec) \in Nat /\ w \in 1 .. Len(rec) /\ w \in Nat
      /\ \A k \in 1 .. w : k \in 1 .. Len(rec) /\ rec[k] \in Attrs /\ SizeOf(rec[k].data) \in Nat
  BY RecordAttrs DEF Records
<1>4. /\ tot \in [0 .. Len(rec) -> Nat] /\ tot[0] = 0
      /\ \A k \in 1 .. Len(rec) : tot[k] = tot[k - 1] + 3 + SizeOf(rec[k].data)
  BY TotalsAre
<1>5. \A k \in 0 .. w : tot[k] \in Nat /\ tot[k] <= tot[w]
  <2> TAKE k \in 0 .. w
  <2>1. k \in 0 .. Len(rec) /\ w \in 0 .. Len(rec) /\ k <= w
    BY <1>3
  <2> QED
    BY <1>4, <2>1, TotalsOrder
<1>6. tot[w] = n - h /\ tot[w] \in Nat /\ tot[0] = 0
  <2>1. w \in 0 .. Len(rec)
    BY <1>3
  <2> QED
    BY <1>2, <1>4, <2>1
<1>7. end = h + 1 + tot[w]
  <2>1. Content(b) \div 256 <= 255
    <3> DEFINE c == Content(b)
    <3>1. c = n - h /\ n \div 256 <= 255
      BY <1>2 DEF Short, UCHAR_MAX
    <3> HIDE DEF c, n, h
    <3> QED
      BY <1>2, <3>1 DEF c
  <2> QED
    BY <2>1 DEF SaysLength
<1>8. \A at \in 1 .. n + 1 : puts[at] = ExtractPut(b, end, at, puts)
  <2> HIDE DEF end
  <2> QED
    BY <1>2, ExtractPutsAre
<1> HIDE DEF n, h, tot, end, puts
<1>9. \A k \in 0 .. w : At(k) \in 1 .. n + 1
  <2> TAKE k \in 0 .. w
  <2> DEFINE t == tot[k]
             v == tot[w]
  <2>1. t \in Nat /\ t <= v /\ v = n - h /\ At(k) = h + 1 + t
    BY <1>5, <1>6
  <2> HIDE DEF t, v, At
  <2> QED
    BY <1>2, <2>1
<1>10. puts[At(w)] = <<>>
  <2> DEFINE at == At(w)
  <2>1. at >= end /\ puts[at] = ExtractPut(b, end, at, puts)
    <3>1. w \in 0 .. w /\ at = end
      BY <1>3, <1>7
    <3>2. at \in 1 .. n + 1
      BY <1>9, <3>1
    <3> HIDE DEF at
    <3> QED
      BY <1>8, <3>1, <3>2
  <2> HIDE DEF at
  <2>2. puts[at] = <<>>
    BY <2>1 DEF ExtractPut
  <2> QED
    BY <2>2 DEF at
<1>11. ASSUME NEW k \in 1 .. w PROVE puts[At(k - 1)] = <<PutOf(rec[k])>> \o puts[At(k)]
  <2> DEFINE pos == h + (tot[k - 1] + 1)
             size == SizeOf(rec[k].data)
             t == tot[k - 1]
             u == tot[k]
  <2>1. /\ tot[k] = tot[k - 1] + 3 + size /\ tot[k - 1] \in Nat /\ tot[k] \in Nat /\ tot[k] <= tot[w]
        /\ size \in Nat /\ rec[k] \in Attrs /\ k \in 1 .. Len(rec)
    <3>1. k - 1 \in 0 .. w /\ k \in 0 .. w
      BY <1>3
    <3> QED
      BY <1>3, <1>4, <1>5, <3>1
  <2>2. pos \in Nat \ {0} /\ At(k - 1) = pos /\ pos + 3 + size = At(k)
    <3>1. t \in Nat /\ u = t + 3 + size /\ size \in Nat
      BY <2>1
    <3>2. At(k - 1) = h + 1 + t /\ At(k) = h + 1 + u /\ pos = h + (t + 1)
      OBVIOUS
    <3> HIDE DEF t, u, size, At, pos
    <3> QED
      BY <1>2, <3>1, <3>2
  <2>3. IsInPdu(rec[k], b, pos)
    BY DEF h, tot
  <2>4. pos \in 1 .. n + 1
    <3>1. k - 1 \in 0 .. w
      BY <1>3
    <3> HIDE DEF pos, At
    <3> QED
      BY <1>9, <2>2, <3>1
  <2> HIDE DEF pos, t, u
  <2>5. /\ Number(b, pos + 1, 2) = rec[k].id
        /\ ExtractAttr(b, pos + 3, ExtractLists(b)) = [len |-> size, data |-> Copy(rec[k].data)]
        /\ size > 0 /\ pos + 3 + size <= n + 1
    BY <1>2, <2>1, <2>2, <2>3, AttrReads DEF n
  <2>6. ~(pos >= end) /\ ~(pos + 2 > n) /\ ~(size = 0)
    <3> DEFINE v == tot[w]
    <3>1. u <= v /\ u \in Nat /\ size \in Nat /\ v \in Nat /\ At(k) = h + 1 + u
      BY <1>6, <2>1 DEF u
    <3> HIDE DEF At, v, size
    <3>2. end = h + 1 + v /\ h \in Nat /\ n \in Nat /\ pos \in Nat
      BY <1>2, <1>7, <2>2 DEF v
    <3> QED
      BY <2>2, <2>5, <3>1, <3>2
  <2> DEFINE first == ExtractAttr(b, pos + 3, ExtractLists(b))
             next == pos + 3 + first.len
  <2> HIDE DEF size, At
  <2>7. first.len = size /\ first.data = Copy(rec[k].data)
    BY <2>5
  <2>8. puts[pos] = ExtractPut(b, end, pos, puts)
    BY <1>8, <2>4
  <2>9. ExtractPut(b, end, pos, puts) = <<Put(Number(b, pos + 1, 2), first.data)>> \o puts[next]
    <3>1. ~(pos >= end) /\ ~(pos + 2 > Len(b)) /\ ~(first.len = 0)
      BY <2>6, <2>7 DEF n
    <3> QED
      BY <3>1 DEF ExtractPut
  <2>10. next = At(k)
    BY <2>2, <2>7
  <2>11. Put(Number(b, pos + 1, 2), first.data) = PutOf(rec[k])
    BY <2>5, <2>7 DEF PutOf
  <2> HIDE DEF first, next
  <2> QED
    BY <2>2, <2>8, <2>9, <2>10, <2>11
<1>12. /\ Left(rec, w, w) = <<>> /\ Len(Left(rec, 0, w)) = w
       /\ \A j \in 1 .. w : Left(rec, 0, w)[j] = PutOf(rec[j])
       /\ \A k \in 1 .. w : Left(rec, k - 1, w) = <<PutOf(rec[k])>> \o Left(rec, k, w)
  <2>1. w \in 0 .. Len(rec) /\ 0 \in 0 .. w /\ w - 0 = w /\ \A j \in 1 .. w : 0 + j = j
    BY <1>3
  <2>2. /\ Len(Left(rec, 0, w)) = w - 0 /\ Left(rec, w, w) = <<>>
        /\ \A j \in 1 .. w - 0 : Left(rec, 0, w)[j] = PutOf(rec[0 + j])
        /\ \A k \in 1 .. w : Left(rec, k - 1, w) = <<PutOf(rec[k])>> \o Left(rec, k, w)
    BY <1>3, <2>1, LeftIs
  <2> QED
    BY <2>1, <2>2
<1> DEFINE S == {m \in 0 .. w : puts[At(w - m)] = Left(rec, w - m, w)}
<1> HIDE DEF At
<1>13. ASSUME NEW m \in 0 .. w, \A j \in 0 .. w : j < m => j \in S
       PROVE  m \in S
  <2>1. CASE m = 0
    <3>1. w - m = w
      BY <1>3, <2>1
    <3> QED
      BY <1>10, <1>12, <3>1
  <2>2. CASE m # 0
    <3> DEFINE k == w - (m - 1)
    <3>1. k \in 1 .. w /\ k - 1 = w - m /\ m - 1 \in 0 .. w /\ m - 1 < m
      BY <1>3, <2>2
    <3>2. puts[At(k)] = Left(rec, k, w)
      BY <1>13, <3>1
    <3> HIDE DEF k
    <3>3. puts[At(k - 1)] = Left(rec, k - 1, w)
      BY <1>11, <1>12, <3>1, <3>2
    <3> QED
      BY <3>1, <3>3
  <2> QED
    BY <2>1, <2>2
<1> HIDE DEF S
<1>14. \A m \in 0 .. w : m \in S
  BY <1>3, <1>13, PositionInduction
<1>15. puts[At(0)] = Left(rec, 0, w)
  <2>1. w \in 0 .. w /\ w - w = 0
    BY <1>3
  <2>2. w \in S
    BY <1>14, <2>1
  <2> QED
    BY <2>1, <2>2 DEF S
<1>16. At(0) = h + 1
  BY <1>2, <1>6 DEF At
<1>17. Built(<<>>, Left(rec, 0, w)) = ReadBack(rec, w)
  <2>1. w \in 0 .. Len(rec)
    BY <1>3
  <2> QED
    BY <1>3, <1>12, <2>1, BuiltInOrder
<1> QED
  BY <1>1, <1>15, <1>16, <1>17

(* The reader gets back what has been written, whichever attributes have   *)
(* been added, as long as two bytes can say how much it is, which is far   *)
(* more than a request has room for (RequestFits).                         *)
THEOREM RecordReadsBack == RecordSpec => [](Short(pdu) => RecordReadBack)
<1>1. RecordInv /\ Written => (Short(pdu) => RecordReadBack)
  <2> SUFFICES ASSUME RecordInv, Written, Short(pdu), written > 0
               PROVE  Extract(pdu) = [k \in 1 .. written |->
                                         [id |-> attrlist[k].id, data |-> Copy(attrlist[k].data)]]
    BY DEF RecordReadBack
  <2>1. attrlist \in Records /\ IsOuter(pdu) /\ SaysLength(pdu)
    BY DEF RecordInv, RecordTypeOK, Written
  <2>2. written \in 1 .. Len(attrlist)
    <3>1. written \in 0 .. Len(attrlist) /\ Len(attrlist) \in Nat
      BY RecordAttrs DEF RecordInv, RecordTypeOK
    <3> QED
      BY <3>1
  <2>3. Content(pdu) = Totals(attrlist)[written]
    BY DEF RecordInv, Room
  <2>4. \A k \in 1 .. written : IsInPdu(attrlist[k], pdu, HeadSize(pdu) + (Totals(attrlist)[k - 1] + 1))
    BY DEF Written, PlaceOf
  <2>5. Extract(pdu) = ReadBack(attrlist, written)
    BY <2>1, <2>2, <2>3, <2>4, ExtractReads
  <2> QED
    BY <2>5 DEF ReadBack
<1> QED
  BY <1>1, RecordIsWritten, PTL

-----------------------------------------------------------------------------
(* The calls                                                               *)

PCs == {"unborn", "connect", "select", "open", "send", "wait", "end"}
HciCommand == [op: {"read", "write"}, val: Classes]
Event == [evt: {"complete", "status"}, ok: BOOLEAN, val: Classes \cup {"junk"}]
Request == [by: Procs, h: Handles \cup {None}, op: {"register", "remove"}]

TypeOK ==
    /\ class \in Classes
    /\ hciQ \in Seq(HciCommand)
    /\ records \in SUBSET Handles
    /\ sdpQ \in Seq(Request)
    /\ pc \in [Procs -> PCs]
    /\ cmd \in [Procs -> Commands]
    /\ arg \in [Procs -> Handles \cup {None}]
    /\ op \in [Procs -> {"none", "read", "write"}]
    /\ inbox \in [Procs -> Seq(Event)]
    /\ tries \in [Procs -> Nat]
    /\ rsp \in [Procs -> {"none", "done", "error", "eof"}]
    /\ handle \in [Procs -> Handles \cup {None}]
    /\ out \in [Procs -> Handles \cup {None}]
    /\ shown \in [Procs -> Classes \cup {"junk", "none"}]
    /\ status \in [Procs -> {"runs", "ok", "failed"}]
    /\ useless \in Nat /\ faults \in Nat
    /\ inForce \in [Procs -> SUBSET Classes]
    /\ unset \in [Procs -> BOOLEAN]
    /\ given \in [Procs -> Handles \cup {None}]
    /\ removed \in SUBSET Handles
    /\ refused \in BOOLEAN

Asks(c) == c \in {"cod", "cod-mouse"}
Collects(p) == pc[p] \in {"send", "wait"}
Talks(p) == pc[p] = "open" \/ Collects(p)

(* Where a process is and what it does there.                              *)
Places ==
    \A p \in Procs :
        /\ pc[p] \in {"connect", "select"} => ~Asks(cmd[p]) /\ op[p] = "write"
        /\ Talks(p) => /\ op[p] \in {"read", "write"}
                       /\ cmd[p] = "cod" => op[p] = "read"
                       /\ ~Asks(cmd[p]) => op[p] = "write"
        /\ Collects(p) => tries[p] > 0
        /\ status[p] # "runs" <=> pc[p] = "end"

(* A process has one request on its way to the SDP server, unless it has   *)
(* an answer.                                                              *)
Requests ==
    /\ \A i \in DOMAIN sdpQ :
          /\ rsp[sdpQ[i].by] = "none" /\ given[sdpQ[i].by] = None
          /\ pc[sdpQ[i].by] = "select" \/ status[sdpQ[i].by] = "failed"
          /\ sdpQ[i].h = arg[sdpQ[i].by]
          /\ sdpQ[i].op = IF Registers(cmd[sdpQ[i].by]) THEN "register" ELSE "remove"
    /\ \A i, j \in DOMAIN sdpQ : sdpQ[i].by = sdpQ[j].by => i = j

(* What a process knows after its answer.                                  *)
Answers ==
    \A p \in Procs :
        /\ pc[p] \in {"unborn", "connect"} => rsp[p] = "none" /\ given[p] = None
        /\ given[p] # None => Registers(cmd[p])
        /\ rsp[p] = "done" /\ Registers(cmd[p]) => given[p] \in records \cup removed
        /\ rsp[p] = "done" /\ cmd[p] = "phone" => arg[p] \in removed
        /\ Talks(p) \/ status[p] = "ok" =>
              /\ ~Asks(cmd[p]) => rsp[p] = "done"
              /\ Registers(cmd[p]) => handle[p] = given[p]
        /\ status[p] = "ok" => out[p] = handle[p]

(* Each record has been given to a process.                                *)
Owned == \A h \in records : \E p \in Procs : given[p] = h

(* The writes on their way, of processes that have their answer from the   *)
(* SDP server, the events a socket holds, and the class that has been read.*)
WrittenBy(v, p) == Writes(p) /\ v = Wanted(p) /\ (~Asks(cmd[p]) => rsp[p] = "done")
Events ==
    /\ \A i \in DOMAIN hciQ : hciQ[i].op = "write" =>
          \E p \in Procs : WrittenBy(hciQ[i].val, p)
    /\ \A p \in Procs : Collects(p) =>
          /\ class \in inForce[p]
          /\ \A i \in DOMAIN inbox[p] : inbox[p][i].evt = "complete" =>
                /\ inbox[p][i].ok => inbox[p][i].val \in inForce[p]
                /\ op[p] = "write" =>
                      \/ refused
                      \/ inbox[p][i].ok /\ \E q \in Procs : WrittenBy(inbox[p][i].val, q)

IInv ==
    /\ TypeOK /\ Places /\ Requests /\ Answers /\ Owned /\ Events
    /\ ClassReadWasInForce /\ WriteTakenForDone

USE ProcsAssumption, TriesAssumption, BoundAssumption

-----------------------------------------------------------------------------
LEMMA Entries ==
    ASSUME TypeOK
    PROVE  /\ \A i \in DOMAIN sdpQ : sdpQ[i] \in Request /\ sdpQ[i].by \in Procs
           /\ \A i \in DOMAIN hciQ : hciQ[i] \in HciCommand
           /\ \A q \in Procs : inbox[q] \in Seq(Event)
           /\ \A q \in Procs : \A i \in DOMAIN inbox[q] : inbox[q][i] \in Event
<1>1. /\ sdpQ \in Seq(Request) /\ hciQ \in Seq(HciCommand)
      /\ \A q \in Procs : inbox[q] \in Seq(Event)
  BY DEF TypeOK
<1>2. \A i \in DOMAIN sdpQ : sdpQ[i] \in Request
  BY <1>1
<1>3. \A i \in DOMAIN hciQ : hciQ[i] \in HciCommand
  BY <1>1
<1>4. \A q \in Procs : \A i \in DOMAIN inbox[q] : inbox[q][i] \in Event
  BY <1>1
<1> QED
  BY <1>1, <1>2, <1>3, <1>4 DEF Request

(* Parts of the invariant that a step leaves alone.                        *)
LEMMA RequestsAlone ==
    ASSUME TypeOK, Requests, UNCHANGED <<sdpQ, rsp, given>>,
           \A q \in Procs : pc[q] = "select" \/ status[q] = "failed" =>
               /\ pc'[q] = "select" \/ status'[q] = "failed"
               /\ arg'[q] = arg[q] /\ cmd'[q] = cmd[q]
    PROVE  Requests'
BY Entries DEF Requests

LEMMA EventsAlone ==
    ASSUME TypeOK, Events, UNCHANGED <<hciQ, class, refused>>,
           \A q \in Procs : \A v : WrittenBy(v, q) => WrittenBy(v, q)',
           \A q \in Procs : Collects(q)' =>
               /\ Collects(q) /\ op'[q] = op[q]
               /\ inbox'[q] = inbox[q] /\ inForce'[q] = inForce[q]
    PROVE  Events'
BY DEF Events

LEMMA ReadAlone ==
    ASSUME ClassReadWasInForce,
           \A q \in Procs : status'[q] = "ok" =>
               /\ status[q] = "ok" /\ cmd'[q] = cmd[q]
               /\ shown'[q] = shown[q] /\ inForce'[q] = inForce[q]
    PROVE  ClassReadWasInForce'
BY DEF ClassReadWasInForce

LEMMA WrittenAlone ==
    ASSUME WriteTakenForDone, refused => refused',
           \A q \in Procs : unset'[q] => unset[q],
           \A q \in Procs : Writes(q) => Writes(q)'
    PROVE  WriteTakenForDone'
BY DEF WriteTakenForDone

LEMMA Parts ==
    ASSUME IInv
    PROVE  /\ TypeOK /\ Places /\ Requests /\ Answers /\ Owned /\ Events
           /\ ClassReadWasInForce /\ WriteTakenForDone
BY DEF IInv

(* A process ends without success.                                         *)
LEMMA FailedInv ==
    ASSUME IInv, NEW p \in Procs, pc[p] # "unborn", Exit(p, "failed"),
           op' \in {op, [op EXCEPT ![p] = "none"]},
           inbox' \in {inbox, [inbox EXCEPT ![p] = <<>>]},
           tries' \in [Procs -> Nat], \A q \in Procs : q # p => tries'[q] = tries[q],
           useless' \in Nat, faults' \in Nat,
           UNCHANGED <<stackVars, cmd, arg, rsp, handle, out, shown, ghosts>>
    PROVE  IInv'
<1>1. TypeOK
  BY Parts
<1>2. TypeOK'
  <2>1. pc' \in [Procs -> PCs] /\ status' \in [Procs -> {"runs", "ok", "failed"}]
    BY <1>1 DEF TypeOK, PCs, Exit, Goto
  <2>2. op' \in [Procs -> {"none", "read", "write"}]
    BY <1>1 DEF TypeOK
  <2>3. inbox \in [Procs -> Seq(Event)] /\ <<>> \in Seq(Event)
    BY <1>1 DEF TypeOK
  <2>4. inbox' \in [Procs -> Seq(Event)]
    BY <2>3
  <2> QED
    BY <1>1, <2>1, <2>2, <2>4 DEF TypeOK, stackVars, ghosts
<1>3. \A q \in Procs : q # p => /\ pc'[q] = pc[q] /\ status'[q] = status[q]
                                /\ op'[q] = op[q] /\ inbox'[q] = inbox[q]
  BY <1>1 DEF TypeOK, Exit, Goto
<1>4. pc'[p] = "end" /\ status'[p] = "failed"
  BY <1>1 DEF TypeOK, Exit, Goto
<1>5. /\ UNCHANGED <<class, hciQ, records, sdpQ, cmd, arg, rsp, handle, out, shown>>
      /\ UNCHANGED <<inForce, unset, given, removed, refused>>
  BY DEF stackVars, ghosts
<1>6. Places'
  BY <1>3, <1>4, <1>5, Parts DEF Places, Talks, Collects
<1>7. Requests'
  BY <1>1, <1>3, <1>4, <1>5, Parts, RequestsAlone
<1>8. Answers'
  BY <1>3, <1>4, <1>5, Parts DEF Answers, Talks, Collects
<1>9. Owned'
  BY <1>5, Parts DEF Owned
<1>10. Events'
  <2>1. \A q \in Procs : \A v : WrittenBy(v, q) => WrittenBy(v, q)'
    BY <1>3, <1>4, <1>5 DEF Writes, Wanted, WrittenBy
  <2>2. \A q \in Procs : Collects(q)' =>
           /\ Collects(q) /\ op'[q] = op[q]
           /\ inbox'[q] = inbox[q] /\ inForce'[q] = inForce[q]
    BY <1>3, <1>4, <1>5 DEF Collects
  <2> QED
    BY <2>1, <2>2, <1>1, <1>5, Parts, EventsAlone
<1>11. ClassReadWasInForce'
  BY <1>3, <1>4, <1>5, Parts, ReadAlone
<1>12. WriteTakenForDone'
  BY <1>3, <1>4, <1>5, Parts, WrittenAlone DEF Writes
<1> QED
  BY <1>2, <1>6, <1>7, <1>8, <1>9, <1>10, <1>11, <1>12 DEF IInv

-----------------------------------------------------------------------------
LEMMA InitInv == Init => IInv
<1> SUFFICES ASSUME Init PROVE IInv
  OBVIOUS
<1>1. TypeOK
  <2>1. /\ hciQ \in Seq(HciCommand) /\ sdpQ \in Seq(Request)
        /\ inbox \in [Procs -> Seq(Event)]
    BY DEF Init
  <2>2. /\ class \in Classes /\ records \in SUBSET Handles
        /\ pc \in [Procs -> PCs] /\ cmd \in [Procs -> Commands]
        /\ op \in [Procs -> {"none", "read", "write"}]
        /\ rsp \in [Procs -> {"none", "done", "error", "eof"}]
        /\ shown \in [Procs -> Classes \cup {"junk", "none"}]
        /\ status \in [Procs -> {"runs", "ok", "failed"}]
    BY DEF Init, PCs, Commands, Classes
  <2>3. /\ arg \in [Procs -> Handles \cup {None}]
        /\ handle \in [Procs -> Handles \cup {None}]
        /\ out \in [Procs -> Handles \cup {None}]
        /\ given \in [Procs -> Handles \cup {None}]
        /\ tries \in [Procs -> Nat] /\ useless \in Nat /\ faults \in Nat
    BY DEF Init
  <2>4. /\ inForce \in [Procs -> SUBSET Classes] /\ unset \in [Procs -> BOOLEAN]
        /\ removed \in SUBSET Handles /\ refused \in BOOLEAN
    BY DEF Init
  <2> QED
    BY <2>1, <2>2, <2>3, <2>4 DEF TypeOK
<1>2. Places /\ Requests /\ Answers /\ Owned
  BY DEF Init, Places, Requests, Answers, Owned, Talks, Collects, None
<1>3. Events /\ ClassReadWasInForce /\ WriteTakenForDone
  BY DEF Init, Events, Collects, ClassReadWasInForce, WriteTakenForDone
<1> QED
  BY <1>1, <1>2, <1>3 DEF IInv

LEMMA StartInv == ASSUME IInv, NEW p \in Procs, Start(p) PROVE IInv'
<1>1. TypeOK /\ pc[p] = "unborn"
  BY Parts DEF Start
<1>2. PICK c \in Commands : /\ cmd' = [cmd EXCEPT ![p] = c]
                            /\ Goto(p, IF Asks(c) THEN "open" ELSE "connect")
                            /\ op' = [op EXCEPT ![p] = IF c = "cod" THEN "read" ELSE "write"]
  BY DEF Start, Asks
<1>3. \A q \in Procs : q # p => pc'[q] = pc[q] /\ cmd'[q] = cmd[q] /\ arg'[q] = arg[q] /\ op'[q] = op[q]
  BY <1>1, <1>2 DEF TypeOK, Start, Goto
<1>4. /\ pc'[p] = IF Asks(c) THEN "open" ELSE "connect"
      /\ cmd'[p] = c /\ op'[p] = IF c = "cod" THEN "read" ELSE "write"
  BY <1>1, <1>2 DEF TypeOK, Goto
<1>5. /\ UNCHANGED <<class, hciQ, records, sdpQ, inbox, tries, rsp, handle, out, shown, status>>
      /\ UNCHANGED <<inForce, unset, given, removed, refused>>
  BY DEF Start, stackVars, ghosts
<1>6. TypeOK'
  BY <1>1 DEF TypeOK, PCs, Commands, Start, Goto, stackVars, ghosts
<1>7. Places'
  BY <1>1, <1>3, <1>4, <1>5, Parts DEF Places, Talks, Collects, Asks
<1>8. /\ status[p] = "runs" /\ rsp[p] = "none" /\ given[p] = None
  BY <1>1, Parts DEF Places, Answers, TypeOK
<1>9. Requests'
  BY <1>1, <1>3, <1>5, <1>8, Parts, RequestsAlone
<1>10. Answers'
  BY <1>3, <1>4, <1>5, <1>8, Parts DEF Answers, Talks, Collects, Asks, Registers
<1>11. Owned'
  BY <1>5, Parts DEF Owned
<1>12. \A q \in Procs : /\ Writes(q) => Writes(q)'
                        /\ \A v : WrittenBy(v, q) => WrittenBy(v, q)'
  BY <1>1, <1>3, <1>5 DEF Writes, Wanted, WrittenBy
<1>13. Events'
  <2>1. \A q \in Procs : Collects(q)' => Collects(q) /\ q # p
    BY <1>3, <1>4 DEF Collects
  <2> QED
    BY <2>1, <1>1, <1>3, <1>5, <1>12, Parts, EventsAlone
<1>14. ClassReadWasInForce' /\ WriteTakenForDone'
  <2>1. \A q \in Procs : status'[q] = "ok" => status[q] = "ok" /\ q # p
    BY <1>5, <1>8
  <2> QED
    BY <2>1, <1>3, <1>5, <1>12, Parts, ReadAlone, WrittenAlone
<1> QED
  BY <1>6, <1>7, <1>9, <1>10, <1>11, <1>13, <1>14 DEF IInv

LEMMA CallFailsInv == ASSUME IInv, NEW p \in Procs, CallFails(p) PROVE IInv'
<1>1. TypeOK /\ tries \in [Procs -> Nat] /\ useless \in Nat /\ faults \in Nat
  BY Parts DEF TypeOK
<1>2. /\ pc[p] # "unborn" /\ Exit(p, "failed")
      /\ op' = [op EXCEPT ![p] = "none"] /\ inbox' = [inbox EXCEPT ![p] = <<>>]
      /\ tries' = tries /\ useless' = useless /\ faults' \in Nat
      /\ UNCHANGED <<stackVars, cmd, arg, rsp, handle, out, shown, ghosts>>
  BY <1>1 DEF CallFails, Fault
<1> QED
  BY <1>1, <1>2, FailedInv

LEMMA SelectTimesOutInv == ASSUME IInv, NEW p \in Procs, SelectTimesOut(p) PROVE IInv'
BY FailedInv, Parts DEF SelectTimesOut, TypeOK

LEMMA PollTimesOutInv == ASSUME IInv, NEW p \in Procs, PollTimesOut(p) PROVE IInv'
BY FailedInv, Parts DEF PollTimesOut, CallGivenUp, ghosts, TypeOK

-----------------------------------------------------------------------------
(* The two halves of a request to the SDP server.                          *)
LEMMA ConnectInv == ASSUME IInv, NEW p \in Procs, Connect(p) PROVE IInv'
<1>1. TypeOK /\ pc[p] = "connect" /\ ~Asks(cmd[p]) /\ rsp[p] = "none" /\ given[p] = None
  BY Parts DEF Connect, Places, Answers
<1>2. CASE cmd[p] = "phone" /\ arg[p] = None
  <2>1. /\ Exit(p, "failed") /\ op' = op /\ inbox' = inbox
        /\ tries' = tries /\ useless' = useless /\ faults' = faults
        /\ UNCHANGED <<stackVars, cmd, arg, rsp, handle, out, shown, ghosts>>
    BY <1>2 DEF Connect, stackVars
  <2> QED
    BY <1>1, <2>1, FailedInv DEF TypeOK
<1>3. CASE ~(cmd[p] = "phone" /\ arg[p] = None)
  <2> DEFINE r == [by |-> p, h |-> arg[p],
                   op |-> IF Registers(cmd[p]) THEN "register" ELSE "remove"]
  <2>1. /\ sdpQ' = Append(sdpQ, r) /\ Goto(p, "select")
        /\ UNCHANGED <<class, hciQ, records, cmd, arg, op, inbox, tries, rsp, handle, out,
                       shown, status, useless, faults>>
        /\ UNCHANGED <<inForce, unset, given, removed, refused>>
    BY <1>3 DEF Connect, ghosts
  <2>2. r \in Request /\ r.by = p /\ r.h = arg[p]
        /\ r.op = IF Registers(cmd[p]) THEN "register" ELSE "remove"
    BY <1>1 DEF Request, TypeOK
  <2> HIDE DEF r
  <2>3. /\ pc' \in [Procs -> PCs] /\ pc'[p] = "select"
        /\ \A q \in Procs : q # p => pc'[q] = pc[q]
    BY <1>1, <2>1 DEF TypeOK, PCs, Goto
  <2>4. sdpQ' \in Seq(Request)
    BY <1>1, <2>1, <2>2 DEF TypeOK
  <2>5. TypeOK'
    BY <1>1, <2>1, <2>3, <2>4 DEF TypeOK
  <2>6. Places'
    BY <1>1, <2>1, <2>3, Parts DEF Places, Talks, Collects, Asks
  <2>7. Requests'
    <3>1. \A i \in DOMAIN sdpQ' : \/ i \in DOMAIN sdpQ /\ sdpQ'[i] = sdpQ[i]
                                  \/ i = Len(sdpQ) + 1 /\ sdpQ'[i] = r
      BY <1>1, <2>1, <2>2 DEF TypeOK
    <3>2. \A i \in DOMAIN sdpQ : sdpQ[i].by \in Procs \ {p}
      <4>1. status[p] # "failed"
        BY <1>1, Parts DEF Places
      <4> QED
        BY <1>1, <4>1, Entries, Parts DEF Requests
    <3> QED
      BY <1>1, <2>1, <2>2, <2>3, <3>1, <3>2, Parts DEF Requests
  <2>8. Answers' /\ Owned'
    BY <1>1, <2>1, <2>3, Parts DEF Answers, Owned, Talks, Collects, Asks, Registers
  <2>9. Events'
    <3>1. \A q \in Procs : \A v : WrittenBy(v, q) => WrittenBy(v, q)'
      BY <2>1, <2>3 DEF Writes, Wanted, WrittenBy
    <3>2. \A q \in Procs : Collects(q)' => Collects(q)
      BY <2>3 DEF Collects
    <3> QED
      BY <1>1, <2>1, <3>1, <3>2, Parts, EventsAlone
  <2>10. ClassReadWasInForce' /\ WriteTakenForDone'
    BY <2>1, <2>3, Parts, ReadAlone, WrittenAlone DEF Writes
  <2> QED
    BY <2>5, <2>6, <2>7, <2>8, <2>9, <2>10 DEF IInv
<1> QED
  BY <1>2, <1>3

LEMMA ReadRspInv == ASSUME IInv, NEW p \in Procs, ReadRsp(p) PROVE IInv'
<1>1. TypeOK /\ pc[p] = "select" /\ ~Asks(cmd[p]) /\ status[p] = "runs"
  BY Parts DEF ReadRsp, Places, TypeOK
<1>2. CASE rsp[p] # "done"
  <2>1. /\ Exit(p, "failed") /\ op' = op /\ inbox' = inbox
        /\ tries' = tries /\ useless' = useless /\ faults' = faults
        /\ UNCHANGED <<stackVars, cmd, arg, rsp, handle, out, shown, ghosts>>
    BY <1>2 DEF ReadRsp
  <2> QED
    BY <1>1, <2>1, FailedInv DEF TypeOK
<1>3. CASE rsp[p] = "done"
  <2>1. /\ Goto(p, "open")
        /\ handle' = [handle EXCEPT ![p] = IF Registers(cmd[p]) THEN given[p] ELSE None]
        /\ UNCHANGED <<class, hciQ, records, sdpQ, cmd, arg, op, inbox, tries, rsp, out, shown,
                       status, useless, faults>>
        /\ UNCHANGED <<inForce, unset, given, removed, refused>>
    BY <1>3 DEF ReadRsp, stackVars, ghosts
  <2>2. /\ pc' \in [Procs -> PCs] /\ pc'[p] = "open"
        /\ handle' \in [Procs -> Handles \cup {None}]
        /\ handle'[p] = IF Registers(cmd[p]) THEN given[p] ELSE None
        /\ \A q \in Procs : q # p => pc'[q] = pc[q] /\ handle'[q] = handle[q]
    BY <1>1, <2>1 DEF TypeOK, PCs, Goto
  <2>3. TypeOK'
    BY <1>1, <2>1, <2>2 DEF TypeOK
  <2>4. op[p] = "write"
    BY <1>1, Parts DEF Places
  <2>5. Places'
    BY <1>1, <2>1, <2>2, <2>4, Parts DEF Places, Talks, Collects, Asks
  <2>6. Requests'
    <3>1. \A i \in DOMAIN sdpQ : sdpQ[i].by \in Procs \ {p}
      BY <1>1, <1>3, Entries, Parts DEF Requests
    <3> QED
      BY <1>1, <2>1, <2>2, <3>1, Parts DEF Requests
  <2>7. Answers'
    BY <1>1, <1>3, <2>1, <2>2, Parts DEF Answers, Talks, Collects
  <2>8. Owned'
    BY <2>1, Parts DEF Owned
  <2>9. Events'
    <3>1. \A q \in Procs : \A v : WrittenBy(v, q) => WrittenBy(v, q)'
      BY <2>1, <2>2 DEF Writes, Wanted, WrittenBy
    <3>2. \A q \in Procs : Collects(q)' => Collects(q)
      BY <2>2 DEF Collects
    <3> QED
      BY <1>1, <2>1, <3>1, <3>2, Parts, EventsAlone
  <2>10. ClassReadWasInForce' /\ WriteTakenForDone'
    BY <2>1, <2>2, Parts, ReadAlone, WrittenAlone DEF Writes
  <2> QED
    BY <2>3, <2>5, <2>6, <2>7, <2>8, <2>9, <2>10 DEF IInv
<1> QED
  BY <1>2, <1>3

-----------------------------------------------------------------------------
(* The calls of hci_send_req.                                              *)
LEMMA OpenDevInv == ASSUME IInv, NEW p \in Procs, OpenDev(p) PROVE IInv'
<1>1. TypeOK /\ pc[p] = "open"
  BY Parts DEF OpenDev
<1>2. /\ UNCHANGED <<class, hciQ, records, sdpQ, cmd, arg, op, rsp, handle, out, shown, status,
                     useless, faults, unset, given, removed, refused>>
      /\ Goto(p, "send")
      /\ inbox' = [inbox EXCEPT ![p] = <<>>] /\ tries' = [tries EXCEPT ![p] = Tries]
      /\ inForce' = [inForce EXCEPT ![p] = {class}]
  BY DEF OpenDev, stackVars
<1>3. /\ pc' \in [Procs -> PCs] /\ inbox' \in [Procs -> Seq(Event)]
      /\ tries' \in [Procs -> Nat] /\ inForce' \in [Procs -> SUBSET Classes]
      /\ pc'[p] = "send" /\ inbox'[p] = <<>> /\ tries'[p] > 0 /\ inForce'[p] = {class}
      /\ \A q \in Procs : q # p => /\ pc'[q] = pc[q] /\ inbox'[q] = inbox[q]
                                   /\ tries'[q] = tries[q] /\ inForce'[q] = inForce[q]
  BY <1>1, <1>2 DEF TypeOK, PCs, Goto
<1>4. TypeOK'
  BY <1>1, <1>2, <1>3 DEF TypeOK
<1>5. Places'
  BY <1>1, <1>2, <1>3, Parts DEF Places, Talks, Collects, Asks
<1>6. Requests'
  BY <1>1, <1>2, <1>3, Parts, RequestsAlone
<1>7. Answers' /\ Owned'
  BY <1>1, <1>2, <1>3, Parts DEF Answers, Owned, Talks, Collects
<1>8. \A q \in Procs : Writes(q)' = Writes(q) /\ \A v : WrittenBy(v, q)' = WrittenBy(v, q)
  BY <1>1, <1>2, <1>3 DEF Writes, Wanted, WrittenBy
<1>9. Events'
  BY <1>2, <1>3, <1>8, Parts DEF Events, Collects
<1>10. ClassReadWasInForce' /\ WriteTakenForDone'
  <2>1. status[p] # "ok"
    BY <1>1, Parts DEF Places
  <2> QED
    BY <2>1, <1>2, <1>3, <1>8, Parts, ReadAlone, WrittenAlone
<1> QED
  BY <1>4, <1>5, <1>6, <1>7, <1>9, <1>10 DEF IInv

LEMMA SendCmdInv == ASSUME IInv, NEW p \in Procs, SendCmd(p) PROVE IInv'
<1> DEFINE c == [op |-> op[p], val |-> Wanted(p)]
<1>1. TypeOK /\ pc[p] = "send" /\ op[p] \in {"read", "write"}
      /\ (cmd[p] = "cod" => op[p] = "read")
  BY Parts DEF SendCmd, Places, Talks, Collects
<1>2. /\ UNCHANGED <<class, records, sdpQ, cmd, arg, op, inbox, tries, rsp, handle, out, shown,
                     status, useless, faults>>
      /\ UNCHANGED <<inForce, unset, given, removed, refused>>
      /\ Goto(p, "wait") /\ hciQ' = Append(hciQ, c)
  BY DEF SendCmd, ghosts
<1>3. c \in HciCommand /\ c.op = op[p] /\ c.val = Wanted(p)
  BY <1>1 DEF HciCommand, Wanted, Classes
<1> HIDE DEF c
<1>4. /\ pc' \in [Procs -> PCs] /\ pc'[p] = "wait"
      /\ \A q \in Procs : q # p => pc'[q] = pc[q]
  BY <1>1, <1>2 DEF TypeOK, PCs, Goto
<1>5. hciQ' \in Seq(HciCommand)
  BY <1>1, <1>2, <1>3 DEF TypeOK
<1>6. TypeOK'
  BY <1>1, <1>2, <1>4, <1>5 DEF TypeOK
<1>7. Places'
  BY <1>1, <1>2, <1>4, Parts DEF Places, Talks, Collects, Asks
<1>8. Requests'
  BY <1>1, <1>2, <1>4, Parts, RequestsAlone
<1>9. Answers' /\ Owned'
  BY <1>1, <1>2, <1>4, Parts DEF Answers, Owned, Talks, Collects
<1>10. \A q \in Procs : /\ Writes(q)' = Writes(q) /\ Collects(q)' = Collects(q)
                       /\ \A v : WrittenBy(v, q)' = WrittenBy(v, q)
  BY <1>1, <1>2, <1>4 DEF Writes, Wanted, WrittenBy, Collects
<1>11. Events'
  <2>1. \A i \in DOMAIN hciQ' : \/ i \in DOMAIN hciQ /\ hciQ'[i] = hciQ[i]
                                \/ hciQ'[i] = c
    BY <1>1, <1>2, <1>3 DEF TypeOK
  <2>2. op[p] = "write" => WrittenBy(c.val, p)
    <3>1. ~Asks(cmd[p]) => rsp[p] = "done"
      BY <1>1, Parts DEF Answers, Talks, Collects
    <3> QED
      BY <1>1, <1>3, <3>1 DEF WrittenBy, Writes
  <2> QED
    BY <1>2, <1>3, <1>10, <2>1, <2>2, Parts DEF Events
<1>12. ClassReadWasInForce' /\ WriteTakenForDone'
  BY <1>2, <1>10, Parts, ReadAlone, WrittenAlone
<1> QED
  BY <1>6, <1>7, <1>8, <1>9, <1>11, <1>12 DEF IInv

(* The call has returned 0.                                                *)
LEMMA CallDoneInv ==
    ASSUME IInv, NEW p \in Procs, pc[p] = "wait", NEW v \in Classes \cup {"junk"},
           CallDone(p, v),
           op[p] = "read" => v \in inForce[p],
           op[p] = "write" => refused \/ (v \in inForce[p] /\ \E q \in Procs : WrittenBy(v, q)),
           UNCHANGED <<stackVars, cmd, arg, tries, rsp, handle, useless, faults>>,
           UNCHANGED <<inForce, given, removed, refused>>
    PROVE  IInv'
<1>1. TypeOK /\ op[p] \in {"read", "write"} /\ status[p] = "runs" /\ Talks(p)
      /\ (cmd[p] = "cod" => op[p] = "read") /\ (~Asks(cmd[p]) => op[p] = "write")
  BY Parts DEF Places, Talks, Collects, TypeOK
<1>2. UNCHANGED <<class, hciQ, records, sdpQ>>
  BY DEF stackVars
<1> DEFINE again == op[p] = "write" /\ cmd[p] = "cod-mouse"
<1>3. /\ pc'[p] = IF again THEN "open" ELSE "end"
      /\ op'[p] = IF again THEN "read" ELSE "none"
      /\ status'[p] = IF again THEN "runs" ELSE "ok"
      /\ shown'[p] = IF op[p] = "read" THEN v ELSE shown[p]
      /\ ~again => out'[p] = handle[p]
      /\ again => out'[p] = out[p]
      /\ unset'[p] = (unset[p] \/ (op[p] = "write" /\ Wanted(p) \notin inForce[p]))
  BY <1>1 DEF CallDone, Exit, Goto, TypeOK
<1>4. \A q \in Procs : q # p =>
         /\ pc'[q] = pc[q] /\ op'[q] = op[q] /\ inbox'[q] = inbox[q] /\ status'[q] = status[q]
         /\ shown'[q] = shown[q] /\ out'[q] = out[q] /\ unset'[q] = unset[q]
  BY <1>1 DEF CallDone, Exit, Goto, TypeOK
<1>5. TypeOK'
  <2>1. /\ pc' \in [Procs -> PCs] /\ op' \in [Procs -> {"none", "read", "write"}]
        /\ status' \in [Procs -> {"runs", "ok", "failed"}]
    BY <1>1 DEF CallDone, Exit, Goto, TypeOK, PCs
  <2>2. inbox' \in [Procs -> Seq(Event)]
    <3>1. inbox \in [Procs -> Seq(Event)] /\ <<>> \in Seq(Event)
      BY <1>1 DEF TypeOK
    <3> QED
      BY <3>1 DEF CallDone
  <2>3. shown' \in [Procs -> Classes \cup {"junk", "none"}]
    BY <1>1 DEF CallDone, TypeOK
  <2>4. out' \in [Procs -> Handles \cup {None}]
    BY <1>1 DEF CallDone, TypeOK
  <2>5. unset' \in [Procs -> BOOLEAN]
    <3> DEFINE u == unset[p] \/ (op[p] = "write" /\ Wanted(p) \notin inForce[p])
    <3>1. u \in BOOLEAN /\ unset \in [Procs -> BOOLEAN] /\ unset' = [unset EXCEPT ![p] = u]
      BY <1>1 DEF CallDone, TypeOK
    <3> HIDE DEF u
    <3> QED
      BY <3>1
  <2> QED
    BY <1>1, <1>2, <2>1, <2>2, <2>3, <2>4, <2>5 DEF TypeOK
<1>6. Places'
  BY <1>1, <1>2, <1>3, <1>4, Parts DEF Places, Talks, Collects, Asks
<1>7. Requests'
  BY <1>1, <1>2, <1>3, <1>4, Parts, RequestsAlone
<1>8. Answers'
  BY <1>1, <1>2, <1>3, <1>4, Parts DEF Answers, Talks, Collects
<1>9. Owned'
  BY <1>2, Parts DEF Owned
<1>10. \A q \in Procs : Writes(q)' = Writes(q) /\ \A w : WrittenBy(w, q)' = WrittenBy(w, q)
  BY <1>1, <1>3, <1>4 DEF Writes, Wanted, WrittenBy
<1>11. Events'
  <2>1. \A q \in Procs : Collects(q)' => Collects(q) /\ q # p
    BY <1>3, <1>4 DEF Collects
  <2> QED
    BY <1>1, <1>2, <1>4, <1>10, <2>1, Parts, EventsAlone
<1>12. ClassReadWasInForce'
  <2>1. status'[p] = "ok" /\ cmd[p] \in {"cod", "cod-mouse"} => shown'[p] \in inForce[p]
    BY <1>1, <1>3
  <2> QED
    BY <1>4, <2>1, Parts DEF ClassReadWasInForce
<1>13. WriteTakenForDone'
  <2>1. ASSUME op[p] = "write", Wanted(p) \notin inForce[p], ~refused
        PROVE  \E q \in Procs \ {p} : Writes(q)
    BY <2>1 DEF WrittenBy
  <2>2. unset'[p] => unset[p] \/ refused \/ \E q \in Procs \ {p} : Writes(q)
    BY <1>3, <2>1
  <2> QED
    BY <1>4, <1>10, <2>2, Parts DEF WriteTakenForDone
<1> QED
  BY <1>5, <1>6, <1>7, <1>8, <1>9, <1>11, <1>12, <1>13 DEF IInv

LEMMA GivenUpInv ==
    ASSUME IInv, NEW p \in Procs, pc[p] = "wait", CallGivenUp(p),
           tries' \in [Procs -> Nat], \A q \in Procs : q # p => tries'[q] = tries[q],
           useless' \in Nat,
           UNCHANGED <<stackVars, cmd, arg, rsp, handle, faults>>,
           UNCHANGED <<inForce, given, removed, refused>>
    PROVE  IInv'
<1>1. faults \in Nat
  BY Parts DEF TypeOK
<1> QED
  BY <1>1, FailedInv DEF CallGivenUp, ghosts

LEMMA ReadEventInv == ASSUME IInv, NEW p \in Procs, ReadEvent(p) PROVE IInv'
<1> DEFINE e == Head(inbox[p])
<1>1. TypeOK /\ pc[p] = "wait" /\ Collects(p)
      /\ UNCHANGED <<stackVars, cmd, arg, tries, rsp, handle, useless, faults>>
      /\ UNCHANGED <<inForce, given, removed, refused>>
  BY Parts DEF ReadEvent, Collects
<1>2. e = inbox[p][1] /\ 1 \in DOMAIN inbox[p] /\ e \in Event
  <2>1. inbox[p] \in Seq(Event) /\ inbox[p] # <<>>
    BY <1>1, Entries DEF ReadEvent
  <2> QED
    BY <2>1
<1>3. CASE e.evt = "complete" /\ (op[p] = "read" => e.ok)
  <2>1. e.val \in Classes \cup {"junk"} /\ CallDone(p, e.val)
    BY <1>2, <1>3 DEF ReadEvent, Event
  <2>2. /\ e.ok => e.val \in inForce[p]
        /\ op[p] = "write" => refused \/ (e.ok /\ \E q \in Procs : WrittenBy(e.val, q))
    BY <1>1, <1>2, <1>3, Parts DEF Events
  <2> HIDE DEF e
  <2> QED
    BY <1>1, <1>3, <2>1, <2>2, CallDoneInv
<1>4. CASE ~(e.evt = "complete" /\ (op[p] = "read" => e.ok))
  <2>1. CallGivenUp(p)
    BY <1>4 DEF ReadEvent
  <2> QED
    BY <1>1, <2>1, GivenUpInv DEF TypeOK
<1> QED
  BY <1>3, <1>4

LEMMA ReadUselessInv == ASSUME IInv, NEW p \in Procs, ReadUseless(p) PROVE IInv'
<1>1. TypeOK /\ pc[p] = "wait" /\ tries[p] \in Nat /\ tries[p] > 0
      /\ UNCHANGED <<stackVars, cmd, arg, rsp, handle, faults>>
      /\ UNCHANGED <<inForce, given, removed, refused>>
  BY Parts DEF ReadUseless, Places, Collects, TypeOK
<1>2. /\ tries' \in [Procs -> Nat] /\ useless' \in Nat
      /\ tries'[p] = tries[p] - 1 /\ \A q \in Procs : q # p => tries'[q] = tries[q]
  BY <1>1 DEF ReadUseless, TypeOK
<1>3. CASE tries[p] = 1
  BY <1>1, <1>2, <1>3, GivenUpInv DEF ReadUseless
<1>4. CASE tries[p] # 1
  <2>1. UNCHANGED <<inbox, op, pc, out, shown, status, unset>>
    BY <1>4 DEF ReadUseless
  <2>2. UNCHANGED <<class, hciQ, records, sdpQ>>
    BY <1>1 DEF stackVars
  <2>3. TypeOK'
    BY <1>1, <1>2, <2>1, <2>2 DEF TypeOK
  <2>4. Places'
    BY <1>1, <1>2, <1>4, <2>1, <2>2, Parts DEF Places, Talks, Collects
  <2>5. Requests' /\ Answers' /\ Owned'
    BY <1>1, <2>1, <2>2, Parts DEF Requests, Answers, Owned, Talks, Collects
  <2>6. \A q \in Procs : /\ Writes(q)' = Writes(q) /\ Collects(q)' = Collects(q)
                         /\ \A v : WrittenBy(v, q)' = WrittenBy(v, q)
    BY <1>1, <2>1 DEF Writes, Wanted, WrittenBy, Collects
  <2>7. Events' /\ ClassReadWasInForce' /\ WriteTakenForDone'
    BY <1>1, <2>1, <2>2, <2>6, Parts, EventsAlone, ReadAlone, WrittenAlone
  <2> QED
    BY <2>3, <2>4, <2>5, <2>7 DEF IInv
<1> QED
  BY <1>3, <1>4

-----------------------------------------------------------------------------
(* The SDP server has a handle left for each request: the records belong   *)
(* to the other processes.                                                 *)
LEMMA HandleLeft ==
    ASSUME TypeOK, Owned, NEW p \in Procs, given[p] = None
    PROVE  Handles \ records # {}
<1> DEFINE S == Procs \ {p}
           f == [q \in S |-> IF given[q] \in Handles THEN given[q] ELSE 1]
<1> SUFFICES ASSUME Handles \subseteq records PROVE FALSE
  OBVIOUS
<1>1. IsFiniteSet(S) /\ Cardinality(S) = Cardinality(Procs) - 1 /\ Cardinality(Procs) \in Nat
      /\ Cardinality(S) \in Nat
  BY FS_RemoveElement, FS_CardinalityType
<1>2. 1 \in Handles /\ None \notin Handles
  BY <1>1 DEF Handles, None
<1>3. f \in [S -> Handles]
  BY <1>2
<1>4. \A h \in Handles : \E q \in S : f[q] = h
  BY <1>2 DEF Owned
<1> HIDE DEF f
<1>5. f \in Surjection(S, Handles)
  BY <1>3, <1>4 DEF Surjection
<1>6. Cardinality(Handles) <= Cardinality(S)
  BY <1>1, <1>5, FS_Surjection
<1>7. Cardinality(Handles) = Cardinality(Procs)
  BY <1>1, FS_Interval DEF Handles
<1> QED
  BY <1>1, <1>6, <1>7

LEMMA FreeHandleIsFree ==
    ASSUME TypeOK, Owned, NEW p \in Procs, given[p] = None
    PROVE  FreeHandle \in Handles \ records
<1> DEFINE S == Handles \ records
           Less == {ss \in Nat \X Nat : ss[1] < ss[2]}
<1>1. S # {} /\ S \subseteq Nat
  BY HandleLeft DEF Handles
<1> HIDE DEF S
<1>2. PICK h \in S : \A g \in S : <<g, h>> \notin Less
  BY <1>1, NatLessThanWellFounded, WFMin DEF OpToRel
<1>3. \A g \in S : h <= g
  <2> TAKE g \in S
  <2>1. <<g, h>> \in Nat \X Nat /\ ~(g < h)
    BY <1>1, <1>2
  <2> QED
    BY <2>1
<1> QED
  BY <1>2, <1>3 DEF FreeHandle, S

(* The request at the head of the queue, and the others.                   *)
LEMMA HeadRequest ==
    ASSUME TypeOK, Places, Requests, sdpQ # <<>>, sdpQ' = Tail(sdpQ)
    PROVE  LET q == Head(sdpQ) IN
           /\ q \in Request /\ sdpQ' \in Seq(Request)
           /\ rsp[q.by] = "none" /\ given[q.by] = None
           /\ pc[q.by] \in {"select", "end"} /\ status[q.by] # "ok"
           /\ q.h = arg[q.by]
           /\ q.op = IF Registers(cmd[q.by]) THEN "register" ELSE "remove"
           /\ \A i \in DOMAIN sdpQ' : /\ i + 1 \in DOMAIN sdpQ /\ i \in Nat
                                      /\ sdpQ'[i] = sdpQ[i + 1]
                                      /\ sdpQ'[i].by \in Procs \ {q.by}
<1> DEFINE q == Head(sdpQ)
<1>1. /\ sdpQ \in Seq(Request) /\ 1 \in DOMAIN sdpQ /\ q = sdpQ[1] /\ q \in Request
      /\ sdpQ' \in Seq(Request)
  BY DEF TypeOK
<1>2. \A i \in DOMAIN sdpQ' : i + 1 \in DOMAIN sdpQ /\ i \in Nat /\ i + 1 # 1
                              /\ sdpQ'[i] = sdpQ[i + 1]
  BY <1>1
<1>3. q.by \in Procs
  BY <1>1 DEF Request
<1> HIDE DEF q
<1>4. /\ rsp[q.by] = "none" /\ given[q.by] = None
      /\ pc[q.by] \in {"select", "end"} /\ status[q.by] # "ok"
      /\ q.h = arg[q.by]
      /\ q.op = IF Registers(cmd[q.by]) THEN "register" ELSE "remove"
  BY <1>1, <1>3 DEF Requests, Places
<1>5. \A i \in DOMAIN sdpQ' : sdpQ'[i].by \in Procs \ {q.by}
  BY <1>1, <1>2, Entries DEF Requests
<1> QED
  BY <1>1, <1>2, <1>4, <1>5 DEF q

(* A request has been served, or not.                                      *)
LEMMA ServedInv ==
    ASSUME IInv, sdpQ # <<>>, sdpQ' = Tail(sdpQ),
           NEW q, q = Head(sdpQ),
           NEW r \in {"done", "error", "eof"}, Answer(q.by, r),
           records' \subseteq Handles, removed' \subseteq Handles,
           records \cup removed \subseteq records' \cup removed', removed \subseteq removed',
           given' \in [Procs -> Handles \cup {None}],
           \A p \in Procs : p # q.by => given'[p] = given[p],
           given'[q.by] # None => Registers(cmd[q.by]),
           r = "done" => IF Registers(cmd[q.by]) THEN given'[q.by] \in records'
                                                 ELSE arg[q.by] \in removed',
           records' \ records \subseteq {given'[q.by]},
           UNCHANGED <<class, hciQ, pc, cmd, arg, op, inbox, tries, handle, out, shown, status,
                       useless, inForce, unset, refused>>,
           faults' \in Nat
    PROVE  IInv'
<1>1. TypeOK /\ None \notin Handles
  BY Parts DEF Handles, None
<1>2. /\ q \in Request /\ sdpQ' \in Seq(Request) /\ q.by \in Procs
      /\ rsp[q.by] = "none" /\ given[q.by] = None
      /\ pc[q.by] \in {"select", "end"} /\ status[q.by] # "ok"
      /\ q.h = arg[q.by]
      /\ \A i \in DOMAIN sdpQ' : /\ i + 1 \in DOMAIN sdpQ /\ i \in Nat
                                 /\ sdpQ'[i] = sdpQ[i + 1]
                                 /\ sdpQ'[i].by \in Procs \ {q.by}
  BY <1>1, Parts, HeadRequest DEF Request
<1>3. /\ rsp' \in [Procs -> {"none", "done", "error", "eof"}]
      /\ rsp'[q.by] \in {"none", r}
      /\ \A p \in Procs : p # q.by => rsp'[p] = rsp[p]
  BY <1>1, <1>2 DEF TypeOK, Answer
<1>4. TypeOK'
  BY <1>1, <1>2, <1>3 DEF TypeOK
<1>5. Places'
  BY Parts DEF Places, Talks, Collects
<1>6. Requests'
  <2>1. ASSUME NEW i \in DOMAIN sdpQ'
        PROVE  /\ rsp'[sdpQ'[i].by] = "none" /\ given'[sdpQ'[i].by] = None
               /\ pc'[sdpQ'[i].by] = "select" \/ status'[sdpQ'[i].by] = "failed"
               /\ sdpQ'[i].h = arg'[sdpQ'[i].by]
               /\ sdpQ'[i].op = IF Registers(cmd'[sdpQ'[i].by]) THEN "register" ELSE "remove"
    BY <1>2, <1>3, Parts DEF Requests
  <2>2. ASSUME NEW i \in DOMAIN sdpQ', NEW j \in DOMAIN sdpQ', sdpQ'[i].by = sdpQ'[j].by
        PROVE  i = j
    <3>1. sdpQ[i + 1].by = sdpQ[j + 1].by /\ i + 1 \in DOMAIN sdpQ /\ j + 1 \in DOMAIN sdpQ
          /\ i \in Nat /\ j \in Nat
      BY <1>2, <2>2
    <3>2. i + 1 = j + 1
      BY <3>1, Parts DEF Requests
    <3> QED
      BY <3>1, <3>2
  <2> QED
    BY <2>1, <2>2 DEF Requests
<1>7. Answers'
  BY <1>2, <1>3, Parts DEF Answers, Talks, Collects, Registers
<1>8. Owned'
  BY <1>1, <1>2, Parts DEF Owned
<1>9. Events' /\ ClassReadWasInForce' /\ WriteTakenForDone'
  <2>1. \A p \in Procs : \A v : WrittenBy(v, p) => WrittenBy(v, p)'
    BY <1>2, <1>3 DEF WrittenBy, Writes, Wanted
  <2>2. Events'
    BY <1>1, <2>1, Parts, EventsAlone DEF Collects
  <2> QED
    BY <2>2, Parts DEF ClassReadWasInForce, WriteTakenForDone, Writes
<1> QED
  BY <1>4, <1>5, <1>6, <1>7, <1>8, <1>9 DEF IInv

LEMMA ServeInv == ASSUME IInv, Serve PROVE IInv'
<1> DEFINE q == Head(sdpQ)
<1>1. /\ TypeOK /\ sdpQ # <<>> /\ sdpQ' = Tail(sdpQ)
      /\ UNCHANGED <<class, hciQ, pc, cmd, arg, op, inbox, tries, handle, out, shown, status,
                     useless, inForce, unset, refused>>
      /\ faults' \in Nat
  BY Parts DEF Serve, TypeOK
<1>2. /\ q.by \in Procs /\ q.h = arg[q.by] /\ given[q.by] = None
      /\ q.op = IF Registers(cmd[q.by]) THEN "register" ELSE "remove"
  BY <1>1, Parts, HeadRequest DEF Request
<1>3. /\ records \subseteq Handles /\ removed \subseteq Handles
      /\ given \in [Procs -> Handles \cup {None}]
  BY <1>1 DEF TypeOK
<1>4. CASE Registers(cmd[q.by])
  <2>1. FreeHandle \in Handles
    BY <1>1, <1>2, Parts, FreeHandleIsFree
  <2>2. /\ records' = records \cup {FreeHandle} /\ removed' = removed
        /\ given' = [given EXCEPT ![q.by] = FreeHandle]
        /\ Answer(q.by, "done")
    BY <1>2, <1>4 DEF Serve
  <2> HIDE DEF q
  <2>3. /\ given' \in [Procs -> Handles \cup {None}] /\ given'[q.by] = FreeHandle
        /\ \A p \in Procs : p # q.by => given'[p] = given[p]
    BY <1>2, <1>3, <2>1, <2>2
  <2>4. q = Head(sdpQ)
    BY DEF q
  <2> QED
    BY <1>1, <1>3, <1>4, <2>1, <2>2, <2>3, <2>4, ServedInv
<1>5. CASE ~Registers(cmd[q.by])
  <2>1. /\ records' = records \ {q.h} /\ removed' = removed \cup ({q.h} \cap records)
        /\ given' = given
        /\ Answer(q.by, IF q.h \in records THEN "done" ELSE "error")
    BY <1>2, <1>5 DEF Serve
  <2> HIDE DEF q
  <2>2. q = Head(sdpQ)
    BY DEF q
  <2>3. CASE q.h \in records
    BY <1>1, <1>2, <1>3, <1>5, <2>1, <2>2, <2>3, ServedInv
  <2>4. CASE q.h \notin records
    BY <1>1, <1>2, <1>3, <1>5, <2>1, <2>2, <2>4, ServedInv
  <2> QED
    BY <2>3, <2>4
<1> QED
  BY <1>4, <1>5

LEMMA ServeNotInv == ASSUME IInv, ServeNot PROVE IInv'
<1> DEFINE q == Head(sdpQ)
<1>1. /\ TypeOK /\ sdpQ # <<>> /\ sdpQ' = Tail(sdpQ)
      /\ UNCHANGED <<class, hciQ, records, pc, cmd, arg, op, inbox, tries, handle, out, shown,
                     status, useless>>
      /\ UNCHANGED <<inForce, unset, given, removed, refused>>
      /\ faults' \in Nat
  BY Parts DEF ServeNot, Fault, TypeOK, ghosts
<1>2. PICK r \in {"error", "eof"} : Answer(q.by, r)
  BY DEF ServeNot
<1>3. given[q.by] = None
  BY <1>1, Parts, HeadRequest
<1>4. /\ records \subseteq Handles /\ removed \subseteq Handles
      /\ given \in [Procs -> Handles \cup {None}]
  BY <1>1 DEF TypeOK
<1> HIDE DEF q
<1>5. q = Head(sdpQ)
  BY DEF q
<1> QED
  BY <1>1, <1>2, <1>3, <1>4, <1>5, ServedInv

-----------------------------------------------------------------------------
(* The controller.  The inboxes after an event, if it is not lost.         *)
LEMMA Emitted ==
    ASSUME TypeOK, NEW o, NEW e \in Event, Emit(o, e) \/ UNCHANGED inbox
    PROVE  /\ inbox' \in [Procs -> Seq(Event)]
           /\ \A q \in Procs : \A i \in DOMAIN inbox'[q] :
                 \/ i \in DOMAIN inbox[q] /\ inbox'[q][i] = inbox[q][i]
                 \/ inbox'[q][i] = e /\ op[q] = o
<1>1. CASE UNCHANGED inbox
  BY <1>1 DEF TypeOK
<1>2. CASE Emit(o, e)
  <2>1. \A q \in Procs : /\ inbox[q] \in Seq(Event) /\ Append(inbox[q], e) \in Seq(Event)
                         /\ inbox'[q] \in {inbox[q], Append(inbox[q], e)}
                         /\ inbox'[q] # inbox[q] => op[q] = o
    BY <1>2, Entries DEF Emit
  <2>2. inbox' \in [Procs -> Seq(Event)]
    BY <1>2, <2>1 DEF Emit
  <2>3. ASSUME NEW q \in Procs, NEW i \in DOMAIN inbox'[q]
        PROVE  \/ i \in DOMAIN inbox[q] /\ inbox'[q][i] = inbox[q][i]
               \/ inbox'[q][i] = e /\ op[q] = o
    BY <2>1, <2>3
  <2> QED
    BY <2>2, <2>3
<1> QED
  BY <1>1, <1>2

(* A command has been executed, or refused.                                *)
LEMMA ExecutedInv ==
    ASSUME IInv, hciQ # <<>>, hciQ' = Tail(hciQ), NEW q, q = Head(hciQ),
           NEW e \in Event, Emit(q.op, e) \/ UNCHANGED inbox,
           NEW c \in Classes, ChangeClass(c),
           e.evt = "complete" /\ e.ok => e.val = c,
           q.op = "write" => refused' \/ (e.ok /\ e.val = q.val),
           refused' \in BOOLEAN, refused => refused', faults' \in Nat,
           UNCHANGED <<records, sdpQ, pc, cmd, arg, op, tries, rsp, handle, out, shown, status,
                       useless, unset, given, removed>>
    PROVE  IInv'
<1>1. TypeOK
  BY Parts
<1>2. /\ hciQ \in Seq(HciCommand) /\ 1 \in DOMAIN hciQ /\ q = hciQ[1] /\ q \in HciCommand
      /\ hciQ' \in Seq(HciCommand)
      /\ \A i \in DOMAIN hciQ' : i + 1 \in DOMAIN hciQ /\ hciQ'[i] = hciQ[i + 1]
  BY <1>1 DEF TypeOK
<1>3. /\ inbox' \in [Procs -> Seq(Event)]
      /\ \A p \in Procs : \A i \in DOMAIN inbox'[p] :
            \/ i \in DOMAIN inbox[p] /\ inbox'[p][i] = inbox[p][i]
            \/ inbox'[p][i] = e /\ op[p] = q.op
  BY <1>1, Emitted
<1>4. /\ class' = c /\ inForce' \in [Procs -> SUBSET Classes]
      /\ \A p \in Procs : inForce'[p] = IF Collects(p) THEN inForce[p] \cup {c} ELSE inForce[p]
  BY <1>1 DEF ChangeClass, TypeOK, Collects
<1>5. TypeOK'
  BY <1>1, <1>2, <1>3, <1>4 DEF TypeOK
<1>6. Places' /\ Requests' /\ Answers' /\ Owned'
  BY Parts DEF Places, Requests, Answers, Owned, Talks, Collects
<1>7. \A p \in Procs : /\ Writes(p)' = Writes(p)
                       /\ Collects(p)' = Collects(p)
                       /\ \A v : WrittenBy(v, p)' = WrittenBy(v, p)
  BY DEF Writes, Wanted, Collects, WrittenBy
<1>8. \A i \in DOMAIN hciQ' : hciQ'[i].op = "write" =>
         \E p \in Procs : WrittenBy(hciQ'[i].val, p)
  BY <1>2, Parts DEF Events
<1>9. ASSUME NEW p \in Procs, Collects(p), NEW i \in DOMAIN inbox'[p],
             inbox'[p][i].evt = "complete"
      PROVE  /\ inbox'[p][i].ok => inbox'[p][i].val \in inForce'[p]
             /\ op[p] = "write" =>
                   \/ refused'
                   \/ inbox'[p][i].ok /\ \E x \in Procs : WrittenBy(inbox'[p][i].val, x)
  <2>1. CASE i \in DOMAIN inbox[p] /\ inbox'[p][i] = inbox[p][i]
    BY <1>4, <1>9, <2>1, Parts DEF Events
  <2>2. CASE inbox'[p][i] = e /\ op[p] = q.op
    <3>1. q.op = "write" => \E x \in Procs : WrittenBy(q.val, x)
      BY <1>2, Parts DEF Events
    <3> QED
      BY <1>4, <1>9, <2>2, <3>1
  <2> QED
    BY <1>3, <2>1, <2>2
<1>10. Events'
  BY <1>4, <1>7, <1>8, <1>9 DEF Events
<1>11. ClassReadWasInForce'
  <2>1. \A p \in Procs : inForce[p] \subseteq inForce'[p]
    BY <1>4
  <2> QED
    BY <2>1, Parts DEF ClassReadWasInForce
<1>12. WriteTakenForDone'
  BY <1>7, Parts, WrittenAlone
<1> QED
  BY <1>5, <1>6, <1>10, <1>11, <1>12 DEF IInv

LEMMA ExecuteInv == ASSUME IInv, Execute PROVE IInv'
<1> DEFINE q == Head(hciQ)
           c == IF q.op = "write" THEN q.val ELSE class
           e == [evt |-> "complete", ok |-> TRUE, val |-> c]
<1>1. TypeOK /\ hciQ # <<>> /\ hciQ' = Tail(hciQ)
      /\ UNCHANGED <<records, sdpQ, pc, cmd, arg, op, tries, rsp, handle, out, shown, status,
                     useless, unset, given, removed, refused>>
  BY Parts DEF Execute
<1>2. /\ q \in HciCommand /\ class \in Classes /\ refused \in BOOLEAN /\ faults \in Nat
  BY <1>1 DEF TypeOK
<1>3. c \in Classes /\ (q.op = "write" => c = q.val)
  BY <1>2 DEF HciCommand
<1>4. ChangeClass(c) /\ class' = c
  BY DEF Execute, ChangeClass
<1>5. (Emit(q.op, e) \/ UNCHANGED inbox) /\ faults' \in Nat
  BY <1>2, <1>4 DEF Execute, Fault
<1>6. e \in Event /\ e.ok /\ e.val = c
  BY <1>3 DEF Event
<1> HIDE DEF c, e, q
<1>7. q = Head(hciQ)
  BY DEF q
<1> QED
  BY <1>1, <1>2, <1>3, <1>4, <1>5, <1>6, <1>7, ExecutedInv

LEMMA ExecuteNotInv == ASSUME IInv, ExecuteNot PROVE IInv'
<1> DEFINE q == Head(hciQ)
<1>1. TypeOK /\ hciQ # <<>> /\ hciQ' = Tail(hciQ)
      /\ UNCHANGED <<records, sdpQ, pc, cmd, arg, op, tries, rsp, handle, out, shown, status,
                     useless, unset, given, removed>>
      /\ UNCHANGED <<class, inForce>>
      /\ refused' = (refused \/ q.op = "write")
  BY Parts DEF ExecuteNot
<1>2. PICK e \in Event : e.ok = FALSE /\ (Emit(q.op, e) \/ UNCHANGED inbox)
  <2>1. \A evt \in {"complete", "status"} :
           [evt |-> evt, ok |-> FALSE, val |-> "junk"] \in Event
    BY DEF Event
  <2>2. CASE UNCHANGED inbox
    BY <2>1, <2>2
  <2>3. CASE inbox' # inbox
    BY <2>1, <2>3 DEF ExecuteNot
  <2> QED
    BY <2>2, <2>3
<1>3. class \in Classes /\ ChangeClass(class)
  <2>1. inForce = [p \in Procs |-> IF pc[p] \in {"send", "wait"}
                                   THEN inForce[p] \cup {class} ELSE inForce[p]]
    <3>1. \A p \in Procs : Collects(p) => class \in inForce[p]
      BY Parts DEF Events
    <3>2. inForce = [p \in Procs |-> inForce[p]]
      BY <1>1 DEF TypeOK
    <3>3. \A p \in Procs : inForce[p] = IF pc[p] \in {"send", "wait"}
                                        THEN inForce[p] \cup {class} ELSE inForce[p]
      BY <3>1 DEF Collects
    <3> QED
      BY <3>2, <3>3
  <2> QED
    BY <1>1, <2>1 DEF ChangeClass, TypeOK
<1>4. refused' \in BOOLEAN /\ faults' \in Nat /\ (refused => refused')
  BY <1>1 DEF ExecuteNot, Fault, TypeOK
<1> HIDE DEF q
<1>5. q = Head(hciQ)
  BY DEF q
<1> QED
  BY <1>1, <1>2, <1>3, <1>4, <1>5, ExecutedInv

-----------------------------------------------------------------------------
LEMMA NextInv == ASSUME IInv, [Next]_vars PROVE IInv'
<1>1. CASE UNCHANGED vars
  BY <1>1, Parts DEF vars, stackVars, procVars, ghosts, IInv, TypeOK, Places, Requests, Answers,
     Owned, Events, ClassReadWasInForce, WriteTakenForDone, Talks, Collects, WrittenBy,
     Writes, Wanted, Asks
<1>2. ASSUME NEW p \in Procs, Start(p) \/ Connect(p) \/ ProcRuns(p) \/ ReadUseless(p) \/ CallFails(p)
      PROVE  IInv'
  BY <1>2, StartInv, ConnectInv, ReadRspInv, SelectTimesOutInv, OpenDevInv, SendCmdInv,
     ReadEventInv, PollTimesOutInv, ReadUselessInv, CallFailsInv DEF ProcRuns
<1>3. CASE Serve \/ ServeNot \/ Execute \/ ExecuteNot
  BY <1>3, ServeInv, ServeNotInv, ExecuteInv, ExecuteNotInv
<1> QED
  BY <1>1, <1>2, <1>3 DEF Next

LEMMA Invariance == Spec => []IInv
<1>1. Init => IInv
  BY InitInv
<1>2. IInv /\ [Next]_vars => IInv'
  BY NextInv
<1> QED
  BY <1>1, <1>2, PTL DEF Spec

(* Every variable keeps its type: in particular the SDP server never runs  *)
(* out of handles, and an event is only ever read from a socket that has   *)
(* one.                                                                    *)
THEOREM TypeCorrect == Spec => []TypeOK
<1>1. IInv => TypeOK
  BY Parts
<1> QED
  BY <1>1, Invariance, PTL

(* The class that bmouse prints was the controller's class at some moment  *)
(* of the call, whoever else asks and writes (apply_profile.c with         *)
(* hci_send_req).                                                          *)
THEOREM ReadTrue == Spec => []ClassReadWasInForce
<1>1. IInv => ClassReadWasInForce
  BY Parts
<1> QED
  BY <1>1, Invariance, PTL

(* A class that bmouse takes for written has been in force since, unless   *)
(* the controller has refused a write or another process writes too.       *)
THEOREM WritesTrue == Spec => []WriteTakenForDone
<1>1. IInv => WriteTakenForDone
  BY Parts
<1> QED
  BY <1>1, Invariance, PTL

(* The exit status 0 and the handle printed with it are true: the record   *)
(* stands or has been removed, and the phone's record is gone.             *)
THEOREM ExitTrue == Spec => []ExitStatusTrue
<1>1. IInv => ExitStatusTrue
  <2> SUFFICES ASSUME IInv PROVE ExitStatusTrue
    OBVIOUS
  <2>1. \A p \in Procs : status[p] = "ok" /\ ~Asks(cmd[p]) => rsp[p] = "done"
    BY Parts DEF Answers
  <2> QED
    BY <2>1, Parts DEF Answers, ExitStatusTrue, Asks, Registers
<1> QED
  BY <1>1, Invariance, PTL

(* No record without a process that has been given its handle and has      *)
(* either printed it, failed, or not yet ended (add_sdp_record).           *)
THEOREM RecordsKnown == Spec => []RecordsAccountedFor
<1>1. IInv => RecordsAccountedFor
  <2> SUFFICES ASSUME IInv PROVE RecordsAccountedFor
    OBVIOUS
  <2>1. TypeOK /\ None \notin Handles
    BY Parts DEF Handles, None
  <2>2. \A p \in Procs : given[p] \in Handles /\ status[p] = "ok" => out[p] = given[p]
    BY <2>1, Parts DEF Answers
  <2> QED
    BY <2>1, <2>2, Parts DEF Owned, RecordsAccountedFor, TypeOK
<1> QED
  BY <1>1, Invariance, PTL

-----------------------------------------------------------------------------
(* Only the controller changes the class, for the write at the head of its *)
(* queue.                                                                  *)
LEMMA ClassStep ==
    ASSUME IInv, [Next]_vars
    PROVE  class' # class => \E p \in Procs : Writes(p) /\ Wanted(p) = class' /\ RecordDone(p)
<1>1. ASSUME Execute, class' # class
      PROVE  \E p \in Procs : Writes(p) /\ Wanted(p) = class' /\ RecordDone(p)
  <2>1. /\ TypeOK /\ None \notin Handles
        /\ records \subseteq Handles /\ removed \subseteq Handles
    BY Parts DEF TypeOK, Handles, None
  <2>2. 1 \in DOMAIN hciQ /\ Head(hciQ) = hciQ[1]
    BY <1>1, <2>1 DEF Execute, TypeOK
  <2>3. hciQ[1].op = "write" /\ class' = hciQ[1].val
    BY <1>1, <2>2 DEF Execute, ChangeClass
  <2>4. PICK p \in Procs : WrittenBy(class', p)
    BY <2>2, <2>3, Parts DEF Events
  <2>5. RecordDone(p)
    BY <2>1, <2>4, Parts DEF RecordDone, WrittenBy, Answers, Asks, Registers
  <2> QED
    BY <2>4, <2>5 DEF WrittenBy
<1>2. ~Execute => class' = class
  <2>1. CASE UNCHANGED vars
    BY <2>1 DEF vars, stackVars
  <2>2. ASSUME NEW p \in Procs, Start(p) \/ Connect(p) \/ ProcRuns(p) \/ ReadUseless(p) \/ CallFails(p)
        PROVE  class' = class
    BY <2>2 DEF Start, ProcRuns, ReadUseless, CallFails, Connect, ReadRsp, SelectTimesOut, OpenDev,
       SendCmd, ReadEvent, PollTimesOut, stackVars
  <2>3. CASE Serve \/ ServeNot \/ ExecuteNot
    BY <2>3 DEF Serve, ServeNot, ExecuteNot
  <2> QED
    BY <2>1, <2>2, <2>3 DEF Next
<1> QED
  BY <1>1, <1>2

(* The device class only follows a record: whoever changes it has put the  *)
(* record in place before, or taken it away (apply_profile.c: the record,  *)
(* then set_dev_class), also when the command is served after its sender   *)
(* has given up.                                                           *)
THEOREM ClassFollowsRecord == Spec => ClassAfterRecord
<1>1. IInv /\ [Next]_vars =>
         [class' # class => \E p \in Procs : Writes(p) /\ Wanted(p) = class' /\ RecordDone(p)]_vars
  BY ClassStep
<1> QED
  BY <1>1, Invariance, PTL DEF Spec, ClassAfterRecord
=============================================================================
