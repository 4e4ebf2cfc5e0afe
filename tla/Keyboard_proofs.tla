-------------------------- MODULE Keyboard_proofs --------------------------
(***************************************************************************)
(* The keyboard path for every map, every set of texts, every packet size, *)
(* and any number of characters and failed sends.                          *)
(*                                                                         *)
(* What process_multi_bin's report holds at each place of its loop decides *)
(* everything: it is clear when a packet is read and before a press, and   *)
(* holds exactly the key and the modifiers of one character before the     *)
(* release.  For that a character must be known at every place on its way. *)
(***************************************************************************)
EXTENDS Keyboard, SequenceTheorems, TLAPS

Decoded == [key: Key \cup {0}, mods: SUBSET {"shift"}]

(* The report after the press of a character on a clear one.               *)
OneKey(d) == [mods |-> d.mods, keys |-> [s \in Slots |-> IF s = 1 THEN d.key ELSE 0]]

(* The identities on their way are those of characters reported.           *)
Known(ids) == \A n \in DOMAIN ids : ids[n] \in DOMAIN text

KnownInv ==
    /\ \A i \in DOMAIN text : text[i].raw => text[i].c \in Key
    /\ Known(frags) /\ Known(todo)
    /\ \A q \in DOMAIN queue : queue[q].type = "chars" => Known(queue[q].ids)
    /\ \A n \in DOMAIN typed : typed[n].id # 0 => typed[n].id \in DOMAIN text

(* The report at each place of the loop.                                   *)
KbdInv ==
    /\ pc \in {"read", "press"} => kbd = ZeroReport
    /\ pc = "release" =>
          /\ todo # <<>> /\ InMap(Head(todo))
          /\ kbd = OneKey(Decode(Head(todo)))

(* What the host holds between characters, as long as bin_sender is silent.*)
HeldInv ==
    nkeys = 0 =>
        /\ pc # "keys"
        /\ \A q \in DOMAIN queue : queue[q].type = "chars"
        /\ pc \in {"read", "press"} /\ ~missed => down = {}

IInv == TypeOK /\ KnownInv /\ KbdInv /\ HeldInv /\ TypedFaithfully

-----------------------------------------------------------------------------
(* Pressing and releasing                                                  *)

LEMMA ZeroIsReport ==
    /\ ZeroReport \in Report /\ KeysOf(ZeroReport) = {}
    /\ FreeSlots(ZeroReport) = Slots
BY DEF ZeroReport, Report, KeysOf, FreeSlots, Slots

LEMMA OneKeyType ==
    ASSUME NEW d \in Decoded
    PROVE  /\ OneKey(d) \in Report /\ OneKey(d).mods = d.mods
           /\ KeysOf(OneKey(d)) = {d.key} \ {0}
BY DEF OneKey, Report, KeysOf, Slots, Decoded

(* On a clear report press_kbd_char presses one key, and never finds it    *)
(* full.                                                                   *)
LEMMA PressOne ==
    ASSUME NEW d \in Decoded
    PROVE  Press(ZeroReport, d) = OneKey(d) /\ ~Full(ZeroReport, d)
<1> DEFINE s == CHOOSE f \in FreeSlots(ZeroReport) : \A g \in FreeSlots(ZeroReport) : f <= g
<1>1. s = 1
  <2>1. FreeSlots(ZeroReport) = 1 .. 6
    BY ZeroIsReport DEF Slots
  <2>2. \E f \in 1 .. 6 : \A g \in 1 .. 6 : f <= g
    OBVIOUS
  <2>3. s \in 1 .. 6 /\ \A g \in 1 .. 6 : s <= g
    BY <2>1, <2>2
  <2> HIDE DEF s
  <2>4. s <= 1 /\ s >= 1 /\ s \in Nat
    BY <2>3
  <2>5. QED
    BY <2>4
<1> HIDE DEF s
<1>2. ~Full(ZeroReport, d)
  <2>1. 1 \in FreeSlots(ZeroReport)
    BY ZeroIsReport DEF Slots
  <2>2. QED
    BY <2>1 DEF Full
<1>3. ZeroReport.mods \cup d.mods = d.mods
  BY DEF ZeroReport
<1>4. CASE d.key = 0
  <2>1. \E h \in Slots : ZeroReport.keys[h] = d.key
    BY <1>4 DEF ZeroReport, Slots
  <2>2. Press(ZeroReport, d) = [ZeroReport EXCEPT !.mods = d.mods]
    BY <1>3, <2>1 DEF Press
  <2>3. QED
    BY <1>2, <1>4, <2>2 DEF ZeroReport, OneKey
<1>5. CASE d.key # 0
  <2>1. ~ \E h \in Slots : ZeroReport.keys[h] = d.key
    BY <1>5 DEF ZeroReport
  <2>2. FreeSlots(ZeroReport) # {}
    BY ZeroIsReport DEF Slots
  <2>3. Press(ZeroReport, d) = [ZeroReport EXCEPT !.mods = d.mods, !.keys[s] = d.key]
    BY <1>3, <2>1, <2>2 DEF Press, s
  <2>4. ZeroReport.keys = [h \in Slots |-> 0]
    BY DEF ZeroReport
  <2> DEFINE r == [ZeroReport EXCEPT !.mods = d.mods, !.keys[1] = d.key]
  <2>5. r.mods = d.mods
    BY DEF ZeroReport
  <2>6. r.keys = [ZeroReport.keys EXCEPT ![1] = d.key]
    BY DEF ZeroReport
  <2>7. r \in Report /\ OneKey(d) \in Report
    <3>1. d.key \in Key \cup {0} /\ d.mods \in SUBSET {"shift"}
      BY DEF Decoded
    <3> QED
      BY <3>1, ZeroIsReport, OneKeyType DEF Report
  <2>8. [ZeroReport.keys EXCEPT ![1] = d.key] = [h \in Slots |-> IF h = 1 THEN d.key ELSE 0]
    BY <2>4 DEF Slots
  <2> HIDE DEF r
  <2>9. r = OneKey(d)
    BY <2>5, <2>6, <2>7, <2>8 DEF OneKey, Report
  <2>10. QED
    BY <1>1, <1>2, <2>3, <2>9 DEF r
<1>6. QED
  BY <1>4, <1>5

(* The release leaves the report clear.                                    *)
LEMMA ReleaseOne ==
    ASSUME NEW d \in Decoded
    PROVE  Release(OneKey(d), d) = ZeroReport
<1>1. OneKey(d).mods \ d.mods = {}
  BY DEF OneKey
<1>2. CASE d.key = 0
  BY <1>1, <1>2 DEF Release, OneKey, ZeroReport
<1>3. CASE d.key # 0
  <2> DEFINE held == {s \in Slots : OneKey(d).keys[s] = d.key}
             s == CHOOSE f \in held : \A g \in held : f <= g
  <2>1. held = {1}
    BY <1>3 DEF OneKey, Slots
  <2>2. s = 1
    BY <2>1
  <2>3. Release(OneKey(d), d) = [OneKey(d) EXCEPT !.mods = {}, !.keys[s] = 0]
    BY <1>1, <1>3, <2>1 DEF Release, OneKey
  <2> HIDE DEF s, held
  <2>4. QED
    BY <2>2, <2>3 DEF OneKey, ZeroReport, Slots
<1>4. QED
  BY <1>2, <1>3

LEMMA DecodeType ==
    ASSUME TypeOK, KnownInv, NEW i \in DOMAIN text, InMap(i)
    PROVE  Decode(i) \in Decoded
<1>1. CASE text[i].raw
  BY <1>1 DEF Decode, Decoded, KnownInv
<1>2. CASE ~text[i].raw
  BY <1>2, MapAssumption DEF Decode, Decoded, InMap
<1>3. QED
  BY <1>1, <1>2

-----------------------------------------------------------------------------
(* What a report does at the host                                          *)

Stroke == [id: Nat, keys: SUBSET Key, mods: SUBSET {"shift"}]

LEMMA DeliverZero ==
    ASSUME NEW i, Deliver(i, ZeroReport)
    PROVE  down' = {} /\ typed' = typed /\ missed' = FALSE /\ UNCHANGED <<link, faults>>
BY ZeroIsReport DEF Deliver

LEMMA DeliverOne ==
    ASSUME NEW i, NEW d \in Decoded, Deliver(i, OneKey(d))
    PROVE  /\ down' = {d.key} \ {0} /\ missed' = FALSE /\ UNCHANGED <<link, faults>>
           /\ \/ typed' = typed
              \/ /\ d.key # 0
                 /\ typed' = Append(typed, [id |-> i, keys |-> {d.key}, mods |-> d.mods])
<1>1. KeysOf(OneKey(d)) = {d.key} \ {0} /\ OneKey(d).mods = d.mods
  BY OneKeyType
<1> DEFINE new == KeysOf(OneKey(d)) \ down
<1>2. CASE new = {}
  BY <1>1, <1>2 DEF Deliver
<1>3. CASE new # {}
  <2>1. d.key # 0 /\ new = {d.key}
    BY <1>1, <1>3
  <2>2. QED
    BY <1>1, <1>3, <2>1 DEF Deliver
<1>4. QED
  BY <1>2, <1>3

(* What has been typed stays faithful as more is reported, and when a      *)
(* faithful stroke is added.                                               *)
LEMMA FaithfulFrame ==
    ASSUME IInv, typed' = typed,
           \A i \in DOMAIN text : i \in DOMAIN text' /\ text'[i] = text[i]
    PROVE  TypedFaithfully'
<1>1. \A n \in DOMAIN typed : typed[n].id # 0 => typed[n].id \in DOMAIN text
  BY DEF IInv, KnownInv
<1>2. QED
  BY <1>1 DEF IInv, TypedFaithfully, InMap, Decode

LEMMA FaithfulStroke ==
    ASSUME IInv, text' = text, NEW e \in Stroke, typed' = Append(typed, e),
           e.id # 0 => /\ e.id \in DOMAIN text /\ InMap(e.id)
                       /\ e.keys = {Decode(e.id).key} /\ e.mods = Decode(e.id).mods
    PROVE  /\ TypedFaithfully' /\ typed' \in Seq(Stroke)
           /\ \A n \in DOMAIN typed' : typed'[n].id # 0 => typed'[n].id \in DOMAIN text
<1>1. typed \in Seq(Stroke)
  BY DEF IInv, TypeOK, Stroke
<1>2. /\ typed' \in Seq(Stroke)
      /\ \A n \in DOMAIN typed' : (n \in DOMAIN typed /\ typed'[n] = typed[n]) \/ typed'[n] = e
  BY <1>1
<1>3. \A n \in DOMAIN typed' :
         typed'[n].id # 0 =>
            /\ typed'[n].id \in DOMAIN text /\ InMap(typed'[n].id)
            /\ typed'[n].keys = {Decode(typed'[n].id).key}
            /\ typed'[n].mods = Decode(typed'[n].id).mods
  <2> SUFFICES ASSUME NEW n \in DOMAIN typed', typed'[n].id # 0
               PROVE  /\ typed'[n].id \in DOMAIN text /\ InMap(typed'[n].id)
                      /\ typed'[n].keys = {Decode(typed'[n].id).key}
                      /\ typed'[n].mods = Decode(typed'[n].id).mods
    OBVIOUS
  <2>1. CASE n \in DOMAIN typed /\ typed'[n] = typed[n]
    BY <2>1 DEF IInv, KnownInv, TypedFaithfully
  <2>2. CASE typed'[n] = e
    BY <2>2
  <2>3. QED
    BY <1>2, <2>1, <2>2
<1>4. \A j : InMap(j)' = InMap(j) /\ Decode(j)' = Decode(j)
  BY DEF InMap, Decode
<1>5. QED
  BY <1>2, <1>3, <1>4 DEF TypedFaithfully

-----------------------------------------------------------------------------
(* The application reports more                                            *)

LEMMA InitInv == Init => IInv
<1> SUFFICES ASSUME Init PROVE IInv
  OBVIOUS
<1>1. TypeOK
  <2>1. kbd \in Report
    BY ZeroIsReport DEF Init
  <2>2. nkeys \in 0 .. MaxKeyPackets /\ faults \in 0 .. MaxFaults
    BY BoundAssumption DEF Init
  <2>3. /\ text \in Seq(Item) /\ frags \in Seq(Nat) /\ queue \in Seq(Packet)
        /\ todo \in Seq(Nat)
        /\ typed \in Seq([id: Nat, keys: SUBSET Key, mods: SUBSET {"shift"}])
    BY DEF Init
  <2>4. QED
    BY <2>1, <2>2, <2>3 DEF Init, TypeOK
<1>2. KnownInv /\ KbdInv /\ HeldInv /\ TypedFaithfully
  BY DEF Init, KnownInv, Known, KbdInv, HeldInv, TypedFaithfully
<1>3. QED
  BY <1>1, <1>2 DEF IInv

(* Steps that leave the daemon and the host alone.                         *)
LEMMA AppFrame ==
    ASSUME IInv, UNCHANGED <<daemonVars, hostVars>>,
           TypeOK', KnownInv',
           \A i \in DOMAIN text : i \in DOMAIN text' /\ text'[i] = text[i],
           nkeys' = 0 => nkeys = 0 /\ \A q \in DOMAIN queue' : queue'[q].type = "chars"
    PROVE  IInv'
<1>1. todo # <<>> => Head(todo) \in DOMAIN text
  <2>1. todo \in Seq(Nat) /\ Known(todo)
    BY DEF IInv, TypeOK, KnownInv
  <2>2. QED
    BY <2>1 DEF Known
<1>2. KbdInv'
  BY <1>1 DEF IInv, KbdInv, InMap, Decode, OneKey, daemonVars
<1>3. HeldInv'
  BY DEF IInv, HeldInv, daemonVars, hostVars
<1>4. TypedFaithfully'
  BY FaithfulFrame DEF hostVars
<1>5. QED
  BY <1>2, <1>3, <1>4 DEF IInv

LEMMA QueueGrows ==
    ASSUME queue \in Seq(Packet), NEW p \in Packet, queue' = Append(queue, p)
    PROVE  /\ queue' \in Seq(Packet)
           /\ \A q \in DOMAIN queue' :
                 (q \in DOMAIN queue /\ queue'[q] = queue[q]) \/ queue'[q] = p
OBVIOUS

(* A part of a known sequence is known.                                    *)
LEMMA KnownPart ==
    ASSUME text \in Seq(Item), NEW ids \in Seq(Nat), Known(ids),
           NEW m \in Nat, NEW n \in Nat, m >= 1, n <= Len(ids)
    PROVE  SubSeq(ids, m, n) \in Seq(Nat) /\ Known(SubSeq(ids, m, n))
<1>1. \A k \in m .. n : k \in DOMAIN ids /\ ids[k] \in Nat
  OBVIOUS
<1>2. /\ SubSeq(ids, m, n) \in Seq(Nat)
      /\ Len(SubSeq(ids, m, n)) = IF m <= n THEN n - m + 1 ELSE 0
      /\ \A k \in 1 .. n - m + 1 : SubSeq(ids, m, n)[k] = ids[m + k - 1]
  BY <1>1, SubSeqProperties
<1>3. \A k \in DOMAIN SubSeq(ids, m, n) : k \in 1 .. n - m + 1 /\ m + k - 1 \in m .. n
  BY <1>2
<1>4. QED
  BY <1>1, <1>2, <1>3 DEF Known

LEMMA ReportStringInv ==
    ASSUME IInv, NEW t \in Texts, ReportString(t)
    PROVE  IInv'
<1> DEFINE new == [i \in 1 .. Len(t) |-> [raw |-> FALSE, c |-> t[i], pos |-> i]]
<1>1. t \in Seq(Char)
  BY TextAssumption
<1>2. new \in Seq(Item) /\ Len(new) = Len(t)
  BY <1>1 DEF Item
<1>3. text \in Seq(Item) /\ text' = text \o new
  BY DEF IInv, TypeOK, ReportString
<1>4. /\ text' \in Seq(Item) /\ Len(text') = Len(text) + Len(t)
      /\ \A i \in 1 .. Len(text) + Len(t) :
            text'[i] = IF i <= Len(text) THEN text[i] ELSE new[i - Len(text)]
  <2> HIDE DEF new
  <2>1. /\ text \o new \in Seq(Item) /\ Len(text \o new) = Len(text) + Len(new)
        /\ \A i \in 1 .. Len(text) + Len(new) :
              (text \o new)[i] = IF i <= Len(text) THEN text[i] ELSE new[i - Len(text)]
    BY <1>2, <1>3, ConcatProperties
  <2>2. QED
    BY <1>2, <1>3, <2>1
<1>5. \A i \in DOMAIN text : i \in DOMAIN text' /\ text'[i] = text[i]
  BY <1>1, <1>3, <1>4
<1>6. \A i \in DOMAIN text' : text'[i].raw => text'[i].c \in Key
  <2>1. \A i \in 1 .. Len(t) : ~new[i].raw
    OBVIOUS
  <2>2. \A i \in DOMAIN text' : i \in DOMAIN text \/ (i - Len(text) \in 1 .. Len(t) /\ text'[i] = new[i - Len(text)])
    <3> HIDE DEF new
    <3>1. QED
      BY <1>1, <1>3, <1>4
  <2> HIDE DEF new
  <2>3. QED
    BY <1>5, <2>1, <2>2 DEF IInv, KnownInv
<1>7. frags' \in Seq(Nat) /\ \A n \in DOMAIN frags' : frags'[n] \in DOMAIN text'
  <2>1. Len(text) \in Nat /\ Len(t) \in Nat
    BY <1>1, <1>3
  <2>2. frags' = [i \in 1 .. Len(t) |-> Len(text) + i]
    BY DEF ReportString
  <2>3. frags' \in Seq(Nat)
    BY <2>1, <2>2
  <2>4. DOMAIN text' = 1 .. Len(text) + Len(t)
    BY <1>4
  <2>5. QED
    BY <2>1, <2>2, <2>3, <2>4
<1>8. UNCHANGED <<queue, nkeys, daemonVars, hostVars>>
  BY DEF ReportString
<1>9. TypeOK'
  BY <1>4, <1>7, <1>8 DEF IInv, TypeOK, daemonVars, hostVars
<1>10. KnownInv'
  BY <1>5, <1>6, <1>7, <1>8 DEF IInv, KnownInv, Known, daemonVars, hostVars
<1>11. nkeys' = 0 => nkeys = 0 /\ \A q \in DOMAIN queue' : queue'[q].type = "chars"
  BY <1>8 DEF IInv, HeldInv
<1>12. QED
  BY <1>5, <1>8, <1>9, <1>10, <1>11, AppFrame

LEMMA SendStringFragInv ==
    ASSUME IInv, SendStringFrag
    PROVE  IInv'
<1> DEFINE p == [type |-> "chars", ids |-> SubSeq(frags, 1, FragLen)]
<1>1. text \in Seq(Item) /\ frags \in Seq(Nat) /\ queue \in Seq(Packet) /\ Known(frags)
  BY DEF IInv, TypeOK, KnownInv
<1>2. FragLen \in Nat /\ FragLen <= Len(frags) /\ Len(frags) \in Nat
  BY <1>1, MaxStringAssumption DEF FragLen
<1>3. SubSeq(frags, 1, FragLen) \in Seq(Nat) /\ Known(SubSeq(frags, 1, FragLen))
  BY <1>1, <1>2, KnownPart
<1>4. frags' \in Seq(Nat) /\ Known(frags')
  <2>1. frags' = SubSeq(frags, FragLen + 1, Len(frags))
    BY DEF SendStringFrag
  <2>2. FragLen + 1 \in Nat /\ FragLen + 1 >= 1
    BY <1>2
  <2>3. QED
    BY <1>1, <1>2, <2>1, <2>2, KnownPart
<1>5. p \in Packet
  BY <1>3 DEF Packet
<1>6. p.type = "chars" /\ Known(p.ids)
  BY <1>3
<1>7. queue' = Append(queue, p) /\ UNCHANGED <<text, nkeys, daemonVars, hostVars>>
  BY DEF SendStringFrag
<1> HIDE DEF p
<1>8. /\ queue' \in Seq(Packet)
      /\ \A q \in DOMAIN queue' :
            (q \in DOMAIN queue /\ queue'[q] = queue[q]) \/ queue'[q] = p
  BY <1>1, <1>5, <1>7, QueueGrows
<1>9. TypeOK'
  BY <1>4, <1>7, <1>8 DEF IInv, TypeOK, daemonVars, hostVars
<1>10. KnownInv'
  BY <1>4, <1>6, <1>7, <1>8 DEF IInv, KnownInv, Known, daemonVars, hostVars
<1>11. nkeys' = 0 => nkeys = 0 /\ \A q \in DOMAIN queue' : queue'[q].type = "chars"
  BY <1>6, <1>7, <1>8 DEF IInv, HeldInv
<1>12. QED
  BY <1>7, <1>9, <1>10, <1>11, AppFrame

LEMMA ReportRawCharInv ==
    ASSUME IInv, NEW k \in Key, ReportRawChar(k)
    PROVE  IInv'
<1> DEFINE e == [raw |-> TRUE, c |-> k, pos |-> 1]
           p == [type |-> "chars", ids |-> <<Len(text) + 1>>]
<1>1. text \in Seq(Item) /\ queue \in Seq(Packet) /\ Len(text) + 1 \in Nat
  BY DEF IInv, TypeOK
<1>2. e \in Item /\ e.raw /\ e.c = k
  BY DEF Item
<1>3. text' = Append(text, e) /\ queue' = Append(queue, p)
      /\ UNCHANGED <<frags, nkeys, daemonVars, hostVars>>
  BY DEF ReportRawChar
<1>4. p \in Packet /\ p.type = "chars" /\ p.ids = <<Len(text) + 1>>
  BY <1>1 DEF Packet
<1> HIDE DEF e, p
<1>5. /\ text' \in Seq(Item) /\ Len(text) + 1 \in DOMAIN text'
      /\ \A i \in DOMAIN text : i \in DOMAIN text' /\ text'[i] = text[i]
      /\ \A i \in DOMAIN text' : i \in DOMAIN text \/ text'[i] = e
  BY <1>1, <1>2, <1>3
<1>6. /\ queue' \in Seq(Packet)
      /\ \A q \in DOMAIN queue' :
            (q \in DOMAIN queue /\ queue'[q] = queue[q]) \/ queue'[q] = p
  BY <1>1, <1>3, <1>4, QueueGrows
<1>7. TypeOK'
  BY <1>3, <1>5, <1>6 DEF IInv, TypeOK, daemonVars, hostVars
<1>8. \A n \in DOMAIN p.ids : p.ids[n] \in DOMAIN text'
  BY <1>4, <1>5
<1>9. KnownInv'
  BY <1>2, <1>3, <1>5, <1>6, <1>8 DEF IInv, KnownInv, Known, daemonVars, hostVars
<1>10. nkeys' = 0 => nkeys = 0 /\ \A q \in DOMAIN queue' : queue'[q].type = "chars"
  BY <1>3, <1>4, <1>6 DEF IInv, HeldInv
<1>11. QED
  BY <1>3, <1>5, <1>7, <1>9, <1>10, AppFrame

LEMMA BinSenderKeysInv ==
    ASSUME IInv, NEW k \in Key, BinSenderKeys(k)
    PROVE  IInv'
<1> DEFINE p == [type |-> "keys", key |-> k]
<1>1. p \in Packet /\ p.type = "keys"
  BY DEF Packet
<1>2. queue \in Seq(Packet) /\ queue' = Append(queue, p)
      /\ nkeys' = nkeys + 1 /\ nkeys' \in 1 .. MaxKeyPackets
      /\ UNCHANGED <<text, frags, daemonVars, hostVars>>
  BY BoundAssumption DEF IInv, TypeOK, BinSenderKeys
<1> HIDE DEF p
<1>3. /\ queue' \in Seq(Packet)
      /\ \A q \in DOMAIN queue' :
            (q \in DOMAIN queue /\ queue'[q] = queue[q]) \/ queue'[q] = p
  BY <1>1, <1>2, QueueGrows
<1>4. TypeOK'
  BY <1>2, <1>3 DEF IInv, TypeOK, daemonVars, hostVars
<1>5. KnownInv'
  BY <1>1, <1>2, <1>3 DEF IInv, KnownInv, Known, daemonVars, hostVars
<1>6. QED
  BY <1>2, <1>4, <1>5, AppFrame

-----------------------------------------------------------------------------
(* The daemon and the host                                                 *)

LEMMA TodoHead ==
    ASSUME IInv, todo # <<>>
    PROVE  /\ Head(todo) \in DOMAIN text /\ Head(todo) \in Nat
           /\ Tail(todo) \in Seq(Nat) /\ Known(Tail(todo))
<1>1. todo \in Seq(Nat) /\ \A n \in DOMAIN todo : todo[n] \in DOMAIN text
  BY DEF IInv, TypeOK, KnownInv, Known
<1>2. Tail(todo) \in Seq(Nat)
      /\ \A n \in DOMAIN Tail(todo) : n + 1 \in DOMAIN todo /\ Tail(todo)[n] = todo[n + 1]
  BY <1>1
<1>3. Known(Tail(todo))
  BY <1>1, <1>2 DEF Known
<1>4. Head(todo) = todo[1] /\ 1 \in DOMAIN todo
  BY <1>1
<1>5. QED
  BY <1>1, <1>2, <1>3, <1>4

(* A step that adds nothing to what was typed.                             *)
LEMMA NothingTyped ==
    ASSUME IInv, UNCHANGED <<text, typed>>
    PROVE  TypedFaithfully'
BY FaithfulFrame

LEMMA ReadPacketInv ==
    ASSUME IInv, ReadPacket
    PROVE  IInv'
<1> DEFINE p == Head(queue)
<1>1. text \in Seq(Item) /\ queue \in Seq(Packet) /\ queue # <<>> /\ pc = "read"
      /\ UNCHANGED <<appVars, rc, hostVars>> /\ queue' = Tail(queue)
  BY DEF IInv, TypeOK, ReadPacket
<1>2. p = queue[1] /\ 1 \in DOMAIN queue /\ p \in Packet
  BY <1>1
<1>3. queue' \in Seq(Packet)
      /\ \A q \in DOMAIN queue' : q + 1 \in DOMAIN queue /\ queue'[q] = queue[q + 1]
  BY <1>1
<1> HIDE DEF p
<1>4. \A q \in DOMAIN queue' : queue'[q].type = "chars" => Known(queue'[q].ids)
  BY <1>3 DEF IInv, KnownInv
<1>5. TypedFaithfully'
  BY <1>1, NothingTyped DEF appVars, hostVars
<1>6. CASE p.type = "chars" /\ todo' = Received(p.ids) /\ pc' = "press" /\ UNCHANGED kbd
  <2>1. p.ids \in Seq(Nat)
    BY <1>2, <1>6 DEF Packet
  <2>2. Known(p.ids)
    BY <1>2, <1>6 DEF IInv, KnownInv
  <2> DEFINE n == IF Len(p.ids) < MAX_STRING - 1 THEN Len(p.ids) ELSE MAX_STRING - 1
  <2>3. n \in Nat /\ n <= Len(p.ids)
    BY <2>1, MaxStringAssumption
  <2>4. todo' = SubSeq(p.ids, 1, n)
    BY <1>6 DEF Received
  <2> HIDE DEF n
  <2>5. todo' \in Seq(Nat) /\ Known(todo')
    BY <1>1, <2>1, <2>2, <2>3, <2>4, KnownPart
  <2>6. TypeOK'
    BY <1>1, <1>3, <1>6, <2>5 DEF IInv, TypeOK, appVars, hostVars
  <2>7. KnownInv'
    BY <1>1, <1>4, <2>5 DEF IInv, KnownInv, Known, appVars, hostVars
  <2>8. KbdInv'
    BY <1>1, <1>6 DEF IInv, KbdInv
  <2>9. HeldInv'
    BY <1>1, <1>3, <1>6 DEF IInv, HeldInv, appVars, hostVars
  <2>10. QED
    BY <1>5, <2>6, <2>7, <2>8, <2>9 DEF IInv
<1>7. CASE /\ p.type = "keys" /\ pc' = "keys" /\ UNCHANGED todo
           /\ kbd' = [mods |-> {}, keys |-> [s \in Slots |-> IF s = 1 THEN p.key ELSE 0]]
  <2>1. p.key \in Key
    BY <1>2, <1>7 DEF Packet
  <2>2. kbd' \in Report
    BY <1>7, <2>1 DEF Report
  <2>3. TypeOK'
    BY <1>1, <1>3, <1>7, <2>2 DEF IInv, TypeOK, appVars, hostVars
  <2>4. KnownInv'
    BY <1>1, <1>4, <1>7 DEF IInv, KnownInv, Known, appVars, hostVars
  <2>5. KbdInv'
    BY <1>7 DEF KbdInv
  <2>6. nkeys # 0
    BY <1>2, <1>7 DEF IInv, HeldInv
  <2>7. HeldInv'
    BY <1>1, <2>6 DEF HeldInv, appVars
  <2>8. QED
    BY <1>5, <2>3, <2>4, <2>5, <2>7 DEF IInv
<1>8. QED
  BY <1>6, <1>7 DEF ReadPacket, p

LEMMA SkipCharInv ==
    ASSUME IInv, SkipChar
    PROVE  IInv'
<1>1. /\ pc = "press" /\ todo' \in Seq(Nat) /\ Known(todo')
      /\ UNCHANGED <<appVars, queue, kbd, pc, rc, hostVars>>
  BY TodoHead DEF SkipChar
<1>2. TypeOK'
  BY <1>1 DEF IInv, TypeOK, appVars, hostVars
<1>3. KnownInv'
  BY <1>1 DEF IInv, KnownInv, Known, appVars, hostVars
<1>4. KbdInv' /\ HeldInv'
  BY <1>1 DEF IInv, KbdInv, HeldInv, appVars, hostVars
<1>5. TypedFaithfully'
  BY <1>1, NothingTyped DEF appVars, hostVars
<1>6. QED
  BY <1>2, <1>3, <1>4, <1>5 DEF IInv

LEMMA MissType ==
    ASSUME TypeOK, Miss
    PROVE  faults' \in 0 .. MaxFaults /\ missed' = TRUE /\ UNCHANGED <<link, down, typed>>
BY BoundAssumption DEF TypeOK, Miss

(* The press of a character on the clear report.                           *)
LEMMA PressCharInv ==
    ASSUME IInv, PressChar
    PROVE  IInv'
<1> DEFINE i == Head(todo)
           d == Decode(i)
<1>1. /\ pc = "press" /\ pc' = "release" /\ todo # <<>> /\ InMap(i)
      /\ UNCHANGED <<appVars, queue, todo>>
  BY DEF PressChar
<1>2. i \in DOMAIN text /\ i \in Nat
  BY <1>1, TodoHead
<1>3. d \in Decoded
  BY <1>1, <1>2, DecodeType DEF IInv
<1>4. kbd = ZeroReport
  BY <1>1 DEF IInv, KbdInv
<1>5. Press(kbd, d) = OneKey(d) /\ ~Full(kbd, d)
  BY <1>3, <1>4, PressOne
<1>6. /\ kbd' = OneKey(d)
      /\ \/ Deliver(i, OneKey(d)) /\ rc' = "ok"
         \/ Miss /\ rc' = "failed"
  BY <1>5 DEF PressChar
<1>7. OneKey(d) \in Report
  BY <1>3, OneKeyType
<1>8. KbdInv'
  <2>1. text' = text /\ todo' = todo
    BY <1>1 DEF appVars
  <2>2. (InMap(Head(todo)))' /\ (Decode(Head(todo)))' = d
    BY <1>1, <2>1 DEF InMap, Decode
  <2> HIDE DEF d
  <2>3. QED
    BY <1>1, <1>6, <2>1, <2>2 DEF KbdInv, OneKey
<1>9. HeldInv'
  BY <1>1 DEF IInv, HeldInv, appVars
<1>10. /\ link' = link /\ faults' \in 0 .. MaxFaults /\ missed' \in BOOLEAN
       /\ down' \in SUBSET Key
       /\ typed' \in Seq(Stroke) /\ TypedFaithfully'
       /\ \A n \in DOMAIN typed' : typed'[n].id # 0 => typed'[n].id \in DOMAIN text
  <2>1. text' = text
    BY <1>1 DEF appVars
  <2>2. CASE typed' = typed
    <3>1. TypedFaithfully'
      BY <2>1, <2>2, NothingTyped
    <3>2. /\ typed' \in Seq(Stroke)
          /\ \A n \in DOMAIN typed' : typed'[n].id # 0 => typed'[n].id \in DOMAIN text
      BY <2>2 DEF IInv, TypeOK, KnownInv, Stroke
    <3>3. CASE Miss
      BY <3>1, <3>2, <3>3, MissType DEF IInv, TypeOK
    <3>4. CASE Deliver(i, OneKey(d))
      <4>1. down' = {d.key} \ {0} /\ missed' = FALSE /\ UNCHANGED <<link, faults>>
        BY <1>3, <3>4, DeliverOne
      <4>2. down' \in SUBSET Key
        BY <1>3, <4>1 DEF Decoded
      <4>3. faults' \in 0 .. MaxFaults
        BY <4>1 DEF IInv, TypeOK
      <4>4. QED
        BY <3>1, <3>2, <4>1, <4>2, <4>3
    <3>5. QED
      BY <1>6, <3>3, <3>4
  <2>3. CASE typed' # typed
    <3> DEFINE e == [id |-> i, keys |-> {d.key}, mods |-> d.mods]
    <3>1. Deliver(i, OneKey(d))
      BY <1>6, <2>3, MissType DEF IInv
    <3>2. /\ down' = {d.key} \ {0} /\ missed' = FALSE /\ UNCHANGED <<link, faults>>
          /\ d.key # 0 /\ typed' = Append(typed, e)
      BY <1>3, <2>3, <3>1, DeliverOne
    <3>3. e \in Stroke /\ down' \in SUBSET Key
      BY <1>2, <1>3, <3>2 DEF Decoded, Stroke
    <3>4. e.id = i /\ e.keys = {Decode(i).key} /\ e.mods = Decode(i).mods
      OBVIOUS
    <3> HIDE DEF e, d, i
    <3>5. /\ TypedFaithfully' /\ typed' \in Seq(Stroke)
          /\ \A n \in DOMAIN typed' : typed'[n].id # 0 => typed'[n].id \in DOMAIN text
      BY <1>1, <1>2, <2>1, <3>2, <3>3, <3>4, FaithfulStroke
    <3>6. QED
      BY <3>2, <3>3, <3>5 DEF IInv, TypeOK
  <2>4. QED
    BY <2>2, <2>3
<1>11. rc' \in {"ok", "full", "failed"}
  BY <1>6
<1> HIDE DEF d, i
<1>12. TypeOK'
  BY <1>1, <1>6, <1>7, <1>10, <1>11 DEF IInv, TypeOK, appVars, Stroke
<1>13. KnownInv'
  BY <1>1, <1>10 DEF IInv, KnownInv, Known, appVars
<1>14. QED
  BY <1>8, <1>9, <1>10, <1>12, <1>13 DEF IInv

(* The release sends the clear report, or loses it.                        *)
LEMMA ReleaseCharInv ==
    ASSUME IInv, ReleaseChar
    PROVE  IInv'
<1> DEFINE i == Head(todo)
           d == Decode(i)
<1>1. /\ pc = "release" /\ pc' = "press"
      /\ todo' = IF rc = "ok" THEN Tail(todo) ELSE <<>>
      /\ UNCHANGED <<appVars, queue, rc>>
  BY DEF ReleaseChar
<1>2. todo # <<>> /\ InMap(i) /\ kbd = OneKey(d)
  BY <1>1 DEF IInv, KbdInv
<1>3. i \in DOMAIN text /\ Tail(todo) \in Seq(Nat) /\ Known(Tail(todo))
  BY <1>2, TodoHead
<1>4. d \in Decoded
  BY <1>2, <1>3, DecodeType DEF IInv
<1>5. Release(kbd, d) = ZeroReport
  BY <1>2, <1>4, ReleaseOne
<1>6. kbd' = ZeroReport /\ (Deliver(i, ZeroReport) \/ Miss)
  BY <1>5 DEF ReleaseChar
<1> HIDE DEF d, i
<1>7. /\ typed' = typed /\ link' = link /\ faults' \in 0 .. MaxFaults /\ missed' \in BOOLEAN
      /\ down' \in SUBSET Key /\ (~missed' => down' = {})
  <2>1. CASE Miss
    BY <2>1, MissType DEF IInv, TypeOK
  <2>2. CASE Deliver(i, ZeroReport)
    BY <2>2, DeliverZero DEF IInv, TypeOK
  <2>3. QED
    BY <1>6, <2>1, <2>2
<1>8. todo' \in Seq(Nat) /\ Known(todo')
  BY <1>1, <1>3 DEF Known
<1>9. TypeOK'
  BY <1>1, <1>6, <1>7, <1>8, ZeroIsReport DEF IInv, TypeOK, appVars
<1>10. KnownInv'
  BY <1>1, <1>7, <1>8 DEF IInv, KnownInv, Known, appVars
<1>11. KbdInv' /\ HeldInv'
  BY <1>1, <1>6, <1>7 DEF IInv, KbdInv, HeldInv, appVars, ZeroReport
<1>12. TypedFaithfully'
  BY <1>1, <1>7, NothingTyped DEF appVars
<1>13. QED
  BY <1>9, <1>10, <1>11, <1>12 DEF IInv

LEMMA PacketDoneInv ==
    ASSUME IInv, PacketDone
    PROVE  IInv'
<1>1. /\ pc = "press" /\ pc' = "read" /\ kbd' = ZeroReport
      /\ UNCHANGED <<appVars, queue, todo, rc, hostVars>>
  BY DEF PacketDone
<1>2. TypeOK'
  BY <1>1, ZeroIsReport DEF IInv, TypeOK, appVars, hostVars
<1>3. KnownInv'
  BY <1>1 DEF IInv, KnownInv, Known, appVars, hostVars
<1>4. KbdInv' /\ HeldInv'
  BY <1>1 DEF IInv, KbdInv, HeldInv, appVars, hostVars, ZeroReport
<1>5. TypedFaithfully'
  BY <1>1, NothingTyped DEF appVars, hostVars
<1>6. QED
  BY <1>2, <1>3, <1>4, <1>5 DEF IInv

(* A packet of bin_sender is a stroke of no character.                     *)
LEMMA SendKeysInv ==
    ASSUME IInv, SendKeys
    PROVE  IInv'
<1> DEFINE e == [id |-> 0, keys |-> KeysOf(kbd) \ down, mods |-> kbd.mods]
<1>1. /\ pc = "keys" /\ pc' = "read" /\ kbd' = ZeroReport
      /\ UNCHANGED <<appVars, queue, todo, rc>>
      /\ Deliver(0, kbd) \/ Miss
  BY DEF SendKeys
<1>2. kbd \in Report /\ typed \in Seq(Stroke)
  BY DEF IInv, TypeOK, Stroke
<1>3. KeysOf(kbd) \in SUBSET Key
  BY <1>2 DEF Report, KeysOf
<1>4. e \in Stroke /\ e.id = 0
  BY <1>2, <1>3 DEF Stroke, Report
<1>5. /\ link' = link /\ faults' \in 0 .. MaxFaults /\ missed' \in BOOLEAN
      /\ down' \in SUBSET Key /\ (typed' = typed \/ typed' = Append(typed, e))
  <2>1. CASE Miss
    BY <2>1, MissType DEF IInv, TypeOK
  <2>2. CASE Deliver(0, kbd)
    BY <1>3, <2>2 DEF Deliver, IInv, TypeOK
  <2>3. QED
    BY <1>1, <2>1, <2>2
<1>6. text' = text
  BY <1>1 DEF appVars
<1> HIDE DEF e
<1>7. /\ TypedFaithfully' /\ typed' \in Seq(Stroke)
      /\ \A n \in DOMAIN typed' : typed'[n].id # 0 => typed'[n].id \in DOMAIN text
  <2>1. CASE typed' = typed
    BY <1>2, <1>6, <2>1, NothingTyped DEF IInv, KnownInv
  <2>2. CASE typed' = Append(typed, e)
    BY <1>4, <1>6, <2>2, FaithfulStroke
  <2>3. QED
    BY <1>5, <2>1, <2>2
<1>8. TypeOK'
  BY <1>1, <1>5, <1>7, ZeroIsReport DEF IInv, TypeOK, appVars, Stroke
<1>9. KnownInv'
  BY <1>1, <1>7 DEF IInv, KnownInv, Known, appVars
<1>10. KbdInv' /\ HeldInv'
  BY <1>1 DEF IInv, KbdInv, HeldInv, appVars, ZeroReport
<1>11. QED
  BY <1>7, <1>8, <1>9, <1>10 DEF IInv

LEMMA LinkLostInv ==
    ASSUME IInv, LinkLost
    PROVE  IInv'
<1>1. /\ link' = "lost" /\ down' = {}
      /\ UNCHANGED <<appVars, queue, daemonVars, faults, missed, typed>>
  BY DEF LinkLost
<1>2. TypeOK'
  BY <1>1 DEF IInv, TypeOK, appVars, daemonVars
<1>3. KnownInv'
  BY <1>1 DEF IInv, KnownInv, Known, appVars, daemonVars
<1>4. KbdInv'
  BY <1>1 DEF IInv, KbdInv, InMap, Decode, OneKey, appVars, daemonVars
<1>5. HeldInv'
  BY <1>1 DEF IInv, HeldInv, appVars, daemonVars
<1>6. TypedFaithfully'
  BY <1>1, NothingTyped DEF appVars
<1>7. QED
  BY <1>2, <1>3, <1>4, <1>5, <1>6 DEF IInv

LEMMA StutterInv ==
    ASSUME IInv, UNCHANGED vars
    PROVE  IInv'
BY DEF IInv, TypeOK, KnownInv, Known, KbdInv, HeldInv, TypedFaithfully, InMap, Decode,
       OneKey, vars, appVars, daemonVars, hostVars

-----------------------------------------------------------------------------
(* The inductive invariant holds always: the lemmas, one per action.       *)
THEOREM Invariance == Spec => []IInv
<1>1. IInv /\ [Next]_vars => IInv'
  <2> SUFFICES ASSUME IInv, [Next]_vars PROVE IInv'
    OBVIOUS
  <2>1. ASSUME NEW t \in Texts, ReportString(t) PROVE IInv'
    BY <2>1, ReportStringInv
  <2>2. CASE SendStringFrag
    BY <2>2, SendStringFragInv
  <2>3. ASSUME NEW k \in Key, ReportRawChar(k) PROVE IInv'
    BY <2>3, ReportRawCharInv
  <2>4. ASSUME NEW k \in Key, BinSenderKeys(k) PROVE IInv'
    BY <2>4, BinSenderKeysInv
  <2>5. CASE ReadPacket
    BY <2>5, ReadPacketInv
  <2>6. CASE SkipChar
    BY <2>6, SkipCharInv
  <2>7. CASE PressChar
    BY <2>7, PressCharInv
  <2>8. CASE ReleaseChar
    BY <2>8, ReleaseCharInv
  <2>9. CASE PacketDone
    BY <2>9, PacketDoneInv
  <2>10. CASE SendKeys
    BY <2>10, SendKeysInv
  <2>11. CASE LinkLost
    BY <2>11, LinkLostInv
  <2>12. CASE UNCHANGED vars
    BY <2>12, StutterInv
  <2>13. QED
    BY <2>1, <2>2, <2>3, <2>4, <2>5, <2>6, <2>7, <2>8, <2>9, <2>10, <2>11, <2>12 DEF Next
<1>2. QED
  BY <1>1, InitInv, PTL DEF Spec

(* The keyboard model's variables keep their types.                        *)
THEOREM TypesOK == Spec => []TypeOK
<1>1. IInv => TypeOK
  BY DEF IInv
<1>2. QED
  BY <1>1, Invariance, PTL

(* A stroke the host sees for a character is its key with its own          *)
(* modifiers, whatever sends fail and whatever bin_sender writes.          *)
THEOREM Faithful == Spec => []TypedFaithfully
<1>1. IInv => TypedFaithfully
  BY DEF IInv
<1>2. QED
  BY <1>1, Invariance, PTL

(* press_kbd_char always finds the report clear.                           *)
THEOREM OnClear == Spec => []PressesOnClear
<1>1. IInv => PressesOnClear
  BY DEF IInv, KbdInv, PressesOnClear
<1>2. QED
  BY <1>1, Invariance, PTL

(* Between packets the host takes no key of a character to be held, unless *)
(* the last report was lost.                                               *)
THEOREM Released == Spec => []KeysReleased
<1>1. IInv => KeysReleased
  BY DEF IInv, HeldInv, KeysReleased
<1>2. QED
  BY <1>1, Invariance, PTL

-----------------------------------------------------------------------------
(* The order of characters.  On the way from the application to the host   *)
(* identities get smaller: all that was typed is smaller than all that is  *)
(* still to be typed of the packet in hand, that is smaller than what is   *)
(* in the FIFO, packet by packet, and that than what is not written yet.   *)
Ids(s) == {s[n] : n \in DOMAIN s}
Ascends(s) == \A m, n \in DOMAIN s : m < n => s[m] < s[n]
Below(S, T) == \A x \in S, y \in T : x < y

CharsOf(p) == IF p.type = "chars" THEN Ids(p.ids) ELSE {}
Past == {typed[n].id : n \in DOMAIN typed} \ {0}
Ahead == IF pc = "release" THEN Ids(Tail(todo)) ELSE Ids(todo)
InHand == Past \cup Ids(todo)

QueueInv ==
    /\ \A q \in DOMAIN queue : queue[q].type = "chars" => Ascends(queue[q].ids)
    /\ \A q, r \in DOMAIN queue : q < r => Below(CharsOf(queue[q]), CharsOf(queue[r]))
    /\ \A q \in DOMAIN queue : /\ Below(InHand, CharsOf(queue[q]))
                               /\ Below(CharsOf(queue[q]), Ids(frags))

OrderInv ==
    /\ TypedInOrder
    /\ Ascends(todo) /\ Ascends(frags)
    /\ Below(Past, Ahead) /\ Below(InHand, Ids(frags))
    /\ QueueInv

LEMMA InitOrder == Init => OrderInv
BY DEF Init, OrderInv, QueueInv, TypedInOrder, Ascends, Below, Past, Ahead, InHand, Ids

(* A part of an ascending sequence ascends, and the rest is greater.       *)
LEMMA PartAscends ==
    ASSUME NEW s \in Seq(Nat), Ascends(s), NEW m \in Nat, NEW n \in Nat, m >= 1, n <= Len(s)
    PROVE  Ascends(SubSeq(s, m, n)) /\ Ids(SubSeq(s, m, n)) \subseteq {s[k] : k \in m .. n}
<1>1. \A k \in m .. n : k \in DOMAIN s /\ s[k] \in Nat
  OBVIOUS
<1>2. /\ Len(SubSeq(s, m, n)) = IF m <= n THEN n - m + 1 ELSE 0
      /\ SubSeq(s, m, n) \in Seq(Nat)
      /\ \A k \in 1 .. n - m + 1 : SubSeq(s, m, n)[k] = s[m + k - 1]
  BY <1>1, SubSeqProperties
<1>3. \A k \in DOMAIN SubSeq(s, m, n) :
          k \in Nat /\ m + k - 1 \in m .. n /\ SubSeq(s, m, n)[k] = s[m + k - 1]
  BY <1>2
<1>4. ASSUME NEW j \in DOMAIN SubSeq(s, m, n), NEW k \in DOMAIN SubSeq(s, m, n), j < k
      PROVE  SubSeq(s, m, n)[j] < SubSeq(s, m, n)[k]
  <2>1. m + j - 1 \in DOMAIN s /\ m + k - 1 \in DOMAIN s /\ m + j - 1 < m + k - 1
    BY <1>1, <1>3, <1>4
  <2>2. s[m + j - 1] < s[m + k - 1]
    BY <2>1 DEF Ascends
  <2> QED
    BY <1>3, <2>2
<1> QED
  BY <1>3, <1>4 DEF Ascends, Ids

LEMMA TailAscends ==
    ASSUME NEW s \in Seq(Nat), Ascends(s), s # <<>>
    PROVE  /\ Ascends(Tail(s)) /\ Ids(Tail(s)) \subseteq Ids(s)
           /\ Head(s) \in Ids(s) /\ Below({Head(s)}, Ids(Tail(s)))
<1>1. /\ Head(s) = s[1] /\ 1 \in DOMAIN s
      /\ \A n \in DOMAIN Tail(s) : /\ n + 1 \in DOMAIN s /\ 1 < n + 1 /\ n \in Nat
                                   /\ Tail(s)[n] = s[n + 1]
  OBVIOUS
<1>2. \A m, n \in DOMAIN Tail(s) : m < n => m + 1 < n + 1
  BY <1>1
<1> QED
  BY <1>1, <1>2 DEF Ascends, Ids, Below

(* All identities are those of characters reported.                        *)
LEMMA AllReported ==
    ASSUME IInv
    PROVE  /\ InHand \cup Ids(frags) \subseteq 1 .. Len(text)
           /\ \A q \in DOMAIN queue : CharsOf(queue[q]) \subseteq 1 .. Len(text)
           /\ Len(text) \in Nat
<1>1. text \in Seq(Item) /\ DOMAIN text = 1 .. Len(text) /\ Len(text) \in Nat
  BY DEF IInv, TypeOK
<1> QED
  BY <1>1 DEF IInv, KnownInv, Known, InHand, Past, Ids, CharsOf

(* Steps that write a packet.                                              *)
LEMMA WriteOrder ==
    ASSUME OrderInv, queue \in Seq(Packet), NEW p, queue' = Append(queue, p),
           UNCHANGED <<daemonVars, hostVars>>,
           p.type = "chars" => Ascends(p.ids),
           Below(InHand, CharsOf(p)), \A q \in DOMAIN queue : Below(CharsOf(queue[q]), CharsOf(p)),
           Ascends(frags'), Ids(frags') \subseteq Ids(frags), Below(CharsOf(p), Ids(frags'))
    PROVE  OrderInv'
<1>1. /\ DOMAIN queue = 1 .. Len(queue) /\ DOMAIN queue' = 1 .. Len(queue) + 1 /\ Len(queue) \in Nat
      /\ \A q \in DOMAIN queue : queue'[q] = queue[q]
      /\ queue'[Len(queue) + 1] = p
  OBVIOUS
<1>2. \A q \in DOMAIN queue' : q \in DOMAIN queue \/ (q = Len(queue) + 1 /\ queue'[q] = p)
  BY <1>1
<1>3. \A q, r \in DOMAIN queue' : q < r => q \in DOMAIN queue
  BY <1>1
<1>4. InHand' = InHand /\ Past' = Past /\ Ahead' = Ahead
  BY DEF daemonVars, hostVars, InHand, Past, Ahead
<1>5. \A q \in DOMAIN queue' : queue'[q].type = "chars" => Ascends(queue'[q].ids)
  BY <1>1, <1>2 DEF OrderInv, QueueInv
<1>6. \A q, r \in DOMAIN queue' : q < r => Below(CharsOf(queue'[q]), CharsOf(queue'[r]))
  BY <1>1, <1>2, <1>3 DEF OrderInv, QueueInv
<1>7. \A q \in DOMAIN queue' : /\ Below(InHand, CharsOf(queue'[q]))
                               /\ Below(CharsOf(queue'[q]), Ids(frags'))
  BY <1>1, <1>2 DEF OrderInv, QueueInv, Below
<1>8. QueueInv'
  BY <1>4, <1>5, <1>6, <1>7 DEF QueueInv
<1>9. Below(InHand, Ids(frags'))
  BY DEF OrderInv, Below
<1> QED
  BY <1>4, <1>8, <1>9 DEF OrderInv, TypedInOrder, daemonVars, hostVars

(* Steps within a packet.                                                  *)
LEMMA HandOrder ==
    ASSUME OrderInv, UNCHANGED <<queue, frags>>, TypedInOrder', Ascends(todo'),
           Below(Past', Ahead'), InHand' \subseteq InHand
    PROVE  OrderInv'
BY DEF OrderInv, QueueInv, Below

LEMMA ReportOrder ==
    ASSUME IInv, OrderInv, NEW t \in Texts, ReportString(t) PROVE OrderInv'
<1>1. /\ t \in Seq(Char) /\ UNCHANGED <<queue, daemonVars, hostVars>>
      /\ frags' = [i \in 1 .. Len(t) |-> Len(text) + i]
  BY TextAssumption DEF ReportString
<1>2. Len(t) \in Nat /\ Len(text) \in Nat
  BY <1>1, AllReported
<1>3. Ascends(frags') /\ Below(1 .. Len(text), Ids(frags'))
  BY <1>1, <1>2 DEF Ascends, Below, Ids
<1>4. Below(InHand, Ids(frags')) /\ \A q \in DOMAIN queue : Below(CharsOf(queue[q]), Ids(frags'))
  BY <1>3, AllReported DEF Below
<1>5. InHand' = InHand /\ Past' = Past /\ Ahead' = Ahead
  BY <1>1 DEF daemonVars, hostVars, InHand, Past, Ahead
<1> QED
  BY <1>1, <1>3, <1>4, <1>5 DEF OrderInv, QueueInv, TypedInOrder, daemonVars, hostVars

LEMMA SendFragOrder == ASSUME IInv, OrderInv, SendStringFrag PROVE OrderInv'
<1> DEFINE s == SubSeq(frags, 1, FragLen)
           p == [type |-> "chars", ids |-> s]
<1>1. /\ queue \in Seq(Packet) /\ queue' = Append(queue, p)
      /\ frags' = SubSeq(frags, FragLen + 1, Len(frags)) /\ UNCHANGED <<daemonVars, hostVars>>
  BY DEF SendStringFrag, IInv, TypeOK
<1>2. /\ frags \in Seq(Nat) /\ Len(frags) \in Nat /\ FragLen \in Nat /\ FragLen <= Len(frags)
      /\ DOMAIN frags = 1 .. Len(frags) /\ FragLen + 1 \in Nat /\ FragLen + 1 >= 1
  BY MaxStringAssumption DEF IInv, TypeOK, FragLen
<1>3. /\ Ascends(s) /\ Ids(s) \subseteq {frags[k] : k \in 1 .. FragLen}
      /\ Ascends(frags') /\ Ids(frags') \subseteq {frags[k] : k \in FragLen + 1 .. Len(frags)}
  <2>1. Ascends(frags) /\ 1 \in Nat /\ FragLen \in Nat /\ FragLen + 1 \in Nat /\ Len(frags) \in Nat
        /\ 1 <= 1 /\ 1 <= FragLen + 1 /\ FragLen <= Len(frags) /\ Len(frags) <= Len(frags)
    BY <1>2 DEF OrderInv
  <2>2. Ascends(SubSeq(frags, 1, FragLen))
        /\ Ids(SubSeq(frags, 1, FragLen)) \subseteq {frags[k] : k \in 1 .. FragLen}
    BY ONLY <1>2, <2>1, PartAscends
  <2>3. Ascends(SubSeq(frags, FragLen + 1, Len(frags)))
        /\ Ids(SubSeq(frags, FragLen + 1, Len(frags))) \subseteq {frags[k] : k \in FragLen + 1 .. Len(frags)}
    BY ONLY <1>2, <2>1, PartAscends
  <2> QED
    BY <1>1, <2>2, <2>3
<1>4. \A j \in 1 .. FragLen, k \in FragLen + 1 .. Len(frags) : frags[j] < frags[k]
  <2>1. \A j \in 1 .. FragLen, k \in FragLen + 1 .. Len(frags) :
            j \in DOMAIN frags /\ k \in DOMAIN frags /\ j < k
    BY <1>2
  <2> QED
    BY <2>1 DEF OrderInv, Ascends
<1>5. Ids(s) \subseteq Ids(frags) /\ Ids(frags') \subseteq Ids(frags) /\ Below(Ids(s), Ids(frags'))
  <2>1. 1 .. FragLen \subseteq DOMAIN frags /\ FragLen + 1 .. Len(frags) \subseteq DOMAIN frags
    BY <1>2
  <2>2. /\ {frags[k] : k \in 1 .. FragLen} \subseteq Ids(frags)
        /\ {frags[k] : k \in FragLen + 1 .. Len(frags)} \subseteq Ids(frags)
    BY <2>1 DEF Ids
  <2>3. Below({frags[k] : k \in 1 .. FragLen}, {frags[k] : k \in FragLen + 1 .. Len(frags)})
    BY <1>4 DEF Below
  <2> QED
    BY <1>3, <2>2, <2>3 DEF Below
<1>6. p.type = "chars" /\ p.ids = s /\ CharsOf(p) = Ids(s)
  BY DEF CharsOf
<1> HIDE DEF p, s
<1>7. Below(InHand, CharsOf(p)) /\ \A q \in DOMAIN queue : Below(CharsOf(queue[q]), CharsOf(p))
  BY <1>5, <1>6 DEF OrderInv, QueueInv, Below
<1> QED
  BY <1>1, <1>3, <1>5, <1>6, <1>7, WriteOrder

LEMMA RawCharOrder == ASSUME IInv, OrderInv, NEW k \in Key, ReportRawChar(k) PROVE OrderInv'
<1> DEFINE p == [type |-> "chars", ids |-> <<Len(text) + 1>>]
<1>1. /\ queue \in Seq(Packet) /\ queue' = Append(queue, p)
      /\ frags = <<>> /\ frags' = frags /\ UNCHANGED <<daemonVars, hostVars>>
  BY DEF ReportRawChar, IInv, TypeOK
<1>2. p.type = "chars" /\ Ascends(p.ids) /\ CharsOf(p) = {Len(text) + 1}
  BY DEF CharsOf, Ascends, Ids
<1> HIDE DEF p
<1>3. Below(InHand, CharsOf(p)) /\ \A q \in DOMAIN queue : Below(CharsOf(queue[q]), CharsOf(p))
  BY <1>2, AllReported DEF Below
<1>4. Ascends(frags') /\ Ids(frags') \subseteq Ids(frags) /\ Below(CharsOf(p), Ids(frags'))
  BY <1>1 DEF Ascends, Ids, Below
<1> QED
  BY <1>1, <1>2, <1>3, <1>4, WriteOrder

LEMMA BinSenderOrder == ASSUME IInv, OrderInv, NEW k \in Key, BinSenderKeys(k) PROVE OrderInv'
<1> DEFINE p == [type |-> "keys", key |-> k]
<1>1. /\ queue \in Seq(Packet) /\ queue' = Append(queue, p)
      /\ frags' = frags /\ UNCHANGED <<daemonVars, hostVars>>
  BY DEF BinSenderKeys, IInv, TypeOK
<1>2. p.type # "chars" /\ CharsOf(p) = {}
  BY DEF CharsOf
<1> HIDE DEF p
<1>3. Ascends(frags')
  BY <1>1 DEF OrderInv
<1> QED
  BY <1>1, <1>2, <1>3, WriteOrder DEF Below

LEMMA ReadOrder == ASSUME IInv, OrderInv, ReadPacket PROVE OrderInv'
<1> DEFINE p == Head(queue)
<1>1. /\ queue \in Seq(Packet) /\ queue # <<>> /\ queue' = Tail(queue) /\ pc = "read"
      /\ todo \in Seq(Nat) /\ UNCHANGED <<frags, typed>>
  BY DEF ReadPacket, IInv, TypeOK, appVars, hostVars
<1>2. /\ p = queue[1] /\ 1 \in DOMAIN queue /\ p \in Packet
      /\ \A q \in DOMAIN queue' : /\ q + 1 \in DOMAIN queue /\ 1 < q + 1 /\ q \in Nat
                                  /\ queue'[q] = queue[q + 1]
  BY <1>1
<1> HIDE DEF p
<1>3. \A q, r \in DOMAIN queue' : q < r => q + 1 < r + 1
  BY <1>2
<1>4. /\ \A q \in DOMAIN queue' : queue'[q].type = "chars" => Ascends(queue'[q].ids)
      /\ \A q, r \in DOMAIN queue' : q < r => Below(CharsOf(queue'[q]), CharsOf(queue'[r]))
      /\ \A q \in DOMAIN queue' : Below(CharsOf(queue'[q]), Ids(frags))
  BY <1>2, <1>3 DEF OrderInv, QueueInv
<1>5. Past' = Past /\ TypedInOrder'
  BY <1>1 DEF Past, OrderInv, TypedInOrder
<1>6. CASE p.type = "chars" /\ todo' = Received(p.ids) /\ pc' = "press"
  <2> DEFINE n == IF Len(p.ids) < MAX_STRING - 1 THEN Len(p.ids) ELSE MAX_STRING - 1
  <2>1. /\ p.ids \in Seq(Nat) /\ Ascends(p.ids) /\ CharsOf(p) = Ids(p.ids)
        /\ DOMAIN p.ids = 1 .. Len(p.ids)
    BY <1>2, <1>6 DEF Packet, OrderInv, QueueInv, CharsOf
  <2>2. n \in Nat /\ n <= Len(p.ids)
    BY <2>1, MaxStringAssumption
  <2>3. todo' = SubSeq(p.ids, 1, n)
    BY <1>6 DEF Received
  <2> HIDE DEF n
  <2>4. Ascends(todo') /\ Ids(todo') \subseteq {p.ids[k] : k \in 1 .. n}
    BY <2>1, <2>2, <2>3, PartAscends
  <2>5. Ids(todo') \subseteq CharsOf(p)
    <3>1. 1 .. n \subseteq DOMAIN p.ids
      BY <2>1, <2>2
    <3> QED
      BY <2>1, <2>4, <3>1 DEF Ids
  <2>6. Below(Past, Ids(todo')) /\ Below(Ids(todo'), Ids(frags))
    BY <1>2, <2>5 DEF OrderInv, QueueInv, InHand, Below
  <2>7. \A q \in DOMAIN queue' :
            Below(Past, CharsOf(queue'[q])) /\ Below(Ids(todo'), CharsOf(queue'[q]))
    BY <1>2, <2>5 DEF OrderInv, QueueInv, InHand, Below
  <2>8. Ahead' = Ids(todo') /\ InHand' = Past \cup Ids(todo')
    BY <1>5, <1>6 DEF Ahead, InHand
  <2>9. Below(Past, Ids(frags))
    BY DEF OrderInv, InHand, Below
  <2>10. QueueInv'
    BY <1>1, <1>4, <2>7, <2>8 DEF QueueInv, Below
  <2> QED
    BY <1>1, <1>5, <2>4, <2>6, <2>8, <2>9, <2>10 DEF OrderInv, Below
<1>7. CASE p.type = "keys" /\ pc' = "keys" /\ UNCHANGED todo
  <2>1. InHand' = InHand /\ Ahead' = Ahead
    BY <1>1, <1>5, <1>7 DEF InHand, Ahead
  <2>2. QueueInv'
    BY <1>1, <1>2, <1>4, <2>1 DEF OrderInv, QueueInv
  <2> QED
    BY <1>1, <1>5, <1>7, <2>1, <2>2 DEF OrderInv
<1> QED
  BY <1>6, <1>7 DEF ReadPacket, p

LEMMA SkipOrder == ASSUME IInv, OrderInv, SkipChar PROVE OrderInv'
<1>1. /\ pc = "press" /\ todo # <<>> /\ todo \in Seq(Nat) /\ todo' = Tail(todo)
      /\ UNCHANGED <<queue, frags, typed, pc>>
  BY DEF SkipChar, IInv, TypeOK, appVars, hostVars
<1>2. Ascends(todo') /\ Ids(todo') \subseteq Ids(todo)
  BY <1>1, TailAscends DEF OrderInv
<1>3. Past' = Past /\ TypedInOrder'
  BY <1>1 DEF Past, OrderInv, TypedInOrder
<1>4. Below(Past', Ahead') /\ InHand' \subseteq InHand
  BY <1>1, <1>2, <1>3 DEF OrderInv, Ahead, InHand, Below
<1> QED
  BY <1>1, <1>2, <1>3, <1>4, HandOrder

(* The character pressed is typed last.                                    *)
LEMMA PressOrder == ASSUME IInv, OrderInv, PressChar PROVE OrderInv'
<1> DEFINE i == Head(todo)
           d == Decode(i)
<1>1. /\ pc = "press" /\ pc' = "release" /\ todo # <<>> /\ todo \in Seq(Nat) /\ InMap(i)
      /\ UNCHANGED <<queue, frags, text, todo>> /\ typed \in Seq(Stroke)
  BY DEF PressChar, IInv, TypeOK, appVars, Stroke
<1>2. /\ i \in Ids(todo) /\ Below({i}, Ids(Tail(todo))) /\ Ids(Tail(todo)) \subseteq Ids(todo)
      /\ Ascends(todo)
  BY <1>1, TailAscends DEF OrderInv
<1>3. typed' = typed \/ \E e \in [id: {i}, keys: {{d.key}}, mods: {d.mods}] : typed' = Append(typed, e)
  <2>1. d \in Decoded
    BY <1>1, TodoHead, DecodeType DEF IInv
  <2>2. kbd = ZeroReport
    BY <1>1 DEF IInv, KbdInv
  <2>3. Deliver(i, OneKey(d)) \/ Miss
    BY <2>1, <2>2, PressOne DEF PressChar
  <2> HIDE DEF i, d
  <2>4. CASE Miss
    BY <2>4 DEF Miss
  <2>5. CASE Deliver(i, OneKey(d))
    BY <2>1, <2>5, DeliverOne
  <2> QED
    BY <2>3, <2>4, <2>5
<1>4. Below(Past, Ids(todo))
  BY <1>1 DEF OrderInv, Ahead
<1> HIDE DEF i, d
<1>5. Past' \subseteq Past \cup {i} /\ TypedInOrder'
  <2>1. CASE typed' = typed
    BY <2>1 DEF Past, OrderInv, TypedInOrder
  <2>2. ASSUME NEW e, e.id = i, typed' = Append(typed, e)
        PROVE  Past' \subseteq Past \cup {i} /\ TypedInOrder'
    <3>1. /\ DOMAIN typed = 1 .. Len(typed) /\ DOMAIN typed' = 1 .. Len(typed) + 1
          /\ Len(typed) \in Nat
          /\ \A n \in DOMAIN typed : typed'[n] = typed[n]
          /\ typed'[Len(typed) + 1] = e
      BY <1>1, <2>2
    <3>2. \A n \in DOMAIN typed' : n \in DOMAIN typed \/ n = Len(typed) + 1
      BY <3>1
    <3>3. \A m, n \in DOMAIN typed' : m < n => m \in DOMAIN typed
      BY <3>1
    <3>4. \A n \in DOMAIN typed : typed[n].id # 0 => typed[n].id < i
      BY <1>2, <1>4 DEF Past, Below
    <3>5. Past' \subseteq Past \cup {i}
      BY <2>2, <3>1, <3>2 DEF Past
    <3>6. TypedInOrder'
      BY <2>2, <3>1, <3>2, <3>3, <3>4 DEF OrderInv, TypedInOrder
    <3> QED
      BY <3>5, <3>6
  <2> QED
    BY <1>3, <2>1, <2>2
<1>6. Below(Past', Ahead') /\ InHand' \subseteq InHand /\ Ascends(todo')
  BY <1>1, <1>2, <1>4, <1>5 DEF Ahead, InHand, Below
<1> QED
  BY <1>1, <1>5, <1>6, HandOrder

LEMMA ReleaseOrder == ASSUME IInv, OrderInv, ReleaseChar PROVE OrderInv'
<1> DEFINE i == Head(todo)
           d == Decode(i)
<1>1. /\ pc = "release" /\ pc' = "press" /\ todo \in Seq(Nat)
      /\ todo' = IF rc = "ok" THEN Tail(todo) ELSE <<>>
      /\ UNCHANGED <<queue, frags>> /\ todo # <<>> /\ InMap(i) /\ kbd = OneKey(d)
  BY DEF ReleaseChar, IInv, TypeOK, KbdInv, appVars
<1>2. d \in Decoded
  BY <1>1, TodoHead, DecodeType DEF IInv
<1>3. Deliver(i, ZeroReport) \/ Miss
  BY <1>1, <1>2, ReleaseOne DEF ReleaseChar
<1> HIDE DEF i, d
<1>4. typed' = typed
  BY <1>3, DeliverZero DEF Miss
<1>5. Past' = Past /\ TypedInOrder'
  BY <1>4 DEF Past, OrderInv, TypedInOrder
<1>6. Ascends(todo') /\ Ids(todo') \subseteq Ids(Tail(todo)) /\ Ids(Tail(todo)) \subseteq Ids(todo)
  <2>1. Ascends(Tail(todo)) /\ Ids(Tail(todo)) \subseteq Ids(todo)
    BY <1>1, TailAscends DEF OrderInv
  <2>2. Ascends(<<>>) /\ Ids(<<>>) = {}
    BY DEF Ascends, Ids
  <2> QED
    BY <1>1, <2>1, <2>2
<1>7. Below(Past', Ahead') /\ InHand' \subseteq InHand
  BY <1>1, <1>5, <1>6 DEF OrderInv, Ahead, InHand, Below
<1> QED
  BY <1>1, <1>5, <1>6, <1>7, HandOrder

(* A stroke of bin_sender has no identity.                                 *)
LEMMA SendKeysOrder == ASSUME IInv, OrderInv, SendKeys PROVE OrderInv'
<1>1. /\ pc = "keys" /\ pc' = "read" /\ typed \in Seq(Stroke) /\ UNCHANGED <<queue, frags, todo>>
      /\ Deliver(0, kbd) \/ Miss
  BY DEF SendKeys, IInv, TypeOK, appVars, Stroke
<1>2. typed' = typed \/ \E e \in [id: {0}, keys: {KeysOf(kbd) \ down}, mods: {kbd.mods}] :
                            typed' = Append(typed, e)
  BY <1>1 DEF Deliver, Miss
<1>3. Past' \subseteq Past /\ TypedInOrder'
  <2>1. CASE typed' = typed
    BY <2>1 DEF Past, OrderInv, TypedInOrder
  <2>2. ASSUME NEW e, e.id = 0, typed' = Append(typed, e)
        PROVE  Past' \subseteq Past /\ TypedInOrder'
    <3>1. /\ \A n \in DOMAIN typed' : n \in DOMAIN typed \/ typed'[n] = e
          /\ \A n \in DOMAIN typed : typed'[n] = typed[n]
      BY <1>1, <2>2
    <3>2. TypedInOrder'
      BY <2>2, <3>1 DEF OrderInv, TypedInOrder
    <3>3. Past' \subseteq Past
      BY <2>2, <3>1 DEF Past
    <3> QED
      BY <3>2, <3>3
  <2> QED
    BY <1>2, <2>1, <2>2
<1>4. Below(Past', Ahead') /\ InHand' \subseteq InHand /\ Ascends(todo')
  BY <1>1, <1>3 DEF OrderInv, Ahead, InHand, Below
<1> QED
  BY <1>1, <1>3, <1>4, HandOrder

LEMMA OtherOrder ==
    ASSUME OrderInv, PacketDone \/ LinkLost \/ UNCHANGED vars PROVE OrderInv'
<1>1. /\ UNCHANGED <<queue, frags, todo, typed>>
      /\ pc' = pc \/ (pc' = "read" /\ pc # "release")
  BY DEF PacketDone, LinkLost, vars, appVars, daemonVars, hostVars
<1>2. Past' = Past /\ Ahead' = Ahead /\ InHand' = InHand /\ TypedInOrder'
  BY <1>1 DEF Past, Ahead, InHand, OrderInv, TypedInOrder
<1> QED
  BY <1>1, <1>2, HandOrder DEF OrderInv

(* The characters that come out at the host are characters that were       *)
(* reported (send_str_report), each at most once and in their order,       *)
(* whatever sends fail and whatever bin_sender writes in between.          *)
THEOREM InTextOrder == Spec => []TypedInOrder
<1>1. IInv /\ OrderInv /\ [Next]_vars => OrderInv'
  BY ReportOrder, SendFragOrder, RawCharOrder, BinSenderOrder, ReadOrder, SkipOrder, PressOrder,
     ReleaseOrder, SendKeysOrder, OtherOrder DEF Next
<1>2. OrderInv => TypedInOrder
  BY DEF OrderInv
<1>3. QED
  BY <1>1, <1>2, InitOrder, Invariance, PTL DEF Spec

-----------------------------------------------------------------------------
(* What becomes of each character while nothing fails.  One with a key is  *)
(* typed or still on its way, except every MAX_STRING-th of a text: those  *)
(* are the last of their packets, whose place the terminator takes.  That  *)
(* the packets are cut there follows from where the fragments begin.       *)
Survives(i) == text[i].pos % MAX_STRING # 0
Wanted == {i \in DOMAIN text : HasKey(i) /\ Survives(i)}
Queued == UNION {CharsOf(queue[q]) : q \in DOMAIN queue}
OnTheWay == Ids(frags) \cup Queued \cup Ahead

(* A packet as send_str_report writes it: only its MAX_STRING-th character *)
(* is cut off.                                                             *)
Filled(ids) ==
    /\ Len(ids) <= MAX_STRING
    /\ \A n \in DOMAIN ids : Survives(ids[n]) <=> n # MAX_STRING

AccountInv ==
    /\ pc \in {"read", "keys"} => todo = <<>>
    /\ Undisturbed =>
        /\ ~missed
        /\ pc = "release" => rc = "ok"
        /\ \A n \in DOMAIN frags : text[frags[n]].pos % MAX_STRING = n % MAX_STRING
        /\ \A q \in DOMAIN queue : Filled(queue[q].ids)
        /\ \A i \in Ids(todo) : Survives(i)
        /\ Typed \subseteq Wanted
        /\ Wanted \subseteq Typed \cup OnTheWay

LEMMA ModSelf == ASSUME NEW M \in Nat \ {0} PROVE M % M = 0
OBVIOUS

LEMMA ModSmall == ASSUME NEW M \in Nat \ {0}, NEW n \in 0 .. M - 1 PROVE n % M = n
OBVIOUS

LEMMA RemType == ASSUME NEW M \in Nat \ {0}, NEW k \in Nat PROVE k % M \in 0 .. M - 1
OBVIOUS

LEMMA QuotientType == ASSUME NEW M \in Nat \ {0}, NEW k \in Nat PROVE k \div M \in Int
OBVIOUS

LEMMA Division == ASSUME NEW M \in Nat \ {0}, NEW k \in Nat PROVE k % M = k - M * (k \div M)
OBVIOUS

LEMMA OneRemainder ==
    ASSUME NEW M \in Nat \ {0}, NEW q \in Int, NEW r \in 0 .. M - 1,
           NEW p \in Int, NEW s \in 0 .. M - 1, M * q + r = M * p + s
    PROVE  r = s
<1>1. CASE q >= p + 1
  <2>1. M * q >= M * (p + 1)
    BY <1>1
  <2>2. M * (p + 1) = M * p + M
    OBVIOUS
  <2> QED
    BY <2>1, <2>2
<1>2. CASE p >= q + 1
  <2>1. M * p >= M * (q + 1)
    BY <1>2
  <2>2. M * (q + 1) = M * q + M
    OBVIOUS
  <2> QED
    BY <2>1, <2>2
<1>3. CASE p = q
  BY <1>3
<1> QED
  BY <1>1, <1>2, <1>3

LEMMA ModOver == ASSUME NEW M \in Nat \ {0}, NEW n \in Nat PROVE (M + n) % M = n % M
<1> DEFINE q == n \div M
           p == (M + n) \div M
           r == n % M
           s == (M + n) % M
<1>1. q \in Int /\ r \in 0 .. M - 1 /\ r = n - M * q
  BY RemType, QuotientType, Division
<1>2. M + n \in Nat
  OBVIOUS
<1>3. p \in Int /\ s \in 0 .. M - 1 /\ s = (M + n) - M * p
  BY <1>2, RemType, QuotientType, Division
<1> HIDE DEF q, p, r, s
<1>4. M * (q + 1) = M + M * q /\ q + 1 \in Int
  BY <1>1
<1>5. M * (q + 1) + r = M * p + s
  BY <1>1, <1>3, <1>4
<1>6. r = s
  BY <1>1, <1>3, <1>4, <1>5, OneRemainder
<1> QED
  BY <1>6 DEF r, s

(* As more is reported, what was reported stays.                           *)
LEMMA TextGrows ==
    ASSUME \A i \in DOMAIN text : i \in DOMAIN text' /\ text'[i] = text[i]
    PROVE  /\ \A i \in DOMAIN text : (Survives(i)' <=> Survives(i)) /\ (HasKey(i)' <=> HasKey(i))
           /\ Wanted \subseteq Wanted'
           /\ \A i \in Wanted' : i \in Wanted \/ i \notin DOMAIN text
<1>1. \A i \in DOMAIN text : (Survives(i)' <=> Survives(i)) /\ (HasKey(i)' <=> HasKey(i))
  BY DEF Survives, HasKey, InMap, Decode
<1>2. Wanted \subseteq Wanted' /\ \A i \in Wanted' : i \in Wanted \/ i \notin DOMAIN text
  BY <1>1 DEF Wanted
<1> QED
  BY <1>1, <1>2

(* The queue is filled with known characters while bin_sender is silent.   *)
LEMMA QueueChars ==
    ASSUME IInv, AccountInv, Undisturbed, NEW q \in DOMAIN queue
    PROVE  queue[q].type = "chars" /\ Known(queue[q].ids) /\ Filled(queue[q].ids)
BY DEF AccountInv, IInv, KnownInv, HeldInv, Undisturbed

(* What is on its way in packets.                                          *)
LEMMA QueuedGrows ==
    ASSUME queue \in Seq(Packet), NEW p, queue' = Append(queue, p)
    PROVE  Queued' = Queued \cup CharsOf(p)
<1>1. /\ DOMAIN queue = 1 .. Len(queue) /\ DOMAIN queue' = 1 .. Len(queue) + 1 /\ Len(queue) \in Nat
      /\ \A q \in DOMAIN queue : queue'[q] = queue[q]
      /\ queue'[Len(queue) + 1] = p
  OBVIOUS
<1>2. DOMAIN queue' = DOMAIN queue \cup {Len(queue) + 1}
  BY <1>1
<1> QED
  BY <1>1, <1>2 DEF Queued

LEMMA QueuedTail ==
    ASSUME queue \in Seq(Packet), queue # <<>>, queue' = Tail(queue)
    PROVE  Queued \subseteq CharsOf(Head(queue)) \cup Queued'
<1>1. /\ Head(queue) = queue[1] /\ DOMAIN queue = 1 .. Len(queue) /\ Len(queue) \in Nat
      /\ DOMAIN queue' = 1 .. Len(queue) - 1
      /\ \A q \in DOMAIN queue' : queue'[q] = queue[q + 1]
  OBVIOUS
<1>2. ASSUME NEW q \in DOMAIN queue
      PROVE  queue[q] = Head(queue) \/ \E r \in DOMAIN queue' : queue'[r] = queue[q]
  <2>1. CASE q = 1
    BY <1>1, <2>1
  <2>2. CASE q # 1
    <3>1. q - 1 \in DOMAIN queue' /\ queue'[q - 1] = queue[q]
      BY <1>1, <2>2
    <3> QED
      BY <3>1
  <2> QED
    BY <2>1, <2>2
<1> QED
  BY <1>2 DEF Queued

LEMMA Parted ==
    ASSUME NEW s \in Seq(Nat), NEW n \in 0 .. Len(s)
    PROVE  /\ SubSeq(s, 1, n) \in Seq(Nat) /\ Len(SubSeq(s, 1, n)) = n
           /\ \A k \in 1 .. n : SubSeq(s, 1, n)[k] = s[k]
           /\ SubSeq(s, n + 1, Len(s)) \in Seq(Nat)
           /\ Len(SubSeq(s, n + 1, Len(s))) = Len(s) - n
           /\ \A k \in 1 .. Len(s) - n : SubSeq(s, n + 1, Len(s))[k] = s[n + k]
           /\ Ids(s) \subseteq Ids(SubSeq(s, 1, n)) \cup Ids(SubSeq(s, n + 1, Len(s)))
<1> DEFINE a == SubSeq(s, 1, n)
           b == SubSeq(s, n + 1, Len(s))
<1>1. n \in Nat /\ Len(s) \in Nat /\ n <= Len(s) /\ DOMAIN s = 1 .. Len(s)
      /\ \A k \in 1 .. Len(s) : s[k] \in Nat
  OBVIOUS
<1>2. /\ a \in Seq(Nat) /\ Len(a) = n /\ \A k \in 1 .. n : a[k] = s[k]
  <2>1. \A k \in 1 .. n : s[k] \in Nat
    BY <1>1
  <2>2. /\ a \in Seq(Nat) /\ Len(a) = IF 1 <= n THEN n - 1 + 1 ELSE 0
        /\ \A k \in 1 .. n - 1 + 1 : a[k] = s[1 + k - 1]
    BY <1>1, <2>1, SubSeqProperties
  <2> HIDE DEF a
  <2>3. n - 1 + 1 = n /\ (1 <= n \/ n = 0) /\ \A k \in 1 .. n : 1 + k - 1 = k
    BY <1>1
  <2>4. Len(a) = n
    BY <2>2, <2>3
  <2>5. \A k \in 1 .. n : a[k] = s[k]
    BY <2>2, <2>3
  <2> QED
    BY <2>2, <2>4, <2>5
<1>3. /\ b \in Seq(Nat) /\ Len(b) = Len(s) - n /\ \A k \in 1 .. Len(s) - n : b[k] = s[n + k]
  <2>1. \A k \in n + 1 .. Len(s) : s[k] \in Nat
    BY <1>1
  <2>2. /\ b \in Seq(Nat) /\ Len(b) = IF n + 1 <= Len(s) THEN Len(s) - (n + 1) + 1 ELSE 0
        /\ \A k \in 1 .. Len(s) - (n + 1) + 1 : b[k] = s[n + 1 + k - 1]
    BY <1>1, <2>1, SubSeqProperties
  <2> HIDE DEF b
  <2> DEFINE l == Len(s)
  <2> HIDE DEF l
  <2>3. l - (n + 1) + 1 = l - n /\ (n + 1 <= l \/ l - n = 0)
    <3>1. l \in Nat /\ n \in Nat /\ n <= l
      BY <1>1 DEF l
    <3> QED
      BY <3>1
  <2>4. \A k \in 1 .. Len(s) - n : n + 1 + k - 1 = n + k
    BY <1>1
  <2>5. Len(b) = Len(s) - n
    BY <2>2, <2>3 DEF l
  <2>6. \A k \in 1 .. Len(s) - n : b[k] = s[n + k]
    BY <2>2, <2>3, <2>4 DEF l
  <2> QED
    BY <2>2, <2>5, <2>6
<1> HIDE DEF a, b
<1>4. Ids(s) \subseteq Ids(a) \cup Ids(b)
  <2> SUFFICES ASSUME NEW k \in DOMAIN s PROVE s[k] \in Ids(a) \cup Ids(b)
    BY DEF Ids
  <2>1. DOMAIN a = 1 .. n /\ DOMAIN b = 1 .. Len(s) - n
    BY <1>1, <1>2, <1>3
  <2>2. CASE k <= n
    BY <1>1, <1>2, <2>1, <2>2 DEF Ids
  <2>3. CASE ~(k <= n)
    <3>1. k - n \in DOMAIN b /\ n + (k - n) = k
      BY <1>1, <2>1, <2>3
    <3> QED
      BY <1>3, <2>1, <3>1 DEF Ids
  <2> QED
    BY <2>2, <2>3
<1> QED
  BY <1>2, <1>3, <1>4 DEF a, b


LEMMA InitAccount == Init => AccountInv
BY DEF Init, AccountInv, Undisturbed, Typed, Wanted, Ids

(* A text: its characters are fragments to come, from the first on.        *)
LEMMA StringAccount ==
    ASSUME IInv, AccountInv, NEW t \in Texts, ReportString(t) PROVE AccountInv'
<1> DEFINE new == [i \in 1 .. Len(t) |-> [raw |-> FALSE, c |-> t[i], pos |-> i]]
<1>1. /\ t \in Seq(Char) /\ text \in Seq(Item) /\ frags = <<>> /\ text' = text \o new
      /\ frags' = [i \in 1 .. Len(t) |-> Len(text) + i]
      /\ UNCHANGED <<queue, nkeys, daemonVars, hostVars>>
  BY TextAssumption DEF ReportString, IInv, TypeOK
<1>2. Len(t) \in Nat /\ Len(text) \in Nat /\ DOMAIN text = 1 .. Len(text)
  BY <1>1
<1>3. /\ Len(new) = Len(t) /\ new \in Seq(Item)
      /\ \A i \in 1 .. Len(t) : new[i].pos = i
  BY <1>1, <1>2 DEF Item
<1> HIDE DEF new
<1>4. /\ DOMAIN text' = 1 .. Len(text) + Len(t)
      /\ \A i \in 1 .. Len(text) + Len(t) :
            text'[i] = IF i <= Len(text) THEN text[i] ELSE new[i - Len(text)]
  <2>1. /\ text \o new \in Seq(Item) /\ Len(text \o new) = Len(text) + Len(new)
        /\ \A i \in 1 .. Len(text) + Len(new) :
              (text \o new)[i] = IF i <= Len(text) THEN text[i] ELSE new[i - Len(text)]
    BY <1>1, <1>3, ConcatProperties
  <2> QED
    BY <1>1, <1>2, <1>3, <2>1
<1>5. \A i \in DOMAIN text : i \in DOMAIN text' /\ text'[i] = text[i]
  BY <1>2, <1>4
<1>6. /\ DOMAIN frags' = 1 .. Len(t)
      /\ \A n \in DOMAIN frags' : frags'[n] = Len(text) + n /\ text'[frags'[n]].pos = n
  <2>1. DOMAIN frags' = 1 .. Len(t) /\ \A n \in 1 .. Len(t) : frags'[n] = Len(text) + n
    BY <1>1, <1>2
  <2>2. ASSUME NEW n \in 1 .. Len(t) PROVE text'[Len(text) + n] = new[n]
    <3>1. Len(text) + n \in 1 .. Len(text) + Len(t) /\ ~(Len(text) + n <= Len(text))
          /\ Len(text) + n - Len(text) = n
      BY <1>2
    <3> QED
      BY <1>4, <3>1
  <2> QED
    BY <1>3, <2>1, <2>2
<1>7. \A i \in DOMAIN text' : i \in DOMAIN text \/ i \in Ids(frags')
  <2> SUFFICES ASSUME NEW i \in DOMAIN text', i \notin DOMAIN text PROVE i \in Ids(frags')
    OBVIOUS
  <2>1. i - Len(text) \in 1 .. Len(t) /\ Len(text) + (i - Len(text)) = i
    BY <1>2, <1>4
  <2> QED
    BY <1>6, <2>1 DEF Ids
<1>8. /\ Undisturbed' = Undisturbed /\ Typed' = Typed /\ Queued' = Queued /\ Ahead' = Ahead
      /\ UNCHANGED <<pc, todo, rc, missed>>
  BY <1>1 DEF Undisturbed, Typed, Queued, Ahead, daemonVars, hostVars
<1>9. Ids(frags) = {}
  BY <1>1 DEF Ids
<1>10. ASSUME Undisturbed PROVE AccountInv'
  <2>1. ASSUME NEW q \in DOMAIN queue
        PROVE  Len(queue[q].ids) <= MAX_STRING
               /\ \A n \in DOMAIN queue[q].ids : (text'[queue[q].ids[n]].pos % MAX_STRING # 0 <=> n # MAX_STRING)
    <3>1. PICK ids : ids = queue[q].ids /\ Known(ids) /\ Filled(ids)
      BY <1>10, QueueChars
    <3>2. \A n \in DOMAIN ids : Survives(ids[n])' <=> Survives(ids[n])
      BY <1>5, <3>1, TextGrows DEF Known
    <3> QED
      BY <3>1, <3>2 DEF Filled, Survives
  <2>2. \A i \in Ids(todo) : Survives(i)'
    <3>1. \A i \in Ids(todo) : i \in DOMAIN text /\ Survives(i)
      BY <1>10 DEF AccountInv, IInv, KnownInv, Known, Ids
    <3> QED
      BY <1>5, <3>1, TextGrows
  <2>3. Typed \subseteq Wanted'
    BY <1>5, <1>10, TextGrows DEF AccountInv
  <2>4. Wanted' \subseteq Typed \cup OnTheWay'
    <3>1. \A i \in Wanted' : i \in Wanted \/ i \in Ids(frags')
      BY <1>5, <1>7, TextGrows DEF Wanted
    <3>2. OnTheWay' = Ids(frags') \cup Queued \cup Ahead /\ OnTheWay = Queued \cup Ahead
      BY <1>8, <1>9 DEF OnTheWay
    <3> QED
      BY <1>10, <3>1, <3>2 DEF AccountInv
  <2>5. (\A q \in DOMAIN queue : Filled(queue[q].ids))'
    BY <1>1, <2>1 DEF Filled, Survives
  <2>6. /\ pc' \in {"read", "keys"} => todo' = <<>>
        /\ ~missed' /\ (pc' = "release" => rc' = "ok")
    BY <1>8, <1>10 DEF AccountInv
  <2>7. Typed' \subseteq Wanted' /\ Wanted' \subseteq Typed' \cup OnTheWay'
    BY <1>8, <2>3, <2>4
  <2>8. (\A i \in Ids(todo) : Survives(i))'
    BY <1>8, <2>2 DEF Ids
  <2> QED
    BY <1>6, <2>5, <2>6, <2>7, <2>8 DEF AccountInv
<1>11. CASE ~Undisturbed
  BY <1>8, <1>11 DEF AccountInv
<1> QED
  BY <1>10, <1>11

(* Where the places of a packet and of what is left are among the         *)
(* fragments.                                                              *)
LEMMA Places ==
    ASSUME NEW l \in Nat, NEW m \in 0 .. l, m <= MAX_STRING, m = MAX_STRING \/ m = l
    PROVE  /\ \A n \in 1 .. m : n \in 1 .. l /\ n \in 1 .. MAX_STRING
           /\ \A n \in 1 .. l - m : m = MAX_STRING /\ n \in Nat /\ m + n \in 1 .. l
BY MaxStringAssumption

(* A fragment fills a packet from its first byte on, and what is left      *)
(* begins after a full packet, if anything is left.                        *)
LEMMA FragAccount == ASSUME IInv, AccountInv, SendStringFrag PROVE AccountInv'
<1> DEFINE s == SubSeq(frags, 1, FragLen)
           p == [type |-> "chars", ids |-> s]
<1>1. /\ queue \in Seq(Packet) /\ queue' = Append(queue, p)
      /\ frags' = SubSeq(frags, FragLen + 1, Len(frags))
      /\ UNCHANGED <<text, nkeys, daemonVars, hostVars>>
  BY DEF SendStringFrag, IInv, TypeOK
<1>2. /\ frags \in Seq(Nat) /\ Len(frags) \in Nat /\ FragLen \in 0 .. Len(frags)
      /\ FragLen <= MAX_STRING /\ (FragLen = MAX_STRING \/ FragLen = Len(frags))
      /\ DOMAIN frags = 1 .. Len(frags)
  BY MaxStringAssumption DEF IInv, TypeOK, FragLen
<1>3. /\ s \in Seq(Nat) /\ Len(s) = FragLen /\ DOMAIN s = 1 .. FragLen
      /\ \A k \in 1 .. FragLen : s[k] = frags[k]
      /\ Len(frags') = Len(frags) - FragLen /\ DOMAIN frags' = 1 .. Len(frags) - FragLen
      /\ \A k \in 1 .. Len(frags) - FragLen : frags'[k] = frags[FragLen + k]
      /\ Ids(frags) \subseteq Ids(s) \cup Ids(frags')
  <2>1. /\ s \in Seq(Nat) /\ Len(s) = FragLen
        /\ \A k \in 1 .. FragLen : s[k] = frags[k]
        /\ frags' \in Seq(Nat) /\ Len(frags') = Len(frags) - FragLen
        /\ \A k \in 1 .. Len(frags) - FragLen : frags'[k] = frags[FragLen + k]
        /\ Ids(frags) \subseteq Ids(s) \cup Ids(frags')
    BY <1>1, <1>2, Parted
  <2> HIDE DEF s
  <2>2. DOMAIN s = 1 .. FragLen /\ DOMAIN frags' = 1 .. Len(frags) - FragLen
    BY <2>1
  <2> QED
    BY <2>1, <2>2
<1>4. /\ Undisturbed' = Undisturbed /\ Typed' = Typed /\ Ahead' = Ahead /\ Wanted' = Wanted
      /\ UNCHANGED <<pc, todo, rc, missed, text>>
  BY <1>1 DEF Undisturbed, Typed, Ahead, Wanted, HasKey, InMap, Decode, Survives, daemonVars, hostVars
<1>5. p.type = "chars" /\ p.ids = s /\ CharsOf(p) = Ids(s)
  BY DEF CharsOf
<1> HIDE DEF p, s
<1>6. Queued' = Queued \cup Ids(s)
  BY <1>1, <1>5, QueuedGrows
<1>7. ASSUME Undisturbed PROVE AccountInv'
  <2>1. \A n \in DOMAIN frags : text[frags[n]].pos % MAX_STRING = n % MAX_STRING
    BY <1>7 DEF AccountInv
  <2>2. Filled(s)
    <3>1. ASSUME NEW n \in DOMAIN s PROVE Survives(s[n]) <=> n # MAX_STRING
      <4>1. n \in DOMAIN frags /\ s[n] = frags[n] /\ n \in 1 .. MAX_STRING
        <5>1. n \in 1 .. FragLen
          BY <1>3
        <5>2. n \in 1 .. Len(frags) /\ n \in 1 .. MAX_STRING
          BY <1>2, <5>1, Places
        <5> QED
          BY <1>2, <1>3, <5>1, <5>2
      <4>2. text[s[n]].pos % MAX_STRING = n % MAX_STRING
        BY <2>1, <4>1
      <4>3. CASE n = MAX_STRING
        <5>1. n % MAX_STRING = 0
          BY <4>3, ModSelf, MaxStringAssumption
        <5> QED
          BY <4>2, <4>3, <5>1 DEF Survives
      <4>4. CASE n # MAX_STRING
        <5>1. n \in 0 .. MAX_STRING - 1 /\ n # 0 /\ MAX_STRING \in Nat \ {0}
          BY <4>1, <4>4, MaxStringAssumption
        <5>2. n % MAX_STRING = n
          BY <5>1, ModSmall
        <5> QED
          BY <4>2, <4>4, <5>1, <5>2 DEF Survives
      <4> QED
        BY <4>3, <4>4
    <3> QED
      BY <1>2, <1>3, <3>1 DEF Filled
  <2>3. (\A q \in DOMAIN queue : Filled(queue[q].ids))'
    <3>1. \A q \in DOMAIN queue' : (q \in DOMAIN queue /\ queue'[q] = queue[q]) \/ queue'[q] = p
      BY <1>1
    <3>2. \A q \in DOMAIN queue' : Filled(queue'[q].ids)
      BY <1>5, <1>7, <2>2, <3>1 DEF AccountInv
    <3> QED
      BY <1>4, <3>2 DEF Filled, Survives
  <2>4. ASSUME NEW n \in DOMAIN frags'
        PROVE  text[frags'[n]].pos % MAX_STRING = n % MAX_STRING
    <3>1. FragLen = MAX_STRING /\ n \in Nat /\ MAX_STRING + n \in DOMAIN frags
          /\ frags'[n] = frags[MAX_STRING + n]
      <4>1. n \in 1 .. Len(frags) - FragLen
        BY <1>3
      <4>2. FragLen = MAX_STRING /\ n \in Nat /\ FragLen + n \in 1 .. Len(frags)
        BY <1>2, <4>1, Places
      <4> QED
        BY <1>2, <1>3, <4>1, <4>2
    <3>2. text[frags'[n]].pos % MAX_STRING = (MAX_STRING + n) % MAX_STRING
      BY <2>1, <3>1
    <3>3. (MAX_STRING + n) % MAX_STRING = n % MAX_STRING
      BY <3>1, ModOver, MaxStringAssumption
    <3> QED
      BY <3>2, <3>3
  <2>5. OnTheWay \subseteq OnTheWay'
    BY <1>3, <1>4, <1>6 DEF OnTheWay
  <2>6. Typed' \subseteq Wanted' /\ Wanted' \subseteq Typed' \cup OnTheWay'
    BY <1>4, <1>7, <2>5 DEF AccountInv
  <2>7. (\A i \in Ids(todo) : Survives(i))'
    BY <1>4, <1>7 DEF AccountInv, Ids, Survives
  <2>8. /\ pc' \in {"read", "keys"} => todo' = <<>>
        /\ ~missed' /\ (pc' = "release" => rc' = "ok")
    BY <1>4, <1>7 DEF AccountInv
  <2> QED
    BY <1>4, <2>3, <2>4, <2>6, <2>7, <2>8 DEF AccountInv
<1>8. CASE ~Undisturbed
  BY <1>4, <1>8 DEF AccountInv
<1> QED
  BY <1>7, <1>8

(* A raw character is a packet of its own.                                 *)
LEMMA RawAccount ==
    ASSUME IInv, AccountInv, NEW k \in Key, ReportRawChar(k) PROVE AccountInv'
<1> DEFINE e == [raw |-> TRUE, c |-> k, pos |-> 1]
           j == Len(text) + 1
           p == [type |-> "chars", ids |-> <<j>>]
<1>1. /\ text \in Seq(Item) /\ queue \in Seq(Packet) /\ frags = <<>>
      /\ text' = Append(text, e) /\ queue' = Append(queue, p)
      /\ UNCHANGED <<frags, nkeys, daemonVars, hostVars>>
  BY DEF ReportRawChar, IInv, TypeOK
<1>2. p.type = "chars" /\ p.ids = <<j>> /\ CharsOf(p) = {j} /\ e.pos = 1
  BY DEF CharsOf, Ids
<1> HIDE DEF e
<1>3. /\ \A i \in DOMAIN text : i \in DOMAIN text' /\ text'[i] = text[i]
      /\ \A i \in DOMAIN text' : i \in DOMAIN text \/ i = j
      /\ text'[j] = e
  BY <1>1
<1>4. /\ Undisturbed' = Undisturbed /\ Typed' = Typed /\ Ahead' = Ahead
      /\ UNCHANGED <<pc, todo, rc, missed, frags>>
  BY <1>1 DEF Undisturbed, Typed, Ahead, daemonVars, hostVars
<1> HIDE DEF p, j
<1>5. Queued' = Queued \cup {j}
  BY <1>1, <1>2, QueuedGrows
<1>6. ASSUME Undisturbed PROVE AccountInv'
  <2>1. ASSUME NEW q \in DOMAIN queue
        PROVE  Len(queue[q].ids) <= MAX_STRING
               /\ \A n \in DOMAIN queue[q].ids :
                      (text'[queue[q].ids[n]].pos % MAX_STRING # 0 <=> n # MAX_STRING)
    <3>1. PICK ids : ids = queue[q].ids /\ Known(ids) /\ Filled(ids)
      BY <1>6, QueueChars
    <3>2. \A n \in DOMAIN ids : Survives(ids[n])' <=> Survives(ids[n])
      BY <1>3, <3>1, TextGrows DEF Known
    <3> QED
      BY <3>1, <3>2 DEF Filled, Survives
  <2>2. /\ Len(p.ids) <= MAX_STRING
        /\ \A n \in DOMAIN p.ids : (text'[p.ids[n]].pos % MAX_STRING # 0 <=> n # MAX_STRING)
    <3>1. 1 % MAX_STRING = 1
      <4>1. 1 \in 0 .. MAX_STRING - 1 /\ MAX_STRING \in Nat \ {0}
        BY MaxStringAssumption
      <4> QED
        BY <4>1, ModSmall
    <3>2. Len(p.ids) = 1 /\ DOMAIN p.ids = {1} /\ p.ids[1] = j
      BY <1>2
    <3> QED
      BY <1>2, <1>3, <3>1, <3>2, MaxStringAssumption
  <2>3. (\A q \in DOMAIN queue : Filled(queue[q].ids))'
    <3>1. \A q \in DOMAIN queue' : (q \in DOMAIN queue /\ queue'[q] = queue[q]) \/ queue'[q] = p
      BY <1>1
    <3>2. \A q \in DOMAIN queue' :
             /\ Len(queue'[q].ids) <= MAX_STRING
             /\ \A n \in DOMAIN queue'[q].ids :
                    (text'[queue'[q].ids[n]].pos % MAX_STRING # 0 <=> n # MAX_STRING)
      BY <2>1, <2>2, <3>1
    <3> QED
      BY <3>2 DEF Filled, Survives
  <2>4. (\A i \in Ids(todo) : Survives(i))'
    <3>1. \A i \in Ids(todo) : i \in DOMAIN text /\ Survives(i)
      BY <1>6 DEF AccountInv, IInv, KnownInv, Known, Ids
    <3>2. \A i \in Ids(todo) : Survives(i)'
      BY <1>3, <3>1, TextGrows
    <3> QED
      BY <1>4, <3>2 DEF Ids
  <2>5. Typed' \subseteq Wanted' /\ Wanted' \subseteq Typed' \cup OnTheWay'
    <3>1. Wanted \subseteq Wanted' /\ Wanted' \subseteq Wanted \cup {j}
      BY <1>3, TextGrows DEF Wanted
    <3>2. OnTheWay' = OnTheWay \cup {j}
      BY <1>4, <1>5 DEF OnTheWay, Ids
    <3> QED
      BY <1>4, <1>6, <3>1, <3>2 DEF AccountInv
  <2>6. /\ pc' \in {"read", "keys"} => todo' = <<>>
        /\ ~missed' /\ (pc' = "release" => rc' = "ok") /\ frags' = <<>>
    BY <1>1, <1>4, <1>6 DEF AccountInv
  <2>7. \A n \in DOMAIN frags' : text'[frags'[n]].pos % MAX_STRING = n % MAX_STRING
    BY <2>6
  <2> QED
    BY <2>3, <2>4, <2>5, <2>6, <2>7 DEF AccountInv
<1>7. CASE ~Undisturbed
  BY <1>4, <1>7 DEF AccountInv
<1> QED
  BY <1>6, <1>7

(* Steps of the daemon that leave the packets alone.                       *)
LEMMA HandAccount ==
    ASSUME AccountInv, UNCHANGED <<text, queue, frags>>, Undisturbed' => Undisturbed,
           pc' \in {"read", "keys"} => todo' = <<>>,
           Undisturbed' => /\ ~missed' /\ (pc' = "release" => rc' = "ok")
                           /\ Ids(todo') \subseteq Ids(todo)
                           /\ Typed' \subseteq Wanted
                           /\ Wanted \subseteq Typed' \cup Ids(frags) \cup Queued \cup Ahead'
    PROVE  AccountInv'
<1>1. Wanted' = Wanted /\ Queued' = Queued
  BY DEF Wanted, Queued, HasKey, InMap, Decode, Survives
<1>2. ASSUME Undisturbed' PROVE AccountInv'
  <2>1. (\A q \in DOMAIN queue : Filled(queue[q].ids))'
    BY <1>2 DEF AccountInv, Filled, Survives
  <2>2. (\A i \in Ids(todo) : Survives(i))'
    <3>1. \A i \in Ids(todo') : Survives(i)
      BY <1>2 DEF AccountInv
    <3> QED
      BY <3>1 DEF Ids, Survives
  <2>3. \A n \in DOMAIN frags' : text'[frags'[n]].pos % MAX_STRING = n % MAX_STRING
    BY <1>2 DEF AccountInv
  <2>4. Typed' \subseteq Wanted' /\ Wanted' \subseteq Typed' \cup OnTheWay'
    BY <1>1, <1>2 DEF OnTheWay
  <2> QED
    BY <1>2, <2>1, <2>2, <2>3, <2>4 DEF AccountInv
<1> QED
  BY <1>2 DEF AccountInv

LEMMA HeadAndTail ==
    ASSUME NEW s \in Seq(Nat), s # <<>>
    PROVE  Ids(s) = {Head(s)} \cup Ids(Tail(s))
<1>1. /\ Head(s) = s[1] /\ DOMAIN s = 1 .. Len(s) /\ Len(s) \in Nat /\ 1 \in DOMAIN s
      /\ DOMAIN Tail(s) = 1 .. Len(s) - 1
      /\ \A n \in DOMAIN Tail(s) : n + 1 \in DOMAIN s /\ Tail(s)[n] = s[n + 1]
  OBVIOUS
<1>2. ASSUME NEW n \in DOMAIN s PROVE s[n] = Head(s) \/ s[n] \in Ids(Tail(s))
  <2>1. CASE n = 1
    BY <1>1, <2>1
  <2>2. CASE n # 1
    <3>1. n - 1 \in DOMAIN Tail(s) /\ n - 1 + 1 = n
      BY <1>1, <2>2
    <3> QED
      BY <1>1, <3>1 DEF Ids
  <2> QED
    BY <2>1, <2>2
<1>3. Ids(s) \subseteq {Head(s)} \cup Ids(Tail(s))
  BY <1>2 DEF Ids
<1>4. Ids(Tail(s)) \subseteq Ids(s)
  BY <1>1 DEF Ids
<1>5. Head(s) \in Ids(s)
  BY <1>1 DEF Ids
<1> QED
  BY <1>3, <1>4, <1>5

(* A packet is read but for its MAX_STRING-th character, which does not    *)
(* survive.                                                                *)
LEMMA ReadAccount == ASSUME IInv, AccountInv, ReadPacket PROVE AccountInv'
<1> DEFINE p == Head(queue)
<1>1. /\ queue \in Seq(Packet) /\ queue # <<>> /\ queue' = Tail(queue) /\ pc = "read"
      /\ UNCHANGED <<text, frags, nkeys, rc, hostVars>>
  BY DEF ReadPacket, IInv, TypeOK, appVars
<1>2. /\ p = queue[1] /\ 1 \in DOMAIN queue /\ p \in Packet
      /\ \A q \in DOMAIN queue' : q + 1 \in DOMAIN queue /\ queue'[q] = queue[q + 1]
  BY <1>1
<1>3. Queued \subseteq CharsOf(p) \cup Queued'
  BY <1>1, QueuedTail
<1> HIDE DEF p
<1>4. todo = <<>> /\ Ahead = {}
  BY <1>1 DEF AccountInv, Ahead, Ids
<1>5. /\ Undisturbed' = Undisturbed /\ Typed' = Typed /\ Wanted' = Wanted
      /\ UNCHANGED <<missed, text, frags>>
  BY <1>1 DEF Undisturbed, Typed, Wanted, HasKey, InMap, Decode, Survives, hostVars
<1>6. CASE p.type = "keys" /\ pc' = "keys" /\ UNCHANGED todo
  <2>1. ~Undisturbed
    BY <1>2, <1>6 DEF IInv, HeldInv, Undisturbed
  <2> QED
    BY <1>4, <1>5, <1>6, <2>1 DEF AccountInv
<1>7. CASE p.type = "chars" /\ todo' = Received(p.ids) /\ pc' = "press"
  <2>1. CASE ~Undisturbed
    BY <1>5, <1>7, <2>1 DEF AccountInv
  <2>2. ASSUME Undisturbed PROVE AccountInv'
    <3> DEFINE n == IF Len(p.ids) < MAX_STRING - 1 THEN Len(p.ids) ELSE MAX_STRING - 1
    <3>1. p.ids \in Seq(Nat) /\ CharsOf(p) = Ids(p.ids) /\ Filled(p.ids)
          /\ DOMAIN p.ids = 1 .. Len(p.ids) /\ Len(p.ids) <= MAX_STRING
      BY <1>2, <1>7, <2>2 DEF Packet, CharsOf, AccountInv, Filled
    <3>2. /\ n \in 0 .. Len(p.ids)
          /\ \A k \in 1 .. n : k \in 1 .. Len(p.ids) /\ k # MAX_STRING
          /\ \A k \in 1 .. Len(p.ids) : k # MAX_STRING => k \in 1 .. n
      BY <3>1, MaxStringAssumption
    <3>3. todo' = SubSeq(p.ids, 1, n)
      BY <1>7 DEF Received
    <3> HIDE DEF n
    <3>4. todo' \in Seq(Nat) /\ Len(todo') = n /\ \A k \in 1 .. n : todo'[k] = p.ids[k]
      BY <3>1, <3>2, <3>3, Parted
    <3>5. DOMAIN todo' = 1 .. n
      BY <3>4
    <3>6. \A i \in Ids(todo') : Survives(i)
      BY <3>1, <3>2, <3>4, <3>5 DEF Ids, Filled
    <3>7. \A i \in CharsOf(p) : Survives(i) => i \in Ids(todo')
      <4> SUFFICES ASSUME NEW k \in 1 .. Len(p.ids), Survives(p.ids[k])
                   PROVE  p.ids[k] \in Ids(todo')
        BY <3>1 DEF Ids
      <4>1. k \in 1 .. n
        BY <3>1, <3>2 DEF Filled
      <4> QED
        BY <3>4, <3>5, <4>1 DEF Ids
    <3>8. Wanted' \subseteq Typed' \cup OnTheWay'
      <4>1. Ahead' = Ids(todo')
        BY <1>7 DEF Ahead
      <4>2. Wanted \subseteq Typed \cup Ids(frags) \cup CharsOf(p) \cup Queued'
        BY <1>3, <1>4, <2>2 DEF AccountInv, OnTheWay
      <4> QED
        BY <1>5, <3>7, <4>1, <4>2 DEF OnTheWay, Wanted
    <3>9. (\A q \in DOMAIN queue : Filled(queue[q].ids))'
      <4>1. \A q \in DOMAIN queue' : Filled(queue'[q].ids)
        BY <1>2, <2>2 DEF AccountInv
      <4> QED
        BY <1>5, <4>1 DEF Filled, Survives
    <3>10. (\A i \in Ids(todo) : Survives(i))'
      BY <1>5, <3>6 DEF Ids, Survives
    <3>11. /\ Typed' \subseteq Wanted' /\ ~missed'
           /\ \A m \in DOMAIN frags' : text'[frags'[m]].pos % MAX_STRING = m % MAX_STRING
      BY <1>5, <2>2 DEF AccountInv
    <3> QED
      BY <1>7, <3>8, <3>9, <3>10, <3>11 DEF AccountInv
  <2> QED
    BY <2>1, <2>2
<1> QED
  BY <1>6, <1>7 DEF ReadPacket, p

LEMMA SkipAccount == ASSUME IInv, AccountInv, SkipChar PROVE AccountInv'
<1>1. /\ pc = "press" /\ pc' = "press" /\ todo # <<>> /\ todo \in Seq(Nat) /\ todo' = Tail(todo)
      /\ ~InMap(Head(todo)) /\ UNCHANGED <<text, queue, frags, nkeys, rc, hostVars>>
  BY DEF SkipChar, IInv, TypeOK, appVars
<1>2. Ids(todo) = {Head(todo)} \cup Ids(todo')
  BY <1>1, HeadAndTail
<1>3. Undisturbed' = Undisturbed /\ Typed' = Typed /\ missed' = missed
  BY <1>1 DEF Undisturbed, Typed, hostVars
<1>4. Head(todo) \notin Wanted
  BY <1>1 DEF Wanted, HasKey
<1>5. Ahead = Ids(todo) /\ Ahead' = Ids(todo')
  BY <1>1 DEF Ahead
<1>6. Undisturbed =>
        /\ ~missed /\ Typed \subseteq Wanted
        /\ Wanted \subseteq Typed \cup Ids(frags) \cup Queued \cup Ahead'
  BY <1>2, <1>4, <1>5 DEF AccountInv, OnTheWay
<1> QED
  BY <1>1, <1>2, <1>3, <1>6, HandAccount

(* A send that fails on a link that is up is counted.                      *)
LEMMA MissCounts == ASSUME IInv, Miss, nkeys' = nkeys PROVE ~Undisturbed'
BY DEF Miss, Undisturbed, IInv, TypeOK

(* The press of a character is a stroke, if it has a key: the host holds   *)
(* no key before it.                                                       *)
LEMMA PressAccount == ASSUME IInv, AccountInv, PressChar PROVE AccountInv'
<1> DEFINE i == Head(todo)
           d == Decode(i)
<1>1. /\ pc = "press" /\ pc' = "release" /\ todo # <<>> /\ todo \in Seq(Nat) /\ InMap(i)
      /\ UNCHANGED <<queue, frags, text, nkeys, todo>> /\ typed \in Seq(Stroke)
  BY DEF PressChar, IInv, TypeOK, appVars, Stroke
<1>2. d \in Decoded /\ i \in DOMAIN text
  BY <1>1, TodoHead, DecodeType DEF IInv
<1>3. kbd = ZeroReport
  BY <1>1 DEF IInv, KbdInv
<1>4. (Deliver(i, OneKey(d)) /\ rc' = "ok") \/ Miss
  BY <1>2, <1>3, PressOne DEF PressChar
<1>5. Ids(todo) = {i} \cup Ids(Tail(todo))
  BY <1>1, HeadAndTail
<1>6. KeysOf(OneKey(d)) = {d.key} \ {0}
  BY <1>2, OneKeyType
<1>7. HasKey(i) <=> d.key # 0
  BY <1>1 DEF HasKey
<1> HIDE DEF d, i
<1>8. CASE Miss
  <2>1. ~Undisturbed'
    BY <1>1, <1>8, MissCounts
  <2> QED
    BY <1>1, <2>1 DEF AccountInv
<1>9. ASSUME Deliver(i, OneKey(d)), rc' = "ok" PROVE AccountInv'
  <2>1. missed' = FALSE /\ UNCHANGED <<link, faults>>
    BY <1>9 DEF Deliver
  <2>2. Undisturbed' = Undisturbed
    BY <1>1, <2>1 DEF Undisturbed
  <2>3. ASSUME Undisturbed
        PROVE  /\ Typed' \subseteq Wanted
               /\ Wanted \subseteq Typed' \cup Ids(frags) \cup Queued \cup Ahead'
    <3>1. down = {}
      BY <1>1, <2>3 DEF AccountInv, IInv, HeldInv, Undisturbed
    <3>2. Ahead = {i} \cup Ahead'
      BY <1>1, <1>5 DEF Ahead
    <3>3. Survives(i)
      BY <1>5, <2>3 DEF AccountInv
    <3>4. CASE d.key = 0
      <4>1. typed' = typed
        BY <1>6, <1>9, <3>1, <3>4 DEF Deliver
      <4>2. Typed' = Typed /\ i \notin Wanted
        BY <1>7, <3>4, <4>1 DEF Typed, Wanted
      <4> QED
        BY <2>3, <3>2, <4>2 DEF AccountInv, OnTheWay
    <3>5. CASE d.key # 0
      <4>1. PICK e : e.id = i /\ typed' = Append(typed, e)
        <5>1. KeysOf(OneKey(d)) \ down = {d.key}
          BY <1>6, <3>1, <3>5
        <5>2. typed' = Append(typed, [id |-> i, keys |-> {d.key}, mods |-> OneKey(d).mods])
          BY <1>9, <5>1 DEF Deliver
        <5> QED
          BY <5>2
      <4>2. /\ DOMAIN typed' = DOMAIN typed \cup {Len(typed) + 1}
            /\ \A n \in DOMAIN typed : typed'[n] = typed[n]
            /\ typed'[Len(typed) + 1] = e
        BY <1>1, <4>1
      <4>3. Typed' = Typed \cup {i}
        BY <4>1, <4>2 DEF Typed
      <4>4. i \in Wanted
        BY <1>2, <1>7, <3>3, <3>5 DEF Wanted
      <4> QED
        BY <2>3, <3>2, <4>3, <4>4 DEF AccountInv, OnTheWay
    <3> QED
      BY <3>4, <3>5
  <2> QED
    BY <1>1, <1>9, <2>1, <2>2, <2>3, HandAccount
<1> QED
  BY <1>4, <1>8, <1>9

LEMMA ReleaseAccount == ASSUME IInv, AccountInv, ReleaseChar PROVE AccountInv'
<1> DEFINE i == Head(todo)
           d == Decode(i)
<1>1. /\ pc = "release" /\ pc' = "press" /\ todo \in Seq(Nat)
      /\ todo' = IF rc = "ok" THEN Tail(todo) ELSE <<>>
      /\ UNCHANGED <<text, queue, frags, nkeys, rc>>
      /\ todo # <<>> /\ InMap(i) /\ kbd = OneKey(d)
  BY DEF ReleaseChar, IInv, TypeOK, KbdInv, appVars
<1>2. d \in Decoded
  BY <1>1, TodoHead, DecodeType DEF IInv
<1>3. Deliver(i, ZeroReport) \/ Miss
  BY <1>1, <1>2, ReleaseOne DEF ReleaseChar
<1>4. Ids(Tail(todo)) \subseteq Ids(todo)
  BY <1>1, HeadAndTail
<1> HIDE DEF i, d
<1>5. CASE Miss
  <2>1. ~Undisturbed'
    BY <1>1, <1>5, MissCounts
  <2> QED
    BY <1>1, <2>1 DEF AccountInv
<1>6. CASE Deliver(i, ZeroReport)
  <2>1. typed' = typed /\ missed' = FALSE /\ UNCHANGED <<link, faults>>
    BY <1>6, DeliverZero
  <2>2. Undisturbed' = Undisturbed /\ Typed' = Typed
    BY <1>1, <2>1 DEF Undisturbed, Typed
  <2>3. ASSUME Undisturbed
        PROVE  /\ Ids(todo') \subseteq Ids(todo) /\ Typed \subseteq Wanted
               /\ Wanted \subseteq Typed \cup Ids(frags) \cup Queued \cup Ahead'
    <3>1. todo' = Tail(todo)
      BY <1>1, <2>3 DEF AccountInv
    <3>2. Ahead' = Ahead
      BY <1>1, <3>1 DEF Ahead
    <3> QED
      BY <1>4, <2>3, <3>1, <3>2 DEF AccountInv, OnTheWay
  <2> QED
    BY <1>1, <2>1, <2>2, <2>3, HandAccount
<1> QED
  BY <1>3, <1>5, <1>6

(* The end of a packet, the packets of bin_sender and the loss of the link.*)
LEMMA OtherAccount ==
    ASSUME IInv, AccountInv,
           PacketDone \/ SendKeys \/ LinkLost \/ UNCHANGED vars \/ \E k \in Key : BinSenderKeys(k)
    PROVE  AccountInv'
<1>1. CASE PacketDone \/ UNCHANGED vars
  <2>1. /\ UNCHANGED <<text, queue, frags, nkeys, todo, rc, hostVars>>
        /\ pc' = pc \/ (pc' = "read" /\ pc = "press" /\ todo = <<>>)
    BY <1>1 DEF PacketDone, vars, appVars, daemonVars
  <2>2. Undisturbed' = Undisturbed /\ Typed' = Typed /\ Ahead' = Ahead /\ missed' = missed
    BY <2>1 DEF Undisturbed, Typed, Ahead, hostVars
  <2>3. Undisturbed => /\ ~missed /\ (pc' = "release" => rc = "ok") /\ Typed \subseteq Wanted
                       /\ Wanted \subseteq Typed \cup Ids(frags) \cup Queued \cup Ahead
    BY <2>1 DEF AccountInv, OnTheWay
  <2>4. pc' \in {"read", "keys"} => todo' = <<>>
    BY <2>1 DEF AccountInv
  <2> QED
    BY <2>1, <2>2, <2>3, <2>4, HandAccount
<1>2. CASE SendKeys \/ LinkLost \/ \E k \in Key : BinSenderKeys(k)
  <2>1. ~Undisturbed'
    <3>1. CASE SendKeys
      BY <3>1 DEF SendKeys, appVars, Undisturbed, IInv, HeldInv
    <3>2. CASE LinkLost
      BY <3>2 DEF LinkLost, Undisturbed
    <3>3. CASE \E k \in Key : BinSenderKeys(k)
      BY <3>3 DEF BinSenderKeys, Undisturbed, IInv, TypeOK
    <3> QED
      BY <1>2, <3>1, <3>2, <3>3
  <2>2. todo' = todo /\ (pc' = pc \/ (pc' = "read" /\ pc = "keys"))
    BY <1>2 DEF SendKeys, LinkLost, BinSenderKeys, daemonVars
  <2> QED
    BY <2>1, <2>2 DEF AccountInv
<1> QED
  BY <1>1, <1>2

(* While no send fails, the link is up and bin_sender is silent, exactly   *)
(* the characters with a key have come out once all is at rest, except     *)
(* every MAX_STRING-th of a text: send_str_report fills a packet with it,  *)
(* and process_multi_bin overwrites it with the terminator.                *)
THEOREM AllAccounted == Spec => []AllButCutTyped
<1>1. IInv /\ AccountInv /\ [Next]_vars => AccountInv'
  BY StringAccount, FragAccount, RawAccount, ReadAccount, SkipAccount, PressAccount,
     ReleaseAccount, OtherAccount DEF Next
<1>2. AccountInv => AllButCutTyped
  <2> SUFFICES ASSUME AccountInv, Quiescent, Undisturbed PROVE Typed = Wanted
    BY DEF AllButCutTyped, Wanted, Survives
  <2>1. Ids(frags) = {} /\ Queued = {} /\ Ahead = {}
    BY DEF AccountInv, Quiescent, Ids, Queued, Ahead
  <2> QED
    BY <2>1 DEF AccountInv, OnTheWay
<1>3. QED
  BY <1>1, <1>2, InitAccount, Invariance, PTL DEF Spec
=============================================================================
