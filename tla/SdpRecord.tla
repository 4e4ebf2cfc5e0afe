----------------------------- MODULE SdpRecord -----------------------------
(***************************************************************************)
(* The service record that bmouse builds (self_repr.c) and the part of     *)
(* sdp.c that turns it into the request for the SDP server: attributes are *)
(* kept in a sorted list, sdp_gen_buffer computes how large a buffer must  *)
(* be, sdp_gen_pdu and sdp_append_to_buf write into it and choose between  *)
(* one and two bytes for the length of a sequence.  Extract is the reader, *)
(* sdp_extract_pdu.                                                        *)
(*                                                                         *)
(* A byte is a number; the characters of a text are abstracted to one.     *)
(* The nodes that an element consists of in memory are a sequence, with    *)
(* the element itself last, and a pointer to one of them is its position:  *)
(* what a node points to comes before it, and NULL is 0.  What sdp.c does  *)
(* by recursion over the nodes are functions over their positions.         *)
(***************************************************************************)
EXTENDS Naturals, Sequences

CONSTANTS
    AttrIds,        \* identifiers and values of attributes that are added
    Elements,       \* to a record
    MaxAttrs        \* that has fewer than this many

VARIABLES
    attrlist,       \* rec->attrlist: identifier and value of each attribute
    bufSize, counted, \* sdp_gen_record_pdu: the size to allocate and the
                    \* attributes that are counted in it,
    pdu, written,   \* what is written, and the attributes that are in it
    sizeReadLate    \* how "buf_size += f(buf)" is compiled, see CountNode

recordVars == <<attrlist, bufSize, counted, pdu, written, sizeReadLate>>

-----------------------------------------------------------------------------
(* sdp_data_t: an element has a type, and a value, a length or parts, of   *)
(* which sub is the first; next is what comes after it in a list of parts. *)
NULL == 0
Code == [uint8 |-> 8, uint16 |-> 9, uint32 |-> 10, uuid16 |-> 25,
         text8 |-> 37, seq8 |-> 53, seq16 |-> 54]
Width == [uint8 |-> 1, uint16 |-> 2, uint32 |-> 4, uuid16 |-> 2]
TypeOf(code) == CHOOSE t \in DOMAIN Code : Code[t] = code

Node == [dtd: DOMAIN Code, val: Nat, sub: Nat, next: Nat]
PointsBack(d) == \A i \in DOMAIN d : d[i].sub < i /\ d[i].next < i
IsElement(d) ==
    d \in Seq(Node) /\ d # <<>> /\ PointsBack(d) /\ d[Len(d)].next = NULL

(* The first attribute of each record are the browse groups, which no      *)
(* later one replaces.                                                     *)
BrowseGroupsId == 5
ASSUME RecordAssumption ==
    /\ MaxAttrs \in Nat /\ AttrIds \subseteq Nat \ {BrowseGroupsId}
    /\ \A d \in Elements : IsElement(d)

(* sdp_data_alloc                                                          *)
Leaf(dtd, val) == <<[dtd |-> dtd, val |-> val, sub |-> NULL, next |-> NULL]>>
UInt8(v) == Leaf("uint8", v)
UInt16(v) == Leaf("uint16", v)
UInt32(v) == Leaf("uint32", v)
Uuid16(v) == Leaf("uuid16", v)
Text8(len) == Leaf("text8", len)

(* sdp_seq_alloc: the parts are linked, the last one first here.           *)
Moved(p, by) == IF p = NULL THEN NULL ELSE p + by
Cons(d, list) ==
    list \o [i \in DOMAIN d |->
                [d[i] EXCEPT !.sub = Moved(d[i].sub, Len(list)),
                             !.next = IF i = Len(d) THEN Len(list) ELSE Moved(d[i].next, Len(list))]]
Linked(parts) ==
    LET n == Len(parts)
        last[k \in 0 .. n] == IF k = 0 THEN <<>> ELSE Cons(parts[n - k + 1], last[k - 1])
    IN  last[n]

SeqOf(dtd, parts) ==
    LET list == Linked(parts)
    IN  Append(list, [dtd |-> dtd, val |-> 0, sub |-> Len(list), next |-> NULL])
Seq8(parts) == SeqOf("seq8", parts)

IsText(node) == node.dtd = "text8"
IsSeq(node) == node.dtd \in {"seq8", "seq16"}
ValueLen(node) == IF IsText(node) THEN node.val ELSE Width[node.dtd]

UCHAR_MAX == 255
Power == <<1, 256, 65536, 16777216>>
BigEndian(v, width) == [i \in 1 .. width |-> (v \div Power[width - i + 1]) % 256]

(* sdp_get_data_type_size: the type and the length behind it.              *)
TypeSize(dtd) == CASE dtd \in {"text8", "seq8"} -> 2 [] dtd = "seq16" -> 3 [] OTHER -> 1

(* sdp_set_seq_len                                                         *)
SeqLen(dtd, len) ==
    IF TypeSize(dtd) = 1 THEN <<>> ELSE BigEndian(len, TypeSize(dtd) - 1)

(* What an element holds, whatever its nodes' places: the element that is  *)
(* allocated anew from its parts.                                          *)
CopyNode(node, parts) ==
    IF IsSeq(node) THEN SeqOf(node.dtd, parts) ELSE Leaf(node.dtd, node.val)
Copies(d) ==
    LET lists[i \in 0 .. Len(d)] ==
            IF i = NULL THEN <<>>
            ELSE <<CopyNode(d[i], lists[d[i].sub])>> \o lists[d[i].next]
    IN  lists
Copy(d) == Copies(d)[Len(d)][1]

(* The members of the union are as wide as their type says, and so are an  *)
(* attribute's identifier and the length of a text.                        *)
ValueFits(dtd, val) ==
    /\ dtd = "text8" => val <= UCHAR_MAX
    /\ dtd \in DOMAIN Width => val \div Power[Width[dtd]] <= UCHAR_MAX
Fits(d) == \A i \in DOMAIN d : ValueFits(d[i].dtd, d[i].val)
ASSUME ReadAssumption ==
    /\ \A id \in AttrIds : ValueFits("uint16", id)
    /\ \A d \in Elements : Fits(d)

-----------------------------------------------------------------------------
(* sdp_gen_buffer of a node, when parts is what its parts make of a size:  *)
(* the size of the buffer after it.  The three bytes of an attribute's     *)
(* identifier are counted for every part of an attribute, too.  The C code *)
(* adds to buf_size what a call returns that itself adds to buf_size: the  *)
(* old value may be read before the call or after it (late), and then the  *)
(* parts count twice.                                                      *)

(* Fault: the head of a sequence always has one byte for the length, and   *)
(* parts count as what they are.                                           *)
CountNodeExact(late, node, size, parts) ==
    LET own == size + (IF size = 0 THEN 3 ELSE 0) + TypeSize(node.dtd)
    IN  IF IsSeq(node) THEN parts[own] ELSE own + ValueLen(node)

CountNode(late, node, size, parts) ==
    LET own   == size + 3 + TypeSize(node.dtd)
        inner == IF IsSeq(node) THEN parts[own] ELSE own + ValueLen(node)
        full  == IF IsSeq(node) /\ late THEN inner + (inner - own) ELSE inner
    IN  IF full > UCHAR_MAX /\ node.dtd = "seq8" THEN full + 1 ELSE full

(* The size after a node and those that follow it: get_data_size.          *)
CountStep(late, node, parts, rest) ==
    [size \in Nat |-> rest[CountNode(late, node, size, parts)]]
Counts(late, d) ==
    LET counts[i \in 0 .. Len(d)] ==
            IF i = NULL THEN [size \in Nat |-> size]
            ELSE CountStep(late, d[i], counts[d[i].sub], counts[d[i].next])
    IN  counts

GenBuffer(late, size, d) == Counts(late, d)[Len(d)][size]

-----------------------------------------------------------------------------
(* sdp_gen_pdu: the type a node ends up with, which it keeps, and the size *)
(* that is reported, when its parts have the size given.  A sequence that  *)
(* turns out long is generated again behind a longer head.                 *)
DataSize(node, partsSize) == IF IsSeq(node) THEN partsSize ELSE ValueLen(node)
LongType(node, partsSize) ==
    IF partsSize > UCHAR_MAX /\ node.dtd = "seq8" THEN "seq16" ELSE node.dtd

SizeStep(node, partsSize, restSize) ==
    TypeSize(LongType(node, partsSize)) + DataSize(node, partsSize) + restSize
Sizes(d) ==
    LET sizes[i \in 0 .. Len(d)] ==
            IF i = NULL THEN 0 ELSE SizeStep(d[i], sizes[d[i].sub], sizes[d[i].next])
    IN  sizes

Lengthened(d) ==
    [i \in DOMAIN d |-> [d[i] EXCEPT !.dtd = LongType(d[i], Sizes(d)[d[i].sub])]]

(* The bytes of a node at position at of a buffer of the size given.  A    *)
(* value that does not fit is left out, but its size is reported.          *)
Value(node) == IF IsText(node) THEN [i \in 1 .. node.val |-> 1]
               ELSE BigEndian(node.val, Width[node.dtd])
PduNode(size, at, node, partsSize, parts) ==
    LET body == at + TypeSize(node.dtd)
    IN  <<Code[node.dtd]>> \o SeqLen(node.dtd, DataSize(node, partsSize))
            \o (IF IsSeq(node) THEN parts[body]
                ELSE IF size >= body + ValueLen(node) THEN Value(node) ELSE <<>>)

PduStep(size, node, partsSize, parts, rest) ==
    [at \in Nat |-> LET first == PduNode(size, at, node, partsSize, parts)
                    IN  first \o rest[at + Len(first)]]
Pdus(size, d) ==
    LET pdus[i \in 0 .. Len(d)] ==
            IF i = NULL THEN [at \in Nat |-> <<>>]
            ELSE PduStep(size, d[i], Sizes(d)[d[i].sub], pdus[d[i].sub], pdus[d[i].next])
    IN  pdus

GenPdu(size, at, d) == Pdus(size, Lengthened(d))[Len(d)][at]

(* sdp_append_to_pdu: the identifier, then the value.                      *)
AttrPdu(late, a) ==
    <<Code["uint16"]>> \o BigEndian(a.id, 2) \o GenPdu(GenBuffer(late, 0, a.data), 3, a.data)

(* Fault: the length of the outer sequence keeps its one byte.             *)
SetOuterLenShort(all) ==
    <<Code["seq8"]>> \o SeqLen("seq8", Len(all) - 2) \o SubSeq(all, 3, Len(all))

(* sdp_append_to_buf: the outer sequence grows by the bytes of data, and   *)
(* then gets its length, which may need a second byte now.                 *)
SetOuterLen(all) ==
    LET head == TypeSize(TypeOf(all[1]))
        dtd  == IF Len(all) > UCHAR_MAX /\ all[1] = Code["seq8"] THEN "seq16"
                ELSE TypeOf(all[1])
        body == SubSeq(all, head + 1, Len(all))
    IN  <<Code[dtd]>> \o SeqLen(dtd, Len(body)) \o body

AppendToBuf(dst, data) ==
    IF dst = <<>> THEN SetOuterLen(<<Code["seq8"], 0>> \o data)
    ELSE SetOuterLen(dst \o data)

-----------------------------------------------------------------------------
(* The list of attributes                                                  *)

(* sdp_data_get and sdp_list_remove                                        *)
Has(rec, id) == \E i \in DOMAIN rec : rec[i].id = id
Without(rec, id) ==
    IF ~Has(rec, id) THEN rec
    ELSE LET p == CHOOSE i \in DOMAIN rec : rec[i].id = id
         IN  SubSeq(rec, 1, p - 1) \o SubSeq(rec, p + 1, Len(rec))

(* sdp_list_insert_sorted: before the first attribute that is not less.    *)
Before(rec, id, n) ==
    /\ \A i \in 1 .. n : rec[i].id < id
    /\ n < Len(rec) => rec[n + 1].id >= id
InsertSorted(rec, a) ==
    LET n == CHOOSE k \in 0 .. Len(rec) : Before(rec, a.id, k)
    IN  SubSeq(rec, 1, n) \o <<a>> \o SubSeq(rec, n + 1, Len(rec))

(* sdp_attr_replace, and sdp_attr_add, which refuses an identifier that    *)
(* the record has.                                                         *)
AttrReplace(rec, id, d) == InsertSorted(Without(rec, id), [id |-> id, data |-> d])
AttrAdd(rec, id, d) ==
    IF Has(rec, id) THEN rec ELSE InsertSorted(rec, [id |-> id, data |-> d])

(* A record to which attributes are added or put one after the other.      *)
Add(id, d) == [replace |-> FALSE, id |-> id, data |-> d]
Put(id, d) == [replace |-> TRUE, id |-> id, data |-> d]

Built(rec, steps) ==
    LET rec_[i \in 0 .. Len(steps)] ==
            IF i = 0 THEN rec
            ELSE IF steps[i].replace THEN AttrReplace(rec_[i - 1], steps[i].id, steps[i].data)
            ELSE AttrAdd(rec_[i - 1], steps[i].id, steps[i].data)
    IN  rec_[Len(steps)]

-----------------------------------------------------------------------------
(* sdp_extract_attr at position at: the element and the bytes it takes,    *)
(* none when its type is unknown or the bytes end too early.  lists are    *)
(* the elements found from a position on, one after the other, until one   *)
(* ends at a given position or behind it (extract_seq).                    *)
Number(b, at, width) ==
    CASE width = 1 -> b[at]
      [] width = 2 -> 256 * b[at] + b[at + 1]
      [] width = 4 -> 256 * (256 * (256 * b[at] + b[at + 1]) + b[at + 2]) + b[at + 3]

NoElement == [len |-> 0, data |-> <<>>]
ExtractLeaf(b, at, dtd, len) ==
    IF at + len - 1 > Len(b) THEN NoElement
    ELSE [len  |-> TypeSize(dtd) + len,
          data |-> IF dtd = "text8" THEN Text8(len) ELSE Leaf(dtd, Number(b, at, len))]
ExtractSeq(dtd, list) ==
    [len |-> TypeSize(dtd) + list.len, data |-> SeqOf(dtd, list.parts)]

(* Of a sequence whose head is cut off nothing is read; the loop of the C  *)
(* code would go round in place there.  A whole record has none.           *)
ExtractAttr(b, at, lists) ==
    LET dtd  == TypeOf(b[at])
        body == at + TypeSize(dtd)
        len  == IF TypeSize(dtd) = 1 THEN Width[dtd] ELSE Number(b, at + 1, TypeSize(dtd) - 1)
    IN  IF at > Len(b) \/ ~(\E t \in DOMAIN Code : Code[t] = b[at]) \/ body - 1 > Len(b)
        THEN NoElement
        ELSE IF dtd \in {"seq8", "seq16"} THEN ExtractSeq(dtd, lists[body][body + len])
        ELSE ExtractLeaf(b, body, dtd, len)

ExtractStep(b, at, lists) ==
    LET first == ExtractAttr(b, at, lists)
    IN  [end \in Nat |->
            IF at >= end \/ first.len = 0 THEN [len |-> 0, parts |-> <<>>]
            ELSE LET rest == lists[at + first.len][end]
                 IN  [len |-> first.len + rest.len, parts |-> <<first.data>> \o rest.parts]]
ExtractLists(b) ==
    LET lists[at \in 1 .. Len(b) + 1] == ExtractStep(b, at, lists)
    IN  lists

(* sdp_extract_pdu puts the attributes one after the other into a record:  *)
(* what is put in from a position on.                                      *)
ExtractPut(b, end, at, puts) ==
    LET first == ExtractAttr(b, at + 3, ExtractLists(b))
    IN  IF at >= end \/ at + 2 > Len(b) \/ first.len = 0 THEN <<>>
        ELSE <<Put(Number(b, at + 1, 2), first.data)>> \o puts[at + 3 + first.len]
ExtractPuts(b, end) ==
    LET puts[at \in 1 .. Len(b) + 1] == ExtractPut(b, end, at, puts)
    IN  puts
Extract(b) ==
    LET head == TypeSize(TypeOf(b[1]))
        end  == head + 1 + Number(b, 2, head - 1)
    IN  Built(<<>>, ExtractPuts(b, end)[head + 1])

-----------------------------------------------------------------------------
(* build_hid_mouse and build_hid_multidev: the same but for the report     *)
(* descriptor.                                                             *)
BrowseGroups == AttrReplace(<<>>, BrowseGroupsId, Seq8(<<Uuid16(4098)>>))

AccessProtos(channel) ==
    Seq8(<<Seq8(<<Uuid16(256), UInt16(channel)>>), Seq8(<<Uuid16(17)>>)>>)

PutAll(ids, values) == [i \in DOMAIN ids |-> Put(ids[i], UInt16(values[i]))]

BuildHid(specLen) ==
    Built(BrowseGroups,
        <<Add(6, Seq8(<<UInt16(25966), UInt16(106), UInt16(256)>>)),
          Put(1, Seq8(<<Uuid16(4388)>>)),
          Add(9, Seq8(<<Seq8(<<Uuid16(4388), UInt16(256)>>)>>)),
          Add(4, AccessProtos(17)),
          Add(13, Seq8(<<AccessProtos(19)>>)),
          Put(256, Text8(9))>>
        \o PutAll(<<512, 513, 514, 515, 516, 517>>, <<256, 273, 128, 0, 1, 1>>)
        \o <<Add(518, Seq8(<<Seq8(<<UInt8(34), Text8(specLen)>>)>>)),
             Add(519, Seq8(<<Seq8(<<UInt16(1033), UInt16(256)>>)>>))>>
        \o PutAll(<<520, 522, 523, 524, 525, 526>>, <<0, 1, 256, 8000, 1, 1>>))

build_hid_mouse == BuildHid(54)
build_hid_multidev == BuildHid(153)

RecordInit ==
    /\ attrlist \in {BrowseGroups, build_hid_mouse, build_hid_multidev}
    /\ bufSize = 0 /\ counted = 0 /\ pdu = <<>> /\ written = 0
    /\ sizeReadLate \in BOOLEAN

(* An attribute of a record that is being built.                           *)
SetAttr ==
    /\ counted = 0 /\ Len(attrlist) < MaxAttrs
    /\ \E id \in AttrIds, d \in Elements :
          attrlist' \in {AttrAdd(attrlist, id, d), AttrReplace(attrlist, id, d)}
    /\ UNCHANGED <<bufSize, counted, pdu, written, sizeReadLate>>

(* sdp_gen_record_pdu counts the attributes one by one, and, with a buffer *)
(* of that size, writes them one by one.  Sequences that have become long  *)
(* stay so.                                                                *)
CountAttr ==
    /\ counted < Len(attrlist)
    /\ counted' = counted + 1
    /\ bufSize' = GenBuffer(sizeReadLate, bufSize, attrlist[counted'].data)
    /\ UNCHANGED <<attrlist, pdu, written, sizeReadLate>>

WriteAttr ==
    /\ counted = Len(attrlist) /\ written < Len(attrlist)
    /\ written' = written + 1
    /\ pdu' = AppendToBuf(pdu, AttrPdu(sizeReadLate, attrlist[written']))
    /\ attrlist' = [attrlist EXCEPT ![written'].data = Lengthened(attrlist[written'].data)]
    /\ UNCHANGED <<bufSize, counted, sizeReadLate>>

(* Fault: the buffer of the last request is used again.                    *)
SetHandleInBuffer ==
    /\ written = Len(attrlist)
    /\ attrlist' = AttrReplace(attrlist, 0, UInt32(65537))
    /\ bufSize' = 0 /\ counted' = 0 /\ written' = 0
    /\ UNCHANGED <<pdu, sizeReadLate>>

(* sdp_device_record_register: the request has been sent, and the record   *)
(* gets the handle the server has given.  bmouse is done with it then; a   *)
(* record that is registered again, as sdp.c allows, starts a new request. *)
SetHandle ==
    /\ written = Len(attrlist)
    /\ attrlist' = AttrReplace(attrlist, 0, UInt32(65537))
    /\ bufSize' = 0 /\ counted' = 0 /\ pdu' = <<>> /\ written' = 0
    /\ UNCHANGED sizeReadLate

RecordNext == SetAttr \/ CountAttr \/ WriteAttr \/ SetHandle

RecordSpec == RecordInit /\ [][RecordNext]_recordVars

-----------------------------------------------------------------------------
(* What is written never exceeds what was allocated, although the head of  *)
(* the whole record is not counted: a record with a sequence in it, as     *)
(* every record of bmouse starts with, counts its parts too high by at     *)
(* least as much.                                                          *)
RecordFits == pdu # <<>> => Len(pdu) <= bufSize

(* Nor does it exceed the request into which it is copied without a look   *)
(* at its size: SDP_REQ_BUFFER_SIZE, of which the header and the flags     *)
(* take six bytes.  No request carries what is left of the one before.     *)
RequestRoom == 2048 - 6
RequestFits == Len(pdu) <= RequestRoom

(* The reader gets back the record that was written, with sequences that   *)
(* had to become long, whatever the lengths on either side of a boundary.  *)
RecordReadBack ==
    written > 0 =>
        Extract(pdu) = [k \in 1 .. written |->
                           [id |-> attrlist[k].id, data |-> Copy(attrlist[k].data)]]
=============================================================================
