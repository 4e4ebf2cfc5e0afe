------------------------------ MODULE Keyboard ------------------------------
(***************************************************************************)
(* What becomes of the text and the keys the application reports: the      *)
(* client library cuts a text into packets (hidp_clientdlib.c), the daemon *)
(* turns each character into a press and a release (combo_conn.c), and the *)
(* host sees keyboard reports, some of which send() fails to bring it.     *)
(* The FIFO is reliable here and the daemon is in its packet loop: what    *)
(* else may happen to packets is the subject of HidpSession.  The test     *)
(* program bin_sender may write keyboard packets of its own in between.    *)
(***************************************************************************)
EXTENDS Naturals, Sequences

CONSTANTS
    MAX_STRING,     \* bytes of text a packet has room for
    Char,           \* the characters of a text: bytes other than 0
    Key,            \* the key codes of the keyboard
    asciimap,       \* kbd_asciimap: the key and the modifiers of a character
    Texts,          \* the texts the user may send
    MaxItems,       \* characters reported in all
    MaxKeyPackets,  \* packets bin_sender writes
    MaxFaults       \* sends that fail while the link is up

ASSUME MaxStringAssumption == MAX_STRING \in Nat /\ MAX_STRING > 1
ASSUME CharAssumption == Char \subseteq Nat
ASSUME KeyAssumption == Key \subseteq Nat \ {0}
ASSUME MapAssumption ==
    /\ DOMAIN asciimap \subseteq Char
    /\ \A c \in DOMAIN asciimap :
          asciimap[c] \in [key: Key \cup {0}, mods: SUBSET {"shift"}]
ASSUME TextAssumption == Texts \subseteq Seq(Char)
ASSUME BoundAssumption == MaxItems \in Nat /\ MaxKeyPackets \in Nat /\ MaxFaults \in Nat

Slots == 1 .. 6

(* keyboard_report: the modifiers and the slots, 0 in a slot that is free. *)
Report == [mods: SUBSET {"shift"}, keys: [Slots -> Key \cup {0}]]
ZeroReport == [mods |-> {}, keys |-> [s \in Slots |-> 0]]
KeysOf(r) == {r.keys[s] : s \in Slots} \ {0}

(* A character as the application reports it: of a text, where pos is its  *)
(* place in the text, or a raw key code.  Its index in text is its         *)
(* identity; packets carry identities.                                     *)
Item == [raw: BOOLEAN, c: Char \cup Key, pos: Nat]

(* bin_packet of a keyboard report: characters, or the keys bin_sender     *)
(* holds down (one of its six slots is enough here).                       *)
Packet == [type: {"chars"}, ids: Seq(Nat)] \cup [type: {"keys"}, key: Key]

VARIABLES
    text,       \* the characters reported so far
    frags,      \* those of the text being sent that are not written yet
    queue,      \* the packets in the FIFO
    kbd,        \* the report process_multi_bin works on
    todo,       \* the characters of the packet still to be sent
    pc,         \* read, press, release, keys: where process_multi_bin is
    rc,         \* what press_kbd_char returned: ok, full or failed
    nkeys,      \* packets bin_sender has written
    link,       \* the interrupt channel is up or lost
    faults,     \* sends that failed on a link that was up
    missed,     \* the last report did not reach the host
    down,       \* the keys the host takes to be held down
    typed       \* the strokes the host has seen, each with its character

appVars == <<text, frags, nkeys>>
daemonVars == <<kbd, todo, pc, rc>>
hostVars == <<link, faults, missed, down, typed>>
vars == <<appVars, queue, daemonVars, hostVars>>

Init ==
    /\ text = <<>> /\ frags = <<>> /\ queue = <<>> /\ nkeys = 0
    /\ kbd = ZeroReport /\ todo = <<>> /\ pc = "read" /\ rc = "ok"
    /\ link = "up" /\ faults = 0 /\ missed = FALSE
    /\ down = {} /\ typed = <<>>

-----------------------------------------------------------------------------
(* The application and bin_sender                                          *)

(* ReportString, as far as the first fragment.                             *)
ReportString(t) ==
    /\ frags = <<>> /\ Len(text) + Len(t) <= MaxItems
    /\ text' = text \o [i \in 1 .. Len(t) |->
                          [raw |-> FALSE, c |-> t[i], pos |-> i]]
    /\ frags' = [i \in 1 .. Len(t) |-> Len(text) + i]
    /\ UNCHANGED <<queue, nkeys, daemonVars, hostVars>>

FragLen == IF Len(frags) < MAX_STRING THEN Len(frags) ELSE MAX_STRING

(* Fault: s_ind is not advanced.                                           *)
SendStringFragRepeats ==
    /\ frags # <<>>
    /\ queue' = Append(queue, [type |-> "chars", ids |-> SubSeq(frags, 1, FragLen)])
    /\ frags' = SubSeq(frags, 1, Len(frags) - FragLen)
    /\ UNCHANGED <<text, nkeys, daemonVars, hostVars>>

(* One turn of the loop of send_str_report, or the remainder after it.     *)
SendStringFrag ==
    /\ frags # <<>>
    /\ queue' = Append(queue, [type |-> "chars", ids |-> SubSeq(frags, 1, FragLen)])
    /\ frags' = SubSeq(frags, FragLen + 1, Len(frags))
    /\ UNCHANGED <<text, nkeys, daemonVars, hostVars>>

ReportRawChar(k) ==
    /\ frags = <<>> /\ Len(text) < MaxItems
    /\ text' = Append(text, [raw |-> TRUE, c |-> k, pos |-> 1])
    /\ queue' = Append(queue, [type |-> "chars", ids |-> <<Len(text) + 1>>])
    /\ UNCHANGED <<frags, nkeys, daemonVars, hostVars>>

(* bin_sender kbd 0 ...: another process, at any time.                     *)
BinSenderKeys(k) ==
    /\ nkeys < MaxKeyPackets
    /\ nkeys' = nkeys + 1
    /\ queue' = Append(queue, [type |-> "keys", key |-> k])
    /\ UNCHANGED <<text, frags, daemonVars, hostVars>>

-----------------------------------------------------------------------------
(* Sending a report to the host                                            *)

(* The report arrives: keys that were up and now are down are a stroke.    *)
Deliver(id, r) ==
    LET new == KeysOf(r) \ down
    IN  /\ down' = KeysOf(r)
        /\ typed' = IF new = {} THEN typed
                    ELSE Append(typed, [id |-> id, keys |-> new, mods |-> r.mods])
        /\ missed' = FALSE
        /\ UNCHANGED <<link, faults>>

(* send() fails: on a lost link always, else now and then.                 *)
Miss ==
    /\ link = "lost" \/ faults < MaxFaults
    /\ faults' = IF link = "lost" THEN faults ELSE faults + 1
    /\ missed' = TRUE
    /\ UNCHANGED <<link, down, typed>>

(* The host forgets what a keyboard that goes away holds down.             *)
LinkLost ==
    /\ link = "up"
    /\ link' = "lost" /\ down' = {}
    /\ UNCHANGED <<appVars, queue, daemonVars, faults, missed, typed>>

-----------------------------------------------------------------------------
(* process_multi_bin                                                       *)

(* Fault: s[MAX_STRING-2] = 0.                                             *)
ReceivedCutsTwo(ids) ==
    SubSeq(ids, 1, IF Len(ids) < MAX_STRING - 1 THEN Len(ids) ELSE MAX_STRING - 2)

(* The string is cut at s[MAX_STRING-1] before its length is taken.        *)
Received(ids) ==
    SubSeq(ids, 1, IF Len(ids) < MAX_STRING - 1 THEN Len(ids) ELSE MAX_STRING - 1)

ReadPacket ==
    /\ pc = "read" /\ queue # <<>>
    /\ LET p == Head(queue)
       IN  \/ /\ p.type = "chars"
              /\ todo' = Received(p.ids) /\ pc' = "press" /\ UNCHANGED kbd
           \/ /\ p.type = "keys"
              /\ kbd' = [mods |-> {},
                         keys |-> [s \in Slots |-> IF s = 1 THEN p.key ELSE 0]]
              /\ pc' = "keys" /\ UNCHANGED todo
    /\ queue' = Tail(queue)
    /\ UNCHANGED <<appVars, rc, hostVars>>

InMap(i) == text[i].raw \/ text[i].c \in DOMAIN asciimap

(* Fault: the SHIFT bit is not cleared from the key.                       *)
DecodeKeepsShiftBit(i) ==
    IF text[i].raw THEN [key |-> text[i].c, mods |-> {}]
    ELSE [asciimap[text[i].c] EXCEPT !.key = IF asciimap[text[i].c].mods = {} THEN @ ELSE @ + 128]

(* A raw character is a key code; another one is looked up in the map,     *)
(* which has no entry for a byte beyond its end (InMap).                   *)
Decode(i) == IF text[i].raw THEN [key |-> text[i].c, mods |-> {}]
             ELSE asciimap[text[i].c]

FreeSlots(r) == {s \in Slots : r.keys[s] = 0}
Press(r, d) ==
    LET mods == r.mods \cup d.mods
        s == CHOOSE f \in FreeSlots(r) : \A g \in FreeSlots(r) : f <= g
    IN  IF (\E h \in Slots : r.keys[h] = d.key) \/ FreeSlots(r) = {}
        THEN [r EXCEPT !.mods = mods]
        ELSE [r EXCEPT !.mods = mods, !.keys[s] = d.key]
Full(r, d) == FreeSlots(r) = {} /\ \A h \in Slots : r.keys[h] # d.key

(* Fault: the modifiers stay.                                              *)
ReleaseKeepsMods(r, d) ==
    LET held == {s \in Slots : r.keys[s] = d.key}
        s == CHOOSE f \in held : \A g \in held : f <= g
    IN  IF d.key = 0 \/ held = {} THEN r ELSE [r EXCEPT !.keys[s] = 0]

(* Fault: the slot stays.                                                  *)
ReleaseKeepsKey(r, d) == [r EXCEPT !.mods = r.mods \ d.mods]

Release(r, d) ==
    LET held == {s \in Slots : r.keys[s] = d.key}
        s == CHOOSE f \in held : \A g \in held : f <= g
    IN  IF d.key = 0 \/ held = {} THEN [r EXCEPT !.mods = @ \ d.mods]
        ELSE [r EXCEPT !.mods = @ \ d.mods, !.keys[s] = 0]

(* A character the map does not reach is passed over.                      *)
SkipChar ==
    /\ pc = "press" /\ todo # <<>> /\ ~InMap(Head(todo))
    /\ todo' = Tail(todo)
    /\ UNCHANGED <<appVars, queue, kbd, pc, rc, hostVars>>

(* press_kbd_char: with no slot free nothing is sent.                      *)
PressChar ==
    /\ pc = "press" /\ todo # <<>> /\ InMap(Head(todo))
    /\ LET i == Head(todo)
           r == Press(kbd, Decode(i))
       IN  /\ kbd' = r
           /\ IF Full(kbd, Decode(i))
              THEN rc' = "full" /\ UNCHANGED hostVars
              ELSE \/ link = "up" /\ Deliver(i, r) /\ rc' = "ok"
                   \/ Miss /\ rc' = "failed"
    /\ pc' = "release"
    /\ UNCHANGED <<appVars, queue, todo>>

(* release_kbd_char, whose result send_char_raw does not look at.  After a *)
(* press that did not get through send_string gives up the rest.           *)
ReleaseChar ==
    /\ pc = "release"
    /\ LET i == Head(todo)
           r == Release(kbd, Decode(i))
       IN  /\ kbd' = r
           /\ (link = "up" /\ Deliver(i, r)) \/ Miss
    /\ todo' = IF rc = "ok" THEN Tail(todo) ELSE <<>>
    /\ pc' = "press"
    /\ UNCHANGED <<appVars, queue, rc>>

(* The end of a packet: the report is cleared.                             *)
PacketDone ==
    /\ pc = "press" /\ todo = <<>>
    /\ kbd' = ZeroReport /\ pc' = "read"
    /\ UNCHANGED <<appVars, queue, todo, rc, hostVars>>

(* Fault: the report is not cleared.                                       *)
SendKeysNotCleared ==
    /\ pc = "keys"
    /\ (link = "up" /\ Deliver(0, kbd)) \/ Miss
    /\ pc' = "read"
    /\ UNCHANGED <<appVars, queue, kbd, todo, rc>>

(* A keyboard packet is sent as it is.  Whether the loop clears the report *)
(* or ends with an error and is entered again, the next packet finds it    *)
(* clear.                                                                  *)
SendKeys ==
    /\ pc = "keys"
    /\ (link = "up" /\ Deliver(0, kbd)) \/ Miss
    /\ kbd' = ZeroReport /\ pc' = "read"
    /\ UNCHANGED <<appVars, queue, todo, rc>>

-----------------------------------------------------------------------------
Next ==
    \/ \E t \in Texts : ReportString(t)
    \/ SendStringFrag
    \/ \E k \in Key : ReportRawChar(k) \/ BinSenderKeys(k)
    \/ ReadPacket \/ SkipChar \/ PressChar \/ ReleaseChar \/ PacketDone \/ SendKeys
    \/ LinkLost

Spec == Init /\ [][Next]_vars

-----------------------------------------------------------------------------
TypeOK ==
    /\ text \in Seq(Item) /\ frags \in Seq(Nat) /\ queue \in Seq(Packet)
    /\ kbd \in Report /\ todo \in Seq(Nat)
    /\ pc \in {"read", "press", "release", "keys"}
    /\ rc \in {"ok", "full", "failed"}
    /\ nkeys \in 0 .. MaxKeyPackets
    /\ link \in {"up", "lost"} /\ faults \in 0 .. MaxFaults /\ missed \in BOOLEAN
    /\ down \in SUBSET Key
    /\ typed \in Seq([id: Nat, keys: SUBSET Key, mods: SUBSET {"shift"}])

(* The characters that come out at the host are characters the application *)
(* reported, each at most once and in their order, whatever sends fail and *)
(* whatever bin_sender writes in between (id 0).                           *)
TypedInOrder ==
    \A i, j \in DOMAIN typed :
        i < j /\ typed[i].id # 0 /\ typed[j].id # 0 => typed[i].id < typed[j].id

(* A stroke the host sees for a character is its key with its own          *)
(* modifiers: a Shift never carries over to the next character.            *)
TypedFaithfully ==
    \A i \in DOMAIN typed :
        typed[i].id # 0 =>
            /\ InMap(typed[i].id)
            /\ typed[i].keys = {Decode(typed[i].id).key}
            /\ typed[i].mods = Decode(typed[i].id).mods

(* press_kbd_char always finds the report clear: a character never joins   *)
(* keys held before it, and "Pressed more then 6 buttons" is not reached.  *)
PressesOnClear == pc = "press" => kbd = ZeroReport

(* Between packets the host takes no key of a character to be held, unless *)
(* the last report did not reach it.                                       *)
KeysReleased == pc = "read" /\ ~missed /\ nkeys = 0 => down = {}

Quiescent == frags = <<>> /\ queue = <<>> /\ pc = "read"
Undisturbed == faults = 0 /\ link = "up" /\ nkeys = 0
Typed == {typed[i].id : i \in DOMAIN typed}
HasKey(i) == InMap(i) /\ Decode(i).key # 0

(* While nothing fails, exactly the characters with a key come out, except *)
(* the last one of each full packet, whose place the terminator takes.     *)
AllButCutTyped ==
    Quiescent /\ Undisturbed =>
        Typed = {i \in DOMAIN text : HasKey(i) /\ text[i].pos % MAX_STRING # 0}

(* send_str_report puts MAX_STRING characters into a packet: while nothing *)
(* fails, they all come out.                                               *)
AllTyped ==
    Quiescent /\ Undisturbed => Typed = {i \in DOMAIN text : HasKey(i)}
=============================================================================
