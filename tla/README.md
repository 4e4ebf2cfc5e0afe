# A verification project for Android2Mouse

Android2Mouse lets a phone act as a Bluetooth mouse, keyboard and game pad for a computer
that needs no special software. This directory holds TLA+ models of its own code and of those
parts of the vendored BlueZ sources that its programs call, TLC configurations that check them
on small instances, and TLAPS proofs of what matters most for every instance. `PROJECT.json` lists the runs, the
theorems, the hazards, the disagreements found, and for every definition the source lines
it translates.

## The system

| Part | Source | State | Operations |
|---|---|---|---|
| Daemon `hidp_clientd` | `src/src/bin/hidp_clientd/{hidp_clientd,hidp,combo_conn}.c` | `cnt_sock`, `int_sock`, `src_fd`, the poll set, the three report structures | start-up, `open()` of the FIFO, two `l2cap_connect`s, the poll loop, `process_sk`, `process_multi_bin`, `process_mouse_nice`, clean-up in `exit()` |
| Log of the daemon | `src/src/bin/hidp_clientd/log.c` | the file `hidp_clientd.log`, a position per process | `open_log`, `push_string` |
| Command FIFO | `/data/hidp_clientd.fifo`, kernel | packets, who has it open | `mkfifo`, `open`, `read`, `write`, `close` |
| Client library | `src/src/BluetoothMouse/jni/*.c` | static `fd` and `packet` | `start_session`, `end_session`, `send_*` |
| `HidpBcaster` | `.../common/hidp/HidpBcaster.java` | static `mouse_buttons`, `joystick_buttons`, `server` | `StartSession`, `EndSession`, `KillServer`, `Report*`, `Push/Release*` |
| Activities | `SelectBcastType`, `Mouse`, `MouseGestureListener`, `Joystick` | static grasp state (`bstate`, `moved`), the views | life cycle and touch callbacks, all on the UI thread |
| `becomeAMouse` | `src/src/becomeAMouse/.../MainActivity.java` | the toggle, the preference `sdp-record` | `onCreate`, `onToggleClicked` |
| `bmouse` | `src/src/bin/bmouse/{apply_profile,self_repr}.c` | none that lasts: the SDP server's records, the device class | `cod`, `multi`, `phone`; `mouse` and `cod-mouse`, which the application does not run |
| Bluetooth libraries (vendored) | `src/src/bin/bmouse/{sdp,hci}.c` | one SDP session, one raw HCI socket | what `bmouse` calls: `sdp_gen_record_pdu`, the register and unregister requests, `hci_send_req` |

They interact as follows. Opening the activity `SelectBcastType` starts `su -c hidp_clientd`
and opens the FIFO for writing on the UI thread; the daemon opens it for reading, connects
the control and the interrupt channel to the host and polls. Each touch becomes one or more
20-byte packets in the FIFO; each packet one or more HID reports on the interrupt channel.
Destroying the activity writes a `SHUTDOWN` packet, closes the FIFO and starts
`su -c busybox pkill hidp_clientd`, which nobody waits for. With the connection type `mouse` the
FIFO carries text lines instead, which a user or a script writes. `becomeAMouse` runs `bmouse`
and waits for the end of its output; `bmouse` asks the SDP server and the controller, which
other processes use too. The two halves share nothing but the phone.

What is hard about it: a session that starts while the processes of the one before are still
about (turning the screen does this); a `pkill` that runs late; blocking `open`, `read` and
`write` calls on a UI thread and in a poll loop; an application process that dies anywhere; a
channel that is lost between two reports; button and grasp state that outlives activities and
sessions; lines in a stdio buffer that `poll()` knows nothing of; two processes that log to one
file; a program run as root whose answer may not reach the preferences, and requests of it that
are served after it has given them up; lengths of records around the point where a second byte
is needed; and the rounding and narrowing of distances. `PROJECT.json`
lists these as hazards, each at its line.

What makes each part correct: the FIFO and the daemons must bring each report to the host at
most once and in order, `SHUTDOWN` must come last, the daemons of ended sessions must go away
and must not take the next session with them in a way that hangs the application; the
keyboard path must type what was sent, with no key or Shift left held; the host's idea of the
buttons must be the application's, and the pointer must go where the finger goes; the toggle, the
class, the record and the saved handle must agree, with a bounded number of records lost to
failures; what `bmouse` prints and its exit status must be true; a record must fit into the
buffer allocated for it and be read back as it was; and the log must stay within its limit
without losing its newest lines.

## Modules

* **`Fifo`**: the named pipe as operators on a record. External: it is modelled from the
  calls the repository makes on it. `open` counts a process as a reader before it returns,
  as the kernel does; the last close of either side drops the unread packets.
* **`HidpDaemon`** (extends `Fifo`): the daemons, one per session. `pc[d]` is the place in
  `main()`; each action runs from one blocking or externally visible call to the next. `todo` is
  the set of descriptors whose `revents` are still to be looked at, in index order. A report is
  an identity and a kind of packet: only that a failed `send()` lets a keyboard packet go on and
  ends the read loop for the others matters here. A send may fail on a link that is up, too
  (`ENOBUFS`, `ENOMEM`): the code looks at its result and not at the link.
* **`HidpSession`** (extends `HidpDaemon`): the UI thread (`ui`), the descriptor, pending `pkill`
  commands and the death of the application, composed with the daemons and the FIFO. Its
  properties are those of the whole.
* **`ReportChannel`**: the abstract specification the session implements: an application
  offers numbered reports, a lossy queue with stop marks passes each on to one of several
  competing consumers, a consumer that meets a stop mark stops.
* **`MouseConn`** (extends `HidpDaemon`): the connection type `mouse`. `getline()` takes from the
  FIFO as many lines as fit into the buffer of the stream (`lines`), which outlives the call of
  `process_mouse_nice`; whether a stream that has met the end of file reads again is a choice of
  the C library (`sticky`). It implements `ReportChannel` too, with the buffered lines as the
  head of the queue.
* **`LogFile`**: the log as a sequence of bytes, each with the call that wrote it; `log.c`'s cut of a
  long line and its rewind at the limit as operators on a record of the file and the positions.
  `calls` is a record for the properties: what was called, and how much had been written by then
  (`upto`).
* **`Keyboard`**: `send_str_report`, `process_multi_bin`'s keyboard branch, `press_kbd_char`,
  `release_kbd_char` and `send_string`, a host that turns reports into strokes, and
  `bin_sender` writing key packets of its own. Characters have identities (their index in all
  that was reported), so that "typed once, in order" can be said.
* **`Gestures`**: the callbacks of the mouse and joystick screens, the static state behind
  them, and the Android life cycle around them. One callback is one action, since all run on
  the UI thread; where it makes several reports, the model keeps the last, which decides what
  the host holds afterwards.
* **`Movement`**: the distances that travel in the same packets: `onScroll`, the wheel with two
  or more fingers, `onSensorChanged` with its noise, rounding and sensitivity, and the narrowing of `int` to
  `int8_t`. One axis stands for all. Positions and readings are in halves of a unit, so that
  rounding has something to round.
* **`BecomeMouse`**: the toggle, the `bmouse` processes (which go on when the application dies),
  the SDP server, the class, and other services that register records. A call of `bmouse` works,
  fails, is given up and served later (`late`), or is refused unnoticed (`SetClassRefused`).
* **`BmouseCalls`**: what `BecomeMouse` takes for one step: all commands of `bmouse` call by call, the
  request and answer on the SDP session, the raw socket of `hci_send_req` on which the events of all
  processes arrive, its tries and timeouts.
* **`SdpRecord`**: the attribute list, the size that is computed, the encoding with one or two
  bytes of length, and the reader, as operators over bytes; the characters of a text are one. An
  element is the nodes it has in memory, linked by `sub` (its first part) and `next` (what follows it
  in a list); what a node points to was allocated before it, so that the recursions of `sdp.c` are
  functions over positions. `Extract` reads a record as `sdp_extract_pdu` does, one attribute after the
  other into a sorted list; its recursion is over positions in the bytes. The nodes it allocates lie
  elsewhere than those that were written, so that what is compared is what an element holds (`Copy`).
* `MCSession`, `MCMouseConn`, `MCKeyboard`, `MCGestures`, `MCBecomeMouse`, `MCBmouse` are what TLC is
  started on; they define small keyboard maps, texts, places, readings and record elements. Three
  of them hold two or three machines that share no state (`MouseConn` and `LogFile`; `Gestures`
  and the two halves of `Movement`; `BmouseCalls` and `SdpRecord`). Each machine is explored while
  the others are in an initial state: the state space is the sum of theirs and not the product,
  and since no action of one reads a variable of the other nothing is lost by it.
* `ReportChannel_proofs`, `HidpDaemon_proofs` (lemmas about the daemon that the next two share),
  `HidpSession_proofs`, `MouseConn_proofs` (with those of `LogFile`), `Keyboard_proofs`,
  `Gestures_proofs` (with those of `Movement`), `BecomeMouse_proofs` and `Bmouse_proofs` (those of
  `SdpRecord` and `BmouseCalls`): the theorems.

In each module the definitions introduced by a comment "Fault:" are not part of the
specification. Each is the definition that follows it with one slip a programmer could make
(a dropped guard, a missing reset, a swapped order); put in its place it makes TLC find a
property violated, which shows that the property looks at that code.

Some choices that are not obvious from the code:

* `exit()` runs `close_sk`, but a process ended by `SIGTERM` runs nothing: `global_sighandler` is
  never called. The kernel then closes descriptors in ascending order, which is the order in
  which `main()` obtained them: the FIFO, `cnt_sock`, `int_sock`.
* `StartSession`'s result is not looked at by `SelectBcastType`, so the activity runs with or
  without a session. Its reports then fail in `write()` and are only logged.
* `EndSession` calls `ReleaseAllButtons` after `EndBcast`: those two reports go to a closed
  descriptor. In `HidpSession` they change nothing, in `Gestures` they clear the application's
  buttons and not the host's.
* After a lost connection `peek_hidp_hdr` leaves the header uninitialised; whichever method it
  selects, nothing is received and nothing can be answered, so the model has one outcome.
* `process_multi_bin` keeps its keyboard report on the stack; after a failed `send()` of a
  keyboard packet it returns without clearing it, but a new call starts from a clear one.
* The host takes a connection that is lost to release all keys (`Keyboard`); whether a new
  session finds the host's old buttons is left open (`Gestures`, `StartSession`).
* The seek bar of the mouse screen sets a sensitivity that nobody reads, since the listener has
  one of its own, always 1; `Movement` has no variable for it.
* The wheel follows the finger with index 0, while `oldPos` is the place where the last finger was
  put down, or where the finger was that had index 0 before: its first report after a finger has been
  put down, or after the one with index 0 has been lifted from several, is a jump.
  `HostFollowsFinger` begins to count after it. Where in the order a new finger comes is Android's
  business, and left open.
* `buf_size += f(buf)` with `f` changing `buf_size` is unspecified in C: `SdpRecord` takes both readings
  (`sizeReadLate`).
* A status event with a refusal makes `hci_send_req` fail. A completion with a refusal ends it with 0
  for a write, since the status byte in it is not looked at: `refused` in `BmouseCalls`,
  `SetClassRefused` in `BecomeMouse`.
* `KillServer` catches the exception of `exec()` and `EndSession` goes on: a session may end without a
  `pkill` (`ui = "threw"`). A `pkill` that was started is taken to find its processes: that `su` is
  granted and busybox installed is a matter of the phone.
* An answer to a request of the host may be lost as any report may (the poll loop does not look at
  what `process_sk` returns), so that there is at most one.
* `BecomeMouse` takes it that each call a `bmouse` makes comes to its end: that is in the fairness of
  `TogglingSpec`. A `readLine()` that throws after `exec()` has worked is left out, and so is the toggle's
  state that Android restores when the screen turns, after `onCreate` has asked for the class.
* `LogFile` takes a header of constant length (it has a counter) and no log on standard output,
  which has no limit.
* `SetHandle` is what follows a registration. `bmouse` registers each record once; the model goes on
  with a record that has its handle, as a caller of `sdp.c` might.
* `ExtractAttr` stops where a sequence is cut off, where the loop of `extract_seq` goes round in place.
  No record written as a whole gets there.

## Runs

All bounds are in the `.cfg` files. Deadlock is checked for `gestures` only, whose system can always
go on; the others stop when the bounded numbers of sessions, reports, lines, characters,
attributes, events or mishaps are used up, and their cfgs say `CHECK_DEADLOCK FALSE`.

| Run | Bounds | What it shows |
|---|---|---|
| `sessions` | 2 sessions, 2 reports, pipe of 1, the application may die | with two generations of processes that overlap, and packets of a dead application in the pipe: `DeliveredOnceInOrder`, `ShutdownIsLast`, and refinement of `ReportChannel` |
| `session_liveness` | 1 session, 2 reports of both kinds, pipe of 1, 1 host packet per channel, the application may die | `RefusedOnce`; `ReportsLeaveFifo`, `HostPacketsDroppedAfterSession` |
| `two_session_liveness` | 2 sessions, pipe of 1 | `EndedDaemonsDie`, `OpenReturns`: ended daemons die unless `exec()` of `pkill` has thrown; a late `pkill` may take the next daemon, and the UI thread still only hangs in `open()` when no daemon is left |
| `keyboard` | packets of 3 characters, 4 characters in all, 2 failed sends, 1 packet of `bin_sender` | `TypedInOrder`, `TypedFaithfully`, `PressesOnClear`, `KeysReleased`, `AllButCutTyped` |
| `gestures` | 2 pad buttons, otherwise unbounded; touches of 3 fingers and 5 reports over 6 places; 12 readings, 4 sensitivities | `HostInStep`, `HeldOnlyInGrasp`, `GraspAsShown`, `TouchedIsHeld`; `HostFollowsFinger`, `TiltIsShown` |
| `become_mouse` | 4 handles, 2 processes, 2 mishaps | `Agreement`, `LeakBound`, `OthersSpared`, `PhoneComesBack`, with requests served after they were given up |
| `mouse_conn` | 3 lines, pipe of 3, stdio buffer of 2; log: lines of 8 bytes, a limit of one line, 5 calls of two daemons, 7 of one | `NoLineStranded`, `LinesTaken`, `ShutdownObeyed`, refinement of `ReportChannel`; `LogBounded`, `NewestLinesWhole` |
| `bmouse` | 2 `bmouse`, 2 tries, 3 useless events, 2 faults; records of 3 attributes with lengths around the boundaries | `ClassReadWasInForce`, `WriteTakenForDone`, `ExitStatusTrue`, `RecordsAccountedFor`, `ClassAfterRecord`, `CallsEnd`; `RecordFits`, `RequestFits`, `RecordReadBack` |

Why the bounds suffice: the hazards of the session need two generations of daemons, two
reports (an order), and a pipe that is full: one packet in it, one in `write()`. Of more in the pipe
`mouse_conn` has an instance, and the proofs are for any number. What one daemon does does not
depend on how many came before, since all they share is the FIFO and `pkill`. The keyboard run has
a text that fills a packet exactly and goes on, shifted and plain characters on the same key, a
character with no key and one outside the map, and fails before, between and after the two
reports of a character. The touches have steps that are rounded, steps that are not, and one the
narrowing turns round, on either side of a second and a third finger, which is the least number with
which a wheel goes on when a finger is lifted; the tilts have readings within and
beyond the noise, of both signs, and the seek bar's two ends. `BecomeMouse` needs one mishap to
lose a record and a second one during the recovery; its `MaxRecords` is large enough that the SDP
server never runs out. Three lines are one more than the stdio buffer holds, so that a line can
be in `write()`, in the FIFO and in the stream at once; the host's packets are left to the session
runs, since they are handled before the type of the connection matters. Five calls on the log
make it rewind and start over with the other daemon's position in the middle; seven of one daemon
make it rewind twice. Two `bmouse` are enough to take each other's completion; the code tries ten
times, the run twice, which reaches the last try with fewer useless events. The lengths of the
record's texts are those at which a sequence, the attribute or the whole record passes 255 bytes.

### Disagreements

Four runs end in a violation on purpose; each checks one statement of the repository.

* `close_order`: `close_sk` says "The order matters (see the spec.)", but the `pkill` of
  `EndSession` makes the kernel close the control channel first.
* `host_starved`: `doc/howTo.txt` says the daemon drops packets of the host; while the
  application holds the FIFO open it sits in `read()` and does not look at them.
* `quit_hangs`: `doc/howTo.txt` says that quitting triggers a `pkill` because the daemon may
  hang; if it hangs in `send()` and the pipe is full, the `SHUTDOWN` packet blocks before that.
* `long_text`: the library fills a packet with `MAX_STRING` characters and the daemon puts its
  terminator over the last one. `AllButCutTyped` says exactly what is left.

### Fairness

`SchedulerFairness`: a process that can run does run; the daemon's `connect()` returns, since L2CAP
has a timeout; `send()` on a lost
channel fails. Each is one `WF` per process and one for the UI thread, whose steps
exclude each other, and one for `pkill`. Nothing is assumed of the user, of the host's
own packets, or of the death of the application. `LinkFairness` adds that a send to a connected
host ends; `quit_hangs` is the run without it. In `TogglingSpec` processes run, and the user
keeps launching and toggling (`SF` on the two toggles, because the user may also close the
application in between): that is the hypothesis of `PhoneComesBack` and no claim about the code.
In `MouseConn` the daemon and a writer that is let go on do run, and `fdopen()`, which only needs
memory and is tried in each round of the poll loop, does not fail for ever (`SF`). `BmouseCalls`
has `WF` on the steps of each `bmouse`, its timeouts included, and nothing on the SDP server or the
controller. Its `connect()` to the server is on a Unix socket and has no timeout: a server that hangs
behind a full backlog blocks it for ever, so there is no fairness on `Connect`, and `CallsEnd` begins behind
it. From there on it holds although neither may ever answer.

## Proofs

The proofs assume nothing but the named `ASSUME`s on the constants: positive numbers of
sessions, a pipe that holds at least one packet, places on the screen that are not negative,
sensitivities of the seek bar's range, readings of less than 450 units, at most as many tries
of an HCI command as the code makes, finitely many `bmouse` processes, elements that are linked as
`sdp.c` links them, for attributes other than the browse groups, and values that have the width of their
types: an identifier is a `uint16_t`, a value is in its member of the union, and the length of a text with
one byte of length is a byte (`ReadAssumption`).

* `HidpSession_proofs!TypeCorrect`: `TypeOK` is inductive, from the lemmas of `HidpDaemon_proofs`: what
  each step of the daemon does to the FIFO, whoever writes it.
* `ReportChannel_proofs!Safety`: the abstract channel passes each report on at most once and,
  per consumer, in order. The inductive invariant says that reports get younger on the way back
  from consumer to writer: what was passed on or is held is older than all that is queued, the
  queue ascends, what is offered is the youngest, no two consumers hold the same report, and
  what a consumer holds is younger than all it has passed on.
* `HidpSession_proofs!Refinement`: `Spec => ImplementsChannel`. The refinement mapping takes the
  report in `write()`, the marks of the FIFO's packets, the report of each daemon in `send()`, and
  the daemons that will read no more. The invariant it needs beside the types (`ReportIds`) is
  that a report never has the identity of a stop mark and that a daemon in `send()` has a report.
  A consumer that stops may lose what lies at the head of the queue: `MouseConn` needs this for
  its buffer. `OnceInOrder` (`DeliveredOnceInOrder`) follows by instantiating `Safety`.
* `HidpSession_proofs!ShutdownLast`: `ShutdownIsLast` is not inductive, since it says nothing of
  packets not yet written. `ShutInv` adds that what follows a `SHUTDOWN` in the FIFO is of a later
  session, that no packet is of a session yet to come, and that while a session goes on no
  `SHUTDOWN` of it is in the FIFO or has been read; dying ends a session as `EndSession` does.
* `HidpSession_proofs!AnsweredOnce`: `RefusedOnce`. On each channel the answers and the requests
  still queued are no more than the requests made (`AnsweredInv`); an answer takes one off the queue, and
  the lemmas count the requests in a sequence.
* `MouseConn_proofs!Refinement`: `Spec => ImplementsChannel`, the same abstract channel for the
  connection type `mouse`. The queue of the channel is now what the stream has taken in advance
  followed by what is in the FIFO. `getline()` moves lines from the one to the other, which the
  channel does not see; a failed send, a death and the close of the last reader lose lines, all
  of which must be losses the channel allows. `IInv` adds that lines are numbered from 1 on
  (`LineIds`) and that a daemon with lines in its stream still has the FIFO open (`Holds`): what the
  FIFO drops when it has no reader is then all that there is.
* `MouseConn_proofs!LinesSent`: `NoLineStranded`: lines stay in the stream only behind a report whose send
  has failed. Whether the link is up does not matter, so the state does not tell that a send has
  failed; that its report never reached the host does. The step that sends needs to know that the
  report in `send()` is not there already (`Unsent`): that the channel passes nothing on twice, which
  comes from `Safety` through the refinement.
* `MouseConn_proofs!LogSize`: `LogBounded`, for any number of daemons; it needs the same bound for each
  daemon's position (`InBounds`), since a daemon may write behind the end of a file that another one
  has truncated.
* `MouseConn_proofs!NewestKept`: `NewestLinesWhole`. The strengthening (`NewestInPlace`) says where the line
  is: it begins as many bytes before the daemon's position as were written from it on, or, once the
  file has started over, at least a whole limit further up; the next line, which is written at the
  position, then cannot reach a line that still counts. The file has no byte of a call to come (`Dated`).
* `Gestures_proofs`: `TypesKept`, `InStep`, `GraspKept`, `NothingSticks`, `TouchesHeld`, `ClosedReleased`.
  `TypeOK` and `ReleasedWhenClosed` of `Gestures` are parts of its inductive invariant that no run repeats.
  The strengthening says when a session can begin: only where no finger is down and nothing is
  announced.
  For the movements, `FingerFollowed` and `TiltShown`: Each report is wrong by less than a unit, and
  compares with the place the one before has told; with more than one finger that place is `oldPos`
  once a first report was made, however many fingers come and go behind it, and the errors add up to the number of reports. What the axis
  shows depends on older readings only through `mLast`, which is within half a unit of the last
  one, so that two equal readings leave no change to report.
* `Keyboard_proofs`: `TypesOK`, `Faithful`, `OnClear`, `Released` and `InTextOrder`. The strengthening fixes the
  daemon's report at each place of its loop: clear when it reads or presses, exactly one key and
  its modifiers when it releases. For the order (`OrderInv`), identities
  get smaller on the way from the application to the host: what was typed is below the rest of the
  packet in hand, that below what is in the FIFO, packet by packet, and that below the characters
  not written yet. `AllAccounted` (`AllButCutTyped`) needs to know what becomes of each character:
  while nothing fails, one that should come out is typed or still on its way (`AccountInv`). That
  the characters lost are those at multiples of `MAX_STRING` follows from where fragments begin:
  what is left of a text after a full packet begins right behind a multiple.
* `Bmouse_proofs!RecordNeverOverflows`: `RecordFits`, for records of any attributes, nested to any
  depth, and for either reading of `buf_size += f(buf)`. `sdp_gen_buffer` and
  `sdp_gen_pdu` are compared node by node: a set that has each position whose predecessors it
  has, has them all (`PositionInduction`), and with it recursive functions exist
  (`FunctionOverPositions`), the size counted for a list exceeds what is written for it by three bytes
  per element (`CountsBound`), and what is written has the size that is reported (`PduSizes`), since
  a sequence generated again behind a longer head would not change any more (`Settled`). So nothing
  of an attribute is left out (`AttrPduWhole`). The inductive invariant (`RecordInvariant`) adds these sizes
  up over the attributes (`Totals`). It would not suffice: the head of the whole record, two or three
  bytes, is not counted by anyone. What saves it is that every record has the browse groups, which are a
  sequence with a part, counted three bytes too high inside as well (`BrowseGroupsCounted`, `Room`); a record
  with no sequence in it would overflow its buffer.
* `Bmouse_proofs!RecordReadsBack`: `RecordReadBack`, whenever two bytes can tell the length of the record
  (`Short`); `RequestFits` asks for far less. The writer goes over nodes and the reader over bytes, so the
  proof needs something that both have: bytes that occur at a position (`Occurs`). A number that fits its width
  is read as it was written (`NumberUndoes`). The bytes of a node are its head, what it holds and
  what comes after it (`NodeIsWritten`), and where they occur the reader gets what the node holds if it
  gets what its parts hold (`NodeReads`), which holds for all positions (`NodesRead`), for elements and for
  attributes (`ElementReads`, `AttrReads`). `sdp_append_to_buf` may write a longer head and move all that is there:
  whatever occurred behind the old head occurs behind the new one, and the head tells the length of
  the rest (`AppendKeeps`). The inductive invariant (`RecordIsWritten`) says that each attribute that has been
  written, with its heads as long as they have become, occurs behind what those before it take; the
  reader, behind as many of them, finds those that are left and nothing where the head says that the
  record ends (`ExtractReads`); put in one after the other they make the record, because identifiers
  ascend in it (`InOrder`, `ReplaceAppends`, `BuiltInOrder`).
* `Bmouse_proofs` on the calls: `ReadTrue` (`ClassReadWasInForce`), `WritesTrue` (`WriteTakenForDone`), `ExitTrue`
  (`ExitStatusTrue`), `RecordsKnown` (`RecordsAccountedFor`) and the action property
  `ClassFollowsRecord` (`ClassAfterRecord`). What a process may rely on at its end
  rests on what is still on its way: it has at most one request at the SDP server, and none once it
  has an answer (`Requests`, `Answers`); each record was given to some process (`Owned`); an event in
  a socket was made after the filter was set, by a command that was in force since, and a
  write on its way to the controller comes from a process that had the SDP server's answer first
  (`Events`), however long ago that process has given up. That
  handles do not run out is a matter of counting: each process has been given at most one.
* `BecomeMouse_proofs`: `TypeCorrect`, `Agrees`, `Spared`, `LeaksBounded`. Without a mishap one `bmouse`
  runs at a time and the state follows from how far it has come (`Orderly`). `LeakBound` is far from
  inductive: a `bmouse` whose application has died will still add a record, one given up may be
  served much later, and one that sets the class behind the application's back lets the next
  launch show "off" and the next toggle register again. `Accounted` therefore gives each of these,
  and each record but the one in use, a mishap of its own; each step then moves a debt from one
  account to another or is paid for by the mishap it counts.

Every safety property and refinement that a passing run checks is proved, but for one of `SdpRecord`. Only
model-checked are:

* what needs fairness (`EndedDaemonsDie`, `OpenReturns`, `ReportsLeaveFifo`,
  `HostPacketsDroppedAfterSession`, `PhoneComesBack`, `LinesTaken`, `ShutdownObeyed`, `CallsEnd`),
  which is out of the prover's reach as `ENABLED` is;
* `RequestFits`: it is about the sizes of the records that `bmouse` builds, which TLC computes; nothing
  bounds a record in general.

## Not modelled

* The connection type `multi-char`, which is compiled out, and `process_mouse`, which is empty.
* The record builders of the daemon, which it does not call: their work is done by `bmouse`.
* `DeviceSelection`, `JoystickSelection`, the seek bar of the mouse screen and menus: they only start
  activities, lay out views or set what nobody reads. `BcastGestures`, `GestureListener` and
  `KbdListener` are not in use.
* The text of log messages and `vsprintf`; the names and descriptions in a record.
* BlueZ (vendored): its functions that none of the programs here calls (searches, inquiries,
  connections, link keys, conversions to text) and the headers. The sources hold `sdp.c` and `hci.c`
  in seven copies, most of them not even built, with their headers, and the earlier versions under
  `src/tmp`: together over nine tenths of the lines of C in the repository. That is why the share
  of all lines that the models cover stays low; modelling a copy twice, or code that never runs,
  would say nothing about the system.
* Which file a closed descriptor's number stands for later; processor time (the poll loop spins on
  `POLLHUP`).

## Plan

Done: the session core (`Fifo`, `HidpDaemon`, `HidpSession`) and its abstract specification, the
keyboard, the gestures and become-a-mouse; then the connection type `mouse` as a second
implementation of the same channel, the log, the movements, the calls and records of `bmouse`,
requests that are served late, and the theorems above.

Left, in this order:

1. A composition of `Gestures` with a lossy channel: which buttons the host may still hold when
   reports are lost, and when the next report repairs it.
2. `BmouseCalls` shown to implement the steps that `BecomeMouse` takes for one.
