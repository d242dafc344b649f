# BSD-GDF in TLA+

A verification development for BSD-GDF, a C++98 library for small kqueue
servers: TLA+ modules of its components, TLC configurations that check them on
small instances, and theorems about them that TLAPS proves for every value of
the constants. Paths below are relative to `src/`.

1. [The system](#1-the-system) ·
2. [Modules](#2-modules) ·
3. [Network](#3-network) ·
4. [KernelQueue](#4-kernelqueue) ·
5. [EventServer](#5-eventserver) ·
6. [GlobalLogger](#6-globallogger) ·
7. [The display](#7-the-display) ·
8. [Runs](#8-runs) ·
9. [Proofs](#9-proofs) ·
10. [Where the code and its documents differ](#10-where-the-code-and-its-documents-differ) ·
11. [Not modelled](#11-not-modelled) ·
12. [Plan](#12-plan)

## 1. The system

The library has no `main` and no tests. Its public interface is documented in
the headers under `include/BSD-GDF/` (in Korean); the implementation is under
`src/BSD-GDF/`. The Makefiles build one dynamic library per component, for macOS
on arm64 and x86-64, without optimisation.

| Component | State it keeps | Operations | What makes it correct |
|---|---|---|---|
| **Network** (`Network/Network.cpp`) | `mServerSocket`; `mSessions`, a map from socket number to `Session` (address, receive buffer, send buffer with index and "remain" flag, reserved disconnection) | `Init`, destructor, `ConnectNewClient`, `DisconnectClient`, `ReserveDisconnectClient`, `RecvFromClient`, `PullFromRecvBuffer`, `ClearRecvBuffer`, `PushToSendBuffer`, `ClearSendBuffer`, `SendToClient` | each session is on the live socket of its own client although numbers are reused; no byte is lost, repeated or given to another client over partial sends and pieces; the send window stays in its buffer; a reserved disconnection happens, and after all was sent |
| **KernelQueue, KernelEvent** (`Event/*.cpp`) | the kqueue, an array of events, its count and the cursor of `Poll` | `Init`, destructor, `SetTimeout`, `AddReadEvent`, `AddWriteEvent`, `Poll`; `IdentifySocket`, `IdentifyFD`, `IsReadType`, `IsWriteType` | `Poll` never reads outside the array; it hands out each reported event once and in order; no event starves |
| **Event loop** | the application's, written against the two classes above | poll, accept, register, receive, send | the event that is handled is about the connection that has the socket |
| **GlobalLogger** (`Logger/GlobalLogger.cpp`) | target (a string pointer, a descriptor and a flag that says which), level, one mutex | `LOG(level) << ...`, both `SetTarget`, `SetLevel` | each record ends up once, where it was told to go; the mutex is released |
| **DisplayBuffer** (`Display/DisplayBuffer.cpp`) | a deque of lines, its capacity, header, footer | `PushContent`, `Clear`, setters | the latest lines, in order |
| **DisplayConsole** (`Display/DisplayConsole.cpp`) | what the screen is to show, the rendered frame and how much of it is written, the prompt line and the queue of finished lines; for all consoles together, their count and the terminal mode found by the first | constructor, destructor, `Refresh`, `PushCharPrompt`, `PollPromptQueue`, setters | the terminal shows one frame, never parts of two, and in the end the current one, each row where it belongs; lines come out as typed; the terminal mode is put back |
| **Assert** (`Assert/AssertStream.cpp`) | none | prints and aborts | – |

How they interact. The classes do not call each other, except that
`DisplayConsole` owns a `DisplayBuffer`. An application ties `KernelQueue` and
`Network` together: it watches the server socket, calls `ConnectNewClient` when
it is readable, registers the new socket for reading and writing, and calls
`RecvFromClient` and `SendToClient` as events come out of `Poll`. All of that is
one thread. `GlobalLogger` is the only component used by several threads.

What is hard. There is no concurrency inside `Network` or `KernelQueue`, but
the kernel and the clients move between any two calls: sockets fill and drain,
clients leave, numbers are closed and given out again, and an event in a batch
may be old by the time it is handled. `send` and `write` take a part, or nothing.
A session is reached through `std::map::operator[]`, which *makes* the session it
does not find. Both buffers are measured with `strlen`. The logger's setters
store two fields without the mutex that guards their reader. The layout of a frame
counts bytes, characters and columns, each somewhere. `PROJECT.json` lists
each of these at its line ("hazards") with the properties that would catch it
going wrong.

## 2. Modules

| Module | Models | Uses |
|---|---|---|
| `ByteChannel` | what the class promises for each client (abstract) | – |
| `Network` | the class, the kernel's descriptor table, sockets and backlog, the clients, a sequential application | instantiates `ByteChannel`, which it implements |
| `NetworkProofs` | theorems: types, ownership, integrity | `Network` |
| `NetworkUseProofs` | theorems: careful applications, `ByteChannel` | `NetworkProofs` |
| `EventFeed` | what `Poll` promises its caller (abstract) | – |
| `KernelQueue` | both event classes, the kqueue, descriptors | instantiates `EventFeed`, which it implements |
| `KernelQueueProofs` | theorems | `KernelQueue` |
| `EventServer` | the event loop | extends `Network`, instantiates `KernelQueue` |
| `EventServerProofs` | theorems | `EventServer`, `NetworkUseProofs` |
| `LogJournal` | what a LOG promises the threads that log (abstract) | – |
| `GlobalLogger` | the logger and its threads, by single loads and stores | instantiates `LogJournal`, which it implements |
| `GlobalLoggerProofs` | theorems | `GlobalLogger` |
| `DisplayBuffer` | the lines | – |
| `DisplayBufferProofs` | theorem | `DisplayBuffer` |
| `TerminalMode` | what consoles share: their count, the mode saved and put back | – |
| `DisplayConsole` | one console among others, the terminal, the user | extends `TerminalMode`, instantiates `DisplayBuffer` |
| `DisplayConsoleProofs` | theorems | `DisplayConsole` |
| `ConsoleLayout` | a frame byte by byte, and what a terminal makes of it | extends `DisplayBuffer` |
| `ConsoleLayoutProofs` | theorems | `ConsoleLayout` |
| `MC*` | model values, symmetry, texts and sizes for TLC | the module of that name |

Names of the code (`mSessions`, `sendBufferIndex`, `PushToSendBuffer`) keep their
spelling; variables and actions with other names belong to the kernel, to the
application or to the history. The comment at each variable says which.
Operators introduced as *defects* (`Remove_NoErase`, `Fetched_TooEarly`, ...) are
not part of any specification: each is a plausible mistake in the definition that
follows it, and substituting it makes a named property fail. That shows that the
property depends on the code it is about ("mutants" in `PROJECT.json`).

## 3. Network

One call is one action, since one thread uses the object. Each action takes the
whole handler: `RecvFromClient` is the disjunction of the early return for a
reserved session, the successful `recv`, and the failure that closes the socket,
erases the session and returns FAILURE. `SendToClient` is the disjunction of its
idle return, the reserved disconnection, a `send` of everything or a part, and the
failure. Every call goes through `At(s)`, which is `EmptySession` where
`mSessions` has no entry, and most store it back: the insertion of `operator[]`.

*Kernel.* `owner` says whom each descriptor number belongs to (nobody, the
server, other code, or a connection); `accept` may hand out any free number, and
`close` closes whatever has the number now. `link`, `peer`, `inbound`, `queued`
are the connection, what is known of the client's end, what `recv` has not taken,
and how many bytes sit in the kernel's send buffer. `send` takes what fits, up to
`SendRoom`. Sockets do not block, so an empty or full one is the error return.

*Application.* It calls on sockets it believes to have (`believed`): it learns of
a new one from `ConnectNewClient` and of a lost one from FAILURE or its own
`DisconnectClient` – and not from `SendToClient` carrying out a reservation,
which returns SUCCESS. Two constants describe how careful it is. `CheckSession`:
it calls only where a session exists (it asks `GetSession` or keeps track).
`AwaitReady`: it calls `recv` and `send` only on sockets that are ready.

*History.* `pushed`, `sent`, `peerSent`, `taken` hold, per connection, the bytes
that were pushed and not withdrawn, taken by `send`, sent by the client, and taken
out of the receive buffer. `ended` says how a connection left its session.

*Init again.* `Next` calls `Init` once, and again after a failure. `AgainSpec` adds
`InitServer_Again`, `Init` on a server that listens: `mServerSocket` is overwritten,
the old socket listens on, and the clients in its backlog are `"stranded"`.

*Data.* A byte is a model value. `Nul` is the zero byte; it travels only if it is
in `Bytes`. `StrLen` and `CStr` are `strlen` and construction from a C string.

Properties: `SessionsOwnTheirSockets`, `NoOrphanSocket`, `SendWindowInBuffer`,
`SendIntegrity`, `RecvIntegrity`, `ImplementsChannel` and, stated here and checked
with the event loop, `LostOnlyAfterClientLeft`, `ReservedSendsAll`, `ReservedCloses`.

`ByteChannel` is the promise without numbers, sessions and buffers: for each client
two streams, each of which is handed on in order and from its beginning, a
withdrawal (`ClearSendBuffer`) that takes back what has not gone out, and one end,
after which nothing happens. An end by "farewell", a reserved disconnection, comes
only when everything pushed has gone out. `ImplementsChannel` says that whatever
becomes of descriptor numbers and sessions, each client sees such a channel. The
history variables of `Network` are its refinement mapping.

## 4. KernelQueue

`Poll` is three actions: the scan fails (interrupted, or there is no kqueue), the
scan returns up to `MAX_KEVENT_SIZE` active events (none on a timeout) and rewinds
the cursor, or the next event of the batch is handed out. Level-triggered events
are kept in `active`, first come first; a scan takes from the front and puts what
it took back at the end, which is what a kqueue does. Closing a descriptor removes
its events from the kqueue but not from a batch already fetched. The history
variable `reported` holds the events `kevent` returned and `Poll` has not handed
out: `WindowIsReported` compares it with the window between cursor and count.
A zeroed list entry (`Zeroed`) identifies no descriptor of `Fds`: 0 is the standard
input, which is not among them.

`SetTimeout` turns milliseconds into a `timespec` with the division and remainder of
C: the remainder has the sign of the dividend, so a negative number gives a negative
time, which `kevent` refuses (`IsTime`). Every scan then fails. How long a scan that
may succeed waits is left open.

`EventFeed` is the same without array, count and cursor: `pending`, the rest of the
batch, is taken over whole when it is used up and handed out from the front.
`ImplementsFeed` says that the window between cursor and count is such a `pending`.

`AgainSpec` adds `InitQueue_Again`, `Init` on a queue that works; it replaces the list
under the cursor.

Fairness (`FairSpec`): the caller goes on polling, and not every scan is
interrupted. `NoStarvation` then says that an event that stays active is handed
out infinitely often although more events are active than the list has slots –
unless the timeout is negative from some time on (`NoStarvationEver`, without this
premise, fails).

## 5. EventServer

The loop is not in the repository. It is modelled as the interface asks for it,
and is external in the map. It comes in two variants: `DeferAccept = TRUE` accepts
clients only when the batch is used up, `FALSE` as soon as the server socket's
event comes. `EventServer` extends `Network` (its kernel, clients and actions) and
takes the array, the cursor and the identification of events from `KernelQueue`;
what is active is computed from the sockets themselves, and a batch is *any*
sequence of active events as long as the list allows, because sockets become ready
in any order. `origin` and `about` remember whose socket an event was reported
for. A scan may fail (`PollFails`), and so may the registration of a new client, for
both events or for the second (`Successes`): the application that is told FAILURE
disconnects the client (`Refuse`), of which it would not hear again. The loop does not
look at what `Poll` returned; it calls `Poll` again.

The point of the module is staleness: between a report and its handling, an
earlier event of the same batch may close the socket and a new client may get the
number. `server_deferred` shows that accepting between batches rules this out: no
live client is dropped (`LostOnlyAfterClientLeft`, which `server_serve` checks with
sockets that fill up, too), an event that identifies a socket
is about its present owner (`EventIsAboutSocket`), sockets are ready when handled
(`ReadyWhenHandled`), and reservations lose nothing (`ReservedSendsAll`).
`server_stale` shows that accepting at once does not, and
`MCEventServer_eager.cfg` that a stale event is then the *only* way to lose a live
client.

Fairness (`FairServerSpec`): weak fairness of scans that succeed, of handing out,
accepting, refusing and handling – a `while` loop in one thread – and of each client
reading its data. Two of these are assumptions: that `kevent` does not fail for ever,
and that clients read, without which no reserved disconnection need happen.

## 6. GlobalLogger

Threads log and set targets at the same time, so every load or store another
thread may see is an action: the level check (before the mutex), the lock, the
read of the flag, the append as a read and a write of the string, the read of the
descriptor (`ReadsPlace`) and the `write` that may fail (`Writes`), the unlock; and in `SetTarget` the store of the place and that of the flag, made
without the mutex. `InOrder = TRUE` says that the two stores are seen in program
order, which x86-64 gives and arm64, the library's other target, does not. With
`InOrder = FALSE` (`MCGlobalLogger_reordered.cfg`) `NeverThroughNull` fails: the
flag may be seen before the first pointer. What `logger_records` shows is
therefore shown for x86-64 only; on arm64 a `SetTarget` that runs beside a LOG
needs the mutex for this reason too.

`SetTarget(0)` first writes a warning to descriptor 1 (`Warns`), which may fail like
any `write`; the line stands among the records there. `MaxWarnings` bounds how many.

The strings that serve as targets belong to the application. With `StringsDie` it
destroys a string once `SetTarget` has returned with another target and nobody
asks for the string any more. An append that then still happens "goes wild": the
thread stops there, in possession of the mutex.

`EveryRecordOnce` speaks of the records that passed the level and that no
`write` refused (the code ignores the result of `write`, so refused records are
lost by design). `RecordsGoWhereTold` is about the two looks of a LOG, at the flag and
then at the place: where the record goes was set, or was being set, at some moment
between the two (`seen`). `LogJournal` knows no mutex and no buffer: a LOG begins, its record is added behind
all others in one step or refused, and it ends; lines that are no records
(`AddOther`, the warning) may come between. That the logger implements it
(`ImplementsJournal`) says that LOG is atomic, and that no record disturbs another,
though an append reads the string in one step and writes it in another. A thread owes
its record from the level check until it is written; one whose append goes wild owes
it for ever. Fairness: a thread inside `Log` or `SetTarget` goes on running. Weak fairness
suffices because each thread logs a bounded number of times, so the mutex is not
contended for ever.

## 7. The display

`DisplayBuffer` is the deque and its capacity. `KeepsTheLatest` says that it holds
the latest lines without a gap and, as long as the capacity was not lower, all of
them. Assignment (`Assign`) brings the lines and the capacity of another buffer, which
may hold more than its capacity.

**Life and mode.** `TerminalMode` is the static part: `Construct` counts the object
and, if it is the first, saves the mode of the terminal and switches line mode and
echo off; `Destroy` puts the saved mode back if the count comes to zero, modulo 2^64.
Other programs change the mode while no console lives. `ModeFollowsConsoles` relates
the mode to the consoles that exist. It holds if none is copied: the compiler's copy
constructor counts nothing, but the copy's destructor does (`Copying = TRUE` in
`MCDisplayConsole_copied.cfg`). `DisplayConsole` is one console, `Self`; others are made
and destroyed beside it (`Elsewhere`) and are taken to write nothing. It begins and ends
(`Make`, `End`) and may be made anew; characters that are typed and not read when it is
destroyed are left to others. In a mode with echo, what is typed appears on the
screen, so that the screen depends on the mode.

**Frames.** In `DisplayConsole` a frame is a sequence of rows, of which the first
clears the screen; what a row contains is a tuple of all it depends on (the line, the
look, the width), so two frames are equal exactly when nothing that they depend on
differs. The colours, timestamp switch, header and footer are `look`. The terminal takes
`room` rows at a time: `Refresh` writes all, a part, or fails. The window's size
is measured twice by a `Refresh` that renders (`found`, then `size`); if standard
output is no terminal (`IsTty = FALSE`) `ioctl` fills in nothing and each
measurement is any size, as an uninitialised variable is. So is the initial
`mConsoleSize`.

`NoTornFrame`: the terminal shows a prefix of one frame whatever mix of partial and
failed writes, changes and sizes there was. `FrameIsCurrent`: no change is
forgotten but those the application itself discards with
`SetIsScreenUpdated(false)`. `ScreenSettles`: if from some time on only refreshing
and draining happen, the screen ends up complete and current. Fairness: the
application refreshes and reads what is typed again and again, and the terminal
goes on taking rows.

**Prompt.** `PushCharPrompt` after Escape reads two more characters itself; until they
are typed the one thread is blocked (`skipping > 0`) and no other call can be made.
`LinesAreWhatWasTyped`: the polled, queued and edited lines are those the user meant.

**Layout.** `ConsoleLayout` opens up the rows. A string is a sequence of bytes, a byte
the value of a signed `char` (as on both targets), an escape sequence one symbol.
`strlenMultiByte`, `Copied` (the copying loop of `appendContent`), `Bar` (the header and
the footer), `appendContent` and `appendPrompt` compute the bytes of a frame, `Written`
what `strlen` leaves of it. `Draw` is a terminal: it splits the bytes into characters
(`Characters`), puts those of one or two columns into rows, wraps, scrolls, moves its
cursor and clears; `Picture` is what it shows in the end. `ScreenShowsTheDisplay`
compares its rows with `MeantRow`, which is stated in characters and columns and does
not use the code's operators. `ReadsInside` says that the scan of `strlenMultiByte`
ends on the terminating zero byte, not past it. Where the copying loop would go on
behind a string, `Copied` goes on too and finds zeros; the real bytes there are unknown,
and `ReadsInside` says that no line takes it so far. A character typed at the prompt
arrives whole between two frames; `DisplayConsole` has the single characters.

## 8. Runs

| Run | Instance | Shows |
|---|---|---|
| `network_send` | 3 descriptors, 2 connections, messages of 0, 1 and 2 bytes, 3 bytes pushed per connection, room for 2 | `TypeOK`, `SendWindowInBuffer`, `SessionsOwnTheirSockets`, `NoOrphanSocket`, `SendIntegrity`, `ImplementsChannel` for an application with `CheckSession` |
| `network_receive` | 2 descriptors, 2 connections, 2 bytes each, pieces of 1, end string of 2 | `RecvIntegrity`, `ImplementsChannel`, even for an application without `CheckSession` |
| `network_phantom` | as `network_send`, without `CheckSession` | **violates** `SessionsAreConnected` |
| `queue_batch` | 2 descriptors (4 events), 2 slots, timeouts of 5 and -1 ms | `CursorInBatch`, `WindowIsReported`, `NoStarvation`, `ImplementsFeed` |
| `server_deferred` | 3 descriptors, 2 connections, 2 slots, 1 byte each way | `LostOnlyAfterClientLeft`, `EventIsAboutSocket`, `ReadyWhenHandled`, `ReservedSendsAll` |
| `server_serve` | 2 descriptors, 1 connection, 3 slots, 2 bytes each way, room for 1 | `ReservedCloses`, `EverythingIsRead`, `BacklogIsServed` under fairness; `LostOnlyAfterClientLeft` with a send socket that fills up |
| `server_stale` | 3 descriptors, 2 connections, 3 slots, eager accepting | **violates** `EventIsAboutSocket` |
| `logger_records` | 2 logging threads, 1 setting, 2 strings, 2 descriptors (one of them 0, with 1 warning), 2 levels | `EveryRecordOnce`, `NeverThroughNull`, `RecordsGoWhereTold`, `LogReturns`, `ImplementsJournal` |
| `logger_dangling` | 2 logging threads with 2 records each, 1 string that may be destroyed | **violates** `NoWildAppend` |
| `console_layout` | 4 sizes about the smallest that is shown (18 columns, 4 rows for the code's 8), bars that just fit and are cut, 3 lines that fit or not with and without timestamp, characters of 1 and 3 bytes, prompts up to 8 bytes; capacities 0 and 2, assignment from an overfull buffer | `ScreenShowsTheDisplay`, `ReadsInside`, `KeepsTheLatest` |
| `console_screen` | `Self` and another console, 2 terminal modes, 2 sizes (one too small), 2 values of a field, capacity 2, a terminal that takes 2 rows, unmeasurable sizes | `NoTornFrame`, `FrameIsCurrent`, `ModeFollowsConsoles` |
| `console_prompt` | letter, Enter, EOT, Delete, arrow; 3 keys; 2 sizes | `LinesAreWhatWasTyped`, `ScreenSettles` |

Why the bounds are enough for what is looked for. Two connections on three
descriptors (one is the server's) let a number be closed and go to the other
client while a session, a belief or an event still refers to the first. Three bytes
into room for two make a send partial twice and a push fall between. Pieces of one
byte cut every end string. Two slots for four events make the list overflow; three
slots for three watched events in `server_serve` make every batch whole, which
the liveness needs because a batch is any choice of the active events (the order
in which a kqueue serves them is the subject of `queue_batch`). Two loggers and
one setter are the smallest set with a race between appends and one between an
append and a setter; two strings and two descriptors allow each change of target, and descriptor 0, asked
for once with a warning that is written, may be asked for again with one that is not.
In `server_deferred` one byte fills no socket that still has something to send; the full
socket is in `server_serve`, where the second byte waits for the client to read the first.
A frame of four or five rows against a terminal that takes two is always partial.
Two consoles are the first, the last and the one between. A negative timeout above
-1000 ms is the case where the seconds are zero and only the remainder is negative.
The lines of `console_layout` have a width on each side of what is left of 18 and 20
columns with and without the ten of the timestamp. The smallest width is the code's 18;
the smallest height is four rows instead of eight, so that the boundary at which the
oldest line no longer fits beside the two bars and the prompt is met with two lines.
`CountLimit` stands for 2^64;
all that matters is that it exceeds the number of consoles.
Symmetry is used for descriptors and connections, and for threads and strings, in
runs without liveness only.

Further configurations, outside the regular runs:

| Configuration | Outcome |
|---|---|
| `MCEventServer_eager` | passes: `LossIsForAnOldEvent` |
| `MCNetwork_full` | violates `ReservedSendsAll` (section 10) |
| `MCNetwork_zerobyte_send`, `_zerobyte_recv` | violate `ReservedSendsAll`, `RecvIntegrity` |
| `MCNetwork_retry` | violates `ServerSocketIsOurs` |
| `MCNetwork_again` | violates `NoOrphanServer` with `Init` on a server that listens |
| `MCKernelQueue_pollfalse` | violates `FalseMeansNoEvent` |
| `MCKernelQueue_again` | violates `CursorInBatch` with `Init` on a queue that works |
| `MCKernelQueue_negative` | violates `NoStarvationEver` |
| `MCGlobalLogger_two_setters` | violates `RecordsGoWhereTold` |
| `MCGlobalLogger_reordered` | violates `NeverThroughNull` with stores seen out of order |
| `MCDisplayConsole_escape`, `_failed` | violate `LinesAreWhatWasTyped`, `FailedIsCurrent` |
| `MCDisplayConsole_copied` | violates `ModeFollowsConsoles` |
| `MCConsoleLayout_capacity` | violates `WithinCapacity` |
| `MCConsoleLayout_twobytes`, `_erase` | violate `ReadsInside`: a character of two bytes, one of three of which Delete took a byte |
| `MCConsoleLayout_syllables`, `_bar`, `_zerobyte`, `_linebreak` | violate `ScreenShowsTheDisplay`: characters of two columns, a header cut inside a character, a zero byte and a line break in a line |

## 9. Proofs

All theorems hold for every value of the constants that satisfies the named
assumption of the module (`NetworkAssumption`, `KernelQueueAssumption`, `EventServerAssumption`,
`GlobalLoggerAssumption`, `TerminalModeAssumption`, `DisplayConsoleAssumption`,
`DisplayBufferAssumption`, `ConsoleLayoutAssumption`: types of the constants,
distinctness of the model values and of the characters with a meaning of their own,
non-empty buffers, finite sets of threads and of consoles, fewer consoles than the
counter can count, and a smallest window of more than 3 rows and 12 columns, where the
code has 8 and 18). TLC evaluates each of them in a run. A further premise stands in the statement of the theorem.

**`NetworkProofs`.**

- `TypeCorrect`: `Spec => []TypeOK`. The work is in `SessionUpdates` (what the
  code assigns to a session is a session) and in the sequence lemmas `Cuts`,
  `StrLenInBuffer`, `CStrType`: `strlen` never exceeds the buffer, and what is cut
  off at an index inside it is what one expects.
- `SendWindowCorrect`: for every application, careless ones included, and with
  zero bytes. `WindowOK` of one session is preserved by each update
  (`WindowUpdates`, `WindowTransmitted`); the third conjunct (the window is not
  empty once part has gone) is what makes the comparison `sendLen = remainLen` in
  `SendToClient` sufficient.
- `NoOrphanSocketCorrect`: for every application, by `Sockets`. It says what is left of the
  ownership when the application calls on sockets whose session has gone: every
  connected socket is the only one of its connection (or `accept` could make a second session for
  it) and has a session with its address; an entry for any other number (a phantom) has an empty
  receive buffer; there are sessions only while the object listens (or destroying it could
  close a client's socket); and before that nobody knows of a socket, so no call is made.
  `CallStoresOrRemoves` says that a call either writes back a session with the address it found
  or removes it together with its socket; the rest of the argument does not look into the calls.
- `SessionsOwnTheirSocketsCorrect`: under `CheckSession` (`network_phantom`). `Ownership` adds to
  `Sockets` that a listening object owns its server socket, which is no client's: no call closes it.
- `SendIntegrityCorrect`: under `CheckSession` and `Nul \notin Bytes`, both needed
  (`network_phantom`, `MCNetwork_zerobyte_send`). The invariant `Sending` adds that
  nothing was pushed or sent for a connection that has not been accepted yet. The
  lemmas `UnsentPushed`, `UnsentTransmitted`, `UnsentKept` say what each update
  does to the unsent part; `CutJoins` and `Regroup` are the sequence algebra.
- `RecvIntegrityCorrect`: for every application, without zero bytes. The invariant
  `Receiving` adds that nothing was taken from a connection not accepted yet. That a
  phantom holds nothing (`Sockets`, `PhantomCall`) is why a client whose socket had one
  begins with an empty receive buffer, though `ConnectNewClient` does not empty it. The same
  is not true of the send buffer, so the theorem above needs `CheckSession`.

**`NetworkUseProofs`.** The steps of `Network` are split into those that receive, those
that send and the rest (`StepKinds`).

- `LostOnlyAfterClientLeftCorrect`: under `AwaitReady` alone. A `recv` on a readable
  socket fails only if the client has left, a `send` on a writable one likewise; no
  other step ends a connection as "lost".
- `ReservedSendsAllCorrect`: under `AwaitReady`, `CheckSession` and without zero bytes.
  `SendToClient` decides by `sendBufferRemain` alone, so the invariant `DoneIsEmpty` (a
  session without the mark has an empty buffer) is what makes a farewell complete;
  `Sending` then says that an empty buffer means that all was sent.
- `ChannelImplemented`: under `CheckSession` and without zero bytes, without
  `AwaitReady`. `ChannelInv` is `SendingInv`, `Receiving` and `EndedIsClosed` (a
  connection that has ended is closed, so nothing is pushed or taken for it later).
  `ComesFirst` turns the integrity invariants, which speak of concatenations, into
  prefixes, which is what `ByteChannel` speaks of.

**`EventServerProofs`.** All under `CheckSession`. The loop does not ask whether a socket is
ready (`AwaitReady` is not assumed); it follows from `BatchInv`, which holds whenever the
loop accepts its clients: an event of the batch that is waiting, and the one being
handled, is about a connection that has gone or that is still ready (`IsTimely`), and no
event occurs twice. Handling one event can only make another untrue by closing its
descriptor or by reading or writing it, and the latter is what the absence of
duplicates excludes. `NoneReplaced` says more: the connection an event is about is the
one that has its descriptor, or nobody has it. A new client breaks that, unless it
comes only when nothing is waiting, which is where `DeferAccept` is needed
(`DeferredInv`).

- `EventIsAboutSocketCorrect`, `ReadyWhenHandledCorrect`, under `DeferAccept`, follow from
  `DeferredInv`.
- `LossIsForAnOldEventCorrect`, for every loop: a call on the connection its event is about is on
  a ready socket and cannot lose a client that is there (`BatchInv`); so a loss comes of an
  event that is about another connection.
- `ServedClientsStay`, `ServedReservationsSendAll`, under `DeferAccept`: `ServerStep` shows
  that the loop's steps are steps of `Network`, `LoopCallsReady` that its calls to `recv`
  and `send` are on ready sockets; the lemmas of `NetworkUseProofs` do the rest. The second
  also needs that no zero byte is pushed.
- `ServedChannels`, for every loop, without zero bytes: that a client may be dropped by a
  stale event is within what `ByteChannel` allows.

**`KernelQueueProofs`.**

- `QueueTypeCorrect`, `CursorCorrect`: with `Inv == TypeOK /\ CursorInBatch /\
  ListWhenWorking`. That a working kqueue has a list is needed for the step that
  fills it.
- `WindowCorrect`: `Matches` relates `reported` to the window by length and by
  element, which a scan and a hand-out preserve; `MatchesWindow` derives the
  equality of the two sequences.

- `FeedImplemented`: `Spec => ImplementsFeed`. Under `Inv` and `Matches` each action of
  `KernelQueue` is a step of `EventFeed` or leaves `pending` and `event` alone; the
  window moves by one element when the cursor does.

**`GlobalLoggerProofs`.** `LoggerInv == TypeOK /\ Busy` says besides the types what a
thread between two steps may be doing.

- `NeverThroughNullCorrect`, under `InOrder`: with `PointerSet`, that the pointer is set
  whenever the flag is, a thread has seen the flag, or the store of the place is done in
  a `SetTarget` of a string.
- `RecordsGoWhereToldCorrect`, under `InOrder` and one setting thread (`OneSetter`): with
  `Told`, that the stores left to do lead to the target being set, that the fields name
  a target asked for at every moment, and that a thread that has looked at the flag
  will find in the place it reads next a target asked for since then.
- `EveryRecordOnceCorrect`, without a premise: `OnceInv` is `Whole` and `Kept`. `Whole` says that what an append read at its beginning
  is still what the string holds (the mutex: nobody else appends), `Kept` that each
  accepted record is on its way or in exactly one place of one target.
- `JournalImplemented`: `Spec => ImplementsJournal`, without a premise, so for stores seen
  out of order too. The moment at which a LOG happens is the write of its record;
  `Whole` says that what is written back there is what the string holds at that moment.

**`DisplayBufferProofs`.** `KeepsTheLatestCorrect`: `BufferInv` adds the types;
`LastLines` is the algebra of suffixes, with one lemma each for a push that keeps all
lines and one that drops the oldest.

**`DisplayConsoleProofs`.**

- `ModeCorrect`: if no console is copied, `Counted` (the count is the number of living
  consoles, and the saved mode is `theirs` while one lives) makes `ModeFollowsConsoles`
  inductive. `NoWrap` is the arithmetic modulo `CountLimit`.
- `ConsoleModeCorrect`: `ConsoleStep` shows that each step of `DisplayConsole` is one of
  `TerminalMode` or a stutter, so the invariant carries over.
- `FrameIsCurrentCorrect`: inductive as it stands; what is rendered depends on `Shown`
  and the size only.
- `NoTornFrameCorrect`: `FrameInv` adds that a frame begins with the row that clears and
  has no other (`IsFrame`), and that the index is inside the frame. It needs `ModeInv`
  and so `~Copying`: with echo on, what is typed appears in the frame.
- `LinesCorrect`, under `KeysAreWhole` (each key is one character or an escape sequence of
  three; the lone Escape key is neither, and `MCDisplayConsole_escape` shows what it
  does). `PromptInv` says that from the state of the reader there is a run over what is typed
  and not read yet that ends in what the user meant, in the middle of no key. Typing a key adds its
  characters to the end of that run, reading one takes its first step off.

**`ConsoleLayoutProofs`.** What a scan, a copy or a terminal computes is a recursive
function of a place in a sequence. The library's induction theorems cannot be used (they
take an operator), so the module begins with its own: `Least`, that a non-empty set of
numbers has a least element, `Upward` and `Downward` for sets of numbers, and from them that a
function defined by recursion along a bounded interval is what its definition says
(`RecursionUpward`, `RecursionDownward`).

- `ReadsInsideCorrect`, under `LinesAreWhole`: whatever is shown is made of characters
  that begin where the scan of `strlenMultiByte` expects them (`IsWhole`), and what is typed, if
  the application shows it, is ASCII, since Delete takes single bytes. `StrlenCounts` is the
  scan, `WholeInv` the invariant: every line of the buffer is such a text.
- `ScreenCorrect`, under `LinesAreLegible`: the terminal takes UTF-8 (`TerminalIsUtf8`: no
  character is the beginning of another, and those of several bytes have no ASCII in
  them); the lines consist of ASCII and of characters of three bytes and one column, with no
  zero byte and no control character; header, footer and prompt, which are cut in
  bytes, are ASCII. `console_layout` is an instance. What the texts are made of matters, as the
  configurations `MCConsoleLayout_*` show, each of which breaks one. `LegibleInv` is again the
  invariant of the buffer. The rest is about one frame: `TextCharacters` (the terminal finds
  the characters again), `TextCopied` (the copying loop cuts between characters, at the column it
  should), `BarShows`, `PromptShows`, `LineShows` (the bytes of each part), `ShowsMore` (what
  two pieces of output do is what one does after the other), `RowShows`, `ContentShows` and
  `FrameShows` (row after row of the screen). No row wraps and nothing scrolls, so what is
  shown is `MeantRow`. The proof found a mistake in the model: two cases of `MeantRow`
  overlapped for a window too small to be shown, and CASE may choose either.

Only model-checked: liveness (`ReservedCloses`, `EverythingIsRead`,
`BacklogIsServed`, `NoStarvation`, `LogReturns`, `ScreenSettles`), which needs
fairness and is out of reach of the prover. Every invariant, action property and
refinement that a passing run checks is a theorem, under the premises given here. One
premise is narrower than a run: `ImplementsChannel` is proved under `CheckSession`, and
`network_receive` also checks it without, for an application that sends nothing.

## 10. Where the code and its documents differ

Kept as runs, with the line and the quotation in `PROJECT.json` ("findings"):

- *Phantom sessions* (`network_phantom`). `SendToClient` carries out a reserved
  disconnection and returns SUCCESS; the application's next call on the number
  makes a zeroed entry in `mSessions` that is about no client.
- *Stale events* (`server_stale`). `IdentifySocket` compares numbers, so an event
  of a batch identifies a later connection with the same number. `RecvFromClient`
  then finds nothing to read, takes EAGAIN for a broken connection and drops a
  live client.
- *Appending to a string that is gone* (`logger_dangling`). `SetTarget` does not
  take the mutex and may return while a `Log` is about to append to the old string.

Reproduced by a configuration of section 8:

- `SendToClient` takes EAGAIN of `send` for a broken connection and closes a
  reserved session with data unsent (`Network.cpp:124`; `Network.hpp:169` promises
  that all is sent first). An application that sends only on writable sockets is
  safe (`ReservedSendsAllCorrect`).
- Both buffers end at a zero byte (`Network.cpp:100`, `:118`).
- A failed `Init` closes the server socket and keeps its number; the destructor
  closes the number again (`Network.cpp:26`, `:15`).
- `Poll` returns false from the call that fetches events; the header says false
  means that there are none (`KernelQueue.cpp:77`, `KernelQueue.hpp:77`). A caller
  has to call again.
- With two threads that set targets, their stores mix, and the result is a target
  that neither of the last calls asked for (`GlobalLogger.cpp:66-77`).
- Lowering the capacity of a `DisplayBuffer` removes nothing, and a push removes
  one line for the one it adds (`DisplayBuffer.cpp:47`, `:78`).
- `SetTimeout` with a negative number stops `Poll` for good, with a line in the log for
  each call (`KernelQueue.cpp:121`). The header does not say that it may not be negative.
- A console that is copied puts the terminal mode back while consoles live, or never
  (`DisplayConsole.cpp:41`); the copy constructor is not disabled as that of the other
  classes is.
- `strlenMultiByte` takes every character that is not ASCII for three bytes and one
  column (`DisplayConsole.cpp:218`). Korean text, in which the headers are written, has
  three bytes and two columns: lines are cut too late and wrap. A character of two bytes
  at the end of a line, or one of which Delete took a byte, makes it read past the string.
- Header, footer and prompt are cut in bytes (`DisplayConsole.cpp:260`, `:328`, `:345`).
- A zero byte in a line ends the frame, a line break scrolls it (`:139`, `:309`).
- The Escape key alone swallows the two characters typed next and blocks until
  then (`DisplayConsole.cpp:63`).
- `IsFailed` never becomes false again (`DisplayConsole.cpp:143`).

## 11. Not modelled

- SIGPIPE of `send`; signals are outside the models, the error return is inside.
- How long a scan waits. `udata`, `data` and `flags` of an event are carried along and
  never looked at.
- That nothing bounds the send and the receive buffer of a session
  (`Network.cpp:153`): the models bound what is pushed and sent.
- The rest of a record that a short `write` of the logger leaves out
  (`GlobalLogger.cpp:61`); a refused one is in the model.
- Exceptions (an allocation that fails inside `Log` would leave the mutex locked, and
  `substr` and `string(n, ' ')` of the layout throw only where an index is wrong, which
  `console_layout` excludes). The text of a record and of an assertion. Colours.
- Two consoles that both write: they share one screen and nothing coordinates them.
- Destroying the logger, which lives as long as the process.
- `Assert`, `Config`, the Makefiles: no state.

## 12. Plan

Done: the modules of section 2, their runs, and the theorems of section 9. Every
component that keeps state is modelled. What could follow:

1. A clause of `ByteChannel` about liveness (what is pushed goes out, a reserved
   channel ends), checked with `FairServerSpec`; today that is `ReservedCloses` and
   `EverythingIsRead`.
2. A second console that writes, once the library says what two are to do with one
   terminal.
