# TLA+ specifications of muduonotes

The repository is a collection of network programs written while learning the
muduo library: an echo server that kicks out idle clients, three file servers,
two sudoku servers with a dancing-links solver, a protobuf query server with its
codec, and a number of smaller programs. This directory holds TLA+ modules of the
programs that have a behaviour worth checking, the TLC configurations that check
them, and TLAPS proofs of what matters most about them.

muduo itself is not in the repository. What the programs rely on, the state of
`TcpConnection`, its output buffer, `shutdown()`, the write-complete callback and
the order of things in `EventLoop`, is modelled from how they use it and marked
external.

## Inventory

Each program runs one `EventLoop` in one thread. The library calls the program
back; a callback runs to its end before the next, so a callback is one action of
a model. The only other threads are the workers of `3_sudoku/thread_pool.cc`.

| Program | State it keeps | Operations | What is hard |
|---|---|---|---|
| `10_idleconnections/echo.cc` | a circular buffer of buckets of shared pointers to `Entry`; in each connection a weak pointer to its entry | `onConnection` up and down, `onMessage`, `onTimer`, `~Entry` | one entry in several buckets, closing by reference count, a timer tick at any point in a connection's life, half-close with data still buffered, a peer that never closes |
| `6_filetransfer` v1, v2, v3 | a `FILE*` in the connection's context: none, raw, or shared | `onConnection`, `onWriteComplete` | a callback that is queued while the connection ends, closing each file once |
| `3_sudoku/basic.cc`, `thread_pool.cc` | the input buffer, the pool's queue | `onMessage`, `processRequest`, the task | any cut of the input stream, answers out of order, a worker that looks at a connection without a lock, errors while answers are under way |
| `3_sudoku/sudoku.cc` | a doubly linked sparse matrix changed in place | constructor, `solve`, `cover`, `uncover` | undoing changes in exactly the reverse order |
| `8_protobuf` codec, dispatcher, server, client | the input buffer, callbacks by type | `fillEmptyBuffer`, `onMessage`, `parse`, `onQuery`, the error callbacks | any cut of the stream, frames that lie, an unreadable frame at the head of the buffer |
| `5_tcp_demo/epoll_demo/server.cc` | an epoll set with edge-triggered sockets | one event loop | edges shared by several arrivals, one read for each edge, blocking sockets |
| `4_reactor/reactor.cc` | the buffer of `std::cin`, a table of handlers | one event loop | a second buffer behind the descriptor that epoll watches |
| `4_reactor/multiplexing.py` | a poll set and a dict of clients | one event loop with a broadcast inside | blocking sends, clients that go away during a broadcast or between a poll and its handling, exceptions that nobody catches |
| `5_tcp_demo/time.cc`, `daytime.cc`, `time_client.cc`, `2_finger/finger03`-`06` | the input buffer | one reply, then shutdown | 32-bit time, a reply or a line that arrives in pieces, input after the shutdown |
| echo, discard, timers, readv/writev, scripts | none, or next to none | one callback | little |

`PROJECT.json` lists every component with its status and, under `hazards`, what
can go wrong in each place, with the properties that would show it. The
properties that make each component correct are stated, in words and formulas,
at the end of its module.

## Modules

| Module | Models |
|---|---|
| `MuduoConn` | operators on a connection record: `Send`, `Shutdown`, `HandleWrite`, `HandleClose`. External |
| `ListOps` | two operators on sequences, `Kept` and `AddUp`, as recursive functions |
| `SharedLemmas` | lemmas that several proofs need: induction, the operators of `ListOps`, and what the operators on connections return |
| `IdleTimeout` | the abstract promise: one countdown per connection |
| `IdleEcho` | the timing wheel, the echo and its clients; `Countdown` is the refinement mapping to `IdleTimeout` |
| `IdleClock` | `IdleEcho` with a timer period in seconds |
| `IdleEchoProofs` | theorems about `IdleEcho` and `IdleClock` |
| `FileDelivery` | the abstract promise: longer and longer beginnings of the file, then the end |
| `FileTransfer` | the three file servers over the two phases of a loop iteration; `Delivery` is the mapping to `FileDelivery` |
| `FileTransferProofs` | theorems about `FileTransfer`, and that it implements `FileDelivery` |
| `RequestReply` | the abstract promise of a server that answers: one reply for each accepted request, lost only with the client |
| `SudokuServer` | both sudoku servers, with or without a pool; `Requests` is the mapping to `RequestReply` |
| `SudokuServerProofs` | theorems about `SudokuServer`, and that it implements `RequestReply` |
| `SudokuSolver` | the dancing-links search |
| `SudokuSolverProofs` | theorems about `SudokuSolver` |
| `ProtobufCodec` | frames, `parse`, and the loop of `onMessage` |
| `QueryServer` | server and client over the codec; `Queries` is the mapping to `RequestReply` |
| `QueryServerProofs` | theorems about the codec and `QueryServer`, and that it implements `RequestReply` |
| `EpollDemo` | the edge-triggered loop of the epoll demo, with the kernel's list of ready sockets |
| `PollChat` | the chat server with its broadcast, a send at a time |
| `PollChatProofs` | theorems about `PollChat` |
| `Reactor` | the reactor on standard input, with the read-ahead of `getline` |
| `OneShot` | the servers that say one thing and hang up, and the time client |
| `SmallProgramsProofs` | theorems about three programs that have nothing to do with each other, `OneShot`, `Reactor` and `EpollDemo` |
| `MC...` | instances for TLC, with a `.cfg` for each run |

In every module the definitions keep the names of the source where they can.
A definition with a suffix after an underscore (`InsertBack_Front`) is the
definition that follows it with a plausible bug; no specification uses it. For
every property there is one that breaks it, so that a property that could not
fail would be noticed.

### Connections (`MuduoConn`)

A connection is a record: the state of the library's state machine, what is in
the output buffer, what the socket has accepted, and whether the write side is
shut. `Send` on an idle connection writes directly: the socket may accept any
number of the units, the rest is buffered. `send()` tests the state first;
`sendInLoop()`, which a worker thread queues, only gives up when the connection
is down: it may still add to a buffer that a shutdown is waiting for.
`ShutdownInLoop` waits for the buffer to drain. An operation with several
outcomes is the set of them.

### Idle connections (`IdleEcho`, `IdleTimeout`, `IdleClock`)

`buckets` is `_m_connBuckets`, oldest first; an entry is named by its connection,
and its reference count is the number of buckets that hold it. `OnTimer` is
`push_back(Bucket())` on a full circular buffer: the oldest bucket is overwritten,
and the entries that were in no other bucket are destroyed in the same action,
each calling `shutdown()` if its connection still exists (`EntryDtor`). `OnMessage`
reads everything unread, echoes it, and inserts the entry if the weak pointer can
still be locked. `object` is the lifetime of the `TcpConnection`: between the end
of a connection (`doomed`) and its destruction (`freed`) the timer may fire. Peers
may send, stop, or close at any time; the socket may take any part of the output
at any time. `accepted` and `quiet` are history variables that the properties
compare the wheel and the echo with.

`IdleClock` adds a clock in seconds: the timer fires every `TickSeconds`, messages
and connections come in any second.

### File transfer (`FileTransfer`)

`version` is fixed in the initial state and says which program runs. An iteration
of the loop has two phases: the ready channels (`active`) in any order, then the
functors queued before (`batch`), while new ones wait for the next iteration
(`queue`). This is what makes the end of a connection come between a completed
write and its write-complete callback. Handlers are sets of results, one for each
outcome of the `send` they do; `onWriteComplete` has none without a context, where
`any_cast` throws and the program ends. A `FILE*` is `none`, `open`, `closed` or closed
`twice`, with its offset.

### Sudoku servers (`SudokuServer`)

A line is its length and whether `processRequest` accepts it; the bytes of a
client's lines arrive in pieces of any size (`OnMessage(c, g)` has read up to byte
`g`). `LastLine` is where the `while` loop stops, by the conditions of the source:
too few bytes, no CRLF, or a bad request; several short lines that are together no
longer than a bare request wait like a single one (`Due`). `pool` is the set of threads the pool was
started with and is fixed in the initial state: with none the loop thread solves
and answers at once, as `basic.cc` does. A worker takes a task, looks at the state
of the connection, and posts the send to the loop: three actions, because the
loop may run between them.

### Sudoku solver (`SudokuSolver`)

`dl` is `nodes_`: one sequence for each field. `Matrix` states what the constructor
builds: every ring in order of creation, since `put_left` and `put_up` insert before
the head. A loop around a ring is `Each` of a step over the `Others` of the ring, in the
direction in which the source follows it; `HideRow` and `ShowRow` are the inner loops of
`cover` and `uncover`. `solve()` is cut at its recursive calls: `Choose` covers the column, `TryRow`
takes the next row and covers the columns it crosses, `Solved` writes the board,
`TakeBack` undoes a row after a call returned false, `GiveUp` puts the column back.
`frames` is the call stack. Nothing in the module is declared `RECURSIVE`, so that it can be proved
about: loops are functions over their counters. The reference that the answer is
compared with is `Solutions`, which fills a board cell by cell and knows nothing of
the matrix.

### Protobuf (`ProtobufCodec`, `QueryServer`)

A frame stands for its bytes by what the receiver looks at: the two lengths,
whether the checksum fits, the type, whether the data parse. `Parse` makes the
checks in the order of the source. `LoopEnd` is where the loop of `onMessage` stops.
Server and client use the same codec and differ in the error callback: the
server's only logs and leaves the frame where it is, the client's default shuts the
connection down. A client may also send only the beginning of a frame: the last `held`
bytes that it claims never come, or turn out to be the next thing it sends.

### Epoll demo (`EpollDemo`)

`ready` is the kernel's list of sockets with an edge, `batch` what `epoll_wait` returned
and is not handled yet; things go on happening to the sockets in between. A wait
looks at each listed socket again and reports those that are still readable. The
listening socket gets one `accept` for an edge, a client's socket one `recv`. What came
before a reset can still be read; the hang-up is reported by the next wait, and
`HangUp` ends the program. A call that would wait leads to `phase = "blocked"`.
`owed` and `short` are history variables.

### Chat server (`PollChat`)

One pass over the events of a poll is `batch`; the broadcast of one chunk is `todo`,
a `SendTo` for each client still to come, because a send may have to wait for room
and the clients go on talking, leaving and being reset meanwhile. `connections` and
`registered` are the dict and the poll set, in their order. `stream` is the life of a
client's connection as TCP has it: a client may shut only its writing side (`half`) and go
on reading, though the server then forgets it; data sent to a socket that its client has
closed are accepted once (`probed`) and answered with a reset. An exception is `pc = "dead"`:
`getpeername` or `send` on a reset connection, `recv` on one that was reset before its
end-of-file (afterwards, `finreset`, it returns nothing as before), a descriptor that is
not in the dict. `log` and `joined` are history variables.

### Reactor (`Reactor`)

Input is a sequence of pieces of lines: first in the kernel (`input`), then, after
a `read` that `getline` makes, in the buffer of `std::cin`. A terminal gives `read` one
line, a pipe everything. `Event` is what epoll can see, which is only `input` and the
end of it.

### One reply and a shutdown (`OneShot`)

`program` is fixed in the initial state. The six programs differ in when they speak
(`OnConnection` or `OnMessage`), in what they say (`ReplyTo`) and in what they take out of
the input buffer (`Retrieve`): `finger05` takes nothing, so every later piece of
input finds the same CRLF again. Time is a number; the cast, the network byte order
and the reading are arithmetic on four digits of base `Byte`.

### Abstract specifications

`IdleTimeout`, `FileDelivery` and `RequestReply` say what a client may rely on, without
wheels, chunks, threads or buffers. The detailed modules implement them under the
mappings named above; `RequestReply` has two implementations that share no code.
Its replies are those the socket has accepted, in order; a request counts as
accepted once the server has taken it out of the input buffer.

## Runs

| Run | Question | Instance |
|---|---|---|
| `idle_safety` | Is a client ever cut too early or revived, and is the echo complete? | 2 clients, 3 buckets, 2 messages each; 88,831 states |
| `idle_timer` | Does the wheel implement the countdown, after how many seconds is a silent client closed, and is every connection released? | 2 clients, 2 buckets, ticks of 2 seconds, 1 message each; 61,605 states |
| `idle_seconds_name` | Is the time `nIdleSeconds`? No | the program's 5 buckets and 2 seconds |
| `file_transfer` | Does each version deliver the file, in order and whole, and close every file once? | each version, 2 clients, a file of two and a half buffers; 17,921 states |
| `file_v2_closed_handle` | May version 2 read a closed file? Yes | version 2, 1 client |
| `sudoku_server` | Is each request answered once, are errors final, does the pool drain, and what does the cut of the input decide? | 1 client, 3 lines of three kinds, 0, 1 or 2 workers; 85,610 states |
| `protobuf_query` | Are frames cut the same way however they arrive, and queries answered? | 2 frames of nine kinds, whole or without their last 1 or 4 bytes; 19,366 states |
| `epoll_demo` | What does one accept and one recv per edge leave behind, and can it block? | 3 clients, 3 units each, a buffer of 2; 2,170,126 states |
| `sudoku_solver` | Is the search sound, complete, and does it restore its links? | boards of four by four |
| `poll_chat` | Does everybody hear the same, and what ends the server? | 2 clients, 2 units each, 2 units of room; 177,517 states |
| `reactor` | Which lines wait while the reactor sleeps? | 4 lines, terminal or pipe; 1,545 states |
| `one_shot` | Is the reply whole, and is the time shown the time sent? | six programs, 6 times, 2 lines of 3 bytes; 38,004 states |

Why these bounds are enough to meet the interesting cases. In the wheel what
matters is one entry in at least two buckets besides an older and a younger one:
three buckets, and two messages at different ticks; two clients share a bucket and
expire together or apart. A file of two and a half chunks has a first, a middle
and a short last chunk. The sudoku lengths keep the relations of the source
with `kCells` scaled to 2 and the limit of 100 to 5: a bare request is exactly
`kCells + 2` bytes, and the limit is beyond that. Three lines allow a good line before
and after a bad one, and two workers overtake each other; the long line is longer than
the limit also without its last byte, and two of the short, empty ones wait together. All temporal properties of a connection speak of that connection, so
one is enough. Two frames show what an unreadable frame does to a
readable one behind it. Without its last byte a frame lacks its checksum (a
number is one byte wide here), without the last four a short one has nothing but its length. Word size and message limit of the codec are scaled down.
A four by four board needs the same four kinds of columns; the boards include
empty ones, several solutions, contradictions found at once and contradictions
found after a search. In the chat server a chunk of two units
fills the room of a client that does not read, and one of two clients can leave in the
middle of a broadcast of the other. Four lines let a read bring three and leave two of
them behind. With a byte of two values the word has 16, and the times lie below, at
and above the sign bit and beyond the word.

### What the runs show

- The wheel closes a connection exactly in the tick that completes `NBuckets`
  ticks of silence (`WheelTellsAge`, `ClosesInItsTick`), leaves one alone that is down
  when its entry dies (`ClosesInItsTick`), never touches one again once given up
  (`ExpiredStaysOut`), and a shutdown never cuts the echo short (`FinAfterEcho`, `EchoFaithful`).
- A silent client is closed after more than `NBuckets - 1` and at most `NBuckets`
  timer periods of real silence (`CloseWindow`): with the program's values, after more
  than 8 and at most 10 seconds. `nIdleSeconds = 5` is thus not a number of seconds
  (`idle_seconds_name`): a client idle for 6 is still connected.
- Version 2 of the file server may read its `FILE*` after closing it
  (`file_v2_closed_handle`): the client's end-of-file is handled while the
  callback of the last write is queued. Version 3's shared pointer removes this
  (`SharedFileStaysOpen`). No version leaks a file, and none closes one twice but for
  version 2 in just that situation, where `onWriteComplete` closes it again
  (`NothingLeftBehind`). No callback comes for a client whose file was missing, which has no
  context for it to read (`OneChunkInFlight`).
- All three file servers deliver (`Delivers`): what reaches a client is the beginning of
  the file, the server hangs up only after the whole of it, and a client that stays
  gets it.
- The sudoku servers and the query server implement request and reply
  (`ServesRequests`, `AnswersQueries`): whatever the interleaving, no request is answered
  twice, and one is lost only when its connection was shut down or left.
- Which lines the sudoku servers take depends on how many bytes have come, and not on
  how they were cut (`CutsMatterOnlyToLongLines`): all that are complete, but for those at the
  end which together have at most `kCells + 2` bytes. The cut decides only whether a line
  beyond the limit is served or ends the conversation.
- Fragmentation never changes which frames the protobuf server dispatches
  (`CutByContent`). One unreadable frame silences the connection for good
  (`PoisonedForGood`), and the only frames the client ever refuses are answers longer
  than the limit that the sender does not check (`ClientRefusesOnlyTooLong`).
- Undoing the covers in reverse order restores the solver's matrix link by link at
  every point of the search (`LinksCanBeRestored`), so the sizes that guide it are right
  (`ColumnsConsistent`), no row is tried twice (`SearchAdvances`), and the answer is right
  (`AnswerIsRight`): a board that is written is a solution, and `NoSolution` means that there is
  none. The assertions of the constructor cannot fail, whatever the givens
  (`AssertionsHold`, a theorem only).
- The epoll demo never waits in `accept` or `recv` although its events may be out of date
  (`NeverBlocks`). It owes an accept to exactly as many clients as arrived on an edge
  that was already there (`AcceptDebt`), and never pays that debt. A socket is left
  readable only by a `recv` that filled its buffer or returned the last data before
  end-of-file (`LeftBehindShortRead`); in the second case nothing further happens to
  it and its descriptor stays open for good.
- In the chat server everybody is sent the same conversation from where they joined
  (`SameConversation`). The server never stumbles over its own bookkeeping: only a
  connection that was reset ends it (`DiesOnlyByReset`). A reset is all it takes, though:
  a client that closes with data unread, or during a broadcast, ends the chat for all.
- The reactor loses no line, but sleeps on complete lines that one `read` brought
  together with an earlier one, until more input or its end (`WaitsBehindItsRead`,
  `NextInputWakes`). On a terminal this cannot happen.
- The one-reply servers send one whole reply before end-of-file, also `finger05` with its
  full buffer (`OneWholeReply`): once it has shut down, `send` and `shutdown` do nothing. The
  time shown is the time sent until the seconds reach the sign bit of the word
  (`TimeShown`).

### Deadlock

Deadlock is checked except where the system may come to rest: in `epoll_demo` and
`poll_chat`, whose programs end at a hang-up or an exception, and in the runs whose
clients send a bounded number of lines or frames and may then have no more to do
(`sudoku_server`, `protobuf_query`, `one_shot`, `reactor`).

### Fairness

- `idle_timer`: time passes and the timer fires for ever, as `runEvery` does as long as
  the loop runs. `CountdownSpec` needs no more. `EventuallyReleased` states its own
  assumption (`Cooperation`): the loop also serves sockets with something to read,
  write or destroy, and clients close when they see end-of-file, as `client.cc` does.
  Without it the property is false: the server only half-closes (comment,
  `echo.cc:105-107`).
- `file_transfer`: the loop goes on and handles what a poll reports (weak fairness
  of each step). Clients keep reading: a socket is found writable again and again
  (strong fairness, because writability may come and go with every poll), and they
  close on end-of-file.
- `sudoku_server`: the loop serves each connection and runs its functors, each
  thread of the pool runs.
- `protobuf_query`, `one_shot`: both loops serve their sockets.
- `poll_chat`: the server's thread runs, and clients that stay keep reading; the
  sockets are blocking, so a client that does not stops everybody.
- `reactor`: its thread runs. Nothing is assumed of whoever types.

Safety properties assume none of this.

## Proofs

TLAPS checks the proofs for every value of the constants, with the named
assumptions of each module and nothing else. They say that bounds are natural numbers,
sizes positive, and names of different things different (`MaxMsgsAssumption`,
`NBucketsAssumption`, `TickSecondsAssumption`, `LengthAssumption`, `SizeAssumption`,
`ListenerAssumption`, `ClientAssumption`, `MaxFramesAssumption`, `MaxTypedAssumption`,
`VersionsAssumption`, `OneShotAssumption`, `CodecAssumption`), that a pool has finitely many
threads (`WorkersAssumption`), and what the inputs are: a line has at
least the two bytes of its CRLF (`LineAssumption`), frames are records of the codec's fields
(`FramesAssumption`), the server knows the two types it names (`TypesAssumption`), an idle
socket of the chat server takes at least one chunk (`RoomAssumption`), and the puzzles are
boards of integers with a box of at most three cells a side, which is the program's
(`PuzzleAssumption`; from four on two columns would have the same name).

Every safety property that a passing run checks is stated by a theorem, and so is the
safety half of each refinement. They rest on these inductive invariants.

| Module | Inductive invariants | Theorems |
|---|---|---|
| `IdleEchoProofs` | `IInv`, `EInv`, `CInv` | `TypeCorrect`, `WheelTells`, `ExpiredStays`, `NoPrematureClose`, `WheelIsCountdown`, `EchoIsFaithful`, `FinComesLast`, `WindowOfSilence` |
| `FileTransferProofs` | `FInv`, `GInv`, `DInv`, `CInv` | `FileTransferType`, `LeavesNothing`, `SharedFileIsOpen`, `OneChunkUnderWay`, `ServersDeliver` |
| `SudokuServerProofs` | `IInv` | `PoolKeepsOrder`, `CutsDoNotMatter`, `OneThreadKeepsOrder`, `ErrorTextIsLast`, `ServesEachRequest` |
| `QueryServerProofs` | `IInv` | `RoundTrip`, `CutsByContent`, `RefusesOnlyTooLong`, `StaysPoisoned`, `AnswersEachQuery` |
| `PollChatProofs` | `IInv` | `OneConversation`, `NeverUsesClosedSocket` |
| `SudokuSolverProofs` | `SolverInv`, `AnswerInv` | `SearchLeavesNoTrace`, `SizesAreRight`, `SearchGoesForward`, `SolverAnswers`, `ReferenceIsCompletions`, `AssertionsHold`, `SearchIsBounded` |
| `SmallProgramsProofs` | `Inv`, `ReadInv`, `RInv`, `IInv` | `ReplyIsWhole`, `TimeIsRight`, `LinesWaitTheirTurn`, `CallsNeverWait`, `NeverCatchesUp`, `ReadsAllItCan` |

### Shared lemmas

`SharedLemmas` has what the other modules need of the connection operators: types and
states, and how data move. `Total(k)` is what is on the wire and in the buffer together;
`Drained(k)` says that the write side is shut only over an empty buffer. A write leaves
`Total` alone, a send appends to it, a shutdown keeps both facts. `Grown` says that a wire only
gets longer.

The rest is induction. The library's induction theorems take an operator as a
parameter, which the provers here cannot instantiate, so `SharedLemmas` states induction for a
*set*: one that contains 0 and with each number the next contains them all
(`SetInduction`), one that contains the empty sequence and with each sequence all that
are longer by an element contains them all (`SeqSetInduction`), and a non-empty set of
numbers has a least element (`LeastExists`). A proof by induction defines the set of
numbers, or of sequences, for which its claim holds. `SetInduction` is proved from
`WFMin` and the well-foundedness of `<`. `RecursionExists` says that a recursive function
over `0..n` exists and does what its definition says, and `SameSteps` that two that do
the same are equal; with them `KeptAppend`, `KeptConcat`, `KeptAgree`, `AddUpAppend` and the
like are lemmas. The lemmas about operators that a single proof
needs (`DispatchAll`, `SendAll`, `SizeOf`) are in its own module.

### Idle connections

`IdleEchoProofs` holds for any set of connections and any number of buckets and
messages. The inductive invariant of the wheel is `IInv`: `WheelTellsAge` and `ExpiredStaysOut`,
with two facts they cannot do without. `StateFollowsObject` relates the state of a connection to the
lifetime of its object: a connected client is alive, so that a message of it finds
it so, and an expired one cannot be `unborn` again. `UnbornHasNoEntry` is needed when a
client is accepted: its only entry is the one inserted then, so its age starts at
zero. `IInv` speaks of each connection separately (`IInvPerConnection`), and there is a
lemma for each action about what it does to the connection it concerns
(`AcceptStep`, `OnMessageStep`, `OnDownStep`, `OnTimerStep`) and one that all others are
untouched. The key step is the timer's: an entry is destroyed exactly when its
newest bucket is the oldest of the wheel (`DyingMeansGone`, `DyingIsOld`), and that
is where `WheelTellsAge` puts it when its client has been silent for
`NBuckets - 1` ticks (`NoPrematureClose`). The entry of a connection that is down may die
before the object does; its `shutdown()` finds the state and does nothing
(`DownIsFinal`). For the refinement (`WheelIsCountdown`), `left` is the index of
the newest bucket; `NewestOf` shows that it is `NBuckets - quiet`, so it goes down by one with
each tick.

The echo has an invariant of its own, `EInv`: for each connection `Drained`, no
end-of-file while connected, everything read was accepted until a shutdown, and, as
long as the peer is there, `Total` is the messages accepted, in order. That the unread
messages continue those (`UnreadContinues`) is where the numbers of the messages
come in.

The seconds are `CInv`: `IInv`, the types of the clock, and `Between`. The silence of a connected
client in seconds is at most `quiet * TickSeconds` and the seconds since the last
tick, and less than that by less than one period, since the client last spoke
somewhere inside a period. The tick that closes it finds `quiet = NBuckets - 1`, which gives the
window of `CloseWindow` for any number of buckets and any period (`WindowOfSilence`).

### File transfer

`FileTransferProofs` holds for any set of connections, any file length, empty files included,
and any buffer. There are four inductive invariants, each on top of the one before.

- `FInv` is about the functors. A `connectDestroyed` waits only for a `doomed`
  connection, a write-complete callback only for one that still exists, and nothing
  of a connection stands behind its `connectDestroyed` in the two queues taken together
  (`QueueOK`). `FileOK` says for each version which file goes with which context and
  lifetime. From it: `FileTransferType` and `SharedFileIsOpen`.
- `GInv` adds that no callback waits twice and that the buffer of a connection is
  empty while one waits, and never holds more than a chunk; and that a connection without
  a context has neither output nor a callback. From it: `OneChunkUnderWay`.
- `DInv` is about the data. What a connection holds and has sent is the beginning of
  the file (`Begins`); as long as output or a callback waits, it reaches exactly to the
  file's offset, so that the next chunk continues it; and for a client that is still
  there `Served` says when the write side may be shut. A send to a client that has left
  may be dropped, and then no callback comes, so the gap is never followed by more.
  `ServersDeliver`: every step is a step of `FileDelivery` or a stutter (`AbstractStep`). This is the
  safety half of `Delivers`.
- `CInv` adds, for version 2, that a file is open only until the server ends the delivery,
  and that a context points to a closed file only if the client left before that
  (`EndsOnce`), as does a file that is closed twice. From it: `LeavesNothing`.

### Sudoku servers

`SudokuServerProofs` holds for any clients, any lines and any finite set of threads. The
requests under way form a pipeline: the tasks of the pool, the threads, the functors of
the loop (`Pipeline`). Each is in one place only, and with at most one thread the
order along the pipeline is that of the requests (`Before`); it is what a thread overtakes that
makes the difference, and the invariant says so by its parameter `one`. `OutputOK` joins the
pipeline to the output: what was answered is before all that is under way, so that an answer is
never sent twice. `ConnOK` relates lines retrieved to bytes received, and `AnsweredOK`
says for `basic.cc` that the output is the answers to the first lines and perhaps the error text.

A call of `onMessage` is split at `LastLine`, of which the lemmas show that the loop of the
source ends there and nowhere before. `TakenOK` says what that means for the lines: those taken
from a connected client are the `Due` ones, and a conversation was ended by a bad line or at a
long one, which gives `CutsDoNotMatter`. `ServesEachRequest` maps each step to one of `RequestReply`: a call of `onMessage`
accepts the lines up to `LastGood`, a write of the socket makes some answers replies, and
the end of the conversation gives up the rest. That no reply is given twice and none without an
accepted request (`RepliesExtend`) is where `OutputOK` comes in.

### Sudoku solver

`SudokuSolverProofs` holds for any set of puzzles and for boards of every size up to
the program's nine by nine, which TLC cannot reach.

Uncovering needs the links in exactly the state that covering left them in, and those depend on
everything that is covered. So the invariant does not describe the links, it says how
they came about: `SolverInv` has `State`, that the matrix is the one of the constructor
after covering, in turn, the columns that each frame has taken (`Trail`, `Search`). What the links
are then follows from it. `Good` says it for any set of covered columns: the header list and each
list of rows run, in the order of creation, through what is left (`Free`), and each size is the number of
rows left. The lemmas come in the order of the loops: the cyclic order of a set of nodes and
what taking one out of it changes; `Detach` and `Attach`, which are each other's inverse only while
the neighbours are those of `Good`; a row hidden and shown again; a column covered and
uncovered (`Good` before gives `Good` after, and the way back gives the same record); and a
sequence of columns, latest first (`UndoneBackwards`). `Steps`, `Run` and `Undoing` say what
a loop around a ring does and when it is undone, whatever its step.

With that a step of the search is a longer or a shorter trail. `TryRow` needs that the row crosses no
covered column, and it does since the row is still in a column; `TakeBack` and `GiveUp`
take off the end what `TryRow` and `Choose` put there. `SearchLeavesNoTrace` and `SizesAreRight` are read off `State` and
`Good`. `SearchGoesForward` needs that the rows of a column come in ascending order. A frame
takes four columns out of at most `4 * kCells`, so there are never more than `kCells` of them
(`SearchIsBounded`), and the 100 places reserved for `stack_` are enough.

The answer has two halves. A board is written when no column is left; the rows of the frames then cross
each column once (`Exact`), and a column is an empty cell or a value that a row, column or box lacks.
So each empty cell gets one value and no unit has a value twice: nine values in nine
cells, by a counting lemma in both directions (`Onto`, `Once`). The other half is `AnswerInv`: take any solution of the
puzzle; if the rows of the first calls write values of it, the next call has chosen a column
that one row of the solution crosses, and the call has not passed it (`Pending`). No covered
column can have taken that row away, since rows of one solution never cross the same column. So
the search cannot return false while there is a solution. `AnswerInv` was checked by TLC on
the boards of the run first. `ReferenceIsCompletions` is by induction on the cells: `Solutions`, which the run
compares with, is the set of all boards that complete the puzzle.

`AssertionsHold` is about the constructor alone, for any givens: the nodes fit `nodes_`, no column is
appended twice, rows are linked only into columns that exist, and each name is an index of
`columns_`.

### Protobuf query

`QueryServerProofs!RoundTrip`: for any types, sizes and limit, `parse` accepts every
message the codec has encoded and finds its data, and `onMessage` refuses exactly
those beyond `kMaxMessageLen`.

`IInv` says of each connection where both codecs stand. `Cut(s, g, n)` is the common part: of
the frames `s` and `g` bytes of them, the first `n` are complete and readable and the loop
has stopped behind them, for lack of bytes or at a frame it cannot read. More bytes
only move `n` on to the next such place, so where it stands depends on `g` and not on how the bytes came
(`CutsByContent`). `Stuck` is a complete frame at the head that cannot be read; it stays
one whatever follows (`StaysPoisoned`). The client's codec is another instance of the same
facts, over what the server has written: all of it was encoded, so by
`RoundTrip` only its length can be refused (`RefusesOnlyTooLong`). `Moves(c)` sums up what any step
does to a connection, and the refinement `AnswersEachQuery` is shown from that alone:
answers are written in the order of the queries dispatched and are never more.

### Epoll demo

`IInv` (in `SmallProgramsProofs`) says why the calls on blocking sockets never wait: what was reported stays true,
because nobody else reads or accepts (`EventsOK`), and a socket is reported once at most (`Distinct`).
`Debt` is an equation that each step keeps: a client that arrives adds one to
the backlog and either an edge or a debt. `Behind` is what one `recv` for each edge leaves
unread. `ResetSeen` says that a reset is still an edge or already reported as a hang-up,
so that `recv` is not called on a reset socket without data.

### Chat server

The tables agree (`TablesOK`), an event is still true when it is handled (`BatchOK`) and a
broadcast goes to clients that are in the tables (`BroadcastOK`): so the only exceptions
left are those of a reset connection (`NeverUsesClosedSocket`). The difficult one is
`BatchOK`, since a pass handles several events and each may close its socket or broadcast to the
others. `HeardOK` says that the chunk being broadcast is the end of the log, and that each client has
heard the log from where it joined, to the end or up to that chunk.

### One reply, the time, and the reactor

`Inv` says that before the server speaks nothing was sent and, if it waits for a
line, nothing was retrieved, so that the first line found is the first line
(`FirstLineIsFirst`); afterwards speaking again changes nothing (`SayAgain`). With it `ReplyIsWhole`
holds for any lines, any times, any base.

`TimeIsRight` is about arithmetic: that the four digits which `hostToNetwork32` lays out,
read back one at a time, are the value modulo the word. `DivMod` and `DivModUnique`
prove the existence and uniqueness of quotient and remainder, `NextDigit` and `DivDiv` move on by a
digit, and `BytesOfWord` puts the four together. `ReadInv` says how far the client has read and
that it logs with the fourth byte.

The `RInv` of the reactor says that what was handled, what `getline` holds and what the kernel
holds are consecutive pieces of consecutive lines (`Consecutive`, over `Chain`), and where the
last `read` brought its first line (`ReadAhead`). `ChainConcat` and `FirstLineTakes` show
what cutting such a sequence behind a line leaves, and `ChainLines` that the complete lines
in it are numbered without a gap, whence `LinesWaitTheirTurn`.

### Only model-checked

All liveness, which the prover cannot treat (it has neither fairness nor `ENABLED`): that
idle connections are released (`EventuallyReleased`, `ReleasedInTheEnd`), that a client that stays gets
the whole file, that conversations end and queries are answered (`ConversationEnds`, `QueryAnswered`),
that pools drain (`PoolDrains`), that the chat server and the reactor notice everything
(`EverythingNoticed`, `NextInputWakes`), and the fairness in the abstract specifications
(`CountdownSpec`, `Delivers`, `ServesRequests`, `AnswersQueries`). That the solver ends is two
theorems and a remark: each step goes forward (`SearchGoesForward`), through finitely many
positions (`SearchIsBounded`), and a strict order on a finite set has no endless ascent. The two properties that are expected to be violated
are found so by TLC.

## Not modelled

Formatting, logging (`dumpConnectionBuckets` included) and the bytes of messages. An
empty file, for which versions 2 and 3 never shut the connection down: no
`WriteComplete` comes for a send that is not made. `epoll_ctl` on a standard input that
is a regular file, whose error the reactor ignores. Programs that have no state of
their own (echo, discard, `finger01`, `finger02`, the readv and writev demos), that only
generate load or print (the flooding clients, the timer printer, the protobuf demo), and
manual test scripts, as listed in `PROJECT.json`.

## Plan

The modules were written in this order, the most important behaviour first: the idle
connections with their abstract countdown and clock; the file servers; the sudoku servers
and the solver; the codec and the query server; the epoll demo; then the chat server, the reactor
and the one-reply servers; last the abstract specifications that the file servers and the
two request servers implement. Proofs followed the same order.

What is left, by what it would add:

- larger instances of the solver: a nine by nine board with few empty cells, which
  needs a cheaper way to build the matrix in TLC; the theorems already cover it;
- the empty file of `filetransfer_v2` and `v3` in a run of its own: the proofs include it,
  the liveness of `Delivers` does not hold for it;
- a network that ends a connection by itself; now only a client does.
