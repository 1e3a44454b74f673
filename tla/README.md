# Verification of the P3053 Embedded Ethernet Module firmware

The A3053 Embedded Ethernet Module (EEM) is a PIC32MZ with an Ethernet interface.
Its firmware offers two TCP services, LWDAQ (a binary protocol that reads and
writes a host board over an eight-bit bus) and Telnet (a command line), and the
same command line on a serial console. This directory holds TLA+ models of it,
the TLC configurations that check them and proofs that TLAPS checks.

## 1. The system

One thread runs `main` (`src/src/main.c`): after start-up it repeats `tcp_tick`,
the console's `cli_server`, `tcpip_server` for LWDAQ, `tcpip_server` for Telnet.
Interrupt handlers move bytes between the UART and its ring buffers. The TCP/IP
stack is polled: it runs only inside `tcp_tick`.

| component | state it keeps | operations | talks to |
|---|---|---|---|
| TCP socket table (`tcp.c`, vendored) | a table of TCBs; a handle is an index | ServerOpen, Close, IsConnected, WasDisconnected, GetIsReady, ArrayGet; segments and timers | called by the servers; driven by `tcp_tick` |
| TCP connection (`tcp.c`, vendored) | per TCB: transmit and receive ring, sequence numbers, windows, one hole, timers | ArrayPut, Flush, ArrayGet, Tick, `_TcpSend`, `_TcpHandleSeg` | `tcp_write`, `tcp_read` of the tasks; the remote node |
| `tcpip_server` (`server.c`) | per server: active socket, listening socket, queue, `sock_init`, `last_tick` | one call = a sequence of clauses | socket table; the protocol task |
| protocol tasks (`lwdaq_tasks`, `telnet_tasks`) | receive buffer or channel record, `logged_in` | called with the server record; answer a status | sockets; configuration; host bus; may run the stack while they wait |
| command line (`cli.c`) | per channel: line buffer, status, prompt | `cli_server`, commands | channel's getchar/putchar; configuration |
| configuration (`server.c`, `lwdaq.c`) | factory, flash and active records | read at start, `config set`, CONFIG_WRITE, factory reset | flash driver |
| console (`console.c`) | `console_context` | `console_putchar`, `debug grab/release` | UART or a Telnet socket |
| UART2 (`plib_uart2.c`) | two ring buffers, interrupt enables | Read, Write, RX and TX handlers | console, command line |
| flash driver (`pic.c`, `plib_nvm.c`) | one page | erase the page, write a row | configuration |
| bus, lamps, GPIO (`pic.c`) | port registers | byte read, byte write, stream | LWDAQ, command line |

What is hard here. There is one thread, but the stack is re-entered from inside
protocol tasks, so sockets of *both* servers change under a server that waits;
handles are reused, and a server socket whose client leaves goes back to
listening under the same handle, wherever the server has filed it; clients
connect, reset, half-close and fall silent at any moment; slots, queue places
and timers run out; the UART handlers interrupt the main loop; power may fail
while flash is written.

What makes each part correct: the server's record and the socket table agree
(no dangling, leaked or shared handle); a task never meets another client's
session; clients are served in turn, silent ones are dropped and waiting ones
served; flash is either a record that was written or recognised as invalid; a
command that needs a login runs only after one; LWDAQ messages are obeyed in
order and once, however their stream is cut; bytes pass through the UART and
through a connection in order, once, and none waits in a buffer for ever.

## 2. Modules

| module | what it models |
|---|---|
| `TcpSockets` | the socket table, as far as a TCP server can tell its states apart, and an arbitrary application on top of it |
| `FifoService` | abstract: one client served at a time, the others in the order in which they joined |
| `TcpipServer` | the main loop, `tcp_tick`, and every clause of `tcpip_server` for `N` servers, on top of `TcpSockets` |
| `ByteChannel` | abstract: a bounded first-in first-out channel of bytes |
| `Uart2` | the two ring buffers of `plib_uart2.c`, its interrupt handlers, and the routines of `pic.c` that call it |
| `CommandLine` | `telnet_getchar`, `cli_server`, login, exit, and how `telnet_tasks` starts and ends a session |
| `ConfigStore` | the factory, flash and active records, all writers of flash, the security level, resets and losses of power |
| `MessageService` | abstract: messages obeyed in order and once, behind the gate of a password, until a wrong one ends the session |
| `LwdaqFrames` | `lwdaq_tasks`, `lwdaq_handle_message`, and the clause of `tcpip_server` around them |
| `ReliableStream` | abstract: one direction of a connection, what is read is a prefix of what was written |
| `TcpStream` | the data path of an established connection, over a network that loses, repeats and reorders |
| `MCTcpipServer`, `MCUart2`, `MCCommandLine`, `MCConfigStore`, `MCLwdaqFrames`, `MCTcpStream` | instances for TLC |
| `TcpSockets_proofs`, `TcpipServer_proofs`, `TcpipFifo_proofs`, `Uart2_proofs`, `CommandLine_proofs`, `ConfigStore_proofs`, `LwdaqFrames_proofs`, `TcpStream_proofs` | theorems and proofs |

How they fit together: `TcpipServer` EXTENDS `TcpSockets` and implements
`FifoService`; each ring of `Uart2` implements `ByteChannel`. `CommandLine` looks
inside the task that `TcpipServer` calls on a Telnet socket, `ConfigStore` at
the commands of all three channels that write flash; the statuses of a channel
mean the same in both. `LwdaqFrames` looks inside the task of an LWDAQ socket and
implements `MessageService`. Below them all, `TcpStream` is the inside of an
ESTABLISHED socket of `TcpSockets`: each of its directions implements
`ReliableStream`, which is what lets `LwdaqFrames` and `CommandLine` take their
input for a plain sequence.

**TcpSockets.** `tcb[h]` is the TCB of handle `h`; "CLOSED" is an empty slot.
`fin` is `bRxFin`, `kill` is `forceKill`, `rx` says that the receive buffer is
not empty. One action per kind of segment (`RxSyn`, `RxAckOfSyn`, `RxData`,
`RxFin`, `RxAckOfFin`, `RxRst`, `RxWindow`) and one for the timers (`Timeout`).
Sequence numbers, windows and retransmission are in `TcpStream`; here a lost
segment is one that does not arrive, and of the window one bit is left, `stalled`:
it is zero and the peer has all that was sent before. A FIN is then left out of
what `_TcpSend` sends (`tcp.c:4125`), and the retry that the timer counted is taken
back (`tcp.c:4168-4182`), so that `Timeout` does not reach such a socket. `AfterClose` is `_TcpCloseSocket`: a socket
that the application closed is freed, any other listens again. Connections are
numbered, which the code does not do; the numbers are history. `synRun` keeps a
handshake from completing within the run of the stack that saw its SYN: the
acknowledgement needs a round trip.

**TcpipServer.** The variables are the fields of `tcpip_server_type`, `pc` and
`cur` say which clause of which call comes next, `close_socket` is the local of
that name, and `idle` counts seconds since `last_tick`. Clauses are separate
steps although nothing can happen between most of them: that is how a property
can look between them. The stack may step at `pc = "tick"`, and at
`pc = "tasks"` for a server in `Blocking`. `Careless` are those whose task may
go on after `tcp_sock_tick` said -1, as the replies of `lwdaq.c` do. A task ends
with any status; it reads its input or not. What a task keeps for its client is
in the modules of the tasks. `session` and `missed` are history: the connection
for which the task was last initialised, and the servers whose socket lost or
gained a client in a run of the stack that they did not watch (`Watched`): the
main loop's `tcp_tick` is followed by a look at every active socket, a run inside a
task at most by a look at its own (`tcp_sock_tick`).

**Uart2.** Nothing locks the rings, so a step of the main program is one access
to one shared variable (an index, a slot, the interrupt enable), and `pc` says
which comes next. The handlers of `interrupts.c` have one priority: a handler
runs to its end with the main program stopped, but the port sends and receives
meanwhile, so that each turn of a handler's loop is a step too. The port's
queues are counts; its interrupt flags follow from them (transmit while the
queue has room, receive while it has bytes). `BootText` is what
`console_initialize` prints before interrupts are enabled. Bytes are numbered as
they are written, which is how order, loss and duplication can be seen. Framing
errors, callbacks and nine-bit mode are left out.

**CommandLine.** `pc` is where a call of `telnet_tasks` is: a step of "reading"
is one turn of the loop of `cli_server`, during which the stack does not run. At
"greeting", "overflow" and "process" (`Prints`) something is printed, and
`tcp_putchar` may wait for room in the transmit buffer and run the stack
(`server.c:325-333`): characters arrive, and the client may leave. What is
printed is not modelled, nor how long it takes; what the call does to the channel
after it has printed is the step that ends the wait. A client that left is `gone`;
`cli_message` does not look at what `tcp_putchar` answers, so the call runs to its
end all the same, and `tcpip_server` closes the socket before the next. (That the
handle takes a new client meanwhile is outside this module and `LwdaqFrames`; it
is the subject of `server_swap`.) A letter stands for any
printable character; the first letter of a line is a command's name, the rest
its arguments. `rx_buff` is the buffer up to its null and `rx_len` the length
that is kept beside it: they part at a backspace. `waiting_for_option` survives
the session, as the static variable does. `line`, `told` and `meant` record what
a reader of the same characters would take the line to be, `proven` whether
this client has shown the password.

**ConfigStore.** `flash` is a record, or `Erased` when the magic string is not
there. `eem_config_write` is two steps, erasure and row, because power may fail
between them; nothing else can, since the one thread waits. The edits of
`config set` start from flash, those of CONFIG_WRITE from the active record, and
`Target` is which field an option really writes. `status` is kept for the three
channels (`logged_in` for LWDAQ). `whole` and `cut` record what an ideal store
would remember, `proven` and `author` who asked, `wanted` what was asked for.

**LwdaqFrames.** A stream is a sequence of cells; a frame is a start cell, a head
that stands for identifier and length, content and an end cell, so that a stream
can be cut between any two of them. `rx_buffer` is what has been gathered,
`input` what waits in the socket. A call of `lwdaq_tasks` is one step, or two
when a message is obeyed: the handler of a message that waits for the host or
for room to write runs the stack meanwhile, and `close_socket`, decided before
the call, is acted on after it. `HandlerGivesUp` is what the two polling handlers
do when `tcp_sock_tick` says -1; the others ignore it. `done` is history: the
messages obeyed in this session. `gone` lasts until the socket is closed.

**TcpStream.** The fields of `tcb` have the names of `TCB_STUB`. Bytes are
numbered, byte *n* has sequence number *n* - 1. `Sent` is `_TcpSend` and is part
of every handler that calls it; `Acknowledged`, `InSequence`, `OutOfSequence`
and `FutureOf` are the parts of `_TcpHandleSeg`. Timers may expire at any run of
the stack, and `_TCPNeedSend`, a heuristic, answers anything. The peer follows
the protocol: it cuts its data as it likes, sends any of it again, probes a
closed window with one byte, and takes a segment only as far as it has room. A
segment that is delivered may be delivered again, so that old acknowledgements
arrive late. `lastAck` is history. Sequence numbers do not wrap in the model
(a connection would have to carry 2^32 bytes); `remoteWindow` keeps its width.

## 3. Runs

| run | instance | shows |
|---|---|---|
| `server_one` | 1 server that may wait and is careful, queue 2, 4 sockets, 3 connections, timeout 1 | the record keeps its shape after every clause, sessions are kept apart, refinement of `FifoService` |
| `server_full` | queue 1, next to a server that a port of 0 disables | the refusal of a client when the queue is full leaks nothing; an open socket is closed by its own server alone; in the table below, killed sockets are closing, FIN flag and input are never stale |
| `server_two` | 2 servers, queue 1, 2 connections, the first may wait and is careless | handles are neither shared nor lost when the stack runs inside a task; a client is replaced unnoticed only in a run of the stack that a task started and the server did not watch |
| `server_live` | 1 server, queue 1, 2 sockets, 3 connections, timeout 1, fair | waiting clients are served, silent ones dropped, closed sockets freed, the listening socket reopened, each with its exception, and the fair service |
| `server_swap` | 2 servers, the first may wait | **finding**: a client is replaced under the same handle unnoticed |
| `lwdaq` | buffer of 6 cells, 2 frames of 9 kinds for each client, levels 1 and 2, timeout 1 | refinement of `MessageService`; no message is forgotten; a wait ends with its client; a client silent in the middle of a frame is dropped |
| `stream` | rings of 2 and 4 bytes, payload 2, peer's buffer 2, one retry, 2 segments under way | both directions are reliable streams; a dead peer is given up; acknowledgements and window updates are not forgotten |
| `uart2` | rings of 4 and 3 places, port queues of 2, 5 bytes each way | each ring is a `ByteChannel`; no lost wake-up; a flush means sent; calls return |
| `cli` | buffer of 4 characters, password of one letter, level 2, 3 characters waiting | the line that is run is the one typed, commands need this client's login, a call waits only for a client that is there and does not read |
| `cli_edit` | the same, with a client that deletes | **finding**: a deleted character is executed |
| `config` | 3 channels, 2 passwords, levels 0 to 2, power lost at any step | the record at start-up is the last whole one or the factory's; flash changes only for a user who gave the password |
| `config_update` | the level from the command line, the password from LWDAQ | **finding**: CONFIG_WRITE undoes what config set changed |

Each property is checked in the smallest run in which it can go wrong; the
properties of the table are checked under the servers rather than under an
arbitrary application, and proved for that one too.

*Bounds.* `MaxConns` bounds the connections attempted in a behaviour,
`MaxSockets` the slots. Three connections are enough for one client to be
active, one to wait and one to arrive or be refused; four sockets are a
listening socket more than that. In `server_live` the table has two slots, so that
`TCPIP_TCP_ServerOpen` finds it full: an active or closing socket and another that
waits, closes or stalls leave none. Two servers are enough because servers interact
only through the table. The proofs lift all these bounds. Timeouts of one second
distinguish "not yet" from "expired". A ring of four places with five bytes fills,
empties and wraps; with three places a transmit handler that switches its
interrupt off too early goes unnoticed. A line buffer of four takes a
login command and overflows at three letters. The configuration has no bound:
its behaviours repeat over a finite set of records.

In `lwdaq` the buffer holds a frame of three content cells and no more, so that a
frame of four never fits, two short frames do, and the buffer has to be shifted;
`MaxInput`, four cells waiting in the socket, is less than a frame and more than
its head, so that frames arrive cut and joined. In `stream` the rings wrap: the
receive ring is filled from its fourth slot, the transmit ring of two has to be
filled twice. Data either goes one way, four bytes, or crosses, two against one
(`Loads`); two segments under way are enough for one to overtake, repeat or
outlive another, and `WindowMod` is more than any window the peer gives, so that
a window that wraps is seen as one. `CHECK_DEADLOCK FALSE`: a connection that was
given up, or has carried its load, is over. `MaxRetries` of one tells "again"
from "enough".

*Inputs.* The client of `cli` ends its lines with LF or CR LF, types a letter
after it has deleted, once or more, and finishes the option negotiations it begins. What
the code does outside these is known and not what the property says: a deletion
is the finding `cli_edit`; after a lone CR followed at once by another
character, the loop of `cli_server` reads on and joins the next line to this
one; a client that leaves in the middle of an option costs the next one its
first character (`CutsKeystrokes`). The frames of `lwdaq` are one of each kind
the code treats differently, right ones (`RightFrames`) and wrong ones
(`WrongFrames`: the close code, a message of a wrong size, a wrong end, a frame
too long); lengths from 2^32 - 10 up, where `len + FRAME_SIZE` wraps, are outside
the model.

*Fairness.* `FairSpec` assumes that the program goes on (`WF(Program)`: there is
one thread) and that time passes (`SF(SecondPasses)`). The first is more than the
code gives by itself, since a task may wait for a client that does not read its
output: the liveness of the servers is that of a firmware whose clients read
their answers, or leave. Nothing is assumed of tasks (they may leave input in the
socket for ever) or of timers. What needs timers says so in its hypothesis,
`PeersFallSilent`: from some time on the peers say nothing, and then the timers of
a socket that waits for one fire, which `TCPIP_TCP_Tick` gives because no segment
resets a retry counter any more, except for a stalled socket. `WaitingAreServed`
and `SilentAreDropped` also suppose that the timeout is not zero: with timeout 0,
or a client that talks for ever, the code does not promise it. The exceptions are
in the properties themselves. `Unread`: a task that never reads the input of its
client, as `lwdaq_tasks` does behind a header that announces more than
`TCP_RX_BUFF_SIZE` (`lwdaq.c:689-690`, `729`), has a client that is never timed out,
because waiting input refreshes `last_tick` (`server.c:787-788`). `stalled`: a
socket closed while its peer's window is zero is never freed. `FullForGood`: while
all slots are in use or stalled there is none to listen on. `Uart2` has weak fairness for the main program, the handlers
and the port: the processor runs, an enabled interrupt is taken, and the line
sends. `CommandLine` has it for the steps of a call that print nothing and, once
the client is gone, for the others: nothing makes a client read.
`LwdaqFrames` is fair to the calls of the task, to time, and to handlers that
must end (`HandlerMustEnd`): one that waits for the host's logic, or for a client
to read, need not, unless that client has left. `TcpStream` is fair to
`TCPIP_TCP_Tick` alone: the main loop runs it, and a timer that runs expires.
Neither the network nor the peer owes anything.

*Findings.* More was met that no run shows by itself:
the comments say that a client that is silent for the timeout is dropped
(`server.h:98-100`, `server.c:663-667`), which is not so behind an LWDAQ message
too long for the buffer (`Unread`, `TooLong`);
`config set --tcp_tick_ms` writes `telnet_timeout` (`server.c:1145`, modelled by
`Target`), and a failed login leaves the connection open where
`server.h:70-72` says that it should close it (`main.c:205`, `lwdaq.c:521`). A
client that resets while it waits leaves its place in the queue to whoever
connects next on that handle, before others who have waited longer
(`server.c:652-653`, `862`): `FifoService` therefore queues handles and not
clients. A poll that lasts longer than the timeout, with further messages already
in the task's buffer, ends in a session closed before they are handled, since
only the socket is looked at (`TimedOut`). An acknowledgement that is overtaken
by a later one makes the window wrap (`tcp.c:5284`): more is sent than the peer
can hold, and the stream stays whole because it is sent again. A window of zero
whose update is lost is never probed (`Stalled`, `tcp.c:4167-4182`): the retry
counter is put back each time and nobody gives up.

## 4. Proofs

All for every value of the constants that satisfies the assumption named in the
module: `SocketAssumption` and `ServerAssumption` (any number of servers,
places, sockets, ports and connections), `SizesAssumption` (any ring sizes, the
boot text shorter than the transmit ring), `CommandLineAssumption` (any buffer,
password and level), `ConfigAssumption` (any passwords, levels including 0, and
edits of known fields), `LwdaqAssumption` (any buffer, timeout and frames, as
long as a start cell has its head behind it), `StreamAssumption` (any ring sizes,
payload, retries and loads; the peer's buffer smaller than the range of a
window).

* `TcpSockets_proofs`: type correctness, `KilledIsClosing`,
  `FinMeansPeerClosed`, `NoStaleInput`. The
  invariant is a condition `Good` on a single TCB; `Kept` says what a step of the
  stack may do to one, and the lemma `StackStepKept` that every step does no more:
  the server proofs use that lemma and never look at the actions again.
* `TcpipServer_proofs`: `TypeOK`, `CallOK`, `HeldAreOpen`, `NoLeak`, `HeldOnce`,
  `QueueCompact`, `LampMeansService`, `SessionKept`, `OnlyTheHolderCloses`.
  `HeldAreOpen`, `NoLeak` and `HeldOnce` are
  inductive only together (`Owned`, `Roles`), and only with `CallOK` and with
  `Prepared`, which says what a clause may rely on when it is reached.
  `SessionsAreKept` proves `SessionKept` for tasks of every kind, those of the
  firmware among them, which run the stack and ignore its answer: a server whose
  socket neither lost nor gained a client in a run of the stack that it did not
  watch (`missed`) is called for the client for which its task was initialised.
  The invariant is the stronger `SessionInv`; the finding `server_swap` is a
  server in `missed`. `OnlyHoldersClose` says of every step, of segments and timers
  too, that it closes no socket but one that the server in whose call it happens
  holds and forgets in the same step. `ServersKeepTable` carries what was proved of
  the table under any application over to the servers. `CallOK` and
  `LampMeansService` are proved and no longer in a run.
* `TcpipFifo_proofs`: `ServesInOrder`, the refinement of `FifoService`. The
  mapping takes the prefix of the queue that is not empty, so `QueueCompact` is
  the invariant that the refinement rests on.
* `Uart2_proofs`: `UartTypeCorrect`, `NoWakeupIsLost`, `FlushSends`,
  `TransmitsInOrder`, `ReceivesInOrder`. The invariant is the type invariant, one
  condition per ring (`TxRing`, `RxRing`: the occupied places hold consecutive
  numbers that end at the last byte written or taken), `Seen`, which ties what
  the main program has read of the other side's index to where that index can
  be by now, and `NoLostWakeup` itself. The refinements of `ByteChannel` follow.
* `ConfigStore_proofs`: `ConfigTypeCorrect`, `ChangesAreGuarded`,
  `StartsWithTheLastWholeRecord`. `Loaded` says that commands run only with an
  active record; `LoggedInIsProven` that a status PASS was earned on this
  connection; `FlashIsKnown` what reading flash gives at every moment except
  between erasure and row. `UpdatesOfWhatIsCurrent` bounds the finding
  `config_update`: `UpdatesNamedFields` holds of every command of the command
  line that does not name `tcp_tick_ms` (`TrueOptions`), and of CONFIG_WRITE as
  long as the active record is the one in flash (`UpToDate`).
* `CommandLine_proofs`: `LineTypeCorrect` for any client; `PlainLinesRunAsTyped`
  (`ExecutesWhatWasTyped`) and `PlainGateHolds` (`GateHolds`) for clients that
  follow CR with LF and type a letter after they have deleted, as often as they
  like (`PlainKeystrokes`, a hypothesis of both theorems, without which the first
  does not hold: `cli_edit`). `LineInv` adds that what has begun is still to come
  (`PlainInput`, `AwaitsLf`), that buffer, length and the reader's line agree
  (`Together`), or that what is left over behind the null is about to be typed
  over (`Deleting`), and that a status PASS was earned by this client
  (`PassIsProven`). `TurnsTakeCharacters`, for any client, is why a call ends:
  every turn of the loop that leads to another takes a character, and none
  arrives while it reads.
* `LwdaqFrames_proofs`: `FramesTypeCorrect`; `GatesHold`, that no message is
  obeyed in a session that has not given the password its level asks for; and
  `ServesMessages`, the refinement of `MessageService`. Type correctness rests on
  `StreamInv`: behind every start cell, in the buffer, in the socket and on the
  way between them, is its head, which is what makes `LenOf(b)` a number whatever
  the stream was cut into. The refinement maps what is still to be obeyed to
  `MessagesOf` of the stream, a recursive function on all streams. What it gives is
  found by least members (`LeastOf`, `ShortestOf`: a set of numbers, or of
  streams, that is not empty has a least one, by `WFMin` of the library): the
  equation of `MessagesOf` holds on every stream, its value is a sequence of
  messages, and a cell more at the end (`OneMoreCell`) leaves the messages as they
  are or adds one. Then `FrameRead` says that the frame a call of `lwdaq_tasks`
  takes from its buffer is the first that `MessagesOf` sees in the whole stream: a
  cut in the middle of a frame changes nothing.
* `TcpStream_proofs`: `StreamInvariant`, and from it `TxStreamHolds`
  (`TxIsStream`), `RxStreamHolds` (`RxIsStream`) and `StreamTypeCorrect`, for any
  ring sizes, any network and any segmentation; and `WindowIsNeverTakenBack`: the
  right edge of the window never moves back. The invariant says, for the
  transmit ring (`TxHolds`), that the unacknowledged tail and the head lie as many
  places behind the tail as bytes are unacknowledged and held, and that those
  places hold the bytes whose numbers follow what the peer has confirmed; for the
  receive ring (`RxHolds`, `HoleHolds`) the same of what is ready and of what lies
  behind the hole; for segments, that each carries bytes that were written under
  their own numbers and acknowledges nothing that was not received; and for the
  peer, that the edge it was shown is within the ring. Retransmission, late
  acknowledgements and the closing of the hole are then sums of places. The rings
  are never taken apart by `%`: lemmas on remainders (`ModAgain`, `PlaceOn`) and on
  what `Slots` and `Stored` give at a place are proved first and cited.

Only model-checked: liveness under fairness (`KilledIsFreed`,
`WaitingAreServed`, `SilentAreDropped`, `KeepsListening`, `ImplementsFairFifo`,
`CallsReturn`, `CallReturns`, `EveryMessageIsHandled`, `WaitEndsWithClient`,
`SilentIsDropped`, `UnansweredIsGivenUp`, `PeerIsTold`), which is out of the
prover's reach. Of `ImplementsFairFifo` the safety part is `ServesInOrder`. The
safety properties of the passing runs are all proved; where a theorem has a
hypothesis beyond the assumptions of its module, its run satisfies it, and a
finding shows what happens without it. The exception is `SessionIntact` of a
task that heeds the end of its client (`server_one`): it is model-checked, and
what is proved is `SessionKept`.

## 5. Plan

Done: the socket table, the data path of a connection, the servers and their
abstract service, both protocol tasks, the UART, the configuration, and theorems
about all of them. What could follow:

1. The console: which channel `console_putchar` writes to, `debug grab/release`
   (after which messages may go to the next client on the grabbed handle,
   `console.c:57-61`), and a grabbed console whose messages run the stack in the
   middle of a clause of `tcpip_server`; every clause of `TcpipServer` that prints
   would have to be split at its messages. It composes `TcpipServer` and `Uart2`.
2. The start-up sequence of `main` and `server_set_ip`, with the network and
   address clauses of `tcpip_server`.
3. An abstract store for `ConfigStore` (old record, new record or factory) as a
   refinement.

### Not modelled

* Bus cycles, lamps and GPIO: straight-line register writes whose only other
  actor, the host's logic, is not in the repository. `eem_config_from_str`, which
  nothing calls, and the formatting of texts.
* A row of flash that power cut short: what it holds is the microcontroller's.
* In the stack: client sockets, keep-alive and Nagle's choices, IP, ARP, UDP, DHCP,
  HTTP, the Ethernet driver. Of about 129 000 lines in the repository some nine in
  ten are this vendored library and generated register set-up; most of it is not
  configured, never called, or seen by the firmware only as the environment that
  delivers segments, loses them and moves the link. The models cover the
  firmware's own code and the part of `tcp.c` on which it depends; a third of
  *all* lines could be mapped only by modelling services that this program does
  not use.
* `tcp_timeout * 1000u` (`server.c:790`) wraps for a timeout above 4294967 s;
  `idle` counts seconds and does not show it. `STREAM_READ` and `STREAM_WRITE` do
  not look at the length of their content, nor does the model at what they move.
* A prompt longer than `CLI_PROMPT_SIZE`, which `cli_prompt` copies all the same
  (`cli.c:688`) and which runs into the channel's status (`RunOther`).
* A framing error of the UART, whose byte the receive handler takes before the
  fault handler runs (`plib_uart2.c:70`).
