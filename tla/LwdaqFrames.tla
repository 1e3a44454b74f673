---------------------------- MODULE LwdaqFrames ----------------------------
(***************************************************************************)
(* The LWDAQ protocol task: lwdaq_tasks, which gathers frames from a       *)
(* stream that may be cut anywhere, lwdaq_handle_message, which obeys one  *)
(* message per call, and the clause of tcpip_server that calls the task    *)
(* and drops a silent client.                                              *)
(*                                                                         *)
(* The stream is a sequence of cells.  A frame is a start cell, a head     *)
(* with the message's identifier and the length of its content, content    *)
(* cells and an end cell; the head stands for eight bytes, so CONTENT_     *)
(* OFFSET is two cells and FRAME_SIZE three.  Lengths are below 2^32 - 10, *)
(* where len + FRAME_SIZE does not wrap.  Cells arrive while the stack     *)
(* runs: between calls, and while a handler waits for the host's logic or  *)
(* for room to write.  What a reply says, and what the host does, is left  *)
(* out; done records the messages obeyed.                                  *)
(***************************************************************************)
EXTENDS Naturals, Sequences

CONSTANTS
    SecLevels,      \* security levels that a configuration may have
    TcpTimeout,     \* tcp_timeout of the server, 0 for none
    RxBuffSize,     \* TCP_RX_BUFF_SIZE, in cells
    ConfigLength,   \* CONFIG_LENGTH, in cells
    Unhandled,      \* messages that the host's build leaves out
    Frames,         \* what a client may send, each a sequence of cells
    MaxInput,       \* bound on the cells that wait in the socket
    MaxFrames       \* bound on what one client sends

Start == <<"START">>
End == <<"END">>
CloseCode == <<"CLOSE">>
Junk == <<"JUNK">>
Data == <<"DATA">>
Password == <<"PASSWORD">>
Ids == {"BYTE_WRITE", "BYTE_READ", "BYTE_POLL", "STREAM_READ", "VERSION_READ", "MAC_READ",
        "ECHO", "STREAM_WRITE", "STREAM_DELETE", "LOGIN", "CONFIG_READ", "CONFIG_WRITE",
        "REBOOT", "OTHER"}
HeadOf(id, len) == <<"HEAD", id, len>>
Heads == {"HEAD"} \X Ids \X Nat
Cells == {Start, End, CloseCode, Junk, Data, Password} \cup Heads

ContentOffset == 2
FrameSize == 3

(* What is sent as a start cell has a head behind it: there are always     *)
(* eight bytes after a start byte, if only they come.                      *)
Headed(s) == \A i \in 1 .. Len(s) : s[i] = Start => i < Len(s) /\ s[i + 1] \in Heads

ASSUME LwdaqAssumption ==
    /\ SecLevels \subseteq 0 .. 2 /\ TcpTimeout \in Nat
    /\ RxBuffSize \in Nat /\ RxBuffSize > FrameSize /\ ConfigLength \in Nat
    /\ Unhandled \subseteq {"STREAM_WRITE", "STREAM_DELETE"}
    /\ MaxInput \in Nat \ {0} /\ MaxFrames \in Nat
    /\ Frames \subseteq Seq(Cells) \ {<<>>}
    /\ \A f \in Frames : Headed(f)

VARIABLES
    seclevel,               \* of the active configuration, which a restart loads
    input, rest, sent,      \* cells in the socket; the rest of what is being sent; how many
    gone,                   \* the client has left
    sock_init, logged_in,   \* of the server's record
    idle,                   \* seconds since last_tick, up to one more than the timeout
    rx_buffer,              \* the rx_available cells gathered
    pc,                     \* "closed", "idle" between calls, "handling" a message
    close_socket,           \* of the call in progress: the client has been silent too long
    done                    \* history: the messages obeyed in this session

client == <<input, rest, sent, gone>>
server == <<sock_init, logged_in, idle, close_socket>>
vars == <<client, server, rx_buffer, pc, done, seclevel>>

Init ==
    /\ seclevel \in SecLevels
    /\ input = <<>> /\ rest = <<>> /\ sent = 0 /\ gone = FALSE
    /\ sock_init = TRUE /\ logged_in = FALSE /\ idle = 0 /\ close_socket = FALSE
    /\ rx_buffer = <<>> /\ pc = "closed" /\ done = <<>>

-----------------------------------------------------------------------------
(* The client and the clock.                                               *)

Send(f) ==
    /\ pc # "closed" /\ ~gone /\ rest = <<>> /\ sent < MaxFrames /\ Len(input) < MaxInput
    /\ input' = Append(input, Head(f)) /\ rest' = Tail(f) /\ sent' = sent + 1
    /\ UNCHANGED <<gone, server, rx_buffer, pc, done>>

Arrive ==
    /\ pc # "closed" /\ ~gone /\ rest # <<>> /\ Len(input) < MaxInput
    /\ input' = Append(input, Head(rest)) /\ rest' = Tail(rest)
    /\ UNCHANGED <<sent, gone, server, rx_buffer, pc, done>>

(* A client that has left stays gone until the server closes the socket.   *)
(* While a handler goes on in spite of it the code could find a new client *)
(* on the same handle: that is not modelled here, it is what the servers'  *)
(* module shows (TcpipServer, SessionIntact).                              *)
ClientLeaves ==
    /\ pc # "closed" /\ ~gone
    /\ gone' = TRUE
    /\ UNCHANGED <<input, rest, sent, server, rx_buffer, pc, done>>

SecondPasses ==
    /\ pc # "closed" /\ TcpTimeout > 0 /\ idle <= TcpTimeout
    /\ idle' = idle + 1
    /\ UNCHANGED <<client, sock_init, logged_in, close_socket, rx_buffer, pc, done, seclevel>>

Sends == Arrive \/ \E f \in Frames : Send(f)
Environment == ((Sends \/ ClientLeaves) /\ UNCHANGED seclevel) \/ SecondPasses

-----------------------------------------------------------------------------
(* The clauses of tcpip_server around the task.                            *)

Activate ==
    /\ pc = "closed" /\ pc' = "idle"
    /\ sock_init' = TRUE /\ idle' = 0
    /\ UNCHANGED <<client, logged_in, close_socket, rx_buffer, done, seclevel>>

Closes == /\ pc' = "closed" /\ close_socket' = FALSE /\ done' = <<>>
          /\ input' = <<>> /\ rest' = <<>> /\ sent' = 0 /\ gone' = FALSE

ClosedByClient ==
    /\ pc = "idle" /\ gone
    /\ Closes
    /\ UNCHANGED <<sock_init, logged_in, idle, rx_buffer>>

Called == pc = "idle" /\ ~gone
TimedOut_WhenEmpty ==
    TcpTimeout > 0 /\ input = <<>> /\ rx_buffer = <<>> /\ idle > TcpTimeout
TimedOut == TcpTimeout > 0 /\ input = <<>> /\ idle > TcpTimeout
Refreshed == IF TcpTimeout > 0 /\ input # <<>> THEN 0 ELSE idle

(* The task returns: the socket is closed for what it says or for silence. *)
Returns(status, timed_out) ==
    IF status # "OK" \/ timed_out
      THEN Closes
      ELSE pc' = "idle" /\ close_socket' = FALSE /\ UNCHANGED <<rest, sent, gone, done>>

-----------------------------------------------------------------------------
(* lwdaq_tasks.                                                            *)

TasksInit_StillLoggedIn ==
    /\ Called /\ sock_init
    /\ sock_init' = FALSE /\ rx_buffer' = <<>> /\ idle' = Refreshed
    /\ Returns("OK", TimedOut)
    /\ pc' = "idle" => UNCHANGED input
    /\ UNCHANGED logged_in
TasksInit ==
    /\ Called /\ sock_init
    /\ sock_init' = FALSE /\ logged_in' = FALSE /\ rx_buffer' = <<>>
    /\ idle' = Refreshed
    /\ Returns("OK", TimedOut)
    /\ pc' = "idle" => UNCHANGED input

(* What the socket has, as far as the buffer has room for it.              *)
Room == RxBuffSize - Len(rx_buffer)
Taken_Everything == Len(input)
Taken == IF Len(input) < Room THEN Len(input) ELSE Room
Gathered == rx_buffer \o SubSeq(input, 1, Taken)
Takes == input' = SubSeq(input, Taken + 1, Len(input))

HasHead(b) == Len(b) >= ContentOffset /\ b[1] = Start
IdOf(b) == b[2][2]
LenOf(b) == b[2][3]
HasFrame(b) == HasHead(b) /\ Len(b) >= LenOf(b) + FrameSize
BadStart(b) == b # <<>> /\ b[1] # Start
EndsBadly(b) == HasFrame(b) /\ b[LenOf(b) + FrameSize] # End
Content(b) == SubSeq(b, ContentOffset + 1, ContentOffset + LenOf(b))
Message(b) == [id |-> IdOf(b), content |-> Content(b)]
AfterFrame(b) == SubSeq(b, LenOf(b) + FrameSize + 1, Len(b))

Gathering == Called /\ ~sock_init /\ idle' = Refreshed /\ rx_buffer' = Gathered

(* There is no complete frame yet.                                         *)
WaitForMore ==
    /\ Gathering
    /\ ~BadStart(Gathered) /\ ~HasFrame(Gathered)
    /\ Returns("OK", TimedOut)
    /\ pc' = "idle" => Takes
    /\ UNCHANGED <<sock_init, logged_in>>

(* The close code ends the session, EEM_SOCK_END, and anything else that   *)
(* is not a frame ends it too, EEM_SOCK_SIN.                               *)
NotAFrame ==
    /\ Gathering
    /\ BadStart(Gathered) \/ EndsBadly(Gathered)
    /\ Returns("SIN", TimedOut)
    /\ UNCHANGED <<sock_init, logged_in>>

-----------------------------------------------------------------------------
(* lwdaq_handle_message.                                                   *)

FixedLength(id) == id \in {"BYTE_WRITE", "BYTE_READ", "BYTE_POLL"}
Known(m) == /\ m.id \notin {"OTHER"} \cup Unhandled
            /\ FixedLength(m.id) => Len(m.content) = 1
            /\ m.id = "CONFIG_WRITE" => Len(m.content) < ConfigLength
GivesPassword(m) == m.content = <<Password>>

(* Level two guards every message but LOGIN, any level above zero those    *)
(* that read or write the configuration or restart the module.             *)
Guarded(id) == id \in {"CONFIG_READ", "CONFIG_WRITE", "REBOOT"}
Permitted(m) == /\ seclevel >= 2 /\ ~logged_in => m.id = "LOGIN"
                /\ Guarded(m.id) => logged_in \/ seclevel = 0

Complete_OnNewInput == HasFrame(Gathered) /\ ~EndsBadly(Gathered) /\ input # <<>>
Complete == HasFrame(Gathered) /\ ~EndsBadly(Gathered)

Reject ==
    /\ Gathering /\ Complete
    /\ ~Known(Message(Gathered)) \/ ~Permitted(Message(Gathered))
    /\ Returns("SIN", TimedOut)
    /\ UNCHANGED <<sock_init, logged_in>>

LoggedInBy(m) == IF m.id = "LOGIN" THEN GivesPassword(m) ELSE logged_in

Handle ==
    /\ Gathering /\ Complete
    /\ Known(Message(Gathered)) /\ Permitted(Message(Gathered))
    /\ logged_in' = LoggedInBy(Message(Gathered))
    /\ done' = Append(done, Message(Gathered))
    /\ close_socket' = TimedOut
    /\ Takes /\ pc' = "handling"
    /\ UNCHANGED <<rest, sent, gone, sock_init>>

(* Those that run the stack while they wait: for the host's logic, or, if  *)
(* they reply, for room in the transmit buffer.                            *)
Polls(id) == id \in {"BYTE_POLL", "STREAM_READ"}
MayWait(id) == id \notin {"BYTE_WRITE", "STREAM_WRITE", "STREAM_DELETE", "CONFIG_WRITE"}

Handling(id) == pc = "handling" /\ IdOf(rx_buffer) = id

HandlerEnds(status) ==
    /\ rx_buffer' = IF status = "OK" THEN AfterFrame(rx_buffer) ELSE rx_buffer
    /\ Returns(status, close_socket)
    /\ pc' = "idle" => UNCHANGED input
    /\ UNCHANGED <<sock_init, logged_in, idle>>

(* It has done its work.  A reply that could not be written is not noticed *)
(* here: tcp_writeall's -1 is ignored.                                     *)
HandlerDone(id) == Handling(id) /\ id # "REBOOT" /\ HandlerEnds("OK")

(* tcp_sock_tick says that the client has gone: EEM_SOCK_ERR.              *)
HandlerGivesUp_Never(id) == FALSE
HandlerGivesUp(id) == Handling(id) /\ Polls(id) /\ gone /\ HandlerEnds("ERR")

Reboot ==
    /\ Handling("REBOOT")
    /\ seclevel' \in SecLevels
    /\ input' = <<>> /\ rest' = <<>> /\ sent' = 0 /\ gone' = FALSE
    /\ sock_init' = TRUE /\ logged_in' = FALSE /\ idle' = 0 /\ close_socket' = FALSE
    /\ rx_buffer' = <<>> /\ pc' = "closed" /\ done' = <<>>

Call == /\ ClosedByClient \/ TasksInit \/ WaitForMore \/ NotAFrame \/ Reject \/ Handle
        /\ UNCHANGED seclevel
Handlers == /\ \E id \in Ids : HandlerDone(id) \/ HandlerGivesUp(id)
            /\ UNCHANGED seclevel

Next == Environment \/ Activate \/ Call \/ Handlers \/ Reboot

Spec == Init /\ [][Next]_vars

(***************************************************************************)
(* The main loop calls the server again and again, and time passes.  A     *)
(* handler that does not wait ends; one that waits for the host's logic,   *)
(* or for a client to read, need not, unless its client leaves.            *)
(***************************************************************************)
HandlerMustEnd ==
    /\ pc = "handling" /\ (gone \/ ~MayWait(IdOf(rx_buffer)))
    /\ \/ Reboot
       \/ /\ \E id \in Ids : (HandlerDone(id) /\ ~Polls(id)) \/ HandlerGivesUp(id)
          /\ UNCHANGED seclevel
FairSpec == /\ Spec
            /\ WF_vars(Call) /\ WF_vars(SecondPasses) /\ WF_vars(HandlerMustEnd)

-----------------------------------------------------------------------------
TypeOK ==
    /\ seclevel \in SecLevels
    /\ input \in Seq(Cells) /\ Len(input) <= MaxInput
    /\ rest \in Seq(Cells) /\ sent \in 0 .. MaxFrames /\ gone \in BOOLEAN
    /\ sock_init \in BOOLEAN /\ logged_in \in BOOLEAN /\ close_socket \in BOOLEAN
    /\ idle \in 0 .. TcpTimeout + 1
    /\ rx_buffer \in Seq(Cells) /\ Len(rx_buffer) <= RxBuffSize
    /\ pc \in {"closed", "idle", "handling"}
    /\ pc = "handling" => HasFrame(rx_buffer)

(* What has arrived of a stream, which may end with a start cell whose     *)
(* head is still to come.                                                  *)
Streams == {b \in Seq(Cells) : \A i \in 1 .. Len(b) - 1 : b[i] = Start => b[i + 1] \in Heads}

(***************************************************************************)
(* The messages of a stream: each frame is one, and a cell that is not a   *)
(* frame's, or a frame with a wrong end, is one that nobody can obey.  A   *)
(* frame too long for the buffer never becomes one.                        *)
(***************************************************************************)
TooLong(b) == HasHead(b) /\ LenOf(b) + FrameSize > RxBuffSize
Malformed == [id |-> "OTHER", content |-> <<>>]
MessagesOf[b \in Streams] ==
    IF BadStart(b) \/ (EndsBadly(b) /\ ~TooLong(b)) THEN <<Malformed>>
    ELSE IF HasFrame(b) /\ ~TooLong(b) THEN <<Message(b)>> \o MessagesOf[AfterFrame(b)]
    ELSE <<>>

(* What this client has sent and has not been obeyed yet.                  *)
Sent == IF pc = "closed" THEN <<>>
        ELSE IF sock_init THEN input
        ELSE IF pc = "handling" THEN AfterFrame(rx_buffer) \o input
        ELSE rx_buffer \o input

(* The security level from which a message needs the password, as the      *)
(* configuration record describes the levels (server.h).                   *)
Needs(m) == IF m.id = "LOGIN" THEN 3 ELSE IF Guarded(m.id) THEN 1 ELSE 2

IsLogin(m) == m.id = "LOGIN"

Service == INSTANCE MessageService WITH
    Messages <- [id : Ids, content : Seq(Cells)], Levels <- SecLevels, level <- seclevel,
    WellFormed <- Known,
    todo <- MessagesOf[Sent],
    proven <- pc # "closed" /\ ~sock_init /\ logged_in

(* The messages of a client are obeyed in order and once each, however its *)
(* stream is cut and whatever the clients before it left behind; a client  *)
(* that has not given the password gets nothing obeyed that needs it; and  *)
(* after a frame that is wrong nothing is obeyed (lwdaq_tasks, with the    *)
(* gates of lwdaq_handle_message).                                         *)
ImplementsService == Service!Spec

(* A message that has arrived whole is obeyed, or the session ends, or a   *)
(* handler is waiting for the host or for the client.                      *)
EveryMessageIsHandled ==
    \A n \in 0 .. MaxFrames :
        MessagesOf[Sent] # <<>> /\ Len(done) = n
            ~> Len(done) # n \/ pc \in {"closed", "handling"}

(* A handler that waits does not outlive its client: tcp_sock_tick says    *)
(* that it has gone, or the next call of tcpip_server sees it.             *)
WaitEndsWithClient == pc = "handling" /\ gone ~> pc = "closed"

(* A client that falls silent is dropped after the timeout, in the middle  *)
(* of a frame too, unless a handler is waiting or what it has sent         *)
(* announces a frame that the buffer cannot hold, which leaves input in    *)
(* the socket that refreshes the timeout (tcpip_server).                   *)
SilentIsDropped ==
    <>[][~Sends]_vars =>
        []<>(pc = "closed" \/ pc = "handling" \/ TooLong(rx_buffer) \/ TcpTimeout = 0)
=============================================================================
