---------------------------- MODULE CommandLine ----------------------------
(***************************************************************************)
(* The command-line interpreter on a Telnet channel: telnet_getchar, which *)
(* filters the stream, cli_server, which gathers lines and runs them, the  *)
(* login command and the gate in front of the others, and telnet_tasks,    *)
(* which starts a session and ends it by what the interpreter says.        *)
(*                                                                         *)
(* A character is one of Letters (all printable), "CR", "LF", "BS" or      *)
(* "VERB", a Telnet control verb.  The first letter of a line is the name  *)
(* of a command, the others are its arguments; blanks, --info and --help   *)
(* are left out, and so are characters that are dropped on sight.          *)
(* Characters arrive while the stack runs: between calls of the task, and  *)
(* inside one while it prints, for tcp_putchar waits for room in the       *)
(* transmit buffer and runs the stack meanwhile.  What is printed is left  *)
(* out; that printing takes time, and only as long as the client is there  *)
(* and does not read, is not.  What a call does to the channel after it has*)
(* printed comes after the wait; while it waits nothing else reads or      *)
(* writes the channel.                                                     *)
(*                                                                         *)
(* A client that leaves while a call prints to it is gone, and cli_message *)
(* ignores that it is: the call runs to its end.  That the socket takes a  *)
(* new client before this end is not modelled here, it is what the servers'*)
(* module shows (TcpipServer, SessionIntact).                              *)
(*                                                                         *)
(* line, told and meant are not in the code: they record what an ideal     *)
(* reader of the same characters makes of them.                            *)
(***************************************************************************)
EXTENDS Naturals, Sequences

CONSTANTS
    Letters,       \* printable characters
    Login, Exit,   \* letters that name these commands
    Password,      \* the password of the active configuration
    SecLevel,      \* its security level
    CliRxSize,     \* CLI_RX_SIZE
    Keystrokes,    \* what a client may type, each a sequence of characters
    CutsKeystrokes, \* whether a client may leave in the middle of one
    MaxInput       \* bound on the characters that wait in the socket

Controls == {"CR", "LF", "BS", "VERB"}
Chars == Letters \cup Controls

ASSUME CommandLineAssumption ==
    /\ Letters \cap Controls = {}
    /\ Login \in Letters /\ Exit \in Letters /\ Login # Exit
    /\ Password \in Seq(Letters)
    /\ SecLevel \in Nat
    /\ CliRxSize \in Nat /\ CliRxSize > 2
    /\ Keystrokes \subseteq Seq(Chars) \ {<<>>}
    /\ CutsKeystrokes \in BOOLEAN
    /\ MaxInput \in Nat

VARIABLES
    input, rest,           \* characters in the socket; the rest of a keystroke under way
    waiting_for_option,    \* of telnet_getchar
    rx_buff, rx_len,       \* the receive buffer up to its null, and the length that is kept
    process_command, ignore_lf,
    status,                \* of the channel
    pc,                    \* "closed", "greeting", "idle", "reading", "overflow" or "process"
    gone,                  \* the client left while a call prints to it
    line, told, meant,     \* line so far, overflow reported for it, last line that ended
    proven                 \* this client typed the password, and no wrong one since

client == <<input, rest>>
buffer == <<rx_buff, rx_len>>
flags == <<process_command, ignore_lf>>
reader == <<line, told, meant>>
vars == <<client, waiting_for_option, buffer, flags, status, pc, gone, reader, proven>>

Init ==
    /\ input = <<>> /\ rest = <<>> /\ waiting_for_option = FALSE
    /\ rx_buff = <<>> /\ rx_len = 0
    /\ process_command = FALSE /\ ignore_lf = FALSE
    /\ status = "CONNECTED" /\ pc = "closed" /\ gone = FALSE
    /\ line = <<>> /\ told = FALSE /\ meant = <<>> /\ proven = FALSE

-----------------------------------------------------------------------------
(* The client.                                                             *)

(* What prints may have to wait for room in the transmit buffer: the       *)
(* greeting, the message of an overflow, and whatever a line that is run   *)
(* prints, its prompt at least.                                            *)
Prints == pc \in {"greeting", "overflow", "process"}

StackRuns == pc = "idle" \/ Prints

Comes(k) ==
    /\ StackRuns /\ ~gone /\ Len(input) < MaxInput
    /\ input' = Append(input, Head(k))
    /\ rest' = Tail(k)
    /\ UNCHANGED <<waiting_for_option, buffer, flags, status, pc, gone, reader, proven>>

Type(k) == rest = <<>> /\ Comes(k)

Arrive == rest # <<>> /\ Comes(rest)

(* The socket goes, with what nobody has read.                             *)
Closes == /\ pc' = "closed" /\ gone' = FALSE
          /\ input' = <<>> /\ rest' = <<>>
          /\ line' = <<>> /\ told' = FALSE /\ meant' = <<>> /\ proven' = FALSE

MayLeave == CutsKeystrokes \/ rest = <<>>

(* tcpip_server finds the client gone before it calls the task.            *)
ClientLeaves ==
    /\ pc = "idle" /\ MayLeave
    /\ Closes
    /\ UNCHANGED <<waiting_for_option, buffer, flags, status>>

LeavesMeanwhile ==
    /\ Prints /\ ~gone /\ MayLeave
    /\ gone' = TRUE
    /\ UNCHANGED <<client, waiting_for_option, buffer, flags, status, pc, reader, proven>>

Client == ClientLeaves \/ LeavesMeanwhile \/ Arrive \/ \E k \in Keystrokes : Type(k)

-----------------------------------------------------------------------------
(* telnet_tasks with sock_init set: the channel and the interpreter start  *)
(* afresh, telnet_getchar does not; then cli_start prints its greeting.    *)
StartSession_KeepsBuffer ==
    /\ pc = "closed" /\ pc' = "greeting"
    /\ status' = "CONNECTED"
    /\ UNCHANGED <<client, waiting_for_option, buffer, flags, gone, reader, proven>>
StartSession_KeepsStatus ==
    /\ pc = "closed" /\ pc' = "greeting"
    /\ rx_len' = 0 /\ rx_buff' = <<>>
    /\ UNCHANGED <<client, waiting_for_option, status, flags, gone, reader, proven>>
StartSession ==
    /\ pc = "closed" /\ pc' = "greeting"
    /\ status' = "CONNECTED"
    /\ rx_len' = 0 /\ rx_buff' = <<>>
    /\ UNCHANGED <<client, waiting_for_option, flags, gone, reader, proven>>

Greeted ==
    /\ pc = "greeting" /\ pc' = "idle"
    /\ UNCHANGED <<client, waiting_for_option, buffer, flags, status, gone, reader, proven>>

CallServer ==
    /\ pc = "idle" /\ pc' = "reading" /\ ~gone
    /\ process_command' = FALSE /\ ignore_lf' = FALSE
    /\ UNCHANGED <<client, waiting_for_option, buffer, status, gone, reader, proven>>

(* telnet_tasks passes on the channel's status: the server closes a socket *)
(* whose client asked for it or was refused a command.                     *)
TaskReturns(st) ==
    IF st \in {"CONNECTED", "PASS", "FAIL"}
      THEN pc' = "idle" /\ UNCHANGED <<client, gone, reader, proven>>
      ELSE Closes

Reading == pc = "reading" /\ (~process_command \/ ignore_lf)
NextChar == Head(input)
Take == input # <<>> /\ input' = Tail(input) /\ UNCHANGED rest

NothingToRead_WaitsForLf ==
    /\ Reading /\ input = <<>>
    /\ pc' = IF ignore_lf THEN "reading" ELSE "idle"
    /\ UNCHANGED <<client, waiting_for_option, buffer, flags, status, gone, reader, proven>>

(* The loop ends when there is nothing to read, in the middle of a line or *)
(* after a CR, or when it has its line.                                    *)
NothingToRead ==
    /\ Reading /\ input = <<>>
    /\ ignore_lf' = FALSE
    /\ pc' = IF process_command THEN "process" ELSE "idle"
    /\ UNCHANGED <<client, waiting_for_option, buffer, process_command, status, gone, reader, proven>>

HasLine ==
    /\ pc = "reading" /\ process_command /\ ~ignore_lf
    /\ pc' = "process"
    /\ UNCHANGED <<client, waiting_for_option, buffer, flags, status, gone, reader, proven>>

(* What telnet_getchar keeps to itself: a verb and the character after it. *)
SkipVerb ==
    /\ Reading /\ Take
    /\ waiting_for_option \/ NextChar = "VERB"
    /\ waiting_for_option' = ~waiting_for_option
    /\ UNCHANGED <<buffer, flags, status, pc, gone, reader, proven>>

Gets(c) == Reading /\ Take /\ ~waiting_for_option /\ NextChar = c

(* The reader's line ends at a CR or an LF; an LF after a CR is part of it.*)
EndOfLine == IF told THEN UNCHANGED reader
                     ELSE meant' = line /\ line' = <<>> /\ UNCHANGED told

GetCr ==
    /\ Gets("CR")
    /\ process_command' = TRUE /\ ignore_lf' = TRUE
    /\ EndOfLine
    /\ UNCHANGED <<waiting_for_option, buffer, status, pc, gone, proven>>

GetLf ==
    /\ Gets("LF")
    /\ IF ignore_lf
         THEN ignore_lf' = FALSE /\ UNCHANGED <<process_command, reader>>
         ELSE process_command' = TRUE /\ EndOfLine /\ UNCHANGED ignore_lf
    /\ UNCHANGED <<waiting_for_option, buffer, status, pc, gone, proven>>

(* Backspace and delete: only the length changes.                          *)
GetBackspace ==
    /\ Gets("BS")
    /\ rx_len' = IF rx_len > 0 THEN rx_len - 1 ELSE 0
    /\ line' = IF line = <<>> THEN <<>> ELSE SubSeq(line, 1, Len(line) - 1)
    /\ UNCHANGED <<rx_buff, waiting_for_option, flags, status, pc, gone, told, meant, proven>>

(* The character and a null after it.                                      *)
Stored == Append(SubSeq(rx_buff, 1, rx_len), NextChar)

GetLetter_OneMore ==
    /\ Gets(NextChar) /\ NextChar \in Letters
    /\ rx_len + 1 < CliRxSize
    /\ rx_buff' = Stored /\ rx_len' = rx_len + 1
    /\ line' = IF told THEN line ELSE Append(line, NextChar)
    /\ UNCHANGED <<waiting_for_option, flags, status, pc, gone, told, meant, proven>>
GetLetter ==
    /\ Gets(NextChar) /\ NextChar \in Letters
    /\ rx_len + 1 < CliRxSize - 1
    /\ rx_buff' = Stored /\ rx_len' = rx_len + 1
    /\ line' = IF told THEN line ELSE Append(line, NextChar)
    /\ UNCHANGED <<waiting_for_option, flags, status, pc, gone, told, meant, proven>>

(* The letter that fills the buffer is stored like the others.             *)
FillsBuffer ==
    /\ Gets(NextChar) /\ NextChar \in Letters
    /\ rx_len + 1 >= CliRxSize - 1
    /\ rx_buff' = Stored /\ rx_len' = rx_len + 1
    /\ pc' = "overflow"
    /\ UNCHANGED <<waiting_for_option, flags, status, gone, reader, proven>>

Read == SkipVerb \/ GetCr \/ GetLf \/ GetBackspace \/ GetLetter \/ FillsBuffer

(* The client has been told, the buffer is emptied, and cli_server returns *)
(* to telnet_tasks, which passes on the channel's status: one that ends    *)
(* the session has done so before.                                         *)
Overflow ==
    /\ pc = "overflow" /\ pc' = "idle"
    /\ rx_buff' = <<>> /\ rx_len' = 0
    /\ line' = <<>> /\ told' = TRUE
    /\ UNCHANGED <<client, waiting_for_option, flags, status, gone, meant, proven>>

-----------------------------------------------------------------------------
(* The line is complete.                                                   *)

Command == Head(rx_buff)
Arguments == Tail(rx_buff)

Clears == /\ rx_buff' = <<>> /\ rx_len' = 0
          /\ told' = FALSE /\ meant' = <<>> /\ UNCHANGED line

EmptyLine ==
    /\ pc = "process" /\ rx_len = 0
    /\ pc' = "idle"
    /\ told' = FALSE /\ meant' = <<>>
    /\ UNCHANGED <<client, waiting_for_option, buffer, flags, status, gone, line, proven>>

(* cli_login compares its first argument with the password; without one    *)
(* there is no match.                                                      *)
LoginStatus == IF Arguments # <<>> /\ Arguments = Password THEN "PASS" ELSE "FAIL"

(* The status is set when the answer has been printed.                     *)
RunLogin ==
    /\ pc = "process" /\ rx_len > 0 /\ Command = Login
    /\ status' = LoginStatus
    /\ pc' = "idle"
    /\ proven' = IF told THEN status' = "PASS" ELSE meant = <<Login>> \o Password
    /\ Clears
    /\ UNCHANGED <<client, waiting_for_option, flags, gone>>

Refused == SecLevel > 1 /\ status # "PASS" /\ Command # Login

(* cli_exit takes no argument that matters here; with one it complains.     *)
Exits == Command = Exit /\ Arguments = <<>>

(* A command other than login and a plain exit changes nothing here: what  *)
(* config and reset do is in ConfigStore.  A prompt is taken to fit its    *)
(* CLI_PROMPT_SIZE characters: cli_prompt copies it whatever its length,   *)
(* and a longer one runs into the status behind it.                        *)
RunOther ==
    /\ pc = "process" /\ rx_len > 0 /\ Command # Login /\ ~Exits /\ ~Refused
    /\ pc' = "idle"
    /\ Clears
    /\ UNCHANGED <<client, waiting_for_option, flags, status, gone, proven>>

Ends(st) ==
    /\ status' = st
    /\ rx_buff' = <<>> /\ rx_len' = 0
    /\ TaskReturns(st)
    /\ UNCHANGED <<waiting_for_option, flags>>

RunExit == pc = "process" /\ rx_len > 0 /\ Exits /\ ~Refused /\ Ends("CLOSE")

Refuse == pc = "process" /\ rx_len > 0 /\ Refused /\ Ends("FAULT")

Process == EmptyLine \/ RunLogin \/ RunOther \/ RunExit \/ Refuse

Turns == CallServer \/ NothingToRead \/ HasLine \/ Read

(* The end of what prints: all that can wait for a client.                 *)
Finishes == Greeted \/ Overflow \/ Process

Call == Turns \/ Finishes

Next == Client \/ StartSession \/ Call

Spec == Init /\ [][Next]_vars

(* The main loop calls the server again and again, and the interpreter runs*)
(* on by itself; what prints gets to its end once the client is gone.  For *)
(* a client that is there, nothing makes it read.                          *)
Fairness == WF_vars(Turns) /\ WF_vars(gone /\ Finishes)

FairSpec == Spec /\ Fairness

-----------------------------------------------------------------------------
TypeOK ==
    /\ input \in Seq(Chars) /\ Len(input) <= MaxInput /\ rest \in Seq(Chars)
    /\ waiting_for_option \in BOOLEAN
    /\ rx_buff \in Seq(Letters)
    /\ Len(rx_buff) <= IF pc = "overflow" THEN CliRxSize - 1 ELSE CliRxSize - 2
    /\ rx_len \in 0 .. Len(rx_buff)
    /\ process_command \in BOOLEAN /\ ignore_lf \in BOOLEAN
    /\ status \in {"CONNECTED", "PASS", "FAIL", "FAULT", "CLOSE"}
    /\ pc \in {"closed", "greeting", "idle", "reading", "overflow", "process"}
    /\ gone \in BOOLEAN /\ (gone => pc = "idle" \/ Prints)
    /\ line \in Seq(Letters) /\ told \in BOOLEAN /\ meant \in Seq(Letters)
    /\ proven \in BOOLEAN

(* The line the interpreter runs is the one this client typed since the    *)
(* end of its last, whole and in order, or the client has been told that   *)
(* its line was too long.                                                  *)
Held == IF rx_len = 0 THEN <<>> ELSE rx_buff
ExecutesWhatWasTyped == pc = "process" => Held = meant \/ told

(* At security level 2 a client that has not typed the right password, or  *)
(* has typed a wrong one since, gets no command run but login: what it     *)
(* tries ends its session (cli_server's gate and telnet_tasks).            *)
GateHolds ==
    [][SecLevel > 1 /\ pc = "process" /\ pc' # "process"
          /\ rx_len > 0 /\ Command # Login /\ ~proven
         => status' = "FAULT" /\ pc' = "closed"]_vars

(* The interpreter does not wait for the end of a line, nor for the LF that*)
(* may follow a CR ("It does not block except to flush output"): a call    *)
(* holds up the main loop only while it prints to a client that is there   *)
(* and does not read, and a client that leaves ends that wait.             *)
CallReturns ==
    /\ pc = "reading" ~> pc \in {"idle", "closed"} \/ (Prints /\ ~gone)
    /\ gone ~> pc \in {"idle", "closed"}
=============================================================================
