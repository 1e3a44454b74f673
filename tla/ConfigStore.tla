---------------------------- MODULE ConfigStore ----------------------------
(***************************************************************************)
(* The configuration of the module: the factory record in the program, the *)
(* record in flash and the active one, those who change the record in      *)
(* flash (the config command on a command-line channel, CONFIG_WRITE on a  *)
(* LWDAQ connection, the configuration switch at start-up), the security   *)
(* level that guards them, and resets and losses of power at any moment.   *)
(*                                                                         *)
(* One thread writes flash, waiting for each operation, so that nothing    *)
(* but a loss of power comes between the erasure of the page and the       *)
(* writing of the row.  A row is taken to be written whole or not at all:  *)
(* what it holds when power goes during the writing is a matter of the     *)
(* microcontroller.                                                        *)
(*                                                                         *)
(* A configuration is cut down to the fields that other code acts on or    *)
(* that two writers treat differently.                                     *)
(*                                                                         *)
(* whole, cut, proven, author and wanted are not in the code.              *)
(***************************************************************************)
EXTENDS Naturals

CONSTANTS
    Passwords, FactoryPassword,
    Levels,        \* security levels in use
    Numbers, FactoryNumber, \* values of the numeric fields
    CliEdits,      \* what a config command may set: functions from its options to values
    LwdaqEdits,    \* what a configuration string may set
    Erased,        \* flash without the magic string
    None           \* static storage before it is loaded

Fields == {"seclevel", "password", "telnet_timeout", "tcp_tick_ms"}

Configs == [seclevel : Levels, password : Passwords,
            telnet_timeout : Numbers, tcp_tick_ms : Numbers]

(* An edit names some fields, with a value for each.                       *)
IsEdit(e) == DOMAIN e \subseteq Fields /\ \E c \in Configs : \A f \in DOMAIN e : e[f] = c[f]

ASSUME ConfigAssumption ==
    /\ Levels \subseteq Nat /\ 0 \in Levels
    /\ FactoryPassword \in Passwords /\ FactoryNumber \in Numbers
    /\ \A e \in CliEdits \cup LwdaqEdits : IsEdit(e)
    /\ Erased \notin Configs /\ None \notin Configs

eem_config_factory == [seclevel |-> 0, password |-> FactoryPassword,
                       telnet_timeout |-> FactoryNumber, tcp_tick_ms |-> FactoryNumber]

CliChannels == {"console", "telnet"}
Channels == CliChannels \cup {"lwdaq"}

VARIABLES
    flash, eem_config_active,
    pc,        \* "off", "boot", "load", "run", and in pic_flash_putbytes "erase", "row"
    buff, return, \* its argument, and where it returns to
    status,    \* of each channel; for the LWDAQ connection "PASS" is logged_in
    whole,     \* the record last written to the end
    cut,       \* power went between the erasure and the row of the last write
    proven,    \* the user of the channel gave the password, and no wrong one since
    author,    \* the channel whose command is being written
    wanted     \* the records its command asks for

write == <<buff, return>>
asked == <<author, wanted>>
vars == <<flash, eem_config_active, pc, write, status, whole, cut, proven, asked>>

Closed == [c \in Channels |-> "CLOSED"]
Unproven == [c \in Channels |-> FALSE]

Init ==
    /\ flash = Erased /\ eem_config_active = None
    /\ pc = "off" /\ buff = eem_config_factory /\ return = "load"
    /\ status = Closed
    /\ whole = eem_config_factory /\ cut = FALSE
    /\ proven = Unproven /\ author = "console" /\ wanted = {eem_config_factory}

-----------------------------------------------------------------------------
(* Flash.                                                                  *)

eem_config_read_Raw(f) == f

(* eem_config_read: without the magic string, the factory configuration.   *)
eem_config_read(f) == IF f = Erased THEN eem_config_factory ELSE f

(* eem_config_write is called and will return to r.                        *)
Write(config, r) == buff' = config /\ return' = r /\ pc' = "erase"

PageErase ==
    /\ pc = "erase" /\ pc' = "row"
    /\ flash' = Erased
    /\ UNCHANGED <<eem_config_active, write, status, whole, cut, proven, asked>>

RowWrite ==
    /\ pc = "row" /\ pc' = return
    /\ flash' = buff
    /\ whole' = buff /\ cut' = FALSE
    /\ UNCHANGED <<eem_config_active, write, status, proven, asked>>

-----------------------------------------------------------------------------
(* Power, reset and start-up.                                              *)

Stops(next) ==
    /\ pc' = next
    /\ eem_config_active' = None
    /\ status' = Closed /\ proven' = Unproven
    /\ UNCHANGED <<flash, write, whole, asked>>

PowerFails == pc # "off" /\ Stops("off") /\ cut' = (cut \/ pc = "row")

PowerReturns ==
    /\ pc = "off" /\ pc' = "boot"
    /\ UNCHANGED <<flash, eem_config_active, write, status, whole, cut, proven, asked>>

CheckSwitch(depressed) ==
    /\ pc = "boot"
    /\ IF depressed THEN Write(eem_config_factory, "load")
                    ELSE pc' = "load" /\ UNCHANGED write
    /\ UNCHANGED <<flash, eem_config_active, status, whole, cut, proven, asked>>

(* The console starts out logged in.                                       *)
Load ==
    /\ pc = "load" /\ pc' = "run"
    /\ eem_config_active' = eem_config_read(flash)
    /\ status' = [Closed EXCEPT !["console"] = "PASS"]
    /\ proven' = [Unproven EXCEPT !["console"] = TRUE]
    /\ UNCHANGED <<flash, write, whole, cut, asked>>

-----------------------------------------------------------------------------
(* Channels.                                                               *)

Open(c) == pc = "run" /\ status[c] # "CLOSED"

(* The channel's status and what its user has shown, nothing else.         *)
Becomes(c, st, shown) ==
    /\ status' = [status EXCEPT ![c] = st]
    /\ proven' = [proven EXCEPT ![c] = shown]
    /\ UNCHANGED <<flash, eem_config_active, pc, write, whole, cut, asked>>

Connect_StillLoggedIn(c) ==
    /\ pc = "run" /\ c # "console" /\ status[c] = "CLOSED"
    /\ \E st \in {"CONNECTED", "PASS"} : Becomes(c, st, FALSE)
Connect(c) ==
    /\ pc = "run" /\ c # "console" /\ status[c] = "CLOSED"
    /\ Becomes(c, "CONNECTED", FALSE)

(* The connection ends for any reason.                                     *)
Disconnect(c) == c # "console" /\ Open(c) /\ Becomes(c, "CLOSED", FALSE)

(* A failed login leaves the connection open.                              *)
Login(c, password) ==
    /\ Open(c)
    /\ IF password = eem_config_active.password
         THEN Becomes(c, "PASS", TRUE)
         ELSE Becomes(c, "FAIL", FALSE)

CliLogin(c, password) == c \in CliChannels /\ Login(c, password)
LwdaqLogin(password) == Login("lwdaq", password)

MayConfigure(c) == eem_config_active.seclevel = 0 \/ status[c] = "PASS"

(* A command that is refused sets CLI_FAULT, on which telnet_tasks, but    *)
(* not the console, ends the connection; the LWDAQ task ends it at once.   *)
Refused(c) ==
    /\ Open(c) /\ ~MayConfigure(c)
    /\ IF c = "console" THEN Becomes(c, "FAULT", proven[c])
                        ELSE Becomes(c, "CLOSED", FALSE)

(* exit: nobody acts on the console's status but the gates.                *)
ConsoleExits == Open("console") /\ Becomes("console", "CLOSE", proven["console"])

(* reset and REBOOT.  The command line lets anybody reset below level 2.   *)
Reset(c) ==
    /\ Open(c)
    /\ MayConfigure(c) \/ (c \in CliChannels /\ eem_config_active.seclevel < 2)
    /\ Stops("boot") /\ UNCHANGED cut

-----------------------------------------------------------------------------
(* Changes of the record in flash.                                         *)

(* The configurations that differ from base in the named fields only.      *)
Edited(base, e) == [f \in Fields |-> IF f \in DOMAIN e THEN e[f] ELSE base[f]]

(* Which field an option of the config command writes.                     *)
Target(option) == IF option = "tcp_tick_ms" THEN "telnet_timeout" ELSE option

(* What cli_config leaves in its record: of two options that write the     *)
(* same field, the one that comes last counts.                             *)
CliEdited(base, e) ==
    {c \in Configs : \A f \in Fields :
        LET options == {o \in DOMAIN e : Target(o) = f}
        IN IF options = {} THEN c[f] = base[f] ELSE \E o \in options : c[f] = e[o]}

LwdaqEdited_NoBase(base, e) == {[f \in part |-> e[f]] : part \in SUBSET DOMAIN e}

(* What lwdaq_config_from_str leaves in its record: it stops at a line it  *)
(* cannot read, and its caller does not look at the error.                 *)
LwdaqEdited(base, e) ==
    {[f \in Fields |-> IF f \in part THEN e[f] ELSE base[f]] : part \in SUBSET DOMAIN e}

ByCommand(c, config, want) ==
    /\ Write(config, "run")
    /\ author' = c /\ wanted' = want
    /\ UNCHANGED <<flash, eem_config_active, status, whole, cut, proven>>

ConfigSet(c, e) ==
    /\ c \in CliChannels /\ Open(c) /\ MayConfigure(c)
    /\ \E config \in CliEdited(eem_config_read(flash), e) :
          ByCommand(c, config, {Edited(eem_config_read(flash), e)})

(* config set --replace: other options of the command are lost.            *)
ConfigReplace(c) ==
    /\ c \in CliChannels /\ Open(c) /\ MayConfigure(c)
    /\ \E source \in {eem_config_active, eem_config_factory} :
          ByCommand(c, source, {source})

(* CONFIG_WRITE starts from the active configuration.                      *)
ConfigWrite(e) ==
    /\ Open("lwdaq") /\ MayConfigure("lwdaq")
    /\ \E config \in LwdaqEdited(eem_config_active, e) :
          ByCommand("lwdaq", config, LwdaqEdited(eem_config_read(flash), e))

-----------------------------------------------------------------------------
Startup == PowerReturns \/ Load \/ \E depressed \in BOOLEAN : CheckSwitch(depressed)

Session(c) ==
    \/ Connect(c) \/ Disconnect(c) \/ Refused(c) \/ Reset(c)
    \/ \E password \in Passwords : CliLogin(c, password)

Change ==
    \/ \E c \in CliChannels : \E e \in CliEdits : ConfigSet(c, e)
    \/ \E c \in CliChannels : ConfigReplace(c)
    \/ \E e \in LwdaqEdits : ConfigWrite(e)

Next ==
    \/ PageErase \/ RowWrite \/ PowerFails \/ Startup
    \/ (\E c \in Channels : Session(c)) \/ ConsoleExits
    \/ \E password \in Passwords : LwdaqLogin(password)
    \/ Change

Spec == Init /\ [][Next]_vars

-----------------------------------------------------------------------------
Statuses == {"CLOSED", "CONNECTED", "PASS", "FAIL", "FAULT", "CLOSE"}

TypeOK ==
    /\ flash \in Configs \cup {Erased}
    /\ eem_config_active \in Configs \cup {None}
    /\ pc \in {"off", "boot", "load", "run", "erase", "row"}
    /\ buff \in Configs /\ return \in {"load", "run"}
    /\ status \in [Channels -> Statuses]
    /\ whole \in Configs /\ cut \in BOOLEAN
    /\ proven \in [Channels -> BOOLEAN]
    /\ author \in Channels /\ wanted \subseteq Configs

(* Whatever happened before, the module starts with the record that was    *)
(* last written to the end, or with the factory configuration if power     *)
(* went in the middle of a later write: never with part of a record, nor   *)
(* with an older one.                                                      *)
BootsWhatWasWritten ==
    [][pc = "load" /\ pc' = "run"
         => eem_config_active' = IF cut THEN eem_config_factory ELSE whole]_vars

(* At security level 1 or 2 the record in flash is changed on behalf of    *)
(* nobody but a user who gave the password of the active configuration, on *)
(* the same connection and no wrong one since, or of the console, which    *)
(* starts logged in.                                                       *)
ChangesNeedThePassword ==
    pc \in {"erase", "row"} /\ return = "run" /\ eem_config_active.seclevel > 0
      => proven[author]

(* A command that names some fields changes those, as it says, and leaves  *)
(* the others in flash as they were.                                       *)
UpdatesNamedFields == pc = "erase" /\ return = "run" => buff \in wanted
=============================================================================
