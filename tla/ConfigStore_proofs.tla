------------------------ MODULE ConfigStore_proofs ------------------------
(***************************************************************************)
(* Proofs about ConfigStore, for any sets of passwords, levels, numbers    *)
(* and edits.                                                              *)
(***************************************************************************)
EXTENDS ConfigStore, TLAPS

(* A configuration is known by its fields.                                 *)
LEMMA ConfigByFields ==
    ASSUME NEW c, c = [f \in Fields |-> c[f]],
           c["seclevel"] \in Levels, c["password"] \in Passwords,
           c["telnet_timeout"] \in Numbers, c["tcp_tick_ms"] \in Numbers
    PROVE  c \in Configs
  BY DEF Configs, Fields

(* The fields of a configuration, and of an edit where it names them.      *)
LEMMA FieldsOfConfig ==
    ASSUME NEW c \in Configs
    PROVE  /\ c["seclevel"] \in Levels /\ c["password"] \in Passwords
           /\ c["telnet_timeout"] \in Numbers /\ c["tcp_tick_ms"] \in Numbers
  BY DEF Configs

LEMMA FieldsOfEdit ==
    ASSUME NEW e \in CliEdits \cup LwdaqEdits, NEW f \in DOMAIN e
    PROVE  /\ f = "seclevel" => e[f] \in Levels
           /\ f = "password" => e[f] \in Passwords
           /\ f = "telnet_timeout" => e[f] \in Numbers
           /\ f = "tcp_tick_ms" => e[f] \in Numbers
  <1>1. PICK c \in Configs : \A g \in DOMAIN e : e[g] = c[g]
    BY ConfigAssumption DEF IsEdit
  <1> QED
    BY <1>1, FieldsOfConfig

LEMMA FactoryIsConfig == eem_config_factory \in Configs
  BY ConfigAssumption DEF eem_config_factory, Configs

(* Reading flash gives a configuration, whatever is there.                 *)
LEMMA ReadIsConfig ==
    ASSUME NEW f \in Configs \cup {Erased}
    PROVE  eem_config_read(f) \in Configs
  BY FactoryIsConfig DEF eem_config_read

(* Applying part of an edit to a configuration gives a configuration.      *)
LEMMA PartIsConfig ==
    ASSUME NEW base \in Configs, NEW e \in CliEdits \cup LwdaqEdits,
           NEW part \in SUBSET DOMAIN e
    PROVE  [f \in Fields |-> IF f \in part THEN e[f] ELSE base[f]] \in Configs
  <1> DEFINE c == [f \in Fields |-> IF f \in part THEN e[f] ELSE base[f]]
  <1>1. c["seclevel"] \in Levels /\ c["password"] \in Passwords
    BY FieldsOfConfig, FieldsOfEdit DEF Fields
  <1>2. c["telnet_timeout"] \in Numbers /\ c["tcp_tick_ms"] \in Numbers
    BY FieldsOfConfig, FieldsOfEdit DEF Fields
  <1>3. c = [f \in Fields |-> c[f]]
    OBVIOUS
  <1> QED
    BY <1>1, <1>2, <1>3, ConfigByFields

LEMMA EditedIsConfig ==
    ASSUME NEW base \in Configs, NEW e \in CliEdits \cup LwdaqEdits
    PROVE  Edited(base, e) \in Configs
  BY PartIsConfig DEF Edited

LEMMA LwdaqEditedAreConfigs ==
    ASSUME NEW base \in Configs, NEW e \in LwdaqEdits
    PROVE  LwdaqEdited(base, e) \subseteq Configs
  BY PartIsConfig DEF LwdaqEdited

-----------------------------------------------------------------------------
(* Types.  A command runs, and its record is written, only after the       *)
(* active configuration was loaded.                                        *)
Serving == pc = "run" \/ (pc \in {"erase", "row"} /\ return = "run")
Loaded == Serving => eem_config_active \in Configs

TypeInv == TypeOK /\ Loaded

LEMMA TypeInit == Init => TypeInv
  BY FactoryIsConfig
  DEF Init, TypeInv, TypeOK, Loaded, Serving, Channels, CliChannels, Closed, Unproven, Statuses

LEMMA BecomesTyped ==
    ASSUME TypeInv, pc = "run", NEW c \in Channels, NEW st \in Statuses,
           NEW shown \in BOOLEAN, Becomes(c, st, shown)
    PROVE  TypeInv'
  BY DEF TypeInv, TypeOK, Loaded, Serving, Becomes, write, asked

LEMMA SessionTyped ==
    ASSUME TypeInv, NEW c \in Channels, Session(c)
    PROVE  TypeInv'
  <1>1. CASE Connect(c)
    BY <1>1, BecomesTyped DEF Connect, Statuses
  <1>2. CASE Disconnect(c)
    BY <1>2, BecomesTyped DEF Disconnect, Open, Statuses
  <1>3. CASE Refused(c)
    BY <1>3, BecomesTyped DEF Refused, Open, Statuses, TypeInv, TypeOK
  <1>4. CASE Reset(c)
    BY <1>4
    DEF Reset, Stops, TypeInv, TypeOK, Loaded, Serving, Closed, Unproven, Statuses, write, asked
  <1>5. ASSUME NEW password \in Passwords, CliLogin(c, password)
        PROVE  TypeInv'
    BY <1>5, BecomesTyped DEF CliLogin, Login, Open, Statuses
  <1> QED
    BY <1>1, <1>2, <1>3, <1>4, <1>5 DEF Session

LEMMA ByCommandTyped ==
    ASSUME TypeInv, pc = "run", NEW c \in Channels, NEW config \in Configs,
           NEW want \in SUBSET Configs, ByCommand(c, config, want)
    PROVE  TypeInv'
  BY DEF TypeInv, TypeOK, Loaded, Serving, ByCommand, Write

LEMMA ChangeTyped ==
    ASSUME TypeInv, Change
    PROVE  TypeInv'
  <1>1. ASSUME NEW c \in CliChannels, NEW e \in CliEdits, ConfigSet(c, e)
        PROVE  TypeInv'
    <2>1. PICK config \in CliEdited(eem_config_read(flash), e) :
             ByCommand(c, config, {Edited(eem_config_read(flash), e)})
      BY <1>1 DEF ConfigSet
    <2>2. Edited(eem_config_read(flash), e) \in Configs
      BY ReadIsConfig, EditedIsConfig DEF TypeInv, TypeOK
    <2> QED
      BY <1>1, <2>1, <2>2, ByCommandTyped DEF ConfigSet, Open, CliEdited, Channels
  <1>2. ASSUME NEW c \in CliChannels, ConfigReplace(c)
        PROVE  TypeInv'
    <2>1. eem_config_active \in Configs /\ pc = "run"
      BY <1>2 DEF ConfigReplace, Open, TypeInv, Loaded, Serving
    <2>2. PICK source \in {eem_config_active, eem_config_factory} : ByCommand(c, source, {source})
      BY <1>2 DEF ConfigReplace
    <2> QED
      BY <2>1, <2>2, FactoryIsConfig, ByCommandTyped DEF Channels
  <1>3. ASSUME NEW e \in LwdaqEdits, ConfigWrite(e)
        PROVE  TypeInv'
    <2>1. eem_config_active \in Configs /\ pc = "run"
      BY <1>3 DEF ConfigWrite, Open, TypeInv, Loaded, Serving
    <2>2. PICK config \in LwdaqEdited(eem_config_active, e) :
             ByCommand("lwdaq", config, LwdaqEdited(eem_config_read(flash), e))
      BY <1>3 DEF ConfigWrite
    <2>3. LwdaqEdited(eem_config_read(flash), e) \subseteq Configs
      BY ReadIsConfig, LwdaqEditedAreConfigs DEF TypeInv, TypeOK
    <2> QED
      BY <2>1, <2>2, <2>3, LwdaqEditedAreConfigs, ByCommandTyped DEF Channels
  <1> QED
    BY <1>1, <1>2, <1>3 DEF Change

LEMMA TypeStep == TypeInv /\ [Next]_vars => TypeInv'
  <1> SUFFICES ASSUME TypeInv, [Next]_vars PROVE TypeInv'
    OBVIOUS
  <1> USE DEF TypeInv, TypeOK, Loaded, Serving, write, asked
  <1>1. CASE PageErase
    BY <1>1 DEF PageErase
  <1>2. CASE RowWrite
    BY <1>2 DEF RowWrite
  <1>3. CASE PowerFails
    BY <1>3 DEF PowerFails, Stops, Closed, Unproven, Statuses
  <1>4. CASE Startup
    <2>1. CASE PowerReturns
      BY <2>1 DEF PowerReturns
    <2>2. CASE Load
      BY <2>2, ReadIsConfig DEF Load, Closed, Unproven, Statuses
    <2>3. ASSUME NEW depressed \in BOOLEAN, CheckSwitch(depressed)
          PROVE  TypeInv'
      BY <2>3, FactoryIsConfig DEF CheckSwitch, Write
    <2> QED
      BY <1>4, <2>1, <2>2, <2>3 DEF Startup
  <1>5. CASE \E c \in Channels : Session(c)
    BY <1>5, SessionTyped
  <1>6. CASE ConsoleExits
    BY <1>6, BecomesTyped DEF ConsoleExits, Open, Statuses, Channels, CliChannels
  <1>7. ASSUME NEW password \in Passwords, LwdaqLogin(password)
        PROVE  TypeInv'
    BY <1>7, BecomesTyped DEF LwdaqLogin, Login, Open, Statuses, Channels
  <1>8. CASE Change
    BY <1>8, ChangeTyped
  <1>9. CASE UNCHANGED vars
    BY <1>9 DEF vars
  <1> QED
    BY <1>1, <1>2, <1>3, <1>4, <1>5, <1>6, <1>7, <1>8, <1>9 DEF Next

LEMMA TypeHolds == Spec => []TypeInv
  BY TypeInit, TypeStep, PTL DEF Spec

(* Flash, the active record and the record being written stay whole        *)
(* configurations (or nothing), whatever eem_config_write is called with.  *)
THEOREM ConfigTypeCorrect == Spec => []TypeOK
  BY TypeHolds, PTL DEF TypeInv

-----------------------------------------------------------------------------
(* The password.  A channel is logged in only if its user showed the       *)
(* password; then nobody else can begin to write.                          *)
LoggedInIsProven == \A c \in Channels : status[c] = "PASS" => proven[c]

GuardInv == LoggedInIsProven /\ ChangesNeedThePassword

LEMMA GuardInit == Init => GuardInv
  BY DEF Init, GuardInv, LoggedInIsProven, ChangesNeedThePassword, Closed

LEMMA BecomesGuarded ==
    ASSUME TypeInv, GuardInv, pc = "run", NEW c \in Channels, NEW st \in Statuses,
           NEW shown \in BOOLEAN, st = "PASS" => shown, Becomes(c, st, shown)
    PROVE  GuardInv'
  BY DEF TypeInv, TypeOK, GuardInv, LoggedInIsProven, ChangesNeedThePassword, Becomes, write, asked

LEMMA SessionGuarded ==
    ASSUME TypeInv, GuardInv, NEW c \in Channels, Session(c)
    PROVE  GuardInv'
  <1>1. CASE Connect(c)
    BY <1>1, BecomesGuarded DEF Connect, Statuses
  <1>2. CASE Disconnect(c)
    BY <1>2, BecomesGuarded DEF Disconnect, Open, Statuses
  <1>3. CASE Refused(c)
    BY <1>3, BecomesGuarded DEF Refused, Open, Statuses, TypeInv, TypeOK
  <1>4. CASE Reset(c)
    BY <1>4
    DEF Reset, Stops, GuardInv, LoggedInIsProven, ChangesNeedThePassword, Closed, write, asked
  <1>5. ASSUME NEW password \in Passwords, CliLogin(c, password)
        PROVE  GuardInv'
    BY <1>5, BecomesGuarded DEF CliLogin, Login, Open, Statuses
  <1> QED
    BY <1>1, <1>2, <1>3, <1>4, <1>5 DEF Session

LEMMA ByCommandGuarded ==
    ASSUME TypeInv, GuardInv, NEW c \in Channels, NEW config, NEW want,
           Open(c), MayConfigure(c), ByCommand(c, config, want)
    PROVE  GuardInv'
  <1>1. eem_config_active.seclevel \in Nat
    BY FieldsOfConfig, ConfigAssumption DEF TypeInv, Loaded, Serving, Open
  <1> QED
    BY <1>1 DEF GuardInv, LoggedInIsProven, ChangesNeedThePassword, MayConfigure,
                ByCommand, Write

LEMMA GuardStep == TypeInv /\ GuardInv /\ [Next]_vars => GuardInv'
  <1> SUFFICES ASSUME TypeInv, GuardInv, [Next]_vars PROVE GuardInv'
    OBVIOUS
  <1> USE DEF GuardInv, LoggedInIsProven, ChangesNeedThePassword, write, asked
  <1>1. CASE PageErase
    BY <1>1 DEF PageErase
  <1>2. CASE RowWrite
    BY <1>2 DEF RowWrite, TypeInv, TypeOK
  <1>3. CASE PowerFails
    BY <1>3 DEF PowerFails, Stops, Closed
  <1>4. CASE Startup
    <2>1. CASE PowerReturns
      BY <2>1 DEF PowerReturns
    <2>2. CASE Load
      BY <2>2 DEF Load, Closed, Unproven, Channels, CliChannels
    <2>3. ASSUME NEW depressed \in BOOLEAN, CheckSwitch(depressed)
          PROVE  GuardInv'
      BY <2>3 DEF CheckSwitch, Write
    <2> QED
      BY <1>4, <2>1, <2>2, <2>3 DEF Startup
  <1>5. CASE \E c \in Channels : Session(c)
    BY <1>5, SessionGuarded
  <1>6. CASE ConsoleExits
    BY <1>6, BecomesGuarded DEF ConsoleExits, Open, Statuses, Channels, CliChannels, TypeInv, TypeOK
  <1>7. ASSUME NEW password \in Passwords, LwdaqLogin(password)
        PROVE  GuardInv'
    BY <1>7, BecomesGuarded DEF LwdaqLogin, Login, Open, Statuses, Channels
  <1>8. CASE Change
    BY <1>8, ByCommandGuarded DEF Change, ConfigSet, ConfigReplace, ConfigWrite, Channels
  <1>9. CASE UNCHANGED vars
    BY <1>9 DEF vars
  <1> QED
    BY <1>1, <1>2, <1>3, <1>4, <1>5, <1>6, <1>7, <1>8, <1>9 DEF Next

(* The gates of cli_config, cli_server and CONFIG_WRITE together: at       *)
(* security level 1 or 2 flash is written only for a user who gave the     *)
(* password, or for the console.                                           *)
THEOREM ChangesAreGuarded == Spec => []ChangesNeedThePassword
  <1>1. Spec => []GuardInv
    BY TypeHolds, GuardInit, GuardStep, PTL DEF Spec
  <1> QED
    BY <1>1, PTL DEF GuardInv

-----------------------------------------------------------------------------
(* What flash holds, except between the erasure and the row.               *)
FlashIsKnown ==
    IF pc = "row" THEN flash = Erased
    ELSE eem_config_read(flash) = IF cut THEN eem_config_factory ELSE whole

LEMMA FlashInit == Init => FlashIsKnown
  BY DEF Init, FlashIsKnown, eem_config_read

LEMMA FlashStep == TypeInv /\ FlashIsKnown /\ [Next]_vars => FlashIsKnown'
  <1> SUFFICES ASSUME TypeInv, FlashIsKnown, [Next]_vars PROVE FlashIsKnown'
    OBVIOUS
  <1>1. CASE PageErase
    BY <1>1 DEF PageErase, FlashIsKnown
  <1>2. CASE RowWrite
    <2>1. buff # Erased /\ return # "row"
      BY ConfigAssumption DEF TypeInv, TypeOK
    <2> QED
      BY <1>2, <2>1 DEF RowWrite, FlashIsKnown, eem_config_read
  <1>3. CASE PowerFails
    BY <1>3 DEF PowerFails, Stops, FlashIsKnown, eem_config_read
  <1>4. CASE Startup
    BY <1>4 DEF Startup, PowerReturns, Load, CheckSwitch, Write, FlashIsKnown
  <1>5. ASSUME NEW c \in Channels, NEW st, NEW shown, pc = "run", Becomes(c, st, shown)
        PROVE  FlashIsKnown'
    BY <1>5 DEF Becomes, FlashIsKnown
  <1>6. CASE \E c \in Channels : Session(c)
    <2>1. ASSUME NEW c \in Channels, Reset(c)
          PROVE  FlashIsKnown'
      BY <2>1 DEF Reset, Open, Stops, FlashIsKnown
    <2> QED
      BY <1>5, <1>6, <2>1 DEF Session, Connect, Disconnect, Refused, CliLogin, Login, Open
  <1>7. CASE ConsoleExits
    BY <1>5, <1>7 DEF ConsoleExits, Open, Channels, CliChannels
  <1>8. ASSUME NEW password \in Passwords, LwdaqLogin(password)
        PROVE  FlashIsKnown'
    BY <1>5, <1>8 DEF LwdaqLogin, Login, Open, Channels
  <1>9. ASSUME NEW c, NEW config, NEW want, pc = "run", ByCommand(c, config, want)
        PROVE  FlashIsKnown'
    BY <1>9 DEF ByCommand, Write, FlashIsKnown
  <1>10. CASE Change
    BY <1>9, <1>10 DEF Change, ConfigSet, ConfigReplace, ConfigWrite, Open
  <1>11. CASE UNCHANGED vars
    BY <1>11 DEF vars, FlashIsKnown
  <1> QED
    BY <1>1, <1>2, <1>3, <1>4, <1>6, <1>7, <1>8, <1>10, <1>11 DEF Next

(* eem_config_read at start-up, after any sequence of writes, resets and   *)
(* losses of power.                                                        *)
THEOREM StartsWithTheLastWholeRecord == Spec => BootsWhatWasWritten
  <1> DEFINE Boot == pc = "load" /\ pc' = "run"
                       => eem_config_active' = IF cut THEN eem_config_factory ELSE whole
  <1>1. FlashIsKnown /\ TypeInv /\ [Next]_vars => [Boot]_vars
    <2> SUFFICES ASSUME FlashIsKnown, [Next]_vars, pc = "load", pc' = "run"
                 PROVE  eem_config_active' = IF cut THEN eem_config_factory ELSE whole
      OBVIOUS
    <2>1. Load
      BY DEF Next, PageErase, RowWrite, PowerFails, Startup, PowerReturns, CheckSwitch, Write,
             Stops, Session, Connect, Disconnect, Refused, CliLogin, LwdaqLogin, Login, Reset,
             ConsoleExits, Open, Change, ConfigSet, ConfigReplace, ConfigWrite, vars
    <2> QED
      BY <2>1 DEF Load, FlashIsKnown
  <1>2. Spec => []FlashIsKnown
    BY TypeHolds, FlashInit, FlashStep, PTL DEF Spec
  <1> QED
    BY <1>1, <1>2, TypeHolds, PTL DEF Spec, BootsWhatWasWritten

-----------------------------------------------------------------------------
(* Updates.  UpdatesNamedFields fails when CONFIG_WRITE starts from an     *)
(* active record that is no longer the one in flash, and when config set   *)
(* is given an option that writes another field: in no other way.          *)

UpToDate == eem_config_active = eem_config_read(flash)
Updates == author # "lwdaq" \/ UpToDate => UpdatesNamedFields
TrueOptions == \A e \in CliEdits : "tcp_tick_ms" \notin DOMAIN e

LEMMA CliEditedIsEdited ==
    ASSUME TrueOptions, NEW base \in Configs, NEW e \in CliEdits, NEW c \in CliEdited(base, e)
    PROVE  c = Edited(base, e)
  <1>1. DOMAIN e \subseteq Fields /\ \A o \in DOMAIN e : Target(o) = o
    BY ConfigAssumption DEF IsEdit, TrueOptions, Target
  <1>2. c = [f \in Fields |-> c[f]]
    BY DEF CliEdited, Configs, Fields
  <1>3. ASSUME NEW f \in Fields PROVE c[f] = IF f \in DOMAIN e THEN e[f] ELSE base[f]
    <2> DEFINE options == {o \in DOMAIN e : Target(o) = f}
    <2>1. IF options = {} THEN c[f] = base[f] ELSE \E o \in options : c[f] = e[o]
      BY DEF CliEdited
    <2>2. options = IF f \in DOMAIN e THEN {f} ELSE {}
      BY <1>1
    <2> QED
      BY <2>1, <2>2
  <1> QED
    BY <1>2, <1>3 DEF Edited

LEMMA UpdatesStep == TrueOptions /\ TypeInv /\ Updates /\ [Next]_vars => Updates'
  <1> SUFFICES ASSUME TrueOptions, TypeInv, Updates, [Next]_vars,
                      pc' = "erase", return' = "run", author' # "lwdaq" \/ UpToDate'
               PROVE  buff' \in wanted'
    BY DEF Updates, UpdatesNamedFields
  <1>1. CASE UNCHANGED vars
    BY <1>1 DEF vars, write, asked, Updates, UpdatesNamedFields, UpToDate
  <1>2. ASSUME NEW c \in CliChannels, NEW e \in CliEdits, ConfigSet(c, e)
        PROVE  buff' \in wanted'
    <2>1. PICK config \in CliEdited(eem_config_read(flash), e) :
             ByCommand(c, config, {Edited(eem_config_read(flash), e)})
      BY <1>2 DEF ConfigSet
    <2>2. eem_config_read(flash) \in Configs
      BY ReadIsConfig DEF TypeInv, TypeOK
    <2>3. config = Edited(eem_config_read(flash), e)
      BY <2>1, <2>2, CliEditedIsEdited
    <2> QED
      BY <2>1, <2>3 DEF ByCommand, Write
  <1>3. ASSUME NEW c \in CliChannels, ConfigReplace(c) PROVE buff' \in wanted'
    BY <1>3 DEF ConfigReplace, ByCommand, Write
  <1>4. ASSUME NEW e \in LwdaqEdits, ConfigWrite(e) PROVE buff' \in wanted'
    <2>1. PICK config \in LwdaqEdited(eem_config_active, e) :
             ByCommand("lwdaq", config, LwdaqEdited(eem_config_read(flash), e))
      BY <1>4 DEF ConfigWrite
    <2>2. eem_config_active = eem_config_read(flash)
      BY <2>1 DEF ByCommand, UpToDate
    <2> QED
      BY <2>1, <2>2 DEF ByCommand, Write
  <1>5. Change \/ UNCHANGED vars
    BY ConfigAssumption
    DEF Next, PageErase, RowWrite, PowerFails, Startup, PowerReturns, Load, CheckSwitch, Write,
        Stops, Session, Connect, Disconnect, Refused, CliLogin, LwdaqLogin, Login, Reset,
        ConsoleExits, Open, Becomes, Change, TypeInv, TypeOK
  <1> QED
    BY <1>1, <1>2, <1>3, <1>4, <1>5 DEF Change

(***************************************************************************)
(* As long as the active record is the one in flash, and for a command     *)
(* line always, a command changes the fields that it names and no others,  *)
(* if it does not name tcp_tick_ms: what UpdatesNamedFields is violated    *)
(* by is the stale base of CONFIG_WRITE (lwdaq.c:561) and the option that  *)
(* writes another field (server.c:1145), and nothing else.                 *)
(***************************************************************************)
THEOREM UpdatesOfWhatIsCurrent ==
    ASSUME TrueOptions
    PROVE  Spec => [](author # "lwdaq" \/ UpToDate => UpdatesNamedFields)
  <1>1. Init => Updates
    BY DEF Init, Updates, UpdatesNamedFields
  <1> QED
    BY <1>1, TypeHolds, UpdatesStep, PTL DEF Spec, Updates
=============================================================================
