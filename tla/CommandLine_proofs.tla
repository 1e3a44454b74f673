------------------------- MODULE CommandLine_proofs -------------------------
(***************************************************************************)
(* Proofs about the command line, for every set of letters, every password *)
(* and every size of the receive buffer.  Its type holds whatever clients  *)
(* type; that lines are run as they were typed, and what rests on it, for  *)
(* clients that type a letter after they have deleted: a line that ends    *)
(* with a deletion, or with a lone CR, is the one way to make the          *)
(* interpreter run something else.                                         *)
(***************************************************************************)
EXTENDS CommandLine, TLAPS

-----------------------------------------------------------------------------
(* Facts about sequences.                                                  *)

LEMMA TailType == ASSUME NEW S, NEW s \in Seq(S), s # <<>>
                  PROVE  /\ Head(s) \in S /\ Head(s) = s[1]
                         /\ Tail(s) \in Seq(S) /\ Len(Tail(s)) = Len(s) - 1 /\ Len(s) > 0
                         /\ \A i \in 1 .. Len(s) - 1 : Tail(s)[i] = s[i + 1]
  OBVIOUS

LEMMA AppendType == ASSUME NEW S, NEW s \in Seq(S), NEW c \in S
                    PROVE  /\ Append(s, c) \in Seq(S) /\ Len(Append(s, c)) = Len(s) + 1
                           /\ \A i \in 1 .. Len(s) : Append(s, c)[i] = s[i]
                           /\ Append(s, c)[Len(s) + 1] = c
  OBVIOUS

LEMMA PrefixType == ASSUME NEW S, NEW s \in Seq(S), NEW n \in 0 .. Len(s)
                    PROVE  /\ SubSeq(s, 1, n) \in Seq(S) /\ Len(SubSeq(s, 1, n)) = n
                           /\ n = Len(s) => SubSeq(s, 1, n) = s
  <1>1. SubSeq(s, 1, n) \in Seq(S) /\ Len(SubSeq(s, 1, n)) = n
    OBVIOUS
  <1>2. ASSUME n = Len(s) PROVE SubSeq(s, 1, n) = s
    BY <1>2
  <1> QED
    BY <1>1, <1>2

LEMMA PrefixOfPrefix ==
  ASSUME NEW S, NEW s \in Seq(S), NEW n \in 0 .. Len(s)
  PROVE  /\ n = 0 => SubSeq(s, 1, n) = <<>>
         /\ n > 0 => /\ SubSeq(s, 1, n) # <<>>
                     /\ SubSeq(SubSeq(s, 1, n), 1, n - 1) = SubSeq(s, 1, n - 1)
  <1>1. CASE n = 0
    BY <1>1
  <1>2. CASE n > 0
    <2>1. SubSeq(s, 1, n) # <<>>
      BY <1>2
    <2>2. SubSeq(SubSeq(s, 1, n), 1, n - 1) = SubSeq(s, 1, n - 1)
      BY <1>2
    <2> QED
      BY <1>2, <2>1, <2>2
  <1> QED
    BY <1>1, <1>2

LEMMA EmptyType == ASSUME NEW S PROVE <<>> \in Seq(S) /\ Len(<<>>) = 0
  OBVIOUS

-----------------------------------------------------------------------------
(* The type invariant.                                                     *)

LEMMA Nothing == <<>> \in Seq(Chars) /\ <<>> \in Seq(Letters) /\ Len(<<>>) = 0
  BY EmptyType

LEMMA TypeInit == Init => TypeOK
  <1> SUFFICES ASSUME Init PROVE TypeOK
    OBVIOUS
  <1>1. input \in Seq(Chars) /\ Len(input) <= MaxInput /\ rest \in Seq(Chars)
    BY CommandLineAssumption, Nothing DEF Init
  <1>2. /\ rx_buff \in Seq(Letters) /\ Len(rx_buff) <= CliRxSize - 2
        /\ rx_len \in 0 .. Len(rx_buff)
    BY CommandLineAssumption, Nothing DEF Init
  <1>4. pc = "closed" /\ gone = FALSE
    BY DEF Init
  <1>3. line \in Seq(Letters) /\ meant \in Seq(Letters)
    BY Nothing DEF Init
  <1> QED
    BY <1>1, <1>2, <1>3, <1>4 DEF Init, TypeOK

LEMMA ClosesType ==
  ASSUME TypeOK, Closes
  PROVE  /\ pc' = "closed" /\ gone' = FALSE /\ input' \in Seq(Chars) /\ Len(input') = 0 /\ rest' \in Seq(Chars)
         /\ line' \in Seq(Letters) /\ told' \in BOOLEAN /\ meant' \in Seq(Letters)
         /\ proven' \in BOOLEAN
  BY EmptyType DEF Closes

LEMMA ComesType ==
  ASSUME TypeOK, NEW k \in Seq(Chars), k # <<>>, Comes(k) PROVE TypeOK'
  BY TailType, AppendType, CommandLineAssumption
  DEF Comes, TypeOK, Prints, buffer, flags, reader

LEMMA ClosesKeepsType ==
  ASSUME TypeOK, Closes, UNCHANGED <<waiting_for_option, process_command, ignore_lf>>,
         status' \in {"CONNECTED", "PASS", "FAIL", "FAULT", "CLOSE"},
         rx_buff' \in Seq(Letters), Len(rx_buff') <= CliRxSize - 2, rx_len' \in 0 .. Len(rx_buff')
  PROVE  TypeOK'
  <1>1. /\ pc' = "closed" /\ gone' = FALSE /\ input' \in Seq(Chars) /\ Len(input') = 0
        /\ rest' \in Seq(Chars) /\ line' \in Seq(Letters) /\ told' \in BOOLEAN
        /\ meant' \in Seq(Letters) /\ proven' \in BOOLEAN
    BY ClosesType
  <1>2. Len(input') <= MaxInput
    BY <1>1, CommandLineAssumption
  <1>3. Len(rx_buff') <= IF pc' = "overflow" THEN CliRxSize - 1 ELSE CliRxSize - 2
    BY <1>1
  <1>4. /\ waiting_for_option' \in BOOLEAN /\ process_command' \in BOOLEAN
        /\ ignore_lf' \in BOOLEAN
    BY DEF TypeOK
  <1>5. gone' \in BOOLEAN /\ (gone' => pc' = "idle" \/ Prints')
    BY <1>1
  <1> QED
    BY <1>1, <1>2, <1>3, <1>4, <1>5 DEF TypeOK

LEMMA ClientType == ASSUME TypeOK, Client PROVE TypeOK'
  <1>1. CASE ClientLeaves
    <2>1. Closes /\ pc = "idle"
      BY <1>1 DEF ClientLeaves
    <2>2. UNCHANGED <<waiting_for_option, process_command, ignore_lf, status, rx_buff, rx_len>>
      BY <1>1 DEF ClientLeaves, buffer, flags
    <2> QED
      BY <2>1, <2>2, ClosesKeepsType DEF TypeOK
  <1>2. CASE LeavesMeanwhile
    BY <1>2 DEF LeavesMeanwhile, TypeOK, Prints, client, buffer, flags, reader
  <1>3. CASE Arrive
    BY <1>3, ComesType DEF Arrive, TypeOK
  <1>4. ASSUME NEW k \in Keystrokes, Type(k) PROVE TypeOK'
    <2>1. k \in Seq(Chars) /\ k # <<>>
      BY CommandLineAssumption
    <2> QED
      BY <1>4, <2>1, ComesType DEF Type
  <1> QED
    BY <1>1, <1>2, <1>3, <1>4 DEF Client

LEMMA ReadType == ASSUME TypeOK, Read PROVE TypeOK'
  <1> USE DEF TypeOK, Prints, Gets, Reading
  <1>1. /\ NextChar \in Chars
        /\ input' \in Seq(Chars) /\ Len(input') <= MaxInput /\ rest' = rest
    <2>1. Take
      BY DEF Read, SkipVerb, GetCr, GetLf, GetBackspace, GetLetter, FillsBuffer, Gets
    <2> QED
      BY <2>1, TailType, CommandLineAssumption DEF Take, NextChar
  <1>2. CASE SkipVerb
    BY <1>1, <1>2 DEF SkipVerb, buffer, flags, reader
  <1>3. CASE GetCr
    BY <1>1, <1>3, EmptyType DEF GetCr, EndOfLine, buffer, reader
  <1>4. CASE GetLf
    BY <1>1, <1>4, EmptyType DEF GetLf, EndOfLine, buffer, reader
  <1>5. CASE GetBackspace
    <2>1. line' \in Seq(Letters)
      BY <1>5, PrefixType, EmptyType DEF GetBackspace
    <2>2. rx_len' \in 0 .. Len(rx_buff)
      BY <1>5 DEF GetBackspace
    <2> QED
      BY <1>1, <1>5, <2>1, <2>2 DEF GetBackspace, flags
  <1>6. CASE GetLetter
    <2>1. SubSeq(rx_buff, 1, rx_len) \in Seq(Letters) /\ Len(SubSeq(rx_buff, 1, rx_len)) = rx_len
      BY PrefixType
    <2>2. Stored \in Seq(Letters) /\ Len(Stored) = rx_len + 1
      BY <1>6, <2>1, AppendType DEF GetLetter, Stored
    <2>3. line' \in Seq(Letters)
      BY <1>6, AppendType DEF GetLetter
    <2>4. rx_len + 1 <= CliRxSize - 2 /\ rx_len' \in 0 .. Len(Stored)
      BY <1>6, <2>2, CommandLineAssumption DEF GetLetter
    <2> QED
      BY <1>1, <1>6, <2>2, <2>3, <2>4 DEF GetLetter, flags
  <1>7. CASE FillsBuffer
    <2>1. SubSeq(rx_buff, 1, rx_len) \in Seq(Letters) /\ Len(SubSeq(rx_buff, 1, rx_len)) = rx_len
      BY PrefixType
    <2>2. Stored \in Seq(Letters) /\ Len(Stored) = rx_len + 1
      BY <1>7, <2>1, AppendType DEF FillsBuffer, Stored
    <2>3. rx_len + 1 <= CliRxSize - 1 /\ rx_len' \in 0 .. Len(Stored)
      BY <1>7, <2>2, CommandLineAssumption DEF FillsBuffer
    <2>4. ~gone
      BY <1>7 DEF FillsBuffer
    <2> QED
      BY <1>1, <1>7, <2>2, <2>3, <2>4 DEF FillsBuffer, flags, reader
  <1> QED
    BY <1>2, <1>3, <1>4, <1>5, <1>6, <1>7 DEF Read

LEMMA EndsType == ASSUME TypeOK, Ends("FAULT") \/ Ends("CLOSE") PROVE TypeOK'
  <1>1. /\ Closes /\ status' \in {"FAULT", "CLOSE"} /\ rx_buff' = <<>> /\ rx_len' = 0
        /\ UNCHANGED <<waiting_for_option, process_command, ignore_lf>>
    BY DEF Ends, TaskReturns, flags
  <1>2. /\ rx_buff' \in Seq(Letters) /\ Len(rx_buff') <= CliRxSize - 2
        /\ rx_len' \in 0 .. Len(rx_buff')
    BY <1>1, Nothing, CommandLineAssumption
  <1> QED
    BY <1>1, <1>2, ClosesKeepsType

LEMMA ClearsType ==
  ASSUME TypeOK, Clears
  PROVE  /\ rx_buff' \in Seq(Letters) /\ Len(rx_buff') <= CliRxSize - 2
         /\ rx_len' \in 0 .. Len(rx_buff')
         /\ line' \in Seq(Letters) /\ told' \in BOOLEAN /\ meant' \in Seq(Letters)
  <1>1. rx_buff' = <<>> /\ rx_len' = 0 /\ meant' = <<>> /\ UNCHANGED line /\ told' = FALSE
    BY DEF Clears
  <1>2. /\ rx_buff' \in Seq(Letters) /\ Len(rx_buff') <= CliRxSize - 2
        /\ rx_len' \in 0 .. Len(rx_buff')
    BY <1>1, Nothing, CommandLineAssumption
  <1>3. meant' \in Seq(Letters)
    BY <1>1, Nothing
  <1> QED
    BY <1>1, <1>2, <1>3 DEF TypeOK

LEMMA ProcessType == ASSUME TypeOK, Process PROVE TypeOK'
  <1>4. CASE RunExit
    BY <1>4, EndsType DEF RunExit
  <1>5. CASE Refuse
    BY <1>5, EndsType DEF Refuse
  <1>1. CASE EmptyLine
    BY <1>1, EmptyType DEF EmptyLine, TypeOK, client, buffer, flags
  <1>2. CASE RunLogin
    <2>1. status' \in {"PASS", "FAIL"} /\ proven' \in BOOLEAN /\ pc' = "idle"
      BY <1>2 DEF RunLogin, LoginStatus, TypeOK
    <2> QED
      BY <1>2, <2>1, ClearsType DEF RunLogin, TypeOK, client, flags
  <1>3. CASE RunOther
    BY <1>3, ClearsType DEF RunOther, TypeOK, client, flags
  <1> QED
    BY <1>1, <1>2, <1>3, <1>4, <1>5 DEF Process

LEMMA OverflowType == ASSUME TypeOK, Overflow PROVE TypeOK'
  <1>1. /\ rx_buff' \in Seq(Letters) /\ Len(rx_buff') = 0 /\ rx_len' = 0
        /\ line' \in Seq(Letters) /\ pc' = "idle" /\ told' = TRUE
    BY Nothing DEF Overflow
  <1>2. UNCHANGED <<client, waiting_for_option, flags, status, gone, meant, proven>>
    BY DEF Overflow
  <1> QED
    BY <1>1, <1>2, CommandLineAssumption DEF TypeOK, client, flags

LEMMA TypeStep == TypeOK /\ [Next]_vars => TypeOK'
  <1> SUFFICES ASSUME TypeOK, [Next]_vars PROVE TypeOK'
    OBVIOUS
  <1> USE DEF TypeOK, Prints
  <1>1. CASE StartSession
    <2>1. rx_buff' \in Seq(Letters) /\ Len(rx_buff') = 0 /\ rx_len' = 0
      BY <1>1, Nothing DEF StartSession
    <2> QED
      BY <1>1, <2>1, CommandLineAssumption DEF StartSession, client, flags, reader
  <1>2. CASE CallServer
    BY <1>2 DEF CallServer, client, buffer, reader
  <1>3. CASE NothingToRead
    BY <1>3 DEF NothingToRead, Reading, client, buffer, reader
  <1>4. CASE HasLine
    BY <1>4 DEF HasLine, client, buffer, flags, reader
  <1>5. CASE Greeted
    BY <1>5 DEF Greeted, client, buffer, flags, reader
  <1>6. CASE UNCHANGED vars
    BY <1>6 DEF vars, client, buffer, flags, reader
  <1> QED
    BY <1>1, <1>2, <1>3, <1>4, <1>5, <1>6, ClientType, ReadType, OverflowType, ProcessType
    DEF Next, Call, Turns, Finishes

(***************************************************************************)
(* The receive buffer is never written past its end, whatever clients type *)
(* and however long the buffer is (cli_server).                            *)
(***************************************************************************)
THEOREM LineTypeCorrect == Spec => []TypeOK
  BY TypeInit, TypeStep, PTL DEF Spec

-----------------------------------------------------------------------------
(* Lines of clients that end them with LF or with CR and LF and that type  *)
(* a letter after they have deleted.  A client that sends CR alone can     *)
(* have its next line joined to the last; one that ends a line where it    *)
(* has deleted has run what it deleted.                                    *)

May(c, d) == /\ c = "CR" => d = "LF"
             /\ c = "BS" => d \in Letters \cup {"BS"}
Final(c) == c \notin {"CR", "BS"}

Plain(k) == \A i \in 1 .. Len(k) : IF i < Len(k) THEN May(k[i], k[i + 1]) ELSE Final(k[i])

PlainKeystrokes == \A k \in Keystrokes : Plain(k)

(* The same of what has not been read, where a keystroke may be on its way *)
(* still.                                                                  *)
PlainInput ==
    /\ \A i \in 1 .. Len(input) :
           IF i < Len(input) THEN May(input[i], input[i + 1])
           ELSE IF Len(rest) > 0 THEN May(input[i], rest[1])
           ELSE Final(input[i])
    /\ Plain(rest)

(* After a CR the interpreter has its line and only the LF can come.       *)
AwaitsLf ==
    pc = "reading" /\ ignore_lf =>
        /\ process_command /\ ~waiting_for_option
        /\ Len(input) > 0 => input[1] = "LF"

Gathers == pc \in {"greeting", "idle"} \/ (pc = "reading" /\ ~process_command)
Gathered == pc = "process" \/ (pc = "reading" /\ process_command)

(* The buffer is longer than its length only until the letter comes that   *)
(* is to replace what was deleted.                                         *)
Replaces(c) == c \in Letters \cup {"BS"}
Deleting ==
    pc # "closed" /\ rx_len # Len(rx_buff) =>
        /\ Gathers /\ ~waiting_for_option
        /\ IF Len(input) > 0 THEN Replaces(input[1]) ELSE Len(rest) > 0 /\ Replaces(rest[1])

(* The buffer is the reader's line while it is gathered and the line that  *)
(* ended afterwards, unless the client has been told of an overflow.       *)
Together ==
    /\ pc = "closed" => line = <<>> /\ ~told
    /\ pc # "closed" /\ told => line = <<>>
    /\ Gathers /\ ~told => line = SubSeq(rx_buff, 1, rx_len)
    /\ Gathered /\ ~told => line = <<>> /\ meant = rx_buff

PassIsProven == pc # "closed" /\ status = "PASS" => proven

LineInv == TypeOK /\ PlainInput /\ AwaitsLf /\ Deleting /\ Together /\ PassIsProven

LEMMA LineInit == Init => LineInv
  <1> SUFFICES ASSUME Init PROVE LineInv
    OBVIOUS
  <1>1. PlainInput
    BY DEF Init, PlainInput, Plain
  <1>2. AwaitsLf /\ Deleting /\ Together /\ PassIsProven
    BY DEF Init, AwaitsLf, Deleting, Together, PassIsProven, Gathers, Gathered
  <1> QED
    BY <1>1, <1>2, TypeInit DEF LineInv

-----------------------------------------------------------------------------
(* What has not been read stays plain.                                     *)

LEMMA TailPlain ==
  ASSUME NEW k \in Seq(Chars), k # <<>>, Plain(k)
  PROVE  Plain(Tail(k)) /\ IF Len(Tail(k)) > 0 THEN May(k[1], Tail(k)[1]) ELSE Final(k[1])
  <1> DEFINE r == Tail(k)
  <1>1. /\ Len(k) \in Nat /\ Len(k) > 0 /\ Len(r) = Len(k) - 1
        /\ \A i \in 1 .. Len(k) - 1 : r[i] = k[i + 1]
    BY TailType
  <1> HIDE DEF r
  <1>2. ASSUME NEW i \in 1 .. Len(r)
        PROVE  IF i < Len(r) THEN May(r[i], r[i + 1]) ELSE Final(r[i])
    <2>1. i + 1 \in 1 .. Len(k) /\ r[i] = k[i + 1] /\ (i < Len(r) <=> i + 1 < Len(k))
      BY <1>1
    <2>2. i < Len(r) => r[i + 1] = k[i + 1 + 1]
      BY <1>1
    <2> QED
      BY <2>1, <2>2 DEF Plain
  <1>3. IF Len(r) > 0 THEN May(k[1], r[1]) ELSE Final(k[1])
    <2>1. 1 \in 1 .. Len(k) /\ (1 < Len(k) <=> Len(r) > 0)
      BY <1>1
    <2>2. Len(r) > 0 => r[1] = k[1 + 1]
      BY <1>1
    <2> QED
      BY <2>1, <2>2 DEF Plain
  <1>4. Plain(r)
    BY <1>2 DEF Plain
  <1> QED
    BY <1>3, <1>4 DEF r

LEMMA ArrivesPlain ==
  ASSUME TypeOK, PlainInput, NEW k \in Seq(Chars), k # <<>>, Plain(k),
         input' = Append(input, Head(k)), rest' = Tail(k),
         Len(input) > 0 => May(input[Len(input)], k[1])
  PROVE  /\ PlainInput'
         /\ Len(input') > 0 /\ input'[1] = IF Len(input) > 0 THEN input[1] ELSE k[1]
  <1>1. /\ Head(k) = k[1] /\ Head(k) \in Chars
    BY TailType
  <1>2. /\ Len(input') = Len(input) + 1 /\ Len(input) \in Nat
        /\ \A i \in 1 .. Len(input) : input'[i] = input[i]
        /\ input'[Len(input) + 1] = k[1]
    BY <1>1, AppendType DEF TypeOK
  <1>3. Plain(rest') /\ IF Len(rest') > 0 THEN May(k[1], rest'[1]) ELSE Final(k[1])
    BY TailPlain
  <1>4. ASSUME NEW i \in 1 .. Len(input')
        PROVE  IF i < Len(input') THEN May(input'[i], input'[i + 1])
               ELSE IF Len(rest') > 0 THEN May(input'[i], rest'[1])
               ELSE Final(input'[i])
    <2>1. CASE i = Len(input) + 1
      <3>1. input'[i] = k[1] /\ ~(i < Len(input'))
        BY <1>2, <2>1
      <3> QED
        BY <1>3, <3>1
    <2>2. CASE i = Len(input) /\ i > 0
      <3>1. input'[i] = input[i] /\ input'[i + 1] = k[1] /\ i < Len(input')
        BY <1>2, <2>2
      <3> QED
        BY <2>2, <3>1
    <2>3. CASE i < Len(input)
      <3>1. i \in 1 .. Len(input) /\ i + 1 \in 1 .. Len(input) /\ i < Len(input')
        BY <1>2, <2>3
      <3>2. input'[i] = input[i] /\ input'[i + 1] = input[i + 1]
        BY <1>2, <3>1
      <3> QED
        BY <2>3, <3>1, <3>2 DEF PlainInput
    <2> QED
      BY <1>2, <2>1, <2>2, <2>3
  <1>5. PlainInput'
    BY <1>3, <1>4 DEF PlainInput, Plain
  <1> QED
    BY <1>2, <1>5

LEMMA TakenPlain ==
  ASSUME TypeOK, PlainInput, Take
  PROVE  /\ PlainInput'
         /\ NextChar = input[1] /\ Len(input) > 0 /\ rest' = rest
         /\ IF Len(input') > 0 THEN May(NextChar, input'[1])
            ELSE IF Len(rest) > 0 THEN May(NextChar, rest[1])
            ELSE Final(NextChar)
  <1>1. /\ input # <<>> /\ input' = Tail(input) /\ rest' = rest
        /\ NextChar = Head(input) /\ input \in Seq(Chars)
    BY DEF Take, NextChar, TypeOK
  <1>2. /\ Len(input) > 0 /\ Len(input) \in Nat /\ Len(input') = Len(input) - 1
        /\ \A i \in 1 .. Len(input) - 1 : input'[i] = input[i + 1]
        /\ NextChar = input[1]
    BY <1>1, TailType
  <1>3. ASSUME NEW i \in 1 .. Len(input')
        PROVE  IF i < Len(input') THEN May(input'[i], input'[i + 1])
               ELSE IF Len(rest') > 0 THEN May(input'[i], rest'[1])
               ELSE Final(input'[i])
    <2>1. i + 1 \in 1 .. Len(input) /\ input'[i] = input[i + 1]
      BY <1>2
    <2>2. CASE i < Len(input')
      <3>1. i + 1 < Len(input) /\ input'[i + 1] = input[i + 1 + 1]
        BY <1>2, <2>2
      <3> QED
        BY <2>1, <2>2, <3>1 DEF PlainInput
    <2>3. CASE i = Len(input')
      <3>1. ~(i < Len(input')) /\ ~(i + 1 < Len(input))
        BY <1>2, <2>3
      <3> QED
        BY <1>1, <2>1, <3>1 DEF PlainInput
    <2> QED
      BY <1>2, <2>2, <2>3
  <1>4. PlainInput'
    BY <1>1, <1>3 DEF PlainInput, Plain
  <1>5. IF Len(input') > 0 THEN May(NextChar, input'[1])
        ELSE IF Len(rest) > 0 THEN May(NextChar, rest[1])
        ELSE Final(NextChar)
    <2>1. 1 \in 1 .. Len(input) /\ (1 < Len(input) <=> Len(input') > 0)
      BY <1>2
    <2>2. Len(input') > 0 => input'[1] = input[1 + 1]
      BY <1>2
    <2> QED
      BY <1>2, <2>1, <2>2 DEF PlainInput
  <1> QED
    BY <1>1, <1>2, <1>4, <1>5

LEMMA EmptyPlain == ASSUME input' = <<>>, rest' = <<>> PROVE PlainInput'
  BY DEF PlainInput, Plain

LEMMA SamePlain == ASSUME PlainInput, UNCHANGED client PROVE PlainInput'
  BY DEF PlainInput, Plain, client

-----------------------------------------------------------------------------
(* Every step keeps the invariant.                                         *)

LEMMA ClientLines ==
  ASSUME PlainKeystrokes, LineInv, Client
  PROVE  PlainInput' /\ AwaitsLf' /\ Deleting' /\ Together' /\ PassIsProven'
  <1> USE DEF LineInv
  <1>1. CASE ClientLeaves
    <2>1. /\ pc' = "closed" /\ input' = <<>> /\ rest' = <<>>
          /\ line' = <<>> /\ told' = FALSE
      BY <1>1 DEF ClientLeaves, Closes
    <2> QED
      BY <2>1, EmptyPlain DEF AwaitsLf, Deleting, Together, Gathers, Gathered, PassIsProven
  <1>2. ASSUME NEW k \in Seq(Chars), k # <<>>, Plain(k),
               Len(input) > 0 => May(input[Len(input)], k[1]),
               rest = k \/ rest = <<>>,
               input' = Append(input, Head(k)), rest' = Tail(k),
               StackRuns, UNCHANGED <<waiting_for_option, buffer, flags, status, pc, reader, proven>>
        PROVE  PlainInput' /\ AwaitsLf' /\ Deleting' /\ Together' /\ PassIsProven'
    <2>1. /\ PlainInput'
          /\ Len(input') > 0 /\ input'[1] = IF Len(input) > 0 THEN input[1] ELSE k[1]
      BY <1>2, ArrivesPlain
    <2>2. AwaitsLf' /\ Together' /\ PassIsProven'
      BY <1>2 DEF StackRuns, Prints, AwaitsLf, Together, Gathers, Gathered, PassIsProven,
                  buffer, flags, reader
    <2>3. rest = <<>> => ~(Len(rest) > 0)
      OBVIOUS
    <2>4. Deleting'
      BY <1>2, <2>1, <2>3 DEF Deleting, Gathers, StackRuns, Prints, buffer, flags
    <2> QED
      BY <2>1, <2>2, <2>4
  <1>3. CASE Arrive
    <2>1. rest \in Seq(Chars) /\ rest # <<>> /\ Len(rest) > 0
      BY <1>3, TailType DEF Arrive, TypeOK
    <2>2. Len(input) > 0 => May(input[Len(input)], rest[1])
      BY <2>1 DEF PlainInput, TypeOK
    <2> QED
      BY <1>2, <1>3, <2>1, <2>2 DEF Arrive, Comes, PlainInput
  <1>4. ASSUME NEW k \in Keystrokes, Type(k)
        PROVE  PlainInput' /\ AwaitsLf' /\ Deleting' /\ Together' /\ PassIsProven'
    <2>1. k \in Seq(Chars) /\ k # <<>> /\ Plain(k)
      BY CommandLineAssumption DEF PlainKeystrokes
    <2>2. rest = <<>> /\ ~(Len(rest) > 0)
      BY <1>4 DEF Type
    <2>3. Len(input) > 0 => Final(input[Len(input)])
      BY <2>2 DEF PlainInput, TypeOK
    <2>4. Len(input) > 0 => May(input[Len(input)], k[1])
      BY <2>3 DEF May, Final
    <2> QED
      BY <1>2, <1>4, <2>1, <2>2, <2>4 DEF Type, Comes
  <1>5. CASE LeavesMeanwhile
    BY <1>5, SamePlain
    DEF LeavesMeanwhile, Prints, AwaitsLf, Deleting, Together, Gathers, Gathered, PassIsProven,
        client, buffer, flags, reader
  <1> QED
    BY <1>1, <1>3, <1>4, <1>5 DEF Client

LEMMA ReadLines ==
  ASSUME LineInv, Read
  PROVE  PlainInput' /\ AwaitsLf' /\ Deleting' /\ Together' /\ PassIsProven'
  <1> USE DEF LineInv
  <1>1. Take /\ Reading
    BY DEF Read, SkipVerb, GetCr, GetLf, GetBackspace, GetLetter, FillsBuffer, Gets
  <1>2. /\ PlainInput' /\ NextChar = input[1] /\ Len(input) > 0 /\ rest' = rest
        /\ IF Len(input') > 0 THEN May(NextChar, input'[1])
           ELSE IF Len(rest) > 0 THEN May(NextChar, rest[1])
           ELSE Final(NextChar)
    BY <1>1, TakenPlain
  <1>3. /\ pc = "reading" /\ input \in Seq(Chars) /\ NextChar \in Chars
        /\ rx_buff \in Seq(Letters) /\ rx_len \in 0 .. Len(rx_buff) /\ Len(rx_buff) \in Nat
        /\ line \in Seq(Letters)
    BY <1>1, TailType DEF Take, Reading, TypeOK, NextChar
  <1>4. ignore_lf => process_command /\ ~waiting_for_option /\ NextChar = "LF"
    BY <1>2, <1>3 DEF AwaitsLf
  <1>5. ignore_lf \/ ~process_command
    BY <1>1 DEF Reading
  <1>6. rx_len # Len(rx_buff) => Replaces(NextChar) /\ ~waiting_for_option /\ ~process_command
    BY <1>2, <1>3 DEF Deleting, Gathers
  <1>7. Replaces(NextChar) => ~ignore_lf /\ ~process_command /\ NextChar \notin {"VERB", "CR", "LF"}
    BY <1>4, <1>5, CommandLineAssumption DEF Controls, Replaces
  <1>8. rx_len = Len(rx_buff) => SubSeq(rx_buff, 1, rx_len) = rx_buff
    BY <1>3, PrefixType
  <1>9. CASE SkipVerb
    <2>1. ~ignore_lf
      BY <1>4, <1>9 DEF SkipVerb
    <2>2. rx_len = Len(rx_buff)
      BY <1>6, <1>7, <1>9 DEF SkipVerb
    <2>3. UNCHANGED <<rx_buff, rx_len, process_command, ignore_lf, status, pc, line, told,
                      meant, proven>>
      BY <1>9 DEF SkipVerb, buffer, flags, reader
    <2> QED
      BY <1>2, <2>1, <2>2, <2>3 DEF AwaitsLf, Deleting, Together, Gathers, Gathered, PassIsProven
  <1>10. CASE GetCr
    <2>1. NextChar = "CR" /\ ~waiting_for_option /\ waiting_for_option' = waiting_for_option
      BY <1>10 DEF GetCr, Gets
    <2>2. ~process_command /\ process_command' = TRUE /\ ignore_lf' = TRUE
      BY <1>4, <1>5, <1>10, <2>1 DEF GetCr
    <2>3. UNCHANGED <<rx_buff, rx_len, status, pc, proven>> /\ rx_len = Len(rx_buff)
      BY <1>6, <1>7, <1>10, <2>1 DEF GetCr, buffer
    <2>4. EndOfLine
      BY <1>10 DEF GetCr
    <2>5. AwaitsLf'
      BY <1>2, <2>1, <2>2 DEF AwaitsLf, May
    <2>6. Together' /\ Deleting'
      BY <1>3, <1>8, <2>2, <2>3, <2>4 DEF EndOfLine, Deleting, Together, Gathers, Gathered, reader
    <2> QED
      BY <1>2, <2>3, <2>5, <2>6 DEF PassIsProven
  <1>11. CASE GetLf
    <2>1. UNCHANGED <<rx_buff, rx_len, status, pc, proven>> /\ process_command' = TRUE
          /\ ~ignore_lf'
      BY <1>4, <1>11 DEF GetLf, buffer, TypeOK
    <2>2. rx_len = Len(rx_buff)
      BY <1>6, <1>7, <1>11 DEF GetLf, Gets
    <2>3. ignore_lf => UNCHANGED <<process_command, line, told, meant>>
      BY <1>11 DEF GetLf, reader
    <2>4. ~ignore_lf => EndOfLine
      BY <1>11 DEF GetLf
    <2>5. Together'
      <3>1. CASE ignore_lf
        BY <1>3, <3>1, <2>1, <2>3 DEF Together, Gathers, Gathered
      <3>2. CASE ~ignore_lf
        BY <1>3, <1>5, <1>8, <3>2, <2>1, <2>2, <2>4
        DEF EndOfLine, Together, Gathers, Gathered, reader
      <3> QED
        BY <3>1, <3>2
    <2> QED
      BY <1>2, <2>1, <2>2, <2>5 DEF AwaitsLf, Deleting, PassIsProven
  <1>12. CASE GetBackspace
    <2>1. /\ NextChar = "BS" /\ ~waiting_for_option /\ ~ignore_lf /\ ~process_command
          /\ rx_len' = IF rx_len > 0 THEN rx_len - 1 ELSE 0
          /\ line' = IF line = <<>> THEN <<>> ELSE SubSeq(line, 1, Len(line) - 1)
          /\ UNCHANGED <<rx_buff, waiting_for_option, process_command, ignore_lf, status, pc, told,
                         meant, proven>>
      BY <1>7, <1>12 DEF GetBackspace, Gets, Replaces, flags
    <2>2. Deleting'
      BY <1>2, <1>3, <2>1 DEF Deleting, Gathers, May, Final, Replaces
    <2>3. Together'
      <3>1. ~told => line = SubSeq(rx_buff, 1, rx_len)
        BY <1>3, <2>1 DEF Together, Gathers
      <3>2. told => line = <<>>
        BY <1>3 DEF Together
      <3>3. ASSUME ~told PROVE line' = SubSeq(rx_buff, 1, rx_len')
        <4>1. CASE rx_len = 0
          BY <1>3, <2>1, <3>1, <3>3, <4>1, PrefixOfPrefix
        <4>2. CASE rx_len > 0
          <5>1. Len(line) = rx_len /\ line # <<>>
            BY <1>3, <3>1, <3>3, <4>2, PrefixType, PrefixOfPrefix
          <5>2. SubSeq(line, 1, rx_len - 1) = SubSeq(rx_buff, 1, rx_len - 1)
            BY <1>3, <3>1, <3>3, <4>2, PrefixOfPrefix
          <5> QED
            BY <2>1, <4>2, <5>1, <5>2
        <4> QED
          BY <1>3, <4>1, <4>2
      <3> QED
        BY <1>3, <2>1, <3>2, <3>3 DEF Together, Gathers, Gathered
    <2> QED
      BY <1>2, <2>1, <2>2, <2>3 DEF AwaitsLf, PassIsProven
  <1>13. CASE GetLetter
    <2>1. ~ignore_lf /\ ~process_command /\ UNCHANGED <<process_command, ignore_lf>>
      BY <1>7, <1>13 DEF GetLetter, Replaces, flags
    <2>2. (told => line = <<>>) /\ (~told => line = SubSeq(rx_buff, 1, rx_len))
      BY <1>3, <2>1 DEF Together, Gathers
    <2>3. /\ Stored = Append(SubSeq(rx_buff, 1, rx_len), NextChar) /\ Len(Stored) = rx_len + 1
          /\ SubSeq(Stored, 1, rx_len + 1) = Stored
      <3>1. /\ SubSeq(rx_buff, 1, rx_len) \in Seq(Letters) /\ Len(SubSeq(rx_buff, 1, rx_len)) = rx_len
            /\ NextChar \in Letters
        BY <1>3, <1>13, PrefixType DEF GetLetter
      <3>2. Stored \in Seq(Letters) /\ Len(Stored) = rx_len + 1
        BY <3>1, AppendType DEF Stored
      <3>3. rx_len + 1 \in 0 .. Len(Stored)
        BY <1>3, <3>2
      <3> QED
        BY <3>2, <3>3, PrefixType DEF Stored
    <2>4. /\ rx_buff' = Stored /\ rx_len' = rx_len + 1
          /\ line' = IF told THEN line ELSE Append(line, NextChar)
          /\ UNCHANGED <<status, pc, told, meant, proven>>
      BY <1>13 DEF GetLetter
    <2>5. AwaitsLf' /\ Deleting' /\ PassIsProven'
      BY <2>1, <2>3, <2>4 DEF AwaitsLf, Deleting, PassIsProven
    <2>6. Together'
      BY <1>3, <2>1, <2>2, <2>3, <2>4 DEF Together, Gathers, Gathered
    <2> QED
      BY <1>2, <2>5, <2>6
  <1>14. CASE FillsBuffer
    <2>1. ~ignore_lf /\ UNCHANGED <<process_command, ignore_lf, status, proven>>
      BY <1>7, <1>14 DEF FillsBuffer, Replaces, flags
    <2>2. pc' = "overflow" /\ UNCHANGED <<line, told, meant>>
      BY <1>14 DEF FillsBuffer, reader
    <2>3. rx_buff' = Stored /\ rx_len' = rx_len + 1
      BY <1>14 DEF FillsBuffer
    <2>4. Len(Stored) = rx_len + 1
      <3>1. /\ SubSeq(rx_buff, 1, rx_len) \in Seq(Letters) /\ Len(SubSeq(rx_buff, 1, rx_len)) = rx_len
            /\ NextChar \in Letters
        BY <1>3, <1>14, PrefixType DEF FillsBuffer
      <3> QED
        BY <3>1, AppendType DEF Stored
    <2>5. told => line = <<>>
      BY <1>3 DEF Together
    <2> QED
      BY <1>2, <1>3, <2>1, <2>2, <2>3, <2>4, <2>5
      DEF AwaitsLf, Deleting, Together, Gathers, Gathered, PassIsProven
  <1> QED
    BY <1>9, <1>10, <1>11, <1>12, <1>13, <1>14 DEF Read

LEMMA EndsLines ==
  ASSUME LineInv, Ends("FAULT") \/ Ends("CLOSE")
  PROVE  PlainInput' /\ AwaitsLf' /\ Deleting' /\ Together' /\ PassIsProven'
  <1>1. Closes
    BY DEF Ends, TaskReturns
  <1>2. /\ pc' = "closed" /\ input' = <<>> /\ rest' = <<>> /\ line' = <<>> /\ told' = FALSE
    BY <1>1 DEF Closes
  <1> QED
    BY <1>2, EmptyPlain DEF AwaitsLf, Deleting, Together, Gathers, Gathered, PassIsProven

(* A line of one letter and more is that letter and the rest.              *)
LEMMA HeadAndTail == ASSUME NEW S, NEW s \in Seq(S), s # <<>> PROVE s = <<Head(s)>> \o Tail(s)
  OBVIOUS

LEMMA ProcessLines ==
  ASSUME LineInv, Process PROVE PlainInput' /\ AwaitsLf' /\ Deleting' /\ Together' /\ PassIsProven'
  <1> USE DEF LineInv
  <1>1. pc = "process" => /\ rx_len = Len(rx_buff) /\ line = <<>>
                          /\ ~told => meant = rx_buff
    BY DEF Deleting, Together, Gathers, Gathered
  <1>2. ASSUME pc' = "idle", rx_buff' = <<>>, rx_len' = 0, told' = FALSE, line' = <<>>
        PROVE  AwaitsLf' /\ Deleting' /\ Together'
    BY <1>2, EmptyType DEF AwaitsLf, Deleting, Together, Gathers, Gathered
  <1>3. CASE EmptyLine
    <2>1. rx_buff = <<>>
      BY <1>1, <1>3, TailType DEF EmptyLine, TypeOK
    <2> QED
      BY <1>1, <1>2, <1>3, <2>1, SamePlain DEF EmptyLine, buffer, client, PassIsProven
  <1>4. CASE RunOther
    BY <1>1, <1>2, <1>4, SamePlain DEF RunOther, Clears, client, PassIsProven
  <1>5. CASE RunLogin
    <2>1. PlainInput' /\ AwaitsLf' /\ Deleting' /\ Together'
      BY <1>1, <1>2, <1>5, SamePlain DEF RunLogin, Clears, client
    <2>2. ASSUME status' = "PASS" PROVE proven' = TRUE
      <3>1. CASE told
        BY <1>5, <2>2, <3>1 DEF RunLogin
      <3>2. CASE ~told
        <4>1. rx_buff \in Seq(Letters) /\ rx_buff # <<>> /\ meant = rx_buff
          BY <1>1, <1>5, <3>2, EmptyType DEF RunLogin, TypeOK
        <4>2. Command = Login /\ Arguments = Password
          BY <1>5, <2>2 DEF RunLogin, LoginStatus
        <4>3. meant = <<Login>> \o Password
          BY <4>1, <4>2, HeadAndTail DEF Command, Arguments
        <4> QED
          BY <1>5, <3>2, <4>3 DEF RunLogin
      <3> QED
        BY <3>1, <3>2
    <2> QED
      BY <2>1, <2>2 DEF PassIsProven
  <1>6. CASE RunExit
    BY <1>6, EndsLines DEF RunExit
  <1>7. CASE Refuse
    BY <1>7, EndsLines DEF Refuse
  <1> QED
    BY <1>3, <1>4, <1>5, <1>6, <1>7 DEF Process

LEMMA LineStep == PlainKeystrokes /\ LineInv /\ [Next]_vars => LineInv'
  <1> SUFFICES ASSUME PlainKeystrokes, LineInv, [Next]_vars
               PROVE  PlainInput' /\ AwaitsLf' /\ Deleting' /\ Together' /\ PassIsProven'
    BY TypeStep DEF LineInv
  <1> USE DEF LineInv, AwaitsLf, Deleting, Together, Gathers, Gathered, PassIsProven
  <1>1. CASE StartSession
    BY <1>1, SamePlain, EmptyType DEF StartSession, client, flags, reader
  <1>2. CASE CallServer
    BY <1>2, SamePlain DEF CallServer, client, buffer, reader
  <1>3. CASE NothingToRead
    BY <1>3, SamePlain DEF NothingToRead, Reading, client, buffer, reader
  <1>4. CASE HasLine
    BY <1>4, SamePlain DEF HasLine, client, buffer, flags, reader
  <1>5. CASE Greeted
    BY <1>5, SamePlain DEF Greeted, client, buffer, flags, reader
  <1>6. CASE Overflow
    BY <1>6, SamePlain, EmptyType DEF Overflow, client, flags
  <1>7. CASE UNCHANGED vars
    BY <1>7, SamePlain DEF vars, client, buffer, flags, reader
  <1> QED
    BY <1>1, <1>2, <1>3, <1>4, <1>5, <1>6, <1>7, ClientLines, ReadLines, ProcessLines
    DEF Next, Call, Turns, Finishes

LEMMA LineRuns == LineInv => ExecutesWhatWasTyped
  <1> SUFFICES ASSUME LineInv, pc = "process", ~told PROVE Held = meant
    BY DEF ExecutesWhatWasTyped
  <1>1. rx_len = Len(rx_buff) /\ meant = rx_buff /\ rx_buff \in Seq(Letters)
    BY DEF LineInv, Deleting, Together, Gathers, Gathered, TypeOK
  <1>2. rx_buff # <<>> => Len(rx_buff) > 0
    BY <1>1, TailType
  <1>3. rx_len = 0 => rx_buff = <<>>
    BY <1>1, <1>2
  <1> QED
    BY <1>1, <1>3 DEF Held

(***************************************************************************)
(* What cli_server runs is what the client typed, whole and in order, or   *)
(* the client has been told that its line was too long: for clients that   *)
(* replace what they delete, however much, and however they leave in the   *)
(* middle of a line.                                                       *)
(***************************************************************************)
THEOREM PlainLinesRunAsTyped ==
  ASSUME PlainKeystrokes PROVE Spec => []ExecutesWhatWasTyped
  BY LineInit, LineStep, LineRuns, PTL DEF Spec

(***************************************************************************)
(* For the same clients, at security level 2, no session inherits another  *)
(* session's login and a wrong password undoes the right one: whatever is  *)
(* tried without it ends the session (cli_server, telnet_tasks).           *)
(***************************************************************************)
THEOREM PlainGateHolds == ASSUME PlainKeystrokes PROVE Spec => GateHolds
  <1>1. LineInv /\ [Next]_vars =>
            [SecLevel > 1 /\ pc = "process" /\ pc' # "process"
                /\ rx_len > 0 /\ Command # Login /\ ~proven
                => status' = "FAULT" /\ pc' = "closed"]_vars
    <2> SUFFICES ASSUME LineInv, Next, SecLevel > 1, pc = "process", pc' # "process", rx_len > 0,
                        Command # Login, ~proven
                 PROVE  status' = "FAULT" /\ pc' = "closed"
      OBVIOUS
    <2>1. Refused
      BY DEF LineInv, PassIsProven, Refused
    <2>2. Process
      BY DEF Next, Client, ClientLeaves, LeavesMeanwhile, Arrive, Type, Comes, StartSession,
             Call, Turns, Finishes, Greeted, Overflow, CallServer,
             NothingToRead, HasLine, Read, SkipVerb, GetCr, GetLf, GetBackspace, GetLetter,
             FillsBuffer, Gets, Reading
    <2>3. Refuse
      BY <2>1, <2>2 DEF Process, EmptyLine, RunLogin, RunOther, RunExit
    <2> QED
      BY <2>3 DEF Refuse, Ends, TaskReturns, Closes
  <1> QED
    BY <1>1, LineInit, LineStep, PTL DEF Spec, GateHolds

-----------------------------------------------------------------------------
(***************************************************************************)
(* The loop in which cli_server reads ends after no more turns than there  *)
(* are characters in the socket when it begins, whatever they are: a turn  *)
(* that does not end the loop takes one and nothing adds any meanwhile.    *)
(* This is what CallReturns rests on, besides fairness.                    *)
(***************************************************************************)
THEOREM TurnsTakeCharacters ==
  Spec => [][pc = "reading" /\ pc' = "reading" => Len(input') < Len(input)]_vars
  <1>1. TypeOK /\ [Next]_vars =>
            [pc = "reading" /\ pc' = "reading" => Len(input') < Len(input)]_vars
    <2> SUFFICES ASSUME TypeOK, Next, pc = "reading", pc' = "reading"
                 PROVE  Len(input') < Len(input)
      OBVIOUS
    <2>1. Read
      BY DEF Next, Client, ClientLeaves, LeavesMeanwhile, Arrive, Type, Comes, StackRuns,
             Prints, StartSession, Call, Turns, Finishes, Greeted, Overflow, CallServer,
             NothingToRead, HasLine, Process, EmptyLine, RunLogin, RunOther, RunExit, Refuse
    <2>2. Take
      BY <2>1 DEF Read, SkipVerb, GetCr, GetLf, GetBackspace, GetLetter, FillsBuffer, Gets
    <2> QED
      BY <2>2, TailType DEF Take, TypeOK
  <1> QED
    BY <1>1, LineTypeCorrect, PTL DEF Spec
=============================================================================
