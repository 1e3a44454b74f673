------------------------- MODULE LwdaqFrames_proofs -------------------------
(***************************************************************************)
(* Proofs about the LWDAQ protocol task, for every size of the buffer,     *)
(* every timeout, every set of frames that clients may send, right or      *)
(* wrong, and every way of cutting them: the buffer is never written past  *)
(* its end, the frame being handled is whole, what is obeyed without a     *)
(* password needed none, and the task implements MessageService: a client  *)
(* is obeyed in order, once each, as if no frame had ever been cut.        *)
(***************************************************************************)
EXTENDS LwdaqFrames, SequenceTheorems, WellFoundedInduction, TLAPS

-----------------------------------------------------------------------------
(* Streams that have a head behind every start cell.                       *)

LEMMA HeadedTogether ==
  ASSUME NEW a \in Seq(Cells), NEW b \in Seq(Cells), Headed(a), Headed(b)
  PROVE  Headed(a \o b)
  <1>1. /\ Len(a \o b) = Len(a) + Len(b) /\ Len(a) \in Nat /\ Len(b) \in Nat
        /\ \A i \in 1 .. Len(a) + Len(b) :
               (a \o b)[i] = IF i <= Len(a) THEN a[i] ELSE b[i - Len(a)]
    BY ConcatProperties, LenProperties
  <1> SUFFICES ASSUME NEW i \in 1 .. Len(a \o b), (a \o b)[i] = Start
               PROVE  i < Len(a \o b) /\ (a \o b)[i + 1] \in Heads
    BY DEF Headed
  <1>2. CASE i <= Len(a)
    <2>1. i < Len(a) /\ a[i + 1] \in Heads
      BY <1>1, <1>2 DEF Headed
    <2> QED
      BY <1>1, <2>1
  <1>3. CASE i > Len(a)
    <2>1. i - Len(a) \in 1 .. Len(b) /\ b[i - Len(a)] = Start
      BY <1>1, <1>3
    <2>2. i - Len(a) < Len(b) /\ b[i - Len(a) + 1] \in Heads
      BY <2>1 DEF Headed
    <2>3. i < Len(a) + Len(b) /\ i + 1 > Len(a) /\ i + 1 - Len(a) = i - Len(a) + 1
      BY <1>1, <1>3, <2>2
    <2> QED
      BY <1>1, <2>2, <2>3
  <1> QED
    BY <1>1, <1>2, <1>3

LEMMA HeadedRight ==
  ASSUME NEW a \in Seq(Cells), NEW b \in Seq(Cells), Headed(a \o b)
  PROVE  Headed(b)
  <1>1. /\ Len(a \o b) = Len(a) + Len(b) /\ Len(a) \in Nat /\ Len(b) \in Nat
        /\ \A i \in 1 .. Len(a) + Len(b) :
               (a \o b)[i] = IF i <= Len(a) THEN a[i] ELSE b[i - Len(a)]
    BY ConcatProperties, LenProperties
  <1> SUFFICES ASSUME NEW i \in 1 .. Len(b), b[i] = Start
               PROVE  i < Len(b) /\ b[i + 1] \in Heads
    BY DEF Headed
  <1>2. i + Len(a) \in 1 .. Len(a) + Len(b) /\ (a \o b)[i + Len(a)] = Start
    BY <1>1
  <1>3. i + Len(a) < Len(a) + Len(b) /\ (a \o b)[i + Len(a) + 1] \in Heads
    BY <1>1, <1>2 DEF Headed
  <1>4. i < Len(b) /\ i + Len(a) + 1 > Len(a) /\ i + Len(a) + 1 - Len(a) = i + 1
    BY <1>1, <1>3
  <1> QED
    BY <1>1, <1>3, <1>4

LEMMA HeadedEmpty == Headed(<<>>)
  BY DEF Headed

(* Moving the first cells of one sequence to the end of another.           *)
LEMMA Cut ==
  ASSUME NEW S, NEW s \in Seq(S), NEW n \in 0 .. Len(s)
  PROVE  /\ SubSeq(s, 1, n) \in Seq(S) /\ Len(SubSeq(s, 1, n)) = n
         /\ SubSeq(s, n + 1, Len(s)) \in Seq(S)
         /\ Len(SubSeq(s, n + 1, Len(s))) = Len(s) - n
         /\ SubSeq(s, 1, n) \o SubSeq(s, n + 1, Len(s)) = s
  <1>1. Len(s) \in Nat /\ \A i \in 1 .. Len(s) : s[i] \in S
    BY LenProperties, ElementOfSeq
  <1>2. SubSeq(s, 1, n) \in Seq(S) /\ Len(SubSeq(s, 1, n)) = n
    BY <1>1
  <1>3. SubSeq(s, n + 1, Len(s)) \in Seq(S) /\ Len(SubSeq(s, n + 1, Len(s))) = Len(s) - n
    BY <1>1
  <1>4. SubSeq(s, 1, n) \o SubSeq(s, n + 1, Len(s)) = SubSeq(s, 1, Len(s))
    <2>1. 1 \in 1 .. Len(s) + 1 /\ n \in 1 - 1 .. Len(s) /\ Len(s) \in n .. Len(s)
      BY <1>1
    <2> QED
      BY <2>1, ConcatAdjacentSubSeq
  <1> QED
    BY <1>2, <1>3, <1>4, SubSeqFull

LEMMA Regroup ==
  ASSUME NEW a \in Seq(Cells), NEW b \in Seq(Cells), NEW c \in Seq(Cells)
  PROVE  (a \o b) \o c = a \o (b \o c)
  BY ConcatAssociative

LEMMA OneMore ==
  ASSUME NEW S, NEW a \in Seq(S), NEW b \in Seq(S), b # <<>>
  PROVE  /\ Append(a, Head(b)) \in Seq(S) /\ Len(Append(a, Head(b))) = Len(a) + 1
         /\ Tail(b) \in Seq(S)
         /\ Append(a, Head(b)) \o Tail(b) = a \o b
  <1>1. Head(b) \in S /\ Tail(b) \in Seq(S) /\ <<Head(b)>> \in Seq(S)
    BY HeadTailProperties
  <1>2. b = <<Head(b)>> \o Tail(b)
    OBVIOUS
  <1>3. Append(a, Head(b)) = a \o <<Head(b)>>
    BY <1>1, AppendIsConcat
  <1>4. (a \o <<Head(b)>>) \o Tail(b) = a \o (<<Head(b)>> \o Tail(b))
    BY <1>1, ConcatAssociative
  <1> QED
    BY <1>1, <1>2, <1>3, <1>4, AppendProperties

-----------------------------------------------------------------------------
(* The type invariant is inductive together with what the buffer, the      *)
(* socket and the client's rest are as one stream: it has a head behind    *)
(* every start cell, so that whatever is taken for a frame has a length.   *)

Unread == input \o rest
Stream == rx_buffer \o Unread

StreamInv ==
    /\ pc = "closed" => input = <<>> /\ rest = <<>> /\ done = <<>>
    /\ pc = "handling" => ~sock_init
    /\ sock_init => done = <<>>
    /\ pc # "closed" => Headed(Unread)
    /\ pc # "closed" /\ ~sock_init => Headed(Stream)

FrameInv == TypeOK /\ StreamInv

LEMMA Nothing == <<>> \in Seq(Cells) /\ Len(<<>>) = 0 /\ <<>> \o <<>> = <<>>
  BY EmptySeq, ConcatEmptySeq

LEMMA FrameInit == Init => FrameInv
  <1> SUFFICES ASSUME Init PROVE FrameInv
    OBVIOUS
  <1>1. TypeOK
    <2>1. /\ input \in Seq(Cells) /\ Len(input) <= MaxInput /\ rest \in Seq(Cells)
          /\ rx_buffer \in Seq(Cells) /\ Len(rx_buffer) <= RxBuffSize
      BY Nothing, LwdaqAssumption DEF Init
    <2> QED
      <3>1. sent \in 0 .. MaxFrames /\ idle \in 0 .. TcpTimeout + 1
        BY LwdaqAssumption DEF Init
      <3>2. seclevel \in SecLevels /\ gone \in BOOLEAN /\ sock_init \in BOOLEAN
        BY DEF Init
      <3>3. logged_in \in BOOLEAN /\ close_socket \in BOOLEAN
        BY DEF Init
      <3>4. pc = "closed"
        BY DEF Init
      <3> QED
        BY <2>1, <3>1, <3>2, <3>3, <3>4 DEF TypeOK
  <1>2. StreamInv
    BY DEF Init, StreamInv
  <1> QED
    BY <1>1, <1>2 DEF FrameInv

(* Frames as they stand at the start of a stream.                          *)
LEMMA HeadTyped ==
  ASSUME NEW b \in Seq(Cells), NEW r \in Seq(Cells), Headed(b \o r), HasHead(b)
  PROVE  IdOf(b) \in Ids /\ LenOf(b) \in Nat
  <1>1. /\ Len(b \o r) = Len(b) + Len(r) /\ Len(b) \in Nat /\ Len(r) \in Nat
        /\ \A i \in 1 .. Len(b) + Len(r) :
               (b \o r)[i] = IF i <= Len(b) THEN b[i] ELSE r[i - Len(b)]
    BY ConcatProperties, LenProperties
  <1>2. Len(b) >= 2 /\ b[1] = Start
    BY DEF HasHead, ContentOffset
  <1>3. (b \o r)[1] = Start /\ (b \o r)[2] = b[2] /\ 1 \in 1 .. Len(b \o r)
    BY <1>1, <1>2
  <1>4. b[2] \in Heads
    BY <1>3 DEF Headed
  <1> QED
    BY <1>4 DEF Heads, IdOf, LenOf

LEMMA FrameTyped ==
  ASSUME NEW b \in Seq(Cells), NEW r \in Seq(Cells), Headed(b \o r), HasFrame(b)
  PROVE  /\ IdOf(b) \in Ids /\ LenOf(b) \in Nat
         /\ AfterFrame(b) \in Seq(Cells) /\ Len(AfterFrame(b)) <= Len(b)
         /\ Headed(AfterFrame(b) \o r)
  <1>1. IdOf(b) \in Ids /\ LenOf(b) \in Nat
    BY HeadTyped DEF HasFrame
  <1>2. LenOf(b) + FrameSize \in 0 .. Len(b) /\ Len(b) \in Nat
    BY <1>1, LenProperties DEF HasFrame, FrameSize
  <1> DEFINE n == LenOf(b) + FrameSize
             p == SubSeq(b, 1, n)
             q == SubSeq(b, n + 1, Len(b))
  <1>3. p \in Seq(Cells) /\ q \in Seq(Cells) /\ Len(q) = Len(b) - n /\ p \o q = b
    BY <1>2, Cut
  <1>4. AfterFrame(b) = q
    BY DEF AfterFrame
  <1> HIDE DEF p, q
  <1>5. p \o (q \o r) = b \o r /\ q \o r \in Seq(Cells)
    <2>1. q \o r \in Seq(Cells)
      BY <1>3, ConcatProperties
    <2>2. (p \o q) \o r = p \o (q \o r)
      BY <1>3, Regroup
    <2> QED
      BY <1>3, <2>1, <2>2
  <1>6. Headed(q \o r)
    BY <1>3, <1>5, HeadedRight
  <1> QED
    BY <1>1, <1>2, <1>3, <1>4, <1>6

(* What a call takes from the socket.                                      *)
LEMMA GatheredTyped ==
  ASSUME FrameInv, Called, ~sock_init
  PROVE  /\ Gathered \in Seq(Cells) /\ Len(Gathered) <= RxBuffSize
         /\ SubSeq(input, Taken + 1, Len(input)) \in Seq(Cells)
         /\ Len(SubSeq(input, Taken + 1, Len(input))) <= MaxInput
         /\ SubSeq(input, Taken + 1, Len(input)) \o rest \in Seq(Cells)
         /\ Gathered \o (SubSeq(input, Taken + 1, Len(input)) \o rest) = Stream
         /\ Headed(Stream)
  <1> DEFINE p == SubSeq(input, 1, Taken)
             q == SubSeq(input, Taken + 1, Len(input))
  <1>1. /\ input \in Seq(Cells) /\ rest \in Seq(Cells) /\ rx_buffer \in Seq(Cells)
        /\ Len(input) \in Nat /\ Len(rx_buffer) \in Nat
        /\ Len(input) <= MaxInput /\ Len(rx_buffer) <= RxBuffSize
    BY LenProperties DEF FrameInv, TypeOK
  <1>2. Taken \in 0 .. Len(input) /\ Len(rx_buffer) + Taken <= RxBuffSize
    BY <1>1, LwdaqAssumption DEF Taken, Room
  <1>3. /\ p \in Seq(Cells) /\ Len(p) = Taken /\ q \in Seq(Cells)
        /\ Len(q) = Len(input) - Taken /\ p \o q = input
    BY <1>1, <1>2, Cut
  <1>8. Gathered = rx_buffer \o p
    BY DEF Gathered
  <1> HIDE DEF p, q
  <1>4. /\ rx_buffer \o p \in Seq(Cells) /\ Len(rx_buffer \o p) = Len(rx_buffer) + Taken
        /\ q \o rest \in Seq(Cells)
    BY <1>1, <1>3, ConcatProperties
  <1>5. (rx_buffer \o p) \o (q \o rest) = rx_buffer \o (input \o rest)
    <2>1. (p \o q) \o rest = p \o (q \o rest)
      <3>1. p \in Seq(Cells) /\ q \in Seq(Cells) /\ rest \in Seq(Cells)
        BY <1>1, <1>3
      <3> QED
        BY <3>1, Regroup
    <2>2. (rx_buffer \o p) \o (q \o rest) = rx_buffer \o (p \o (q \o rest))
      BY <1>1, <1>3, <1>4, Regroup
    <2> QED
      BY <1>3, <2>1, <2>2
  <1>6. Headed(Stream)
    BY DEF FrameInv, StreamInv, Called
  <1>7. Len(q) <= MaxInput
    BY <1>1, <1>2, <1>3, LwdaqAssumption
  <1> QED
    BY <1>1, <1>2, <1>3, <1>4, <1>5, <1>6, <1>7, <1>8 DEF Stream, Unread, p, q

LEMMA RefreshedType == TypeOK => Refreshed \in 0 .. TcpTimeout + 1
  BY LwdaqAssumption DEF TypeOK, Refreshed

(* The two ways in which a call can leave the server.                      *)
LEMMA ClosesKeeps ==
  ASSUME FrameInv, Closes, UNCHANGED seclevel, sock_init' \in BOOLEAN, logged_in' \in BOOLEAN,
         idle' \in 0 .. TcpTimeout + 1, rx_buffer' \in Seq(Cells), Len(rx_buffer') <= RxBuffSize
  PROVE  FrameInv'
  <1>1. /\ pc' = "closed" /\ close_socket' = FALSE /\ done' = <<>> /\ input' = <<>>
        /\ rest' = <<>> /\ sent' = 0 /\ gone' = FALSE
    BY DEF Closes
  <1>2. TypeOK'
    <2>1. input' \in Seq(Cells) /\ Len(input') <= MaxInput /\ rest' \in Seq(Cells)
      BY <1>1, Nothing, LwdaqAssumption
    <2>2. sent' \in 0 .. MaxFrames /\ seclevel' \in SecLevels
      BY <1>1, LwdaqAssumption DEF FrameInv, TypeOK
    <2> QED
      BY <1>1, <2>1, <2>2 DEF TypeOK
  <1>3. StreamInv'
    BY <1>1 DEF StreamInv
  <1> QED
    BY <1>2, <1>3 DEF FrameInv

LEMMA IdleKeeps ==
  ASSUME FrameInv, pc' = "idle", close_socket' \in BOOLEAN,
         UNCHANGED <<rest, sent, gone, seclevel>>,
         sock_init' = FALSE, logged_in' \in BOOLEAN, idle' \in 0 .. TcpTimeout + 1,
         rx_buffer' \in Seq(Cells), Len(rx_buffer') <= RxBuffSize,
         input' \in Seq(Cells), Len(input') <= MaxInput,
         Headed(rx_buffer' \o (input' \o rest))
  PROVE  FrameInv'
  <1>1. TypeOK'
    BY DEF FrameInv, TypeOK
  <1>2. input' \o rest \in Seq(Cells)
    BY ConcatProperties DEF FrameInv, TypeOK
  <1>3. Headed(input' \o rest)
    BY <1>2, HeadedRight
  <1>4. StreamInv'
    BY <1>3 DEF StreamInv, Stream, Unread
  <1> QED
    BY <1>1, <1>4 DEF FrameInv

-----------------------------------------------------------------------------
(* Every step keeps the invariant.                                         *)

LEMMA EnvironmentKeeps == ASSUME FrameInv, Environment PROVE FrameInv'
  <1>1. /\ input \in Seq(Cells) /\ rest \in Seq(Cells) /\ rx_buffer \in Seq(Cells)
        /\ Len(input) \in Nat /\ MaxInput \in Nat /\ MaxFrames \in Nat
    BY LenProperties, LwdaqAssumption DEF FrameInv, TypeOK
  <1>2. ASSUME NEW f \in Frames, Send(f), UNCHANGED seclevel PROVE FrameInv'
    <2>1. f \in Seq(Cells) /\ f # <<>> /\ Headed(f)
      BY LwdaqAssumption
    <2>2. /\ pc # "closed" /\ rest = <<>> /\ sent < MaxFrames /\ Len(input) < MaxInput
          /\ input' = Append(input, Head(f)) /\ rest' = Tail(f) /\ sent' = sent + 1
          /\ UNCHANGED <<gone, sock_init, logged_in, idle, close_socket, rx_buffer, pc, done,
                         seclevel>>
      BY <1>2 DEF Send, server
    <2>3. /\ input' \in Seq(Cells) /\ Len(input') = Len(input) + 1 /\ rest' \in Seq(Cells)
          /\ input' \o rest' = input \o f
      BY <1>1, <2>1, <2>2, OneMore
    <2>4. TypeOK'
      <3>1. Len(input') <= MaxInput /\ sent' \in 0 .. MaxFrames
        BY <1>1, <2>2, <2>3 DEF FrameInv, TypeOK
      <3> QED
        BY <2>2, <2>3, <3>1 DEF FrameInv, TypeOK
    <2>5. Unread = input /\ Stream = rx_buffer \o input
      BY <1>1, <2>2, ConcatEmptySeq DEF Stream, Unread
    <2>6. Unread' = Unread \o f /\ Unread \in Seq(Cells)
      BY <1>1, <2>3, <2>5 DEF Unread
    <2>7. Stream' = Stream \o f /\ Stream \in Seq(Cells)
      <3>1. rx_buffer \o (input \o f) = (rx_buffer \o input) \o f
        BY <1>1, <2>1, Regroup
      <3>2. rx_buffer \o input \in Seq(Cells)
        BY <1>1, ConcatProperties
      <3> QED
        BY <2>2, <2>3, <2>5, <3>1, <3>2 DEF Stream, Unread
    <2>8. StreamInv'
      BY <2>1, <2>2, <2>6, <2>7, HeadedTogether DEF FrameInv, StreamInv
    <2> QED
      BY <2>4, <2>8 DEF FrameInv
  <1>3. ASSUME Arrive, UNCHANGED seclevel PROVE FrameInv'
    <2>1. /\ pc # "closed" /\ rest # <<>> /\ Len(input) < MaxInput
          /\ input' = Append(input, Head(rest)) /\ rest' = Tail(rest)
          /\ UNCHANGED <<sent, gone, sock_init, logged_in, idle, close_socket, rx_buffer, pc,
                         done, seclevel>>
      BY <1>3 DEF Arrive, server
    <2>2. /\ input' \in Seq(Cells) /\ Len(input') = Len(input) + 1 /\ rest' \in Seq(Cells)
          /\ input' \o rest' = input \o rest
      BY <1>1, <2>1, OneMore
    <2>3. TypeOK'
      <3>1. Len(input') <= MaxInput
        BY <1>1, <2>1, <2>2
      <3> QED
        BY <2>1, <2>2, <3>1 DEF FrameInv, TypeOK
    <2>4. Unread' = Unread /\ Stream' = Stream
      BY <2>1, <2>2 DEF Unread, Stream
    <2>5. StreamInv'
      BY <2>1, <2>4 DEF FrameInv, StreamInv
    <2> QED
      BY <2>3, <2>5 DEF FrameInv
  <1>4. ASSUME ClientLeaves, UNCHANGED seclevel PROVE FrameInv'
    BY <1>4 DEF ClientLeaves, server, FrameInv, TypeOK, StreamInv, Stream, Unread
  <1>5. CASE SecondPasses
    <2>1. idle' \in 0 .. TcpTimeout + 1
      BY <1>5, LwdaqAssumption DEF SecondPasses, FrameInv, TypeOK
    <2> QED
      BY <1>5, <2>1 DEF SecondPasses, client, FrameInv, TypeOK, StreamInv, Stream, Unread
  <1> QED
    BY <1>2, <1>3, <1>4, <1>5 DEF Environment, Sends

LEMMA ActivateKeeps == ASSUME FrameInv, Activate PROVE FrameInv'
  <1>1. /\ pc = "closed" /\ pc' = "idle" /\ sock_init' = TRUE /\ idle' = 0
        /\ UNCHANGED <<input, rest, sent, gone, logged_in, close_socket, rx_buffer, done, seclevel>>
    BY DEF Activate, client
  <1>2. TypeOK'
    <2>1. idle' \in 0 .. TcpTimeout + 1
      BY <1>1, LwdaqAssumption
    <2> QED
      BY <1>1, <2>1 DEF FrameInv, TypeOK
  <1>3. input' = <<>> /\ rest' = <<>> /\ done' = <<>>
    BY <1>1 DEF FrameInv, StreamInv
  <1>4. Unread' = <<>>
    BY <1>3, Nothing DEF Unread
  <1>5. StreamInv'
    BY <1>1, <1>3, <1>4, HeadedEmpty DEF StreamInv
  <1> QED
    BY <1>2, <1>5 DEF FrameInv

(* A call of the task that ends without a message to handle.               *)
LEMMA CallKeeps == ASSUME FrameInv, Call PROVE FrameInv'
  <1>1. /\ input \in Seq(Cells) /\ rest \in Seq(Cells) /\ rx_buffer \in Seq(Cells)
        /\ Len(input) <= MaxInput /\ Len(rx_buffer) <= RxBuffSize
        /\ idle \in 0 .. TcpTimeout + 1 /\ sock_init \in BOOLEAN /\ logged_in \in BOOLEAN
        /\ Refreshed \in 0 .. TcpTimeout + 1 /\ UNCHANGED seclevel
    BY RefreshedType DEF FrameInv, TypeOK, Call
  <1>2. CASE ClosedByClient
    BY <1>1, <1>2, ClosesKeeps DEF ClosedByClient
  <1>3. CASE TasksInit
    <2>1. rx_buffer' \in Seq(Cells) /\ Len(rx_buffer') <= RxBuffSize /\ rx_buffer' = <<>>
      BY <1>3, Nothing, LwdaqAssumption DEF TasksInit
    <2>2. /\ sock_init' = FALSE /\ logged_in' = FALSE /\ idle' \in 0 .. TcpTimeout + 1
          /\ pc = "idle"
      BY <1>1, <1>3 DEF TasksInit, Called
    <2>3. CASE Closes
      BY <1>1, <2>1, <2>2, <2>3, ClosesKeeps
    <2>4. CASE pc' = "idle" /\ close_socket' = FALSE /\ UNCHANGED <<rest, sent, gone, done>>
      <3>1. input' = input
        BY <1>3, <2>4 DEF TasksInit
      <3>2. rx_buffer' \o (input' \o rest) = Unread /\ Headed(Unread)
        <4>1. Unread \in Seq(Cells)
          BY <1>1, ConcatProperties DEF Unread
        <4> QED
          BY <2>1, <2>2, <3>1, <4>1, ConcatEmptySeq DEF Unread, FrameInv, StreamInv
      <3> QED
        BY <1>1, <2>1, <2>2, <2>4, <3>1, <3>2, IdleKeeps
    <2> QED
      BY <1>3, <2>3, <2>4 DEF TasksInit, Returns
  <1>4. ASSUME Gathering
        PROVE  /\ ~sock_init /\ idle' \in 0 .. TcpTimeout + 1
               /\ rx_buffer' = Gathered
               /\ rx_buffer' \in Seq(Cells) /\ Len(rx_buffer') <= RxBuffSize
               /\ SubSeq(input, Taken + 1, Len(input)) \in Seq(Cells)
               /\ Len(SubSeq(input, Taken + 1, Len(input))) <= MaxInput
               /\ rx_buffer' \o (SubSeq(input, Taken + 1, Len(input)) \o rest) = Stream
               /\ Headed(Stream)
    BY <1>1, <1>4, GatheredTyped DEF Gathering
  <1>5. CASE WaitForMore
    <2>1. Gathering /\ UNCHANGED <<sock_init, logged_in>>
      BY <1>5 DEF WaitForMore
    <2>2. CASE Closes
      BY <1>1, <1>4, <2>1, <2>2, ClosesKeeps
    <2>3. CASE pc' = "idle" /\ close_socket' = FALSE /\ UNCHANGED <<rest, sent, gone, done>>
      <3>1. input' = SubSeq(input, Taken + 1, Len(input))
        BY <1>5, <2>3 DEF WaitForMore, Takes
      <3>2. sock_init' = FALSE /\ close_socket' \in BOOLEAN /\ logged_in' \in BOOLEAN
        BY <1>1, <1>4, <2>1, <2>3
      <3>3. /\ Headed(rx_buffer' \o (input' \o rest)) /\ input' \in Seq(Cells)
            /\ Len(input') <= MaxInput
        BY <1>4, <2>1, <3>1
      <3> QED
        BY <1>1, <1>4, <2>1, <2>3, <3>2, <3>3, IdleKeeps
    <2> QED
      BY <1>5, <2>2, <2>3 DEF WaitForMore, Returns
  <1>6. CASE NotAFrame \/ Reject
    <2>1. Gathering /\ Closes /\ UNCHANGED <<sock_init, logged_in>>
      BY <1>6 DEF NotAFrame, Reject, Returns
    <2> QED
      BY <1>1, <1>4, <2>1, ClosesKeeps
  <1>7. CASE Handle
    <2>1. /\ Gathering /\ Complete /\ Takes /\ pc' = "handling"
          /\ close_socket' = TimedOut /\ logged_in' = LoggedInBy(Message(Gathered))
          /\ UNCHANGED <<rest, sent, gone, sock_init>>
      BY <1>7 DEF Handle
    <2>2. close_socket' \in BOOLEAN /\ logged_in' \in BOOLEAN
      BY <1>1, <2>1 DEF TimedOut, LoggedInBy, GivesPassword
    <2>3. input' = SubSeq(input, Taken + 1, Len(input)) /\ HasFrame(rx_buffer')
      BY <1>4, <2>1 DEF Takes, Complete
    <2>4. TypeOK'
      BY <1>1, <1>4, <2>1, <2>2, <2>3 DEF FrameInv, TypeOK
    <2>5. Stream' = Stream /\ Unread' \in Seq(Cells) /\ rx_buffer' \in Seq(Cells)
      BY <1>1, <1>4, <2>1, <2>3, ConcatProperties DEF Stream, Unread
    <2>6. Headed(Stream') /\ Headed(Unread')
      BY <1>4, <2>1, <2>5, HeadedRight DEF Stream
    <2>7. StreamInv'
      BY <1>4, <2>1, <2>6 DEF StreamInv
    <2> QED
      BY <2>4, <2>7 DEF FrameInv
  <1> QED
    BY <1>2, <1>3, <1>5, <1>6, <1>7 DEF Call

LEMMA HandlersKeep == ASSUME FrameInv, Handlers PROVE FrameInv'
  <1>1. /\ input \in Seq(Cells) /\ rest \in Seq(Cells) /\ rx_buffer \in Seq(Cells)
        /\ Len(input) <= MaxInput /\ Len(rx_buffer) <= RxBuffSize
        /\ Len(rx_buffer) \in Nat /\ RxBuffSize \in Nat
        /\ idle \in 0 .. TcpTimeout + 1 /\ logged_in \in BOOLEAN
        /\ sock_init \in BOOLEAN /\ UNCHANGED seclevel
    BY LenProperties, LwdaqAssumption DEF FrameInv, TypeOK, Handlers
  <1>2. ASSUME pc = "handling", HandlerEnds("OK") \/ HandlerEnds("ERR") PROVE FrameInv'
    <2>1. /\ ~sock_init /\ HasFrame(rx_buffer) /\ Headed(rx_buffer \o Unread)
          /\ Unread \in Seq(Cells)
      BY <1>1, <1>2, ConcatProperties DEF FrameInv, TypeOK, StreamInv, Stream, Unread
    <2>2. /\ AfterFrame(rx_buffer) \in Seq(Cells)
          /\ Len(AfterFrame(rx_buffer)) <= Len(rx_buffer)
          /\ Headed(AfterFrame(rx_buffer) \o Unread)
      BY <1>1, <2>1, FrameTyped
    <2>3. /\ UNCHANGED <<sock_init, logged_in, idle>>
          /\ rx_buffer' \in {AfterFrame(rx_buffer), rx_buffer}
      BY <1>2 DEF HandlerEnds
    <2>4. rx_buffer' \in Seq(Cells) /\ Len(rx_buffer') <= RxBuffSize
      <3>1. Len(AfterFrame(rx_buffer)) \in Nat
        BY <2>2, LenProperties
      <3> QED
        BY <1>1, <2>2, <2>3, <3>1
    <2>5. CASE Closes
      BY <1>1, <2>1, <2>3, <2>4, <2>5, ClosesKeeps
    <2>6. CASE pc' = "idle" /\ close_socket' = FALSE /\ UNCHANGED <<rest, sent, gone, done>>
      <3>1. input' = input
        BY <1>2, <2>6 DEF HandlerEnds
      <3>2. Headed(rx_buffer' \o (input' \o rest))
        BY <2>1, <2>2, <2>3, <3>1 DEF Unread
      <3> QED
        BY <1>1, <2>1, <2>3, <2>4, <2>6, <3>1, <3>2, IdleKeeps
    <2> QED
      BY <1>2, <2>5, <2>6 DEF HandlerEnds, Returns
  <1> QED
    BY <1>2 DEF Handlers, HandlerDone, HandlerGivesUp, Handling

LEMMA RebootKeeps == ASSUME FrameInv, Reboot PROVE FrameInv'
  <1>1. /\ seclevel' \in SecLevels /\ input' = <<>> /\ rest' = <<>> /\ sent' = 0 /\ gone' = FALSE
        /\ sock_init' = TRUE /\ logged_in' = FALSE /\ idle' = 0 /\ close_socket' = FALSE
        /\ rx_buffer' = <<>> /\ pc' = "closed" /\ done' = <<>>
    BY DEF Reboot
  <1>2. /\ input' \in Seq(Cells) /\ Len(input') <= MaxInput /\ rest' \in Seq(Cells)
        /\ rx_buffer' \in Seq(Cells) /\ Len(rx_buffer') <= RxBuffSize
        /\ sent' \in 0 .. MaxFrames /\ idle' \in 0 .. TcpTimeout + 1
    BY <1>1, Nothing, LwdaqAssumption
  <1>3. TypeOK'
    BY <1>1, <1>2 DEF TypeOK
  <1>4. StreamInv'
    BY <1>1 DEF StreamInv
  <1> QED
    BY <1>3, <1>4 DEF FrameInv

LEMMA FrameStep == FrameInv /\ [Next]_vars => FrameInv'
  <1> SUFFICES ASSUME FrameInv, [Next]_vars PROVE FrameInv'
    OBVIOUS
  <1>1. CASE UNCHANGED vars
    BY <1>1 DEF vars, client, server, FrameInv, TypeOK, StreamInv, Stream, Unread
  <1> QED
    BY <1>1, EnvironmentKeeps, ActivateKeeps, CallKeeps, HandlersKeep, RebootKeeps DEF Next

(***************************************************************************)
(* The receive buffer of lwdaq_tasks is never filled past TCP_RX_BUFF_SIZE *)
(* and a message is handled only when its frame is whole, for frames of    *)
(* every announced length and streams cut anywhere.                        *)
(***************************************************************************)
THEOREM FramesTypeCorrect == Spec => []TypeOK
  <1>1. FrameInv => TypeOK
    BY DEF FrameInv
  <1> QED
    BY <1>1, FrameInit, FrameStep, PTL DEF Spec

-----------------------------------------------------------------------------
(* Logging in.                                                             *)

(* Among the first n messages obeyed, the last LOGIN gave the password.    *)
LoggedInAfter(n) ==
    \E k \in 1 .. n :
        /\ done[k].id = "LOGIN"
        /\ \A j \in k .. n : done[j].id = "LOGIN" => GivesPassword(done[j])

(* Whatever has been obeyed in this session and needs the password at the  *)
(* level in force came after a LOGIN that gave it, with no wrong one since *)
(* (the gates of lwdaq_handle_message).                                    *)
NothingWithoutPassword ==
    \A n \in 1 .. Len(done) : seclevel >= Needs(done[n]) => LoggedInAfter(n - 1)

Obeyed == [id : Ids, content : Seq(Cells)]

LoginInv ==
    /\ done \in Seq(Obeyed)
    /\ pc # "closed" /\ ~sock_init /\ logged_in => LoggedInAfter(Len(done))
    /\ NothingWithoutPassword

LEMMA LoginInit == Init => LoginInv
  BY EmptySeq DEF Init, LoginInv, NothingWithoutPassword

LEMMA NothingObeyed == ASSUME done' = <<>>, pc' = "closed" PROVE LoginInv'
  BY EmptySeq DEF LoginInv, NothingWithoutPassword

LEMMA SameObeyed ==
  ASSUME LoginInv, UNCHANGED <<done, seclevel>>,
         pc' # "closed" /\ ~sock_init' /\ logged_in' => pc # "closed" /\ ~sock_init /\ logged_in
  PROVE  LoginInv'
  BY DEF LoginInv, NothingWithoutPassword, LoggedInAfter, Needs

(* The gates: a message that needs the password at this level passes only  *)
(* with logged_in.                                                         *)
LEMMA Gates ==
  ASSUME NEW m, seclevel \in 0 .. 2, Permitted(m), seclevel >= Needs(m)
  PROVE  logged_in
  BY DEF Permitted, Needs, Guarded

LEMMA OneMoreObeyed ==
  ASSUME LoginInv, NEW m \in Obeyed, done' = Append(done, m), UNCHANGED seclevel,
         seclevel \in 0 .. 2, pc # "closed", ~sock_init, Permitted(m),
         logged_in' = LoggedInBy(m)
  PROVE  LoginInv'
  <1>0. PICK n \in Nat : n = Len(done)
    BY LenProperties DEF LoginInv
  <1>1. /\ n \in Nat /\ done' \in Seq(Obeyed) /\ Len(done') = n + 1 /\ done'[n + 1] = m
        /\ \A i \in 1 .. n : done'[i] = done[i]
    BY <1>0, AppendProperties, LenProperties DEF LoginInv
  <1>2. ASSUME NEW k \in 0 .. n, LoggedInAfter(k) PROVE LoggedInAfter(k)'
    <2>1. PICK i \in 1 .. k :
              /\ done[i].id = "LOGIN"
              /\ \A j \in i .. k : done[j].id = "LOGIN" => GivesPassword(done[j])
      BY <1>2 DEF LoggedInAfter
    <2>2. done'[i] = done[i] /\ \A j \in i .. k : done'[j] = done[j]
      BY <1>1
    <2> QED
      BY <2>1, <2>2 DEF LoggedInAfter
  <1>3. NothingWithoutPassword'
    <2> SUFFICES ASSUME NEW i \in 1 .. n + 1, seclevel >= Needs(done'[i])
                 PROVE  LoggedInAfter(i - 1)'
      BY <1>1 DEF NothingWithoutPassword, Needs
    <2>1. CASE i \in 1 .. n
      <3>1. LoggedInAfter(i - 1)
        BY <1>0, <1>1, <2>1 DEF LoginInv, NothingWithoutPassword
      <3> QED
        BY <1>1, <1>2, <2>1, <3>1
    <2>2. CASE i = n + 1
      <3>1. LoggedInAfter(n)
        BY <1>0, <1>1, <2>2, Gates DEF LoginInv
      <3> QED
        BY <1>1, <1>2, <2>2, <3>1
    <2> QED
      BY <1>1, <2>1, <2>2
  <1>4. logged_in' => LoggedInAfter(Len(done))'
    <2> SUFFICES ASSUME logged_in' PROVE LoggedInAfter(n + 1)'
      BY <1>1 DEF LoggedInAfter
    <2>1. CASE m.id = "LOGIN"
      <3>1. GivesPassword(m)
        BY <2>1 DEF LoggedInBy
      <3>2. n + 1 \in 1 .. n + 1 /\ \A j \in n + 1 .. n + 1 : j = n + 1
        BY <1>1
      <3> QED
        BY <1>1, <2>1, <3>1, <3>2 DEF LoggedInAfter
    <2>2. CASE m.id # "LOGIN"
      <3>1. LoggedInAfter(n)
        BY <1>0, <2>2 DEF LoggedInBy, LoginInv
      <3>2. PICK k \in 1 .. n :
                /\ done[k].id = "LOGIN"
                /\ \A j \in k .. n : done[j].id = "LOGIN" => GivesPassword(done[j])
        BY <3>1 DEF LoggedInAfter
      <3>3. /\ k \in 1 .. n + 1 /\ done'[k].id = "LOGIN"
            /\ \A j \in k .. n + 1 : j \in 1 .. n \/ j = n + 1
        BY <1>1, <3>2
      <3>4. \A j \in k .. n + 1 : done'[j].id = "LOGIN" => GivesPassword(done'[j])
        BY <1>1, <2>2, <3>2, <3>3
      <3> QED
        BY <3>3, <3>4 DEF LoggedInAfter
    <2> QED
      BY <2>1, <2>2
  <1> QED
    BY <1>1, <1>3, <1>4 DEF LoginInv

LEMMA MessageType ==
  ASSUME FrameInv, Called, ~sock_init, HasFrame(Gathered)
  PROVE  Message(Gathered) \in Obeyed
  <1> DEFINE b == Gathered
             r == SubSeq(input, Taken + 1, Len(input)) \o rest
  <1>1. b \in Seq(Cells) /\ r \in Seq(Cells) /\ Headed(b \o r)
    BY GatheredTyped
  <1> HIDE DEF r
  <1>2. IdOf(b) \in Ids /\ LenOf(b) \in Nat
    BY <1>1, FrameTyped
  <1>3. \A i \in ContentOffset + 1 .. ContentOffset + LenOf(b) : b[i] \in Cells
    BY <1>1, <1>2, ElementOfSeq, LenProperties DEF HasFrame, FrameSize, ContentOffset
  <1>4. Content(b) \in Seq(Cells)
    BY <1>2, <1>3, SubSeqProperties DEF Content, ContentOffset
  <1> QED
    BY <1>2, <1>4 DEF Message, Obeyed

LEMMA LoginStep == FrameInv /\ LoginInv /\ [Next]_vars => LoginInv'
  <1> SUFFICES ASSUME FrameInv, LoginInv, [Next]_vars PROVE LoginInv'
    OBVIOUS
  <1>1. CASE UNCHANGED vars \/ Environment
    BY <1>1, SameObeyed
    DEF vars, client, server, Environment, Sends, Arrive, Send, ClientLeaves, SecondPasses
  <1>2. CASE Activate
    BY <1>2, SameObeyed DEF Activate
  <1>3. CASE Reboot
    BY <1>3, NothingObeyed DEF Reboot
  <1>4. ASSUME Closes PROVE LoginInv'
    BY <1>4, NothingObeyed DEF Closes
  <1>5. CASE Handlers
    BY <1>4, <1>5, SameObeyed
    DEF Handlers, HandlerDone, HandlerGivesUp, Handling, HandlerEnds, Returns
  <1>6. CASE Call
    <2>1. CASE ClosedByClient
      BY <1>4, <2>1 DEF ClosedByClient
    <2>2. CASE TasksInit
      BY <1>4, <1>6, <2>2, SameObeyed DEF TasksInit, Returns, Call
    <2>3. CASE WaitForMore
      BY <1>4, <1>6, <2>3, SameObeyed DEF WaitForMore, Gathering, Called, Returns, Call
    <2>4. CASE NotAFrame \/ Reject
      BY <1>4, <2>4 DEF NotAFrame, Reject, Returns
    <2>5. CASE Handle
      <3>1. /\ Called /\ ~sock_init /\ HasFrame(Gathered) /\ Permitted(Message(Gathered))
            /\ done' = Append(done, Message(Gathered))
            /\ logged_in' = LoggedInBy(Message(Gathered))
        BY <2>5 DEF Handle, Gathering, Complete
      <3>2. pc # "closed" /\ UNCHANGED seclevel /\ seclevel \in 0 .. 2
        BY <1>6, <3>1, LwdaqAssumption DEF Call, Called, FrameInv, TypeOK
      <3> QED
        BY <3>1, <3>2, MessageType, OneMoreObeyed
    <2> QED
      BY <1>6, <2>1, <2>2, <2>3, <2>4, <2>5 DEF Call
  <1> QED
    BY <1>1, <1>2, <1>3, <1>5, <1>6 DEF Next

(***************************************************************************)
(* No message that needs the password is obeyed before this client has     *)
(* given it, or after a wrong one, at any level: neither what an earlier   *)
(* client proved nor the way a stream is cut can open the gates of         *)
(* lwdaq_handle_message.                                                   *)
(***************************************************************************)
THEOREM GatesHold == Spec => []NothingWithoutPassword
  <1>1. LoginInv => NothingWithoutPassword
    BY DEF LoginInv
  <1> QED
    BY <1>1, FrameInit, FrameStep, LoginInit, LoginStep, PTL DEF Spec

-----------------------------------------------------------------------------
(* Induction.  The provers cannot instantiate the induction theorems of    *)
(* the library, which take a predicate; a set of counterexamples has a     *)
(* least member, which is as good.                                         *)

LEMMA LeastOf ==
  ASSUME NEW T \in SUBSET Nat, T # {}
  PROVE  \E x \in T : \A y \in T : x <= y
  <1>1. IsWellFoundedOn(OpToRel(<, Nat), Nat)
    BY NatLessThanWellFounded
  <1>2. PICK x \in T : \A y \in T : ~(<<y, x>> \in OpToRel(<, Nat))
    BY <1>1, WFMin
  <1>3. \A x1, x2 \in Nat : x1 < x2 => <<x1, x2>> \in OpToRel(<, Nat)
    BY DEF OpToRel
  <1>4. \A y \in T : ~(y < x)
    BY <1>2, <1>3
  <1> QED
    BY <1>4

LEMMA ShortestOf ==
  ASSUME NEW T \in SUBSET Streams, T # {}
  PROVE  \E b \in T : \A c \in T : Len(b) <= Len(c)
  <1> DEFINE L == {Len(b) : b \in T}
  <1>1. L \in SUBSET Nat /\ L # {}
    <2>1. \A b \in T : Len(b) \in Nat
      BY LenProperties DEF Streams
    <2> QED
      BY <2>1
  <1>2. PICK x \in L : \A y \in L : x <= y
    BY <1>1, LeastOf
  <1> QED
    BY <1>2

-----------------------------------------------------------------------------
(* Streams as they stand in the buffer and the socket.                     *)

LEMMA HeadedStream ==
  ASSUME NEW a \in Seq(Cells), NEW b \in Seq(Cells), Headed(a \o b)
  PROVE  a \in Streams
  <1>1. /\ Len(a \o b) = Len(a) + Len(b) /\ Len(a) \in Nat /\ Len(b) \in Nat
        /\ \A i \in 1 .. Len(a) + Len(b) :
               (a \o b)[i] = IF i <= Len(a) THEN a[i] ELSE b[i - Len(a)]
    BY ConcatProperties, LenProperties
  <1> SUFFICES ASSUME NEW i \in 1 .. Len(a) - 1, a[i] = Start PROVE a[i + 1] \in Heads
    BY DEF Streams
  <1>2. i \in 1 .. Len(a) + Len(b) /\ i + 1 \in 1 .. Len(a) + Len(b) /\ i + 1 <= Len(a)
    BY <1>1
  <1>3. (a \o b)[i] = Start /\ (a \o b)[i + 1] = a[i + 1]
    BY <1>1, <1>2
  <1> QED
    BY <1>1, <1>2, <1>3 DEF Headed

LEMMA StreamFrame ==
  ASSUME NEW b \in Streams, HasFrame(b)
  PROVE  /\ IdOf(b) \in Ids /\ LenOf(b) \in Nat /\ Message(b) \in Obeyed
         /\ AfterFrame(b) \in Streams
         /\ Len(AfterFrame(b)) = Len(b) - (LenOf(b) + FrameSize)
         /\ LenOf(b) + FrameSize \in 3 .. Len(b)
  <1>1. b \in Seq(Cells) /\ Len(b) \in Nat
    BY LenProperties DEF Streams
  <1>2. Len(b) >= 2 /\ b[1] = Start
    BY DEF HasFrame, HasHead, ContentOffset
  <1>3. b[2] \in Heads
    BY <1>1, <1>2 DEF Streams
  <1>4. IdOf(b) \in Ids /\ LenOf(b) \in Nat
    BY <1>3 DEF Heads, IdOf, LenOf
  <1>5. PICK n \in 3 .. Len(b) : n = LenOf(b) + FrameSize
    BY <1>1, <1>4 DEF HasFrame, FrameSize
  <1>6. AfterFrame(b) = SubSeq(b, n + 1, Len(b))
    BY <1>5 DEF AfterFrame
  <1>7. /\ AfterFrame(b) \in Seq(Cells) /\ Len(AfterFrame(b)) = Len(b) - n
        /\ \A i \in 1 .. Len(b) - n : AfterFrame(b)[i] = b[i + n]
    BY <1>1, <1>5, <1>6, Cut
  <1>8. AfterFrame(b) \in Streams
    <2> SUFFICES ASSUME NEW i \in 1 .. Len(b) - n - 1, AfterFrame(b)[i] = Start
                 PROVE  AfterFrame(b)[i + 1] \in Heads
      BY <1>7 DEF Streams
    <2>1. b[i + n] = Start /\ AfterFrame(b)[i + 1] = b[i + n + 1] /\ i + n \in 1 .. Len(b) - 1
      BY <1>1, <1>5, <1>7
    <2> QED
      BY <2>1 DEF Streams
  <1>9. Message(b) \in Obeyed
    <2>1. \A i \in ContentOffset + 1 .. ContentOffset + LenOf(b) : b[i] \in Cells
      BY <1>1, <1>4, <1>5, ElementOfSeq DEF FrameSize, ContentOffset
    <2>2. Content(b) \in Seq(Cells)
      BY <1>4, <2>1, SubSeqProperties DEF Content, ContentOffset
    <2> QED
      BY <1>4, <2>2 DEF Message, Obeyed
  <1> QED
    BY <1>4, <1>5, <1>7, <1>8, <1>9

-----------------------------------------------------------------------------
(* MessagesOf is what its equation says.                                   *)

MessagesBy(f, b) ==
    IF BadStart(b) \/ (EndsBadly(b) /\ ~TooLong(b)) THEN <<Malformed>>
    ELSE IF HasFrame(b) /\ ~TooLong(b) THEN <<Message(b)>> \o f[AfterFrame(b)]
    ELSE <<>>

Upto(n) == {b \in Streams : Len(b) <= n}
Parses(f, n) == f = [b \in Upto(n) |-> MessagesBy(f, b)]

LEMMA SameBy ==
  ASSUME NEW b, NEW f, NEW g, HasFrame(b) => f[AfterFrame(b)] = g[AfterFrame(b)]
  PROVE  MessagesBy(f, b) = MessagesBy(g, b)
  BY DEF MessagesBy

LEMMA AfterIsShorter ==
  ASSUME NEW n \in Nat, NEW b \in Upto(n), HasFrame(b)
  PROVE  /\ n > 0 /\ AfterFrame(b) \in Upto(n - 1) /\ AfterFrame(b) \in Upto(n)
         /\ Len(AfterFrame(b)) < Len(b)
  <1>1. b \in Streams /\ Len(b) \in Nat /\ Len(b) <= n
    BY LenProperties DEF Upto, Streams
  <1>2. AfterFrame(b) \in Streams /\ Len(AfterFrame(b)) <= Len(b) - 3 /\ Len(b) >= 3
    BY <1>1, StreamFrame
  <1>3. Len(AfterFrame(b)) \in Nat
    BY <1>2, LenProperties DEF Streams
  <1> QED
    BY <1>1, <1>2, <1>3 DEF Upto

LEMMA SameParse ==
  ASSUME NEW m \in Nat, NEW n \in Nat, m <= n, NEW f, NEW g, Parses(f, m), Parses(g, n)
  PROVE  \A b \in Upto(m) : f[b] = g[b]
  <1> DEFINE T == {b \in Upto(m) : f[b] # g[b]}
  <1> SUFFICES ASSUME T # {} PROVE FALSE
    OBVIOUS
  <1>1. T \in SUBSET Streams
    BY DEF Upto
  <1>2. PICK b \in T : \A c \in T : Len(b) <= Len(c)
    BY <1>1, ShortestOf
  <1>3. b \in Upto(m) /\ b \in Upto(n) /\ Len(b) \in Nat
    BY LenProperties DEF Upto, Streams
  <1>4. HasFrame(b) => f[AfterFrame(b)] = g[AfterFrame(b)]
    <2> SUFFICES ASSUME HasFrame(b) PROVE AfterFrame(b) \in Upto(m) \ T
      OBVIOUS
    <2>1. AfterFrame(b) \in Upto(m) /\ Len(AfterFrame(b)) < Len(b)
      BY <1>3, AfterIsShorter
    <2>2. Len(AfterFrame(b)) \in Nat
      BY <2>1, LenProperties DEF Upto, Streams
    <2> QED
      BY <1>2, <1>3, <2>1, <2>2
  <1>5. MessagesBy(f, b) = MessagesBy(g, b)
    BY <1>4, SameBy
  <1>6. f[b] = MessagesBy(f, b) /\ g[b] = MessagesBy(g, b)
    BY <1>3 DEF Parses
  <1> QED
    BY <1>5, <1>6

LEMMA SomeParse == \A n \in Nat : \E f : Parses(f, n)
  <1> DEFINE T == {n \in Nat : ~ \E f : Parses(f, n)}
  <1> SUFFICES ASSUME T # {} PROVE FALSE
    OBVIOUS
  <1>1. PICK n \in T : \A k \in T : n <= k
    BY LeastOf
  <1>2. \E f : \A b \in Upto(n) : HasFrame(b) => f[AfterFrame(b)] = MessagesBy(f, AfterFrame(b))
    <2>1. CASE n = 0
      BY <2>1, AfterIsShorter
    <2>2. CASE n > 0
      <3>1. PICK f : Parses(f, n - 1)
        BY <1>1, <2>2
      <3>2. \A b \in Upto(n) : HasFrame(b) => AfterFrame(b) \in Upto(n - 1)
        BY AfterIsShorter
      <3>3. \A b \in Upto(n - 1) : f[b] = MessagesBy(f, b)
        BY <3>1 DEF Parses
      <3> QED
        BY <3>2, <3>3
    <2> QED
      BY <2>1, <2>2
  <1>3. PICK f : \A b \in Upto(n) : HasFrame(b) => f[AfterFrame(b)] = MessagesBy(f, AfterFrame(b))
    BY <1>2
  <1> DEFINE g == [b \in Upto(n) |-> MessagesBy(f, b)]
  <1>4. \A b \in Upto(n) : HasFrame(b) => g[AfterFrame(b)] = f[AfterFrame(b)]
    BY <1>3, AfterIsShorter
  <1>5. \A b \in Upto(n) : MessagesBy(g, b) = MessagesBy(f, b)
    <2> HIDE DEF g
    <2> QED
      BY <1>4, SameBy
  <1>6. Parses(g, n)
    BY <1>5 DEF Parses
  <1> QED
    BY <1>6

LEMMA WholeParse == \E f : f = [b \in Streams |-> MessagesBy(f, b)]
  <1> DEFINE p(n) == CHOOSE f : Parses(f, n)
             h == [b \in Streams |-> p(Len(b))[b]]
  <1>1. \A n \in Nat : Parses(p(n), n)
    BY SomeParse
  <1>2. \A b \in Streams : Len(b) \in Nat /\ b \in Upto(Len(b))
    BY LenProperties DEF Upto, Streams
  <1> SUFFICES ASSUME NEW b \in Streams PROVE h[b] = MessagesBy(h, b)
    <2> HIDE DEF p
    <2>1. h = [b \in Streams |-> MessagesBy(h, b)]
      OBVIOUS
    <2> HIDE DEF h
    <2> QED
      BY <2>1
  <1> HIDE DEF p
  <1>3. h[b] = MessagesBy(p(Len(b)), b)
    BY <1>1, <1>2 DEF Parses
  <1>4. HasFrame(b) => h[AfterFrame(b)] = p(Len(b))[AfterFrame(b)]
    <2> SUFFICES ASSUME HasFrame(b) PROVE h[AfterFrame(b)] = p(Len(b))[AfterFrame(b)]
      OBVIOUS
    <2>1. AfterFrame(b) \in Streams /\ Len(AfterFrame(b)) < Len(b)
      BY <1>2, AfterIsShorter DEF Upto
    <2>2. Len(AfterFrame(b)) \in Nat /\ AfterFrame(b) \in Upto(Len(AfterFrame(b)))
      BY <1>2, <2>1
    <2>3. Len(AfterFrame(b)) <= Len(b)
      BY <1>2, <2>1, <2>2
    <2>4. p(Len(AfterFrame(b)))[AfterFrame(b)] = p(Len(b))[AfterFrame(b)]
      BY <1>1, <1>2, <2>2, <2>3, SameParse
    <2> QED
      BY <2>1, <2>4
  <1> HIDE DEF h
  <1>5. MessagesBy(h, b) = MessagesBy(p(Len(b)), b)
    BY <1>4, SameBy
  <1> QED
    BY <1>3, <1>5

LEMMA MessagesAre == \A b \in Streams : MessagesOf[b] = MessagesBy(MessagesOf, b)
  <1> DEFINE P(f) == f = [b \in Streams |-> MessagesBy(f, b)]
  <1>1. MessagesOf = CHOOSE f : P(f)
    BY DEF MessagesOf, MessagesBy
  <1>2. \E f : P(f)
    BY WholeParse
  <1>3. P(CHOOSE f : P(f))
    BY <1>2
  <1>4. P(MessagesOf)
    BY <1>1, <1>3
  <1> QED
    BY <1>4

-----------------------------------------------------------------------------
(* The messages of a stream that grows and of one that is read.            *)

LEMMA MalformedType == Malformed \in Obeyed
  BY EmptySeq DEF Malformed, Obeyed, Ids

LEMMA MessagesType == \A b \in Streams : MessagesOf[b] \in Seq(Obeyed)
  <1> DEFINE T == {b \in Streams : MessagesOf[b] \notin Seq(Obeyed)}
  <1> SUFFICES ASSUME T # {} PROVE FALSE
    OBVIOUS
  <1>1. PICK b \in T : \A c \in T : Len(b) <= Len(c)
    BY ShortestOf
  <1>2. b \in Streams /\ Len(b) \in Nat
    BY LenProperties DEF Streams
  <1>3. CASE BadStart(b) \/ (EndsBadly(b) /\ ~TooLong(b))
    <2>1. MessagesOf[b] = <<Malformed>>
      BY <1>2, <1>3, MessagesAre DEF MessagesBy
    <2>2. <<Malformed>> \in Seq(Obeyed)
      BY MalformedType
    <2> QED
      BY <2>1, <2>2
  <1>4. CASE ~(BadStart(b) \/ (EndsBadly(b) /\ ~TooLong(b))) /\ HasFrame(b) /\ ~TooLong(b)
    <2>1. MessagesOf[b] = <<Message(b)>> \o MessagesOf[AfterFrame(b)]
      BY <1>2, <1>4, MessagesAre DEF MessagesBy
    <2>2. /\ Message(b) \in Obeyed /\ AfterFrame(b) \in Streams
          /\ Len(AfterFrame(b)) < Len(b)
      BY <1>2, <1>4, StreamFrame
    <2>3. MessagesOf[AfterFrame(b)] \in Seq(Obeyed)
      <3>1. Len(AfterFrame(b)) \in Nat
        BY <2>2, LenProperties DEF Streams
      <3> QED
        BY <1>1, <1>2, <2>2, <3>1
    <2>4. <<Message(b)>> \o MessagesOf[AfterFrame(b)] \in Seq(Obeyed)
      <3>1. <<Message(b)>> \in Seq(Obeyed)
        BY <2>2
      <3> QED
        BY <2>3, <3>1, ConcatProperties
    <2> QED
      BY <2>1, <2>4
  <1>5. CASE ~(BadStart(b) \/ (EndsBadly(b) /\ ~TooLong(b))) /\ ~(HasFrame(b) /\ ~TooLong(b))
    <2>1. MessagesOf[b] = <<>>
      BY <1>2, <1>5, MessagesAre DEF MessagesBy
    <2> QED
      BY <2>1, EmptySeq
  <1> QED
    BY <1>3, <1>4, <1>5

LEMMA NoMessages == <<>> \in Streams /\ MessagesOf[<<>>] = <<>>
  <1>1. <<>> \in Streams
    BY EmptySeq DEF Streams
  <1>2. ~BadStart(<<>>) /\ ~HasFrame(<<>>)
    BY DEF BadStart, HasFrame, HasHead, ContentOffset
  <1> QED
    BY <1>1, <1>2, MessagesAre DEF MessagesBy, EndsBadly

(* A frame at the start of a stream is the same whatever follows it.       *)
LEMMA RestOf ==
  ASSUME NEW s \in Seq(Cells), NEW n \in 0 .. Len(s)
  PROVE  /\ SubSeq(s, n + 1, Len(s)) \in Seq(Cells)
         /\ Len(SubSeq(s, n + 1, Len(s))) = Len(s) - n
         /\ \A i \in 1 .. Len(s) - n : SubSeq(s, n + 1, Len(s))[i] = s[i + n]
  <1>1. /\ SubSeq(s, n + 1, Len(s)) \in Seq(Cells)
        /\ Len(SubSeq(s, n + 1, Len(s))) = Len(s) - n
    BY Cut
  <1>2. Len(s) \in Nat /\ n \in Nat
    BY LenProperties
  <1>3. ASSUME NEW i \in 1 .. Len(s) - n PROVE SubSeq(s, n + 1, Len(s))[i] = s[i + n]
    <2>1. i \in 1 .. Len(s) - (n + 1) + 1 /\ i + (n + 1) - 1 = i + n
      BY <1>2, <1>3
    <2> QED
      BY <1>2, <2>1
  <1> QED
    BY <1>1, <1>3

LEMMA SameFrame ==
  ASSUME NEW b \in Streams, NEW c \in Seq(Cells), b \o c \in Streams, HasFrame(b)
  PROVE  /\ HasFrame(b \o c) /\ LenOf(b \o c) = LenOf(b) /\ IdOf(b \o c) = IdOf(b)
         /\ Message(b \o c) = Message(b) /\ AfterFrame(b \o c) = AfterFrame(b) \o c
         /\ EndsBadly(b \o c) <=> EndsBadly(b)
         /\ TooLong(b \o c) <=> TooLong(b)
  <1> DEFINE d == b \o c
  <1>1. /\ b \in Seq(Cells) /\ Len(b) \in Nat /\ Len(c) \in Nat
        /\ d \in Seq(Cells) /\ Len(d) = Len(b) + Len(c)
        /\ \A i \in 1 .. Len(b) + Len(c) : d[i] = IF i <= Len(b) THEN b[i] ELSE c[i - Len(b)]
    BY ConcatProperties, LenProperties DEF Streams
  <1>2. PICK n \in 3 .. Len(b) : n = LenOf(b) + FrameSize
    BY StreamFrame
  <1>3. LenOf(b) \in Nat /\ n = LenOf(b) + 3 /\ b[1] = Start
    BY <1>2, StreamFrame DEF FrameSize, HasFrame, HasHead
  <1>4. \A i \in 1 .. Len(b) : d[i] = b[i]
    BY <1>1
  <1> HIDE DEF d
  <1>5. d[1] = b[1] /\ d[2] = b[2] /\ d[n] = b[n]
    BY <1>2, <1>4
  <1>6. LenOf(d) = LenOf(b) /\ IdOf(d) = IdOf(b)
    BY <1>5 DEF LenOf, IdOf
  <1>7. HasHead(d) /\ HasHead(b) /\ HasFrame(d)
    BY <1>1, <1>2, <1>3, <1>5, <1>6 DEF HasFrame, HasHead, ContentOffset
  <1>8. (EndsBadly(d) <=> EndsBadly(b)) /\ (TooLong(d) <=> TooLong(b))
    BY <1>2, <1>5, <1>6, <1>7 DEF EndsBadly, TooLong
  <1>9. Content(d) = Content(b)
    <2>1. PICK k \in Nat : k = LenOf(b) /\ 2 + k <= Len(b)
      BY <1>1, <1>2, <1>3
    <2>2. Content(d) = SubSeq(d, 3, 2 + k) /\ Content(b) = SubSeq(b, 3, 2 + k)
      BY <1>6, <2>1 DEF Content, ContentOffset
    <2>3. /\ SubSeq(d, 3, 2 + k) = [i \in 1 .. 2 + k - 3 + 1 |-> d[i + 3 - 1]]
          /\ SubSeq(b, 3, 2 + k) = [i \in 1 .. 2 + k - 3 + 1 |-> b[i + 3 - 1]]
      BY <1>1, <2>1
    <2>4. \A i \in 1 .. 2 + k - 3 + 1 : d[i + 3 - 1] = b[i + 3 - 1]
      BY <1>4, <2>1
    <2> QED
      BY <2>2, <2>3, <2>4
  <1>10. AfterFrame(d) = AfterFrame(b) \o c
    <2> DEFINE p == SubSeq(b, 1, n)
               q == SubSeq(b, n + 1, Len(b))
    <2>1. AfterFrame(b) = q /\ AfterFrame(d) = SubSeq(d, n + 1, Len(d))
      BY <1>2, <1>6 DEF AfterFrame
    <2>2. q \in Seq(Cells) /\ Len(q) = Len(b) - n /\ \A i \in 1 .. Len(b) - n : q[i] = b[i + n]
      BY <1>1, <1>2, RestOf
    <2> HIDE DEF q
    <2>3. /\ q \o c \in Seq(Cells) /\ Len(q \o c) = Len(b) - n + Len(c)
          /\ \A i \in 1 .. Len(b) - n + Len(c) :
                 (q \o c)[i] = IF i <= Len(b) - n THEN q[i] ELSE c[i - (Len(b) - n)]
      <3>1. /\ q \o c \in Seq(Cells) /\ Len(q \o c) = Len(q) + Len(c)
            /\ \A i \in 1 .. Len(q) + Len(c) :
                   (q \o c)[i] = IF i <= Len(q) THEN q[i] ELSE c[i - Len(q)]
        BY <2>2, ConcatProperties
      <3> QED
        BY <2>2, <3>1
    <2>4. /\ SubSeq(d, n + 1, Len(d)) \in Seq(Cells)
          /\ Len(SubSeq(d, n + 1, Len(d))) = Len(d) - n
          /\ \A i \in 1 .. Len(d) - n : SubSeq(d, n + 1, Len(d))[i] = d[i + n]
      <3>1. d \in Seq(Cells) /\ n \in 0 .. Len(d)
        BY <1>1, <1>2
      <3> QED
        BY <3>1, RestOf
    <2>5. ASSUME NEW i \in 1 .. Len(d) - n PROVE (q \o c)[i] = d[i + n]
      <3>1. /\ i \in 1 .. Len(b) - n + Len(c) /\ i + n \in 1 .. Len(b) + Len(c)
            /\ i <= Len(b) - n <=> i + n <= Len(b)
            /\ i - (Len(b) - n) = i + n - Len(b)
        BY <1>1, <1>2
      <3>2. d[i + n] = IF i + n <= Len(b) THEN b[i + n] ELSE c[i + n - Len(b)]
        BY <1>1, <3>1
      <3>3. CASE i <= Len(b) - n
        BY <2>2, <2>3, <3>1, <3>2, <3>3
      <3>4. CASE ~(i <= Len(b) - n)
        BY <2>3, <3>1, <3>2, <3>4
      <3> QED
        BY <3>3, <3>4
    <2>6. q \o c = SubSeq(d, n + 1, Len(d))
      <3>1. Len(q \o c) = Len(d) - n
        BY <1>1, <1>2, <2>3
      <3>2. \A i \in 1 .. Len(d) - n : (q \o c)[i] = SubSeq(d, n + 1, Len(d))[i]
        BY <2>4, <2>5
      <3> HIDE DEF q
      <3> QED
        BY <2>3, <2>4, <3>1, <3>2, SeqEqual
    <2> QED
      BY <2>1, <2>6
  <1> QED
    BY <1>6, <1>7, <1>8, <1>9, <1>10 DEF Message, d

(* With one cell more, there is one message more at the end or none.       *)
Grows(s, t) == t = s \/ \E m \in Obeyed : t = Append(s, m)

LEMMA GrowsBehind ==
  ASSUME NEW m \in Obeyed, NEW s \in Seq(Obeyed), NEW t \in Seq(Obeyed), Grows(s, t)
  PROVE  Grows(<<m>> \o s, <<m>> \o t)
  <1>1. ASSUME NEW k \in Obeyed, t = Append(s, k) PROVE <<m>> \o t = Append(<<m>> \o s, k)
    <2>1. <<m>> \in Seq(Obeyed) /\ <<k>> \in Seq(Obeyed)
      OBVIOUS
    <2>2. <<m>> \o s \in Seq(Obeyed)
      BY <2>1, ConcatProperties
    <2>3. t = s \o <<k>> /\ Append(<<m>> \o s, k) = (<<m>> \o s) \o <<k>>
      BY <1>1, <2>2, AppendIsConcat
    <2> QED
      BY <2>1, <2>3, ConcatAssociative
  <1> QED
    BY <1>1 DEF Grows

LEMMA OneMoreCell ==
  ASSUME NEW c \in Cells
  PROVE  \A b \in Streams : Append(b, c) \in Streams
             => Grows(MessagesOf[b], MessagesOf[Append(b, c)])
  <1> DEFINE T == {b \in Streams : Append(b, c) \in Streams
                       /\ ~Grows(MessagesOf[b], MessagesOf[Append(b, c)])}
  <1> SUFFICES ASSUME T # {} PROVE FALSE
    OBVIOUS
  <1>1. PICK b \in T : \A e \in T : Len(b) <= Len(e)
    BY ShortestOf
  <1>2. PICK d \in Streams : d = Append(b, c)
    OBVIOUS
  <1>3. /\ b \in Streams /\ b \in Seq(Cells) /\ Len(b) \in Nat /\ <<c>> \in Seq(Cells)
        /\ d = b \o <<c>> /\ Len(d) = Len(b) + 1 /\ d[Len(b) + 1] = c
        /\ \A i \in 1 .. Len(b) : d[i] = b[i]
    <2>1. b \in Seq(Cells) /\ Len(b) \in Nat
      BY LenProperties DEF Streams
    <2> QED
      BY <1>2, <2>1, AppendIsConcat, AppendProperties
  <1> SUFFICES Grows(MessagesOf[b], MessagesOf[d])
    BY <1>2
  <1>4. MessagesOf[b] = MessagesBy(MessagesOf, b) /\ MessagesOf[d] = MessagesBy(MessagesOf, d)
    BY <1>3, MessagesAre
  <1>5. HasFrame(d) => d[1] = Start /\ LenOf(d) \in Nat /\ Len(d) >= LenOf(d) + 3
    BY StreamFrame DEF HasFrame, HasHead, FrameSize
  <1>6. Append(<<>>, Malformed) = <<Malformed>> /\ Malformed \in Obeyed
    BY MalformedType
  <1>7. CASE b = <<>>
    <2>1. Len(d) = 1 /\ ~HasFrame(d)
      BY <1>3, <1>5, <1>7
    <2>2. MessagesOf[b] = <<>> /\ MessagesOf[d] \in {<<>>, <<Malformed>>}
      BY <1>4, <1>7, <2>1, NoMessages DEF MessagesBy, EndsBadly
    <2> QED
      BY <1>6, <2>2 DEF Grows
  <1>8. CASE b # <<>> /\ b[1] # Start
    <2>1. 1 \in 1 .. Len(b) /\ d # <<>> /\ d[1] = b[1]
      BY <1>3, <1>8
    <2>2. MessagesOf[b] = <<Malformed>> /\ MessagesOf[d] = <<Malformed>>
      BY <1>4, <1>8, <2>1 DEF MessagesBy, BadStart
    <2> QED
      BY <2>2 DEF Grows
  <1>9. CASE b # <<>> /\ b[1] = Start /\ HasFrame(b)
    <2>1. /\ HasFrame(d) /\ Message(d) = Message(b) /\ AfterFrame(d) = AfterFrame(b) \o <<c>>
          /\ EndsBadly(d) <=> EndsBadly(b)
          /\ TooLong(d) <=> TooLong(b)
      BY <1>3, <1>9, SameFrame
    <2>2. ~BadStart(b) /\ ~BadStart(d)
      BY <1>5, <1>9, <2>1 DEF BadStart
    <2>3. CASE TooLong(b)
      BY <1>4, <2>1, <2>2, <2>3 DEF MessagesBy, Grows
    <2>4. CASE ~TooLong(b) /\ EndsBadly(b)
      BY <1>4, <2>1, <2>2, <2>4 DEF MessagesBy, Grows
    <2>5. CASE ~TooLong(b) /\ ~EndsBadly(b)
      <3>1. /\ MessagesOf[b] = <<Message(b)>> \o MessagesOf[AfterFrame(b)]
            /\ MessagesOf[d] = <<Message(b)>> \o MessagesOf[AfterFrame(d)]
        BY <1>4, <1>9, <2>1, <2>2, <2>5 DEF MessagesBy
      <3>2. /\ Message(b) \in Obeyed /\ AfterFrame(b) \in Streams
            /\ Len(AfterFrame(b)) < Len(b) /\ AfterFrame(d) \in Streams
        BY <1>3, <1>9, <2>1, StreamFrame
      <3>3. AfterFrame(d) = Append(AfterFrame(b), c) /\ Len(AfterFrame(b)) \in Nat
        BY <2>1, <3>2, AppendIsConcat, LenProperties DEF Streams
      <3>4. Grows(MessagesOf[AfterFrame(b)], MessagesOf[AfterFrame(d)])
        <4>1. AfterFrame(b) \notin T
          BY <1>1, <1>3, <3>2, <3>3
        <4>2. Append(AfterFrame(b), c) \in Streams
          BY <3>2, <3>3
        <4> QED
          BY <3>2, <3>3, <4>1, <4>2
      <3>5. /\ MessagesOf[AfterFrame(b)] \in Seq(Obeyed)
            /\ MessagesOf[AfterFrame(d)] \in Seq(Obeyed)
        BY <3>2, MessagesType
      <3> QED
        BY <3>1, <3>2, <3>4, <3>5, GrowsBehind
    <2> QED
      BY <2>3, <2>4, <2>5
  <1>10. CASE b # <<>> /\ b[1] = Start /\ ~HasFrame(b)
    <2>1. MessagesOf[b] = <<>>
      BY <1>4, <1>10 DEF MessagesBy, BadStart, EndsBadly
    <2>2. 1 \in 1 .. Len(b) /\ d[1] = Start /\ ~BadStart(d)
      BY <1>3, <1>10 DEF BadStart
    <2>3. ASSUME HasFrame(d) PROVE AfterFrame(d) = <<>> /\ Message(d) \in Obeyed
      <3>1. /\ LenOf(d) \in Nat /\ Message(d) \in Obeyed /\ AfterFrame(d) \in Seq(Cells)
            /\ Len(AfterFrame(d)) = Len(d) - (LenOf(d) + 3)
            /\ Len(d) >= LenOf(d) + 3
        BY <1>5, <2>3, StreamFrame DEF FrameSize, Streams
      <3>2. Len(b) >= 2 /\ HasHead(b)
        BY <1>3, <1>10, <3>1 DEF HasHead, ContentOffset
      <3>3. d[2] = b[2] /\ LenOf(b) = LenOf(d)
        BY <1>3, <3>2 DEF LenOf
      <3>4. Len(b) < LenOf(d) + 3
        BY <1>3, <1>10, <3>1, <3>2, <3>3 DEF HasFrame, FrameSize
      <3>5. Len(AfterFrame(d)) = 0
        BY <1>3, <3>1, <3>4
      <3> QED
        BY <3>1, <3>5, EmptySeq
    <2>4. CASE HasFrame(d) /\ ~TooLong(d) /\ ~EndsBadly(d)
      <3>1. MessagesOf[d] = <<Message(d)>> \o MessagesOf[<<>>]
        BY <1>4, <2>2, <2>3, <2>4 DEF MessagesBy
      <3>2. <<Message(d)>> \o <<>> = Append(<<>>, Message(d))
        BY <2>3, <2>4
      <3> QED
        BY <2>1, <2>3, <2>4, <3>1, <3>2, NoMessages DEF Grows
    <2>5. CASE HasFrame(d) /\ ~TooLong(d) /\ EndsBadly(d)
      <3>1. MessagesOf[d] = <<Malformed>>
        BY <1>4, <2>5 DEF MessagesBy
      <3> QED
        BY <1>6, <2>1, <3>1 DEF Grows
    <2>6. CASE ~HasFrame(d) \/ TooLong(d)
      <3>1. MessagesOf[d] = <<>>
        BY <1>4, <2>2, <2>6 DEF MessagesBy, EndsBadly
      <3> QED
        BY <2>1, <3>1 DEF Grows
    <2> QED
      BY <2>4, <2>5, <2>6
  <1> QED
    BY <1>7, <1>8, <1>9, <1>10

(* A frame that is read from the front takes its message with it.          *)
LEMMA FrameRead ==
  ASSUME NEW b \in Streams, NEW c \in Seq(Cells), b \o c \in Streams,
         HasFrame(b), ~EndsBadly(b), ~TooLong(b)
  PROVE  /\ AfterFrame(b) \o c \in Streams /\ Message(b) \in Obeyed
         /\ MessagesOf[b \o c] = <<Message(b)>> \o MessagesOf[AfterFrame(b) \o c]
  <1>1. /\ HasFrame(b \o c) /\ Message(b \o c) = Message(b)
        /\ AfterFrame(b \o c) = AfterFrame(b) \o c
        /\ ~EndsBadly(b \o c) /\ ~TooLong(b \o c)
    BY SameFrame
  <1>2. AfterFrame(b \o c) \in Streams /\ Message(b) \in Obeyed /\ ~BadStart(b \o c)
    BY <1>1, StreamFrame DEF HasFrame, HasHead, BadStart
  <1>3. MessagesOf[b \o c] = <<Message(b \o c)>> \o MessagesOf[AfterFrame(b \o c)]
    BY <1>1, <1>2, MessagesAre DEF MessagesBy
  <1> QED
    BY <1>1, <1>2, <1>3

-----------------------------------------------------------------------------
(* What this client has sent, as the abstract service sees it.             *)

LEMMA SentStream == FrameInv => Sent \in Streams
  <1> SUFFICES ASSUME FrameInv PROVE Sent \in Streams
    OBVIOUS
  <1>1. /\ input \in Seq(Cells) /\ rest \in Seq(Cells) /\ rx_buffer \in Seq(Cells)
        /\ Unread \in Seq(Cells)
    BY ConcatProperties DEF FrameInv, TypeOK, Unread
  <1>2. ASSUME NEW b \in Seq(Cells), Headed(b \o Unread) PROVE b \o input \in Streams
    <2>1. (b \o input) \o rest = b \o Unread /\ b \o input \in Seq(Cells)
      BY <1>1, Regroup, ConcatProperties DEF Unread
    <2> QED
      BY <1>1, <1>2, <2>1, HeadedStream
  <1>3. CASE pc = "closed"
    BY <1>3, NoMessages DEF Sent, Streams
  <1>4. CASE pc # "closed" /\ sock_init
    <2>1. Headed(Unread)
      BY <1>4 DEF FrameInv, StreamInv
    <2>2. input \in Streams
      BY <1>1, <2>1, HeadedStream DEF Unread
    <2> QED
      BY <1>1, <1>4, <2>2 DEF Sent
  <1>5. CASE pc # "closed" /\ ~sock_init /\ pc = "handling"
    <2>1. HasFrame(rx_buffer) /\ Headed(rx_buffer \o Unread)
      BY <1>5 DEF FrameInv, TypeOK, StreamInv, Stream
    <2>2. AfterFrame(rx_buffer) \in Seq(Cells) /\ Headed(AfterFrame(rx_buffer) \o Unread)
      BY <1>1, <2>1, FrameTyped
    <2>3. Sent = AfterFrame(rx_buffer) \o input
      BY <1>5 DEF Sent
    <2> QED
      BY <1>2, <2>2, <2>3 DEF Streams
  <1>6. CASE pc # "closed" /\ ~sock_init /\ pc # "handling"
    <2>1. Headed(rx_buffer \o Unread)
      BY <1>6 DEF FrameInv, StreamInv, Stream
    <2>2. Sent = rx_buffer \o input
      BY <1>6 DEF Sent
    <2> QED
      BY <1>1, <1>2, <2>1, <2>2 DEF Streams
  <1> QED
    BY <1>3, <1>4, <1>5, <1>6

LEMMA SentNext == FrameInv' => Sent' \in Streams
  <1>1. (FrameInv => Sent \in Streams)'
    BY SentStream, PTL
  <1> QED
    BY <1>1 DEF Streams

Proven == pc # "closed" /\ ~sock_init /\ logged_in
AbstractNext == [Service!Next]_(Service!vars)

LEMMA ServiceSame ==
  ASSUME Sent' = Sent, UNCHANGED <<done, seclevel>>, Proven' = Proven
  PROVE  AbstractNext
  BY DEF AbstractNext, Service!vars, Proven

LEMMA ServiceOver ==
  ASSUME pc' = "closed", done' = <<>>, seclevel' = seclevel
  PROVE  AbstractNext
  <1>1. MessagesOf[Sent'] = <<>>
    BY NoMessages DEF Sent
  <1>2. Service!Over
    BY <1>1 DEF Service!Over, Service!Forgotten
  <1> QED
    BY <1>2 DEF AbstractNext, Service!Next

LEMMA ServiceRestart ==
  ASSUME pc' = "closed", done' = <<>>, seclevel' \in SecLevels
  PROVE  AbstractNext
  <1>1. MessagesOf[Sent'] = <<>>
    BY NoMessages DEF Sent
  <1>2. Service!Restart
    BY <1>1 DEF Service!Restart, Service!Forgotten
  <1> QED
    BY <1>2 DEF AbstractNext, Service!Next

LEMMA ServiceArrive ==
  ASSUME FrameInv, FrameInv', NEW c \in Cells, Sent' = Append(Sent, c),
         UNCHANGED <<done, seclevel>>, Proven' = Proven
  PROVE  AbstractNext
  <1>1. Sent \in Streams /\ Sent' \in Streams
    BY SentStream, SentNext
  <1>2. Grows(MessagesOf[Sent], MessagesOf[Sent'])
    BY <1>1, OneMoreCell
  <1>3. CASE MessagesOf[Sent'] = MessagesOf[Sent]
    BY <1>3 DEF AbstractNext, Service!vars, Proven
  <1>4. ASSUME NEW m \in Obeyed, MessagesOf[Sent'] = Append(MessagesOf[Sent], m)
        PROVE  AbstractNext
    <2>1. PICK s \in Seq(Obeyed) : s = MessagesOf[Sent]
      BY <1>1, MessagesType
    <2>2. PICK t \in Seq(Obeyed) : t = MessagesOf[Sent'] /\ t = Append(s, m)
      BY <1>1, <1>4, <2>1, MessagesType
    <2>3. /\ t # <<>> /\ Len(t) = Len(s) + 1 /\ t[Len(t)] = m /\ Len(s) \in Nat
          /\ \A i \in 1 .. Len(s) : t[i] = s[i]
      BY <2>2, AppendProperties, LenProperties
    <2>4. SubSeq(t, 1, Len(t) - 1) = s
      <3>1. Len(t) - 1 = Len(s) /\ Len(s) \in 0 .. Len(t)
        BY <2>3
      <3>2. SubSeq(t, 1, Len(s)) \in Seq(Obeyed) /\ Len(SubSeq(t, 1, Len(s))) = Len(s)
        BY <3>1, Cut
      <3>3. \A i \in 1 .. Len(s) : SubSeq(t, 1, Len(s))[i] = t[i]
        BY <2>3, <3>1
      <3> QED
        BY <2>3, <3>1, <3>2, <3>3, SeqEqual
    <2>5. Service!Arrive
      BY <2>1, <2>2, <2>3, <2>4 DEF Service!Arrive, Obeyed, Proven
    <2> QED
      BY <2>5 DEF AbstractNext, Service!Next
  <1> QED
    BY <1>2, <1>3, <1>4 DEF Grows

LEMMA ServiceObey ==
  ASSUME FrameInv, NEW b \in Seq(Cells), NEW c \in Seq(Cells), Sent = b \o c,
         HasFrame(b), ~EndsBadly(b), Len(b) <= RxBuffSize, Sent' = AfterFrame(b) \o c,
         Known(Message(b)), Permitted(Message(b)), pc = "idle", ~sock_init,
         pc' = "handling", ~sock_init', logged_in' = LoggedInBy(Message(b)),
         done' = Append(done, Message(b)), UNCHANGED seclevel
  PROVE  AbstractNext
  <1>1. b \o c \in Streams
    BY SentStream
  <1>2. b \in Streams
    <2>1. /\ Len(b \o c) = Len(b) + Len(c) /\ Len(b) \in Nat /\ Len(c) \in Nat
          /\ \A i \in 1 .. Len(b) + Len(c) :
                 (b \o c)[i] = IF i <= Len(b) THEN b[i] ELSE c[i - Len(b)]
      BY ConcatProperties, LenProperties
    <2>2. ASSUME NEW i \in 1 .. Len(b) - 1, b[i] = Start PROVE b[i + 1] \in Heads
      <3>1. /\ i \in 1 .. Len(b \o c) - 1 /\ i + 1 \in 1 .. Len(b)
            /\ (b \o c)[i] = b[i] /\ (b \o c)[i + 1] = b[i + 1]
        BY <2>1
      <3> QED
        BY <1>1, <2>2, <3>1 DEF Streams
    <2> QED
      BY <2>2 DEF Streams
  <1>3. ~TooLong(b)
    <2>1. LenOf(b) \in Nat /\ Len(b) \in Nat /\ Len(b) >= LenOf(b) + FrameSize
      BY <1>2, StreamFrame, LenProperties DEF HasFrame
    <2> QED
      BY <2>1, LwdaqAssumption DEF TooLong, FrameSize
  <1> DEFINE m == Message(b)
  <1>4. /\ m \in Obeyed /\ MessagesOf[Sent] = <<m>> \o MessagesOf[Sent']
        /\ Sent' \in Streams
    BY <1>1, <1>2, <1>3, FrameRead
  <1> HIDE DEF m
  <1>5. /\ MessagesOf[Sent] # <<>> /\ Head(MessagesOf[Sent]) = m
        /\ Tail(MessagesOf[Sent]) = MessagesOf[Sent']
    <2>1. MessagesOf[Sent'] \in Seq(Obeyed)
      BY <1>4, MessagesType
    <2> QED
      BY <1>4, <2>1
  <1>6. seclevel >= Needs(m) => logged_in
    <2>1. seclevel \in 0 .. 2
      BY LwdaqAssumption DEF FrameInv, TypeOK
    <2> QED
      BY <2>1, Gates DEF m
  <1>7. Service!Allowed(m)
    BY <1>6 DEF Service!Allowed, m
  <1>8. /\ Proven = logged_in
        /\ Proven' = IF IsLogin(m) THEN GivesPassword(m) ELSE Proven
    <2>1. logged_in \in BOOLEAN
      BY DEF FrameInv, TypeOK
    <2> QED
      BY <2>1 DEF Proven, LoggedInBy, IsLogin, GivesPassword, m
  <1>9. Service!Obey
    BY <1>5, <1>7, <1>8 DEF Service!Obey, Proven, m
  <1> QED
    BY <1>9 DEF AbstractNext, Service!Next

LEMMA ServiceInit == Init => Service!Init
  <1> SUFFICES ASSUME Init PROVE Service!Init
    OBVIOUS
  <1>1. pc = "closed" /\ done = <<>> /\ seclevel \in SecLevels
    BY DEF Init
  <1>2. MessagesOf[Sent] = <<>>
    BY <1>1, NoMessages DEF Sent
  <1> QED
    BY <1>1, <1>2 DEF Service!Init

LEMMA EnvironmentServes == ASSUME FrameInv, FrameInv', Environment PROVE AbstractNext
  <1>1. /\ input \in Seq(Cells) /\ rest \in Seq(Cells) /\ rx_buffer \in Seq(Cells)
    BY DEF FrameInv, TypeOK
  <1>2. ASSUME NEW c \in Cells, input' = Append(input, c), pc # "closed",
               UNCHANGED <<sock_init, logged_in, rx_buffer, pc, done, seclevel>>
        PROVE  AbstractNext
    <2>1. ASSUME NEW b \in Seq(Cells) PROVE b \o input' = Append(b \o input, c)
      <3>1. <<c>> \in Seq(Cells) /\ b \o input \in Seq(Cells)
        BY <1>1, ConcatProperties
      <3>2. input' = input \o <<c>> /\ Append(b \o input, c) = (b \o input) \o <<c>>
        BY <1>1, <1>2, <3>1, AppendIsConcat
      <3> QED
        BY <1>1, <3>1, <3>2, Regroup
    <2>2. Sent' = Append(Sent, c)
      <3>1. CASE sock_init
        BY <1>2, <3>1 DEF Sent
      <3>2. CASE ~sock_init /\ pc = "handling"
        <4>1. AfterFrame(rx_buffer) \in Seq(Cells)
          <5>1. HasFrame(rx_buffer) /\ Headed(rx_buffer \o Unread) /\ Unread \in Seq(Cells)
            BY <1>1, <3>2, ConcatProperties DEF FrameInv, TypeOK, StreamInv, Stream, Unread
          <5> QED
            BY <1>1, <5>1, FrameTyped
        <4> QED
          BY <1>2, <2>1, <3>2, <4>1 DEF Sent
      <3>3. CASE ~sock_init /\ pc # "handling"
        BY <1>1, <1>2, <2>1, <3>3 DEF Sent
      <3> QED
        BY <3>1, <3>2, <3>3
    <2> QED
      BY <1>2, <2>2, ServiceArrive DEF Proven
  <1>3. CASE Sends /\ UNCHANGED seclevel
    <2>1. ASSUME NEW f \in Frames, Send(f) PROVE AbstractNext
      <3>1. Head(f) \in Cells
        BY LwdaqAssumption, HeadTailProperties
      <3> QED
        BY <1>2, <1>3, <2>1, <3>1 DEF Send, server
    <2>2. CASE Arrive
      <3>1. Head(rest) \in Cells
        BY <1>1, <2>2, HeadTailProperties DEF Arrive
      <3> QED
        BY <1>2, <1>3, <2>2, <3>1 DEF Arrive, server
    <2> QED
      BY <1>3, <2>1, <2>2 DEF Sends
  <1>4. CASE (ClientLeaves /\ UNCHANGED seclevel) \/ SecondPasses
    <2>1. UNCHANGED <<input, rest, sock_init, logged_in, rx_buffer, pc, done, seclevel>>
      BY <1>4 DEF ClientLeaves, SecondPasses, client, server
    <2> QED
      BY <2>1, ServiceSame DEF Sent, Proven
  <1> QED
    BY <1>3, <1>4 DEF Environment

LEMMA CallServes == ASSUME FrameInv, Call PROVE AbstractNext
  <1>1. /\ input \in Seq(Cells) /\ rest \in Seq(Cells) /\ rx_buffer \in Seq(Cells)
        /\ UNCHANGED seclevel
    BY DEF FrameInv, TypeOK, Call
  <1>2. CASE Closes
    BY <1>1, <1>2, ServiceOver DEF Closes
  <1>3. CASE TasksInit /\ pc' = "idle" /\ UNCHANGED done
    <2>1. /\ pc = "idle" /\ sock_init /\ ~sock_init' /\ ~logged_in'
          /\ rx_buffer' = <<>> /\ input' = input
      BY <1>3 DEF TasksInit, Called
    <2>2. Sent = input /\ Sent' = <<>> \o input
      BY <1>3, <2>1 DEF Sent
    <2>3. Sent' = Sent
      BY <1>1, <2>2, ConcatEmptySeq
    <2> QED
      BY <1>1, <1>3, <2>1, <2>3, ServiceSame DEF Proven
  <1> DEFINE q == SubSeq(input, Taken + 1, Len(input))
  <1>4. ASSUME Gathering
        PROVE  /\ Gathered \in Seq(Cells) /\ Len(Gathered) <= RxBuffSize /\ q \in Seq(Cells)
               /\ rx_buffer' = Gathered /\ pc = "idle" /\ ~sock_init
               /\ Sent = Gathered \o q
    <2>1. Called /\ ~sock_init /\ pc = "idle" /\ rx_buffer' = Gathered
      BY <1>4 DEF Gathering, Called
    <2>2. Gathered \in Seq(Cells) /\ Len(Gathered) <= RxBuffSize /\ q \in Seq(Cells)
      BY <2>1, GatheredTyped
    <2>3. Sent = rx_buffer \o input
      BY <2>1 DEF Sent
    <2>4. rx_buffer \o input = Gathered \o q
      <3> DEFINE p == SubSeq(input, 1, Taken)
      <3>1. Taken \in 0 .. Len(input)
        BY <1>1, LwdaqAssumption, LenProperties DEF Taken, Room, FrameInv, TypeOK
      <3>2. p \in Seq(Cells) /\ p \o q = input /\ Gathered = rx_buffer \o p
        BY <1>1, <3>1, Cut DEF Gathered
      <3>3. (rx_buffer \o p) \o q = rx_buffer \o (p \o q)
        BY <1>1, <2>2, <3>2, Regroup
      <3> HIDE DEF p, q
      <3> QED
        BY <3>2, <3>3
    <2> QED
      BY <2>1, <2>2, <2>3, <2>4
  <1>5. CASE WaitForMore /\ pc' = "idle" /\ UNCHANGED done
    <2>1. Gathering /\ input' = q /\ UNCHANGED <<sock_init, logged_in>>
      BY <1>5 DEF WaitForMore, Takes
    <2>2. Sent' = Gathered \o q
      BY <1>4, <1>5, <2>1 DEF Sent
    <2> QED
      BY <1>1, <1>4, <1>5, <2>1, <2>2, ServiceSame DEF Proven
  <1>6. CASE Handle
    <2>1. /\ Gathering /\ HasFrame(Gathered) /\ ~EndsBadly(Gathered) /\ input' = q
          /\ Known(Message(Gathered)) /\ Permitted(Message(Gathered)) /\ pc' = "handling"
          /\ logged_in' = LoggedInBy(Message(Gathered)) /\ UNCHANGED sock_init
          /\ done' = Append(done, Message(Gathered))
      BY <1>6 DEF Handle, Complete, Takes
    <2>2. Sent' = AfterFrame(Gathered) \o q /\ ~sock_init'
      BY <1>4, <2>1 DEF Sent
    <2> HIDE DEF q
    <2> QED
      BY <1>1, <1>4, <2>1, <2>2, ServiceObey
  <1> QED
    BY <1>2, <1>3, <1>5, <1>6
    DEF Call, ClosedByClient, TasksInit, WaitForMore, NotAFrame, Reject, Returns

LEMMA HandlersServe == ASSUME FrameInv, Handlers PROVE AbstractNext
  <1>1. pc = "handling" /\ UNCHANGED seclevel /\ ~sock_init
    BY DEF Handlers, HandlerDone, HandlerGivesUp, Handling, FrameInv, StreamInv
  <1>2. CASE Closes
    BY <1>1, <1>2, ServiceOver DEF Closes
  <1>3. CASE HandlerEnds("OK") /\ pc' = "idle" /\ UNCHANGED done
    <2>1. /\ rx_buffer' = AfterFrame(rx_buffer) /\ input' = input
          /\ UNCHANGED <<sock_init, logged_in>>
      BY <1>3 DEF HandlerEnds
    <2>2. Sent' = Sent
      BY <1>1, <1>3, <2>1 DEF Sent
    <2> QED
      BY <1>1, <1>3, <2>1, <2>2, ServiceSame DEF Proven
  <1> QED
    BY <1>2, <1>3 DEF Handlers, HandlerDone, HandlerGivesUp, HandlerEnds, Returns

LEMMA ServiceStep == FrameInv /\ FrameInv' /\ [Next]_vars => AbstractNext
  <1> SUFFICES ASSUME FrameInv, FrameInv', [Next]_vars PROVE AbstractNext
    OBVIOUS
  <1>1. CASE UNCHANGED vars
    BY <1>1, ServiceSame DEF vars, client, server, Sent, Proven
  <1>2. CASE Activate
    <2>1. /\ pc = "closed" /\ pc' = "idle" /\ sock_init' /\ input' = input
          /\ UNCHANGED <<done, seclevel>>
      BY <1>2 DEF Activate, client
    <2>2. Sent' = Sent
      BY <2>1 DEF FrameInv, StreamInv, Sent
    <2> QED
      BY <2>1, <2>2, ServiceSame DEF Proven
  <1>3. CASE Reboot
    BY <1>3, ServiceRestart DEF Reboot
  <1> QED
    BY <1>1, <1>2, <1>3, EnvironmentServes, CallServes, HandlersServe DEF Next

(***************************************************************************)
(* lwdaq_tasks and lwdaq_handle_message obey the messages of a client in   *)
(* the order in which it sent them, once each, none behind a wrong one and *)
(* none without the password it needs, for every size of the buffer, every *)
(* announced length and every way of cutting and joining the frames.       *)
(***************************************************************************)
THEOREM ServesMessages == Spec => ImplementsService
  <1>1. FrameInv /\ FrameInv' /\ [Next]_vars => [Service!Next]_(Service!vars)
    BY ServiceStep DEF AbstractNext
  <1> QED
    BY <1>1, FrameInit, FrameStep, ServiceInit, PTL DEF Spec, ImplementsService, Service!Spec
=============================================================================
