-------------------------- MODULE TcpStream_proofs --------------------------
(***************************************************************************)
(* Proofs about the data path of an established connection, for rings,     *)
(* windows and payloads of every size and any number of segments under     *)
(* way: in both directions the bytes that arrive are the bytes that were   *)
(* sent, in order and once.                                                *)
(***************************************************************************)
EXTENDS TcpStream, SequenceTheorems, TLAPS

-----------------------------------------------------------------------------
(* Remainders.                                                             *)

LEMMA DivMod == ASSUME NEW T \in Nat, T > 0, NEW a \in Int
                PROVE  a % T \in 0 .. T - 1 /\ a \div T \in Int /\ a = T * (a \div T) + (a % T)
  OBVIOUS

LEMMA ModOf == ASSUME NEW T \in Nat, T > 0, NEW k \in 0 .. T - 1, NEW q \in Int, NEW a \in Int, a = T * q + k
               PROVE  a % T = k
  OBVIOUS

LEMMA ModAgain ==
  ASSUME NEW T \in Nat, T > 0, NEW a \in Int, NEW b \in Int, NEW q \in Int, b = a + T * q
  PROVE  b % T = a % T
  <1>1. PICK k \in 0 .. T - 1, d \in Int : k = a % T /\ a = T * d + k
    BY DivMod
  <1>2. PICK e \in Int : e = d + q
    OBVIOUS
  <1>3. T * e = T * d + T * q
    BY <1>2
  <1>4. b = T * e + k
    BY <1>1, <1>3
  <1>5. b % T = k
    <2> SUFFICES ASSUME NEW bb \in Int, bb = T * e + k PROVE bb % T = k
      BY <1>4
    <2> QED
      OBVIOUS
  <1> QED
    BY <1>1, <1>5

LEMMA ModAdd == ASSUME NEW T \in Nat, T > 0, NEW a \in Int, NEW b \in Int
  PROVE  ((a % T) + b) % T = (a + b) % T
  <1> DEFINE k == a % T  d == a \div T
  <1>1. k \in 0 .. T - 1 /\ d \in Int /\ a = T * d + k
    BY DivMod
  <1> HIDE DEF k, d
  <1>2. a + b = (k + b) + T * d /\ k + b \in Int /\ a + b \in Int
    BY <1>1
  <1>3. (a + b) % T = (k + b) % T
    BY <1>1, <1>2, ModAgain, ZenonT(30)
  <1> QED
    BY <1>3 DEF k

LEMMA ModSub == ASSUME NEW T \in Nat, T > 0, NEW a \in Int, NEW b \in Int
  PROVE  (b - (a % T)) % T = (b - a) % T
  <1> DEFINE k == a % T  d == a \div T
  <1>1. k \in 0 .. T - 1 /\ d \in Int /\ a = T * d + k
    BY DivMod
  <1> HIDE DEF k, d
  <1>2. b - k = (b - a) + T * d /\ b - k \in Int /\ b - a \in Int
    BY <1>1
  <1>3. (b - k) % T = (b - a) % T
    BY <1>1, <1>2, ModAgain, ZenonT(30)
  <1> QED
    BY <1>3 DEF k

LEMMA ModId == ASSUME NEW T \in Nat, T > 0, NEW a \in 0 .. T-1
  PROVE  a % T = a
  OBVIOUS

LEMMA ModOnce == ASSUME NEW T \in Nat, T > 0, NEW a \in -T .. -1
  PROVE  a % T = a + T
  OBVIOUS

-----------------------------------------------------------------------------
(* Rings.  The slots of a ring of T are told apart by how far they are     *)
(* behind its tail.                                                        *)

Place(tail, j, T) == (tail + j) % T

LEMMA PlaceType ==
  ASSUME NEW T \in Nat, T > 0, NEW a \in Int, NEW j \in Int
  PROVE  Place(a, j, T) \in 0 .. T - 1
  BY DivMod DEF Place

(* From one pointer to another, and back.                                  *)
LEMMA PlaceOf ==
  ASSUME NEW T \in Nat, T > 0, NEW tail \in 0 .. T - 1, NEW head \in 0 .. T - 1
  PROVE  /\ (head - tail) % T \in 0 .. T - 1
         /\ Place(tail, (head - tail) % T, T) = head
  <1>1. (head - tail) % T = IF head >= tail THEN head - tail ELSE head - tail + T
    BY ModId, ModOnce
  <1>2. (tail + ((head - tail) % T)) \in {head, head + T}
    BY <1>1
  <1>3. head % T = head /\ (head + T) % T = head
    BY ModId, ModAgain
  <1> QED
    BY <1>1, <1>2, <1>3 DEF Place

LEMMA PlaceBack ==
  ASSUME NEW T \in Nat, T > 0, NEW tail \in 0 .. T - 1, NEW h \in 0 .. T - 1
  PROVE  (Place(tail, h, T) - tail) % T = h
  <1>1. Place(tail, h, T) = IF tail + h < T THEN tail + h ELSE tail + h - T
    BY DEF Place
  <1> QED
    BY <1>1, ModId, ModOnce

LEMMA PlaceOn ==
  ASSUME NEW T \in Nat, T > 0, NEW tail \in Int, NEW h \in Int, NEW j \in Int
  PROVE  Place(Place(tail, h, T), j, T) = Place(tail, h + j, T)
  <1>1. (((tail + h) % T) + j) % T = (tail + h + j) % T
    <2>1. PICK a \in Int : a = tail + h
      OBVIOUS
    <2>2. ((a % T) + j) % T = (a + j) % T
      BY ModAdd
    <2> QED
      BY <2>1, <2>2
  <1>2. tail + h + j = tail + (h + j)
    OBVIOUS
  <1> QED
    BY <1>1, <1>2 DEF Place

(* Bytes taken from a ring.                                                *)
LEMMA SlotsAre ==
  ASSUME NEW T \in Nat, T > 0, NEW tail \in Int, NEW h \in Int, NEW n \in Nat, NEW ring,
         NEW from, from = Place(tail, h, T)
  PROVE  /\ DOMAIN Slots(ring, from, n, T) = 1 .. n
         /\ \A i \in 1 .. n : Slots(ring, from, n, T)[i] = ring[Place(tail, h + i - 1, T)]
  <1>1. from \in Int
    BY PlaceType
  <1>2. ASSUME NEW i \in 1 .. n
        PROVE  (from + i - 1) % T = Place(tail, h + i - 1, T)
    <2>1. from + i - 1 = from + (i - 1) /\ h + (i - 1) = h + i - 1
      BY <1>1
    <2>2. Place(from, i - 1, T) = Place(tail, h + (i - 1), T)
      BY PlaceOn
    <2> QED
      BY <2>1, <2>2 DEF Place
  <1> QED
    BY <1>2 DEF Slots

(* The distance between two places.                                        *)
LEMMA PlaceDiff ==
  ASSUME NEW T \in Nat, T > 0, NEW tail \in 0 .. T - 1, NEW j \in 0 .. T - 1, NEW h \in 0 .. T - 1
  PROVE  (Place(tail, j, T) - Place(tail, h, T)) % T = IF j >= h THEN j - h ELSE j - h + T
  <1>1. PICK a \in Int, b \in Int, c \in Int, p \in Int :
            a = tail + j /\ b = tail + h /\ c = -b /\ p = a % T /\ p \in 0 .. T - 1
    BY DivMod
  <1>2. Place(tail, j, T) = p /\ Place(tail, h, T) = b % T
    BY <1>1 DEF Place
  <1>3. (p - (b % T)) % T = (p - b) % T
    BY ModSub
  <1>4. ((a % T) + c) % T = (a + c) % T
    BY ModAdd
  <1>5. (p - b) % T = (a - b) % T
    <2>1. p + c = p - b /\ a + c = a - b
      BY <1>1
    <2> QED
      BY <1>1, <1>4, <2>1
  <1>6. (a - b) % T = IF j >= h THEN j - h ELSE j - h + T
    <2>1. PICK d \in Int : d = j - h
      OBVIOUS
    <2>2. a - b = d
      BY <1>1, <2>1
    <2>3. d % T = IF j >= h THEN d ELSE d + T
      BY <2>1, ModId, ModOnce
    <2> QED
      BY <2>1, <2>2, <2>3
  <1> QED
    BY <1>1, <1>2, <1>3, <1>5, <1>6, PlaceType

(* Bytes put into it, h places behind the tail.                            *)
LEMMA StoredAre ==
  ASSUME NEW T \in Nat, T > 0, NEW tail \in 0 .. T - 1, NEW h \in 0 .. T - 1, NEW n \in Nat,
         h + n <= T, NEW ring, DOMAIN ring = 0 .. T - 1, NEW bytes, DOMAIN bytes = 1 .. n,
         NEW from, from = Place(tail, h, T)
  PROVE  /\ DOMAIN Stored(ring, from, bytes, T) = 0 .. T - 1
         /\ \A j \in 0 .. T - 1 :
                Stored(ring, from, bytes, T)[Place(tail, j, T)] =
                    IF j \in h .. h + n - 1 THEN bytes[j - h + 1] ELSE ring[Place(tail, j, T)]
  <1>1. ASSUME NEW j \in 0 .. T - 1
        PROVE  /\ Place(tail, j, T) \in 0 .. T - 1
               /\ (Place(tail, j, T) - from) % T = IF j >= h THEN j - h ELSE j - h + T
    <2>1. tail \in Int /\ j \in Int
      OBVIOUS
    <2> QED
      BY <2>1, PlaceType, PlaceDiff
  <1>2. ASSUME NEW j \in 0 .. T - 1
        PROVE  Stored(ring, from, bytes, T)[Place(tail, j, T)] =
                   IF j \in h .. h + n - 1 THEN bytes[j - h + 1] ELSE ring[Place(tail, j, T)]
    <2>1. PICK p \in 0 .. T - 1, i \in Int :
              p = Place(tail, j, T) /\ i = ((p - from) % T) + 1
      <3>1. from \in 0 .. T - 1 /\ Place(tail, j, T) \in 0 .. T - 1
        <4>1. tail \in Int /\ h \in Int /\ j \in Int
          OBVIOUS
        <4> QED
          BY <4>1, PlaceType
      <3>2. (Place(tail, j, T) - from) % T \in Int
        <4>1. PICK d \in Int : d = Place(tail, j, T) - from
          BY <3>1
        <4> QED
          BY <4>1, DivMod
      <3> QED
        BY <3>1, <3>2
    <2>2. i = IF j >= h THEN j - h + 1 ELSE j - h + T + 1
      BY <1>1, <2>1
    <2>3. Stored(ring, from, bytes, T)[p] = IF i \in DOMAIN bytes THEN bytes[i] ELSE ring[p]
      BY <2>1 DEF Stored
    <2>4. i \in 1 .. n <=> j \in h .. h + n - 1
      BY <2>2
    <2>5. j \in h .. h + n - 1 => i = j - h + 1
      BY <2>2
    <2> QED
      BY <2>1, <2>3, <2>4, <2>5
  <1> QED
    BY <1>2 DEF Stored

-----------------------------------------------------------------------------
(* The socket: its type, and what its transmit side holds.                 *)

Tcb == [txHead : 0 .. TxSlots - 1, txTail : 0 .. TxSlots - 1, txUnackedTail : 0 .. TxSlots - 1,
        tx : [0 .. TxSlots - 1 -> Nat],
        rxHead : 0 .. RxSlots - 1, rxTail : 0 .. RxSlots - 1, rx : [0 .. RxSlots - 1 -> Nat],
        MySEQ : Nat, RemoteSEQ : Nat, remoteWindow : 0 .. WindowMod - 1,
        sHoleSize : Int, wFutureDataSize : Int, timer : BOOLEAN, retryCount : 0 .. MaxRetries,
        asap : BOOLEAN, due : {"no", "later", "now"}, oneSegment : BOOLEAN,
        localWindow : Int, lastAck : Nat]

LEMMA Sizes == /\ TxSlots \in Nat /\ TxSlots > 1 /\ RxSlots \in Nat /\ RxSlots > 1
               /\ MaxPayload \in Nat \ {0} /\ MaxRetries \in Nat
               /\ WindowMod \in Nat /\ WindowMod > 0 /\ PeerBuffer \in 0 .. WindowMod - 1
  BY StreamAssumption

(* The ring holds h bytes, the first after the b that are acknowledged,    *)
(* and u of them have been sent.                                           *)
TxHolds(s, b, u, h) ==
    /\ u \in Nat /\ h \in Nat /\ u <= h /\ h <= TxSlots - 1
    /\ s.txHead = Place(s.txTail, h, TxSlots)
    /\ s.txUnackedTail = Place(s.txTail, u, TxSlots)
    /\ s.MySEQ = b + u
    /\ \A j \in 0 .. h - 1 : s.tx[Place(s.txTail, j, TxSlots)] = b + j + 1

LEMMA TxCounts ==
  ASSUME NEW s \in Tcb, NEW b \in Nat, NEW u, NEW h, TxHolds(s, b, u, h)
  PROVE  /\ Unacked(s) = u /\ Held(s) = h /\ Unsent(s) = h - u
         /\ TxFree(s) = TxSlots - 1 - h
  <1>1. PICK t \in 0 .. TxSlots - 1 : t = s.txTail
    BY DEF Tcb
  <1>2. /\ u \in 0 .. TxSlots - 1 /\ h \in 0 .. TxSlots - 1 /\ u <= h
        /\ s.txHead = Place(t, h, TxSlots) /\ s.txUnackedTail = Place(t, u, TxSlots)
    BY <1>1, Sizes DEF TxHolds
  <1>3. (Place(t, h, TxSlots) - t) % TxSlots = h /\ (Place(t, u, TxSlots) - t) % TxSlots = u
    BY <1>2, Sizes, PlaceBack
  <1>4. (Place(t, h, TxSlots) - Place(t, u, TxSlots)) % TxSlots = h - u
    BY <1>2, Sizes, PlaceDiff
  <1> QED
    BY <1>1, <1>2, <1>3, <1>4 DEF Unacked, Held, Unsent, TxFree

LEMMA RxCounts ==
  ASSUME NEW s \in Tcb
  PROVE  Ready(s) \in 0 .. RxSlots - 1 /\ RxFree(s) \in 0 .. RxSlots - 1
  <1>1. s.rxHead - s.rxTail \in Int
    BY Sizes, SMTT(30) DEF Tcb
  <1>2. Ready(s) \in 0 .. RxSlots - 1
    BY <1>1, Sizes, DivMod DEF Ready
  <1> QED
    BY <1>2, Sizes DEF RxFree

(* What a segment takes.                                                   *)
LEMMA SendLengthType ==
  ASSUME NEW s \in Tcb, NEW b \in Nat, NEW u, NEW h, TxHolds(s, b, u, h)
  PROVE  /\ SendLength(s) \in 0 .. h - u /\ SendLength(s) <= s.remoteWindow
         /\ Sendable(s) \in Nat
  <1>1. Unsent(s) = h - u
    BY TxCounts
  <1>2. u \in Nat /\ h \in Nat /\ u <= h
    BY DEF TxHolds
  <1>3. s.remoteWindow \in Nat /\ MaxPayload \in Nat
    BY Sizes DEF Tcb
  <1> QED
    BY <1>1, <1>2, <1>3 DEF SendLength, Sendable, Least

LEMMA SentType ==
  ASSUME NEW s \in Tcb, NEW b \in Nat, NEW u, NEW h, TxHolds(s, b, u, h), NEW reset \in BOOLEAN
  PROVE  /\ Sent(s, reset) \in Tcb
         /\ Sent(s, reset).rx = s.rx /\ Sent(s, reset).rxHead = s.rxHead
         /\ Sent(s, reset).rxTail = s.rxTail /\ Sent(s, reset).RemoteSEQ = s.RemoteSEQ
         /\ Sent(s, reset).sHoleSize = s.sHoleSize
         /\ Sent(s, reset).wFutureDataSize = s.wFutureDataSize
         /\ Sent(s, reset).tx = s.tx /\ Sent(s, reset).txHead = s.txHead
         /\ Sent(s, reset).txTail = s.txTail
         /\ Sent(s, reset).MySEQ = s.MySEQ + SendLength(s)
         /\ Sent(s, reset).txUnackedTail = (s.txUnackedTail + SendLength(s)) % TxSlots
  <1>1. PICK n \in Nat : n = SendLength(s) /\ n <= s.remoteWindow
    BY SendLengthType
  <1>2. s.MySEQ + n \in Nat /\ s.remoteWindow - n \in 0 .. WindowMod - 1
    <2>1. s.MySEQ \in Nat /\ s.remoteWindow \in 0 .. WindowMod - 1
      BY DEF Tcb
    <2> QED
      BY <1>1, <2>1, Sizes
  <1>6. (s.txUnackedTail + n) % TxSlots \in 0 .. TxSlots - 1
    <2>1. s.txUnackedTail \in 0 .. TxSlots - 1
      BY DEF Tcb
    <2>2. PICK p \in Int : p = s.txUnackedTail + n
      BY <2>1, Sizes
    <2>3. p % TxSlots \in 0 .. TxSlots - 1
      BY Sizes, DivMod
    <2> QED
      BY <2>2, <2>3
  <1>3. RetryAfter(s, reset) \in 0 .. MaxRetries
    <2>1. s.retryCount \in 0 .. MaxRetries
      BY DEF Tcb
    <2> QED
      BY <2>1, Sizes DEF RetryAfter
  <1>4. RxFree(s) \in Int /\ s.RemoteSEQ \in Nat
    <2>1. RxFree(s) \in 0 .. RxSlots - 1
      BY RxCounts
    <2>2. s.RemoteSEQ \in Nat
      BY DEF Tcb
    <2> QED
      BY <2>1, <2>2, Sizes
  <1>5. (s.timer \/ n > 0) \in BOOLEAN /\ (Sendable(s) > MaxPayload) \in BOOLEAN
    OBVIOUS
  <1> QED
    BY <1>1, <1>2, <1>3, <1>4, <1>5, <1>6, ZenonT(30) DEF Sent, Tcb

LEMMA SentHolds ==
  ASSUME NEW s \in Tcb, NEW b \in Nat, NEW u, NEW h, TxHolds(s, b, u, h), NEW reset \in BOOLEAN
  PROVE  TxHolds(Sent(s, reset), b, u + SendLength(s), h)
  <1>1. PICK n \in Nat : n = SendLength(s) /\ n <= h - u
    <2>1. u \in Nat /\ h \in Nat
      BY DEF TxHolds
    <2>2. SendLength(s) \in 0 .. h - u
      BY SendLengthType
    <2> QED
      BY <2>1, <2>2
  <1>2. PICK t \in 0 .. TxSlots - 1, q \in 0 .. TxSlots - 1 : t = s.txTail /\ q = s.txUnackedTail
    BY DEF Tcb
  <1>3. u \in Nat /\ h \in Nat /\ u <= h /\ h <= TxSlots - 1 /\ q = Place(t, u, TxSlots)
    BY <1>2 DEF TxHolds
  <1>4. (q + n) % TxSlots = Place(t, u + n, TxSlots)
    <2>1. TxSlots \in Nat /\ TxSlots > 0 /\ t \in Int /\ q \in Int /\ u \in Int /\ n \in Int
      BY <1>3, Sizes
    <2>2. (q + n) % TxSlots = Place(q, n, TxSlots)
      BY DEF Place
    <2>3. Place(q, n, TxSlots) = Place(t, u + n, TxSlots)
      <3>1. PICK v \in Int : v = u
        BY <1>3
      <3>2. q = Place(t, v, TxSlots)
        BY <1>3, <3>1
      <3>3. Place(Place(t, v, TxSlots), n, TxSlots) = Place(t, v + n, TxSlots)
        BY <2>1, PlaceOn
      <3> QED
        BY <3>1, <3>2, <3>3
    <2> QED
      BY <2>2, <2>3
  <1>5. b + u + n = b + (u + n) /\ u + n \in Nat /\ u + n <= h
    BY <1>1, <1>3
  <1> DEFINE r == Sent(s, reset)
  <1>6. /\ r.tx = s.tx /\ r.txHead = s.txHead /\ r.txTail = t /\ r.MySEQ = s.MySEQ + n
        /\ r.txUnackedTail = (q + n) % TxSlots
    BY <1>1, <1>2, SentType
  <1> HIDE DEF r
  <1>7. TxHolds(r, b, u + n, h)
    BY <1>2, <1>3, <1>4, <1>5, <1>6 DEF TxHolds
  <1> QED
    BY <1>1, <1>7 DEF r

LEMMA SegmentHolds ==
  ASSUME NEW s \in Tcb, NEW b \in Nat, NEW u, NEW h, TxHolds(s, b, u, h)
  PROVE  /\ SegmentOf(s).seq = b + u /\ SegmentOf(s).ack = s.RemoteSEQ
         /\ SegmentOf(s).win = RxFree(s)
         /\ DOMAIN SegmentOf(s).bytes = 1 .. SendLength(s)
         /\ \A i \in 1 .. SendLength(s) : SegmentOf(s).bytes[i] = b + u + i
  <1>1. PICK n \in Nat : n = SendLength(s) /\ n <= h - u
    <2>1. u \in Nat /\ h \in Nat
      BY DEF TxHolds
    <2>2. SendLength(s) \in 0 .. h - u
      BY SendLengthType
    <2> QED
      BY <2>1, <2>2
  <1>2. PICK t \in 0 .. TxSlots - 1, q \in 0 .. TxSlots - 1 : t = s.txTail /\ q = s.txUnackedTail
    BY DEF Tcb
  <1>3. u \in Nat /\ h \in Nat /\ u <= h /\ h <= TxSlots - 1 /\ q = Place(t, u, TxSlots)
    BY <1>2 DEF TxHolds
  <1>4. /\ DOMAIN Slots(s.tx, q, n, TxSlots) = 1 .. n
        /\ \A i \in 1 .. n : Slots(s.tx, q, n, TxSlots)[i] = s.tx[Place(t, u + i - 1, TxSlots)]
    BY <1>3, Sizes, SlotsAre
  <1>5. ASSUME NEW i \in 1 .. n PROVE s.tx[Place(t, u + i - 1, TxSlots)] = b + u + i
    <2>1. PICK j \in 0 .. h - 1 : j = u + i - 1
      BY <1>1, <1>3
    <2>2. s.tx[Place(t, j, TxSlots)] = b + j + 1
      BY <1>2 DEF TxHolds
    <2> QED
      BY <1>3, <2>1, <2>2
  <1> QED
    BY <1>1, <1>2, <1>4, <1>5 DEF SegmentOf, TxHolds

(* What the application writes is added at the end.                        *)
LEMMA PutHolds ==
  ASSUME NEW b \in Nat, NEW u, NEW h, tcb \in Tcb, TxHolds(tcb, b, u, h), wrote = b + h,
         NEW n \in Nat, n <= TxFree(tcb)
  PROVE  Put(tcb, n) \in Tcb /\ TxHolds(Put(tcb, n), b, u, h + n)
  <1>1. PICK t \in 0 .. TxSlots - 1, q \in 0 .. TxSlots - 1 : t = tcb.txTail /\ q = tcb.txHead
    BY DEF Tcb
  <1>2. /\ u \in Nat /\ h \in 0 .. TxSlots - 1 /\ u <= h /\ q = Place(t, h, TxSlots)
        /\ h + n <= TxSlots - 1
    <2>1. u \in Nat /\ h \in Nat /\ u <= h /\ h <= TxSlots - 1 /\ q = Place(t, h, TxSlots)
      BY <1>1 DEF TxHolds
    <2>2. TxFree(tcb) = TxSlots - 1 - h
      BY TxCounts
    <2> QED
      BY <2>1, <2>2, Sizes
  <1> DEFINE bytes == [i \in 1 .. n |-> wrote + i]
             ring == Stored(tcb.tx, q, bytes, TxSlots)
  <1>3. DOMAIN bytes = 1 .. n /\ DOMAIN tcb.tx = 0 .. TxSlots - 1
        /\ \A i \in 1 .. n : bytes[i] = wrote + i /\ bytes[i] \in Nat
    BY <1>2, Sizes DEF Tcb
  <1> HIDE DEF bytes
  <1>4. /\ DOMAIN ring = 0 .. TxSlots - 1
        /\ \A j \in 0 .. TxSlots - 1 :
               ring[Place(t, j, TxSlots)] =
                   IF j \in h .. h + n - 1 THEN bytes[j - h + 1]
                                           ELSE tcb.tx[Place(t, j, TxSlots)]
    <2>1. /\ TxSlots \in Nat /\ TxSlots > 0 /\ h \in 0 .. TxSlots - 1 /\ h + n <= TxSlots
          /\ DOMAIN tcb.tx = 0 .. TxSlots - 1 /\ DOMAIN bytes = 1 .. n /\ q = Place(t, h, TxSlots)
      BY <1>2, <1>3, Sizes
    <2> QED
      BY <2>1, StoredAre
  <1>5. ring \in [0 .. TxSlots - 1 -> Nat]
    <2>1. tcb.tx \in [0 .. TxSlots - 1 -> Nat]
      BY DEF Tcb
    <2> QED
      BY <1>3, <2>1 DEF Stored
  <1> HIDE DEF ring
  <1>6. (q + n) % TxSlots = Place(t, h + n, TxSlots) /\ (q + n) % TxSlots \in 0 .. TxSlots - 1
    <2>1. TxSlots \in Nat /\ TxSlots > 0 /\ t \in Int /\ q \in Int /\ h \in Int /\ n \in Int
      BY <1>2, Sizes
    <2>2. (q + n) % TxSlots = Place(q, n, TxSlots)
      BY DEF Place
    <2>3. Place(q, n, TxSlots) = Place(t, h + n, TxSlots)
      BY <2>1, <1>2, PlaceOn
    <2>4. Place(q, n, TxSlots) \in 0 .. TxSlots - 1
      BY <2>1, PlaceType
    <2> QED
      BY <2>2, <2>3, <2>4
  <1>7. ASSUME NEW j \in 0 .. h + n - 1 PROVE ring[Place(t, j, TxSlots)] = b + j + 1
    <2>1. j \in 0 .. TxSlots - 1
      BY <1>2, Sizes
    <2>2. CASE j < h
      BY <1>1, <1>2, <1>4, <2>1, <2>2 DEF TxHolds
    <2>3. CASE j >= h
      <3>1. PICK i \in 1 .. n : i = j - h + 1
        BY <1>2, <2>3
      <3>2. ring[Place(t, j, TxSlots)] = bytes[i]
        BY <1>2, <1>4, <2>1, <2>3, <3>1
      <3> QED
        BY <1>2, <1>3, <3>1, <3>2
    <2> QED
      BY <1>2, <2>2, <2>3
  <1>8. Put(tcb, n) = [tcb EXCEPT !.tx = ring, !.txHead = (q + n) % TxSlots]
    BY <1>1 DEF Put, ring, bytes
  <1>9. Put(tcb, n) \in Tcb
    BY <1>5, <1>6, <1>8, ZenonT(30) DEF Tcb
  <1>10. /\ Put(tcb, n).tx = ring /\ Put(tcb, n).txHead = Place(t, h + n, TxSlots)
         /\ Put(tcb, n).txTail = t /\ Put(tcb, n).txUnackedTail = tcb.txUnackedTail
         /\ Put(tcb, n).MySEQ = tcb.MySEQ
    BY <1>1, <1>6, <1>8 DEF Tcb
  <1> QED
    BY <1>1, <1>2, <1>7, <1>9, <1>10 DEF TxHolds

-----------------------------------------------------------------------------
(* Everything the transmit side of a socket is held to: it holds what has  *)
(* been written up to w, from some byte that the peer has (it has a) on.   *)

TxOK(s, w, a) == \E b, u, h \in Nat : TxHolds(s, b, u, h) /\ w = b + h /\ b <= a

(* What leaves the transmit side, and the receive side, as it is.          *)
TxSame(s, t) == /\ t.tx = s.tx /\ t.txHead = s.txHead /\ t.txTail = s.txTail
                /\ t.txUnackedTail = s.txUnackedTail /\ t.MySEQ = s.MySEQ
RxSame(s, t) == /\ t.rx = s.rx /\ t.rxHead = s.rxHead /\ t.rxTail = s.rxTail
                /\ t.RemoteSEQ = s.RemoteSEQ /\ t.sHoleSize = s.sHoleSize
                /\ t.wFutureDataSize = s.wFutureDataSize

LEMMA TxSameHolds ==
  ASSUME NEW s, NEW t, TxSame(s, t), NEW b, NEW u, NEW h, TxHolds(s, b, u, h)
  PROVE  TxHolds(t, b, u, h)
  BY DEF TxSame, TxHolds

LEMMA TxSameOK ==
  ASSUME NEW s, NEW t, TxSame(s, t), NEW w, NEW a, TxOK(s, w, a)
  PROVE  TxOK(t, w, a)
  BY TxSameHolds DEF TxOK

LEMMA DueLaterSame ==
  ASSUME NEW s \in Tcb
  PROVE  DueLater(s) \in Tcb /\ TxSame(s, DueLater(s)) /\ RxSame(s, DueLater(s))
  BY DEF DueLater, Tcb, TxSame, RxSame

(* The tail moves on.                                                      *)
LEMMA TailOn ==
  ASSUME NEW T \in Nat, T > 0, NEW t \in Int, NEW n \in Int, NEW j \in Int
  PROVE  Place(Place(t, n, T), j - n, T) = Place(t, j, T)
  <1>1. PICK i \in Int : i = j - n /\ n + i = j
    OBVIOUS
  <1>2. Place(Place(t, n, T), i, T) = Place(t, n + i, T)
    BY PlaceOn
  <1> QED
    BY <1>1, <1>2

LEMMA PlaceNone ==
  ASSUME NEW T \in Nat, T > 0, NEW t \in 0 .. T - 1
  PROVE  Place(t, 0, T) = t
  <1>1. t + 0 = t
    OBVIOUS
  <1>2. t % T = t
    BY ModId
  <1> QED
    BY <1>1, <1>2 DEF Place

(* Going back to the first byte that is not acknowledged.                  *)
LEMMA RolledHolds ==
  ASSUME NEW s \in Tcb, NEW b \in Nat, NEW u, NEW h, TxHolds(s, b, u, h)
  PROVE  /\ s.MySEQ - Unacked(s) = b
         /\ TxHolds([s EXCEPT !.MySEQ = @ - Unacked(s), !.txUnackedTail = s.txTail], b, 0, h)
  <1>1. u \in Nat /\ h \in Nat /\ Unacked(s) = u /\ s.MySEQ = b + u
    BY TxCounts DEF TxHolds
  <1>2. s.MySEQ - Unacked(s) = b /\ b + 0 = b
    BY <1>1
  <1>3. s.txTail = Place(s.txTail, 0, TxSlots)
    <2>1. s.txTail \in 0 .. TxSlots - 1
      BY DEF Tcb
    <2> QED
      BY <2>1, Sizes, PlaceNone
  <1> DEFINE r == [s EXCEPT !.MySEQ = @ - Unacked(s), !.txUnackedTail = s.txTail]
  <1>4. /\ r.tx = s.tx /\ r.txHead = s.txHead /\ r.txTail = s.txTail /\ r.MySEQ = b
        /\ r.txUnackedTail = s.txTail
    BY <1>2 DEF Tcb
  <1> HIDE DEF r
  <1>5. TxHolds(r, b, 0, h)
    BY <1>1, <1>2, <1>3, <1>4 DEF TxHolds
  <1> QED
    BY <1>2, <1>5 DEF r

LEMMA RolledBackOK ==
  ASSUME NEW s \in Tcb, NEW w, NEW a, TxOK(s, w, a)
  PROVE  /\ RolledBack(s) \in Tcb /\ RxSame(s, RolledBack(s))
         /\ TxOK(RolledBack(s), w, a)
  <1>1. PICK b \in Nat, u \in Nat, h \in Nat : TxHolds(s, b, u, h) /\ w = b + h /\ b <= a
    BY DEF TxOK
  <1> DEFINE t == [s EXCEPT !.MySEQ = @ - Unacked(s), !.txUnackedTail = s.txTail]
  <1>2. s.MySEQ - Unacked(s) = b /\ TxHolds(t, b, 0, h) /\ Unacked(s) = u
    BY <1>1, RolledHolds, TxCounts
  <1>3. (s.remoteWindow + Unacked(s)) % WindowMod \in 0 .. WindowMod - 1
    <2>1. PICK v \in Nat : v = s.remoteWindow
      BY Sizes DEF Tcb
    <2>2. PICK k \in Int : k = v + u
      OBVIOUS
    <2>3. k % WindowMod \in 0 .. WindowMod - 1
      BY Sizes, DivMod
    <2> QED
      BY <1>2, <2>1, <2>2, <2>3
  <1>4. RolledBack(s) \in Tcb /\ RxSame(s, RolledBack(s))
    BY <1>2, <1>3 DEF RolledBack, Tcb, RxSame
  <1>5. TxSame(t, RolledBack(s))
    BY DEF RolledBack, Tcb, TxSame
  <1> HIDE DEF t
  <1>6. TxHolds(RolledBack(s), b, 0, h)
    BY <1>2, <1>5, TxSameHolds
  <1> QED
    BY <1>1, <1>4, <1>6 DEF TxOK

(* Bytes are acknowledged.                                                 *)
LEMMA ReleasedHolds ==
  ASSUME NEW s \in Tcb, NEW b \in Nat, NEW u, NEW h, TxHolds(s, b, u, h),
         NEW n \in Nat, n > 0, n <= h
  PROVE  /\ Released(s, n) \in Tcb /\ RxSame(s, Released(s, n))
         /\ TxHolds(Released(s, n), b + n, IF n > u THEN 0 ELSE u - n, h - n)
  <1>1. PICK t \in 0 .. TxSlots - 1, q \in 0 .. TxSlots - 1 : t = s.txTail /\ q = s.txUnackedTail
    BY DEF Tcb
  <1>2. PICK v \in Nat, k \in Nat : v = u /\ k = h
    BY DEF TxHolds
  <1>3. /\ v <= k /\ k <= TxSlots - 1 /\ s.MySEQ = b + v
        /\ s.txHead = Place(t, k, TxSlots) /\ q = Place(t, v, TxSlots)
        /\ \A j \in 0 .. k - 1 : s.tx[Place(t, j, TxSlots)] = b + j + 1
    BY <1>1, <1>2 DEF TxHolds
  <1>4. Unacked(s) = v
    BY <1>2, TxCounts
  <1>5. TxSlots \in Nat /\ TxSlots > 0 /\ t \in Int /\ q \in Int
    BY Sizes
  <1>6. PICK p \in 0 .. TxSlots - 1 : p = Place(t, n, TxSlots) /\ p = (t + n) % TxSlots
    BY <1>5, PlaceType DEF Place
  <1>7. \A j \in Int : Place(p, j - n, TxSlots) = Place(t, j, TxSlots)
    <2>1. \A j \in Int : Place(Place(t, n, TxSlots), j - n, TxSlots) = Place(t, j, TxSlots)
      BY <1>5, TailOn
    <2> QED
      BY <1>6, <2>1
  <1>8. (q + (n - v)) % TxSlots = p
    <2>1. PICK i \in Int : i = n - v /\ v + i = n
      BY <1>5
    <2>2. (q + i) % TxSlots = Place(q, i, TxSlots)
      BY DEF Place
    <2>3. PICK x \in Int : x = v
      OBVIOUS
    <2>4. Place(Place(t, x, TxSlots), i, TxSlots) = Place(t, x + i, TxSlots)
      BY <1>5, PlaceOn
    <2> QED
      BY <1>3, <1>6, <2>1, <2>2, <2>3, <2>4
  <1>9. p = Place(p, 0, TxSlots)
    BY <1>5, PlaceNone
  <1> DEFINE r == Released(s, n)
  <1>10. /\ r.tx = s.tx /\ r.txHead = s.txHead /\ r.txTail = p
         /\ r.MySEQ = (IF n > v THEN b + n ELSE b + v)
         /\ r.txUnackedTail = (IF n > v THEN p ELSE q)
         /\ r \in Tcb /\ RxSame(s, r)
    <2>1. b + v + (n - v) = b + n /\ (n - v > 0 <=> n > v) /\ b + n \in Nat /\ b + v \in Nat
      OBVIOUS
    <2>2. r = [s EXCEPT !.txTail = p, !.MySEQ = IF n > v THEN b + n ELSE b + v,
                        !.txUnackedTail = IF n > v THEN p ELSE q]
      BY <1>1, <1>3, <1>4, <1>6, <1>8, <2>1 DEF Released
    <2> QED
      BY <1>1, <2>1, <2>2, ZenonT(30) DEF Tcb, RxSame
  <1> HIDE DEF r
  <1>11. s.txHead = Place(p, k - n, TxSlots) /\ q = Place(p, v - n, TxSlots)
    BY <1>3, <1>7
  <1>12. ASSUME NEW j \in 0 .. (k - n) - 1
         PROVE  s.tx[Place(p, j, TxSlots)] = (b + n) + j + 1
    <2>1. PICK i \in 0 .. k - 1 : i = j + n /\ i - n = j
      OBVIOUS
    <2>2. Place(p, i - n, TxSlots) = Place(t, i, TxSlots)
      BY <1>7
    <2>3. s.tx[Place(t, i, TxSlots)] = b + i + 1
      BY <1>3
    <2> QED
      BY <2>1, <2>2, <2>3
  <1>13. CASE n > v
    <2>1. TxHolds(r, b + n, 0, k - n)
      BY <1>2, <1>3, <1>5, <1>9, <1>10, <1>11, <1>12, <1>13 DEF TxHolds
    <2> QED
      BY <1>2, <1>10, <1>13, <2>1 DEF r
  <1>14. CASE ~(n > v)
    <2>1. (b + n) + (v - n) = b + v /\ v - n \in Nat
      BY <1>14
    <2>2. TxHolds(r, b + n, v - n, k - n)
      BY <1>2, <1>3, <1>5, <1>10, <1>11, <1>12, <1>14, <2>1 DEF TxHolds
    <2> QED
      BY <1>2, <1>10, <1>14, <2>2 DEF r
  <1> QED
    BY <1>13, <1>14

LEMMA FastRetransmitOK ==
  ASSUME NEW s \in Tcb, NEW b \in Nat, NEW u, NEW h, TxHolds(s, b, u, h)
  PROVE  /\ FastRetransmit(s) \in Tcb /\ RxSame(s, FastRetransmit(s))
         /\ TxHolds(FastRetransmit(s), b, 0, h)
  <1> DEFINE t == [s EXCEPT !.MySEQ = @ - Unacked(s), !.txUnackedTail = s.txTail]
  <1>1. s.MySEQ - Unacked(s) = b /\ TxHolds(t, b, 0, h)
    BY RolledHolds
  <1>2. TxSame(t, FastRetransmit(s))
    BY DEF FastRetransmit, Tcb, TxSame
  <1> HIDE DEF t
  <1>3. TxHolds(FastRetransmit(s), b, 0, h)
    BY <1>1, <1>2, TxSameHolds
  <1>4. FastRetransmit(s) \in Tcb /\ RxSame(s, FastRetransmit(s))
    BY <1>1 DEF FastRetransmit, Tcb, RxSame
  <1> QED
    BY <1>3, <1>4

(* Segments.                                                               *)
Segment == [seq : Nat, ack : Nat, win : Int, bytes : Seq(Nat)]

LEMMA AcknowledgedOK ==
  ASSUME NEW s \in Tcb, NEW w \in Nat, NEW a \in Nat, TxOK(s, w, a), a <= w,
         NEW m \in Segment, m.ack <= a, NEW late \in BOOLEAN
  PROVE  /\ Acknowledged(s, m, late) \in Tcb /\ RxSame(s, Acknowledged(s, m, late))
         /\ TxOK(Acknowledged(s, m, late), w, a)
  <1>1. PICK b \in Nat, u \in Nat, h \in Nat : TxHolds(s, b, u, h) /\ w = b + h /\ b <= a
    BY DEF TxOK
  <1>2. PICK c \in Nat, v \in Int : c = m.ack /\ v = m.win /\ c <= a /\ c <= b + h
    BY <1>1 DEF Segment
  <1>3. Newly(s, m) = c - b
    BY <1>1, <1>2, RolledHolds DEF Newly
  <1> DEFINE t == IF Newly(s, m) > 0 THEN Released(s, Newly(s, m))
                  ELSE IF Unacked(s) > 0 /\ late THEN FastRetransmit(s) ELSE s
  <1>4. t \in Tcb /\ RxSame(s, t) /\ TxOK(t, w, a)
    <2>1. CASE c > b
      <3>1. PICK n \in Nat : n = c - b /\ n > 0 /\ n <= h /\ b + n = c
        BY <1>1, <1>2, <2>1
      <3>2. t = Released(s, n)
        BY <1>3, <3>1
      <3>3. /\ Released(s, n) \in Tcb /\ RxSame(s, Released(s, n))
            /\ TxHolds(Released(s, n), b + n, IF n > u THEN 0 ELSE u - n, h - n)
        BY <1>1, <3>1, ReleasedHolds
      <3>4. PICK e \in Nat, k \in Nat : e = (IF n > u THEN 0 ELSE u - n) /\ k = h - n
        <4>1. (IF n > u THEN 0 ELSE u - n) \in Nat
          OBVIOUS
        <4>2. h - n \in Nat
          BY <3>1
        <4> QED
          BY <4>1, <4>2
      <3>5. w = c + k /\ TxHolds(Released(s, n), c, e, k)
        BY <1>1, <3>1, <3>3, <3>4
      <3> QED
        BY <1>2, <3>2, <3>3, <3>5 DEF TxOK
    <2>2. CASE ~(c > b) /\ Unacked(s) > 0 /\ late
      <3>1. t = FastRetransmit(s)
        BY <1>3, <2>2
      <3>2. /\ FastRetransmit(s) \in Tcb /\ RxSame(s, FastRetransmit(s))
            /\ TxHolds(FastRetransmit(s), b, 0, h)
        BY <1>1, FastRetransmitOK
      <3>3. 0 \in Nat
        OBVIOUS
      <3> QED
        BY <1>1, <3>1, <3>2, <3>3 DEF TxOK
    <2>3. CASE ~(c > b) /\ ~(Unacked(s) > 0 /\ late)
      <3>1. t = s
        BY <1>3, <2>3
      <3> QED
        BY <3>1 DEF RxSame
    <2> QED
      BY <2>1, <2>2, <2>3
  <1> DEFINE window == (m.win - (t.MySEQ - m.ack)) % WindowMod
             r == [t EXCEPT !.timer = @ /\ Held(t) # 0,
                            !.due = IF t.remoteWindow = 0 /\ window # 0 THEN "now" ELSE @,
                            !.remoteWindow = window]
  <1>5. Acknowledged(s, m, late) = r
    BY DEF Acknowledged
  <1> HIDE DEF t
  <1>6. window \in 0 .. WindowMod - 1
    <2>1. PICK i \in Nat : i = t.MySEQ
      BY <1>4 DEF Tcb
    <2>2. PICK k \in Int : k = v - (i - c)
      OBVIOUS
    <2>3. k % WindowMod \in 0 .. WindowMod - 1
      BY Sizes, DivMod
    <2> QED
      BY <1>2, <2>1, <2>2, <2>3
  <1> HIDE DEF window
  <1>7. r \in Tcb
    BY <1>4, <1>6, ZenonT(30) DEF Tcb
  <1>8. TxSame(t, r) /\ RxSame(t, r)
    BY <1>4 DEF Tcb, TxSame, RxSame
  <1> HIDE DEF r
  <1>9. TxOK(r, w, a)
    BY <1>4, <1>8, TxSameOK
  <1>10. RxSame(s, r)
    BY <1>4, <1>8 DEF RxSame
  <1> QED
    BY <1>5, <1>7, <1>9, <1>10

(* Data that arrives goes into the receive side.                           *)
LEMMA StoredType ==
  ASSUME NEW T \in Nat, T > 0, NEW ring \in [0 .. T - 1 -> Nat], NEW bytes \in Seq(Nat), NEW from
  PROVE  Stored(ring, from, bytes, T) \in [0 .. T - 1 -> Nat]
  <1>1. \A i \in DOMAIN bytes : bytes[i] \in Nat
    OBVIOUS
  <1> QED
    BY <1>1 DEF Stored

LEMMA RxModType ==
  ASSUME NEW a \in Int
  PROVE  a % RxSlots \in 0 .. RxSlots - 1
  BY Sizes, DivMod

LEMMA SubSeqOf ==
  ASSUME NEW q \in Seq(Nat), NEW i \in Nat, NEW n \in Nat, i + n <= Len(q)
  PROVE  /\ SubSeq(q, i + 1, i + n) \in Seq(Nat)
         /\ DOMAIN SubSeq(q, i + 1, i + n) = 1 .. n
         /\ \A k \in 1 .. n : SubSeq(q, i + 1, i + n)[k] = q[i + k]
  OBVIOUS

-----------------------------------------------------------------------------
(* The receive side.  The ring holds the byte g + j + 1 at the j-th place  *)
(* behind its tail, from the place lo on to before the place hi.           *)

Filled(s, g, lo, hi) == \A j \in lo .. hi - 1 : s.rx[Place(s.rxTail, j, RxSlots)] = g + j + 1

(* g bytes have been read and r wait to be read; the peer has sent e.      *)
RxHolds(s, g, r, e) ==
    /\ r \in Nat /\ r <= RxSlots - 1 /\ g + r <= e
    /\ s.rxHead = Place(s.rxTail, r, RxSlots)
    /\ s.RemoteSEQ = g + r
    /\ Filled(s, g, 0, r)
HoleHolds(s, g, r, e) ==
    \/ s.sHoleSize = None
    \/ /\ s.sHoleSize \in Nat /\ s.sHoleSize > 0 /\ s.wFutureDataSize \in Nat
       /\ r + s.sHoleSize + s.wFutureDataSize <= RxSlots - 1
       /\ g + (r + s.sHoleSize + s.wFutureDataSize) <= e
       /\ Filled(s, g, r + s.sHoleSize, r + s.sHoleSize + s.wFutureDataSize)
RxOK(s, g, e) == \E r \in Nat : RxHolds(s, g, r, e) /\ HoleHolds(s, g, r, e)

LEMMA RxSameOK ==
  ASSUME NEW s, NEW t, RxSame(s, t), NEW g, NEW e, RxOK(s, g, e)
  PROVE  RxOK(t, g, e)
  BY DEF RxSame, RxOK, RxHolds, HoleHolds, Filled

LEMMA RxOKMore ==
  ASSUME NEW s, NEW g \in Nat, NEW e \in Nat, NEW f \in Nat, e <= f, RxOK(s, g, e)
  PROVE  RxOK(s, g, f)
  <1>1. PICK r \in Nat : RxHolds(s, g, r, e) /\ HoleHolds(s, g, r, e)
    BY DEF RxOK
  <1>2. RxHolds(s, g, r, f)
    BY <1>1 DEF RxHolds
  <1>3. HoleHolds(s, g, r, f)
    <2>1. CASE s.sHoleSize = None
      BY <2>1 DEF HoleHolds
    <2>2. CASE s.sHoleSize # None
      <3>1. PICK k \in Nat, x \in Nat : k = s.sHoleSize /\ x = s.wFutureDataSize
        BY <1>1, <2>2 DEF HoleHolds
      <3>2. g + (r + k + x) <= e
        BY <1>1, <2>2, <3>1 DEF HoleHolds
      <3>3. g + (r + k + x) <= f
        BY <3>2
      <3> QED
        BY <1>1, <2>2, <3>1, <3>3 DEF HoleHolds
    <2> QED
      BY <2>1, <2>2
  <1> QED
    BY <1>2, <1>3 DEF RxOK

LEMMA RxReady ==
  ASSUME NEW s \in Tcb, NEW g, NEW r, NEW e, RxHolds(s, g, r, e)
  PROVE  Ready(s) = r /\ RxFree(s) = RxSlots - 1 - r
  <1>1. PICK t \in 0 .. RxSlots - 1 : t = s.rxTail
    BY DEF Tcb
  <1>2. r \in 0 .. RxSlots - 1 /\ s.rxHead = Place(t, r, RxSlots)
    BY <1>1, Sizes DEF RxHolds
  <1>3. (Place(t, r, RxSlots) - t) % RxSlots = r
    BY <1>2, Sizes, PlaceBack
  <1> QED
    BY <1>1, <1>2, <1>3 DEF Ready, RxFree

(* Bytes that belong at their places leave those that do alone.            *)
Fits(bytes, g, x, n) == DOMAIN bytes = 1 .. n /\ \A i \in 1 .. n : bytes[i] = g + x + i
Keeps(new, ring, t, g, x, n) ==
    \A j \in 0 .. RxSlots - 1 :
        j \in x .. x + n - 1 \/ ring[Place(t, j, RxSlots)] = g + j + 1
        => new[Place(t, j, RxSlots)] = g + j + 1

LEMMA RightStored ==
  ASSUME NEW t \in 0 .. RxSlots - 1, NEW ring \in [0 .. RxSlots - 1 -> Nat], NEW g \in Nat,
         NEW x \in 0 .. RxSlots - 1, NEW n \in Nat, x + n <= RxSlots,
         NEW bytes, Fits(bytes, g, x, n), NEW from, from = Place(t, x, RxSlots)
  PROVE  Keeps(Stored(ring, from, bytes, RxSlots), ring, t, g, x, n)
  <1>1. DOMAIN ring = 0 .. RxSlots - 1 /\ RxSlots \in Nat /\ RxSlots > 0
    BY Sizes
  <1>5. DOMAIN bytes = 1 .. n
    BY DEF Fits
  <1>2. \A j \in 0 .. RxSlots - 1 :
            Stored(ring, from, bytes, RxSlots)[Place(t, j, RxSlots)] =
                IF j \in x .. x + n - 1 THEN bytes[j - x + 1] ELSE ring[Place(t, j, RxSlots)]
    BY <1>1, <1>5, StoredAre, SMTT(30)
  <1>3. ASSUME NEW j \in x .. x + n - 1 PROVE bytes[j - x + 1] = g + j + 1
    <2>1. PICK i \in 1 .. n : i = j - x + 1
      OBVIOUS
    <2>2. bytes[i] = g + x + i
      BY DEF Fits
    <2> QED
      BY <2>1, <2>2
  <1>4. ASSUME NEW j \in 0 .. RxSlots - 1,
               j \in x .. x + n - 1 \/ ring[Place(t, j, RxSlots)] = g + j + 1
        PROVE  Stored(ring, from, bytes, RxSlots)[Place(t, j, RxSlots)] = g + j + 1
    <2>1. CASE j \in x .. x + n - 1
      BY <1>2, <1>3, <2>1
    <2>2. CASE ~(j \in x .. x + n - 1)
      <3>1. Stored(ring, from, bytes, RxSlots)[Place(t, j, RxSlots)] = ring[Place(t, j, RxSlots)]
        BY <1>2, <2>2
      <3> QED
        BY <1>4, <2>2, <3>1
    <2> QED
      BY <2>1, <2>2
  <1> QED
    BY <1>4 DEF Keeps

(* A segment carries what the peer has sent.                               *)
Carries(m, e) == m.seq + Len(m.bytes) <= e /\ \A i \in 1 .. Len(m.bytes) : m.bytes[i] = m.seq + i

LEMMA RxSize == RxSlots \in Nat /\ RxSlots > 0
  BY Sizes

(* The head moves on.                                                      *)
LEMMA RxPointerOn ==
  ASSUME NEW t \in 0 .. RxSlots - 1, NEW v \in Nat, NEW i \in Nat, NEW p \in Nat, p = v + i
  PROVE  /\ (Place(t, v, RxSlots) + i) % RxSlots = Place(t, p, RxSlots)
         /\ Place(t, p, RxSlots) \in 0 .. RxSlots - 1
  <1>1. PICK x \in Int, y \in Int, z \in Int : x = t /\ y = v /\ z = i
    BY RxSize
  <1>2. Place(Place(x, y, RxSlots), z, RxSlots) = Place(x, y + z, RxSlots)
    BY RxSize, PlaceOn, ZenonT(30)
  <1>3. (Place(t, v, RxSlots) + i) % RxSlots = Place(Place(t, v, RxSlots), i, RxSlots)
    BY DEF Place
  <1>4. PICK k \in Int : k = p
    OBVIOUS
  <1>5. Place(x, k, RxSlots) \in 0 .. RxSlots - 1
    BY RxSize, PlaceType
  <1> QED
    BY <1>1, <1>2, <1>3, <1>4, <1>5

(* The hole is filled up by n bytes at the head, or closed.                *)
LEMMA HoleClosedOK ==
  ASSUME NEW u \in Tcb, NEW g \in Nat, NEW e \in Nat, NEW r \in Nat, NEW n \in Nat,
         NEW v \in Nat, v = r + n, RxHolds(u, g, v, e),
         NEW k \in Nat, NEW f \in Nat, u.sHoleSize = k, u.wFutureDataSize = f, k > 0,
         NEW p \in Nat, p = r + k + f, p <= RxSlots - 1, g + p <= e, Filled(u, g, r + k, p)
  PROVE  /\ HoleClosed(u, n) \in Tcb /\ TxSame(u, HoleClosed(u, n))
         /\ RxOK(HoleClosed(u, n), g, e)
  <1>1. PICK hole \in Int, extra \in Int : hole = k - n /\ extra = f + hole
    OBVIOUS
  <1>2. HoleClosed(u, n) =
            IF extra < 0 THEN [u EXCEPT !.sHoleSize = None]
            ELSE IF hole <= 0
              THEN [u EXCEPT !.RemoteSEQ = @ + extra, !.rxHead = (@ + extra) % RxSlots,
                             !.sHoleSize = None]
              ELSE [u EXCEPT !.sHoleSize = hole]
    BY <1>1 DEF HoleClosed
  <1>3. None \in Int
    BY DEF None
  <1> DEFINE y == HoleClosed(u, n)
  <1>4. CASE extra < 0
    <2>1. y = [u EXCEPT !.sHoleSize = None]
      BY <1>2, <1>4
    <2>2. /\ y \in Tcb /\ TxSame(u, y) /\ y.rxTail = u.rxTail /\ y.rx = u.rx /\ y.rxHead = u.rxHead
          /\ y.RemoteSEQ = u.RemoteSEQ /\ y.sHoleSize = None
      BY <1>3, <2>1, ZenonT(30) DEF Tcb, TxSame
    <2> HIDE DEF y
    <2>3. RxHolds(y, g, v, e) /\ HoleHolds(y, g, v, e)
      BY <2>2 DEF RxHolds, HoleHolds, Filled
    <2> QED
      BY <2>2, <2>3 DEF RxOK, y
  <1>5. CASE extra >= 0 /\ hole <= 0
    <2>1. PICK i \in Nat : i = extra
      BY <1>5
    <2>2. p = v + i /\ r + k <= v
      BY <1>1, <1>5, <2>1
    <2>3. PICK t \in 0 .. RxSlots - 1 : t = u.rxTail
      BY DEF Tcb
    <2>4. u.rxHead = Place(t, v, RxSlots) /\ u.RemoteSEQ = g + v
      BY <2>3 DEF RxHolds
    <2>5. /\ (Place(t, v, RxSlots) + i) % RxSlots = Place(t, p, RxSlots)
          /\ Place(t, p, RxSlots) \in 0 .. RxSlots - 1
      <3>1. PICK a \in Nat, b \in Nat, c \in Nat : a = v /\ b = i /\ c = p /\ c = a + b
        BY <2>2
      <3>2. c = a + b
        BY <3>1
      <3>3. /\ (Place(t, a, RxSlots) + b) % RxSlots = Place(t, c, RxSlots)
            /\ Place(t, c, RxSlots) \in 0 .. RxSlots - 1
        BY <3>2, RxPointerOn
      <3> QED
        BY <3>1, <3>3
    <2>6. u.RemoteSEQ + extra = g + p /\ g + p \in Nat
      BY <2>1, <2>2, <2>4
    <2>11. (u.rxHead + extra) % RxSlots = Place(t, p, RxSlots)
      BY <2>1, <2>4, <2>5
    <2>7. y = [u EXCEPT !.RemoteSEQ = g + p, !.rxHead = Place(t, p, RxSlots), !.sHoleSize = None]
      <3>1. y = [u EXCEPT !.RemoteSEQ = @ + extra, !.rxHead = (@ + extra) % RxSlots,
                          !.sHoleSize = None]
        BY <1>2, <1>5
      <3> QED
        BY <2>6, <2>11, <3>1
    <2>8. /\ y \in Tcb /\ TxSame(u, y) /\ y.rxTail = t /\ y.rx = u.rx
          /\ y.rxHead = Place(t, p, RxSlots) /\ y.RemoteSEQ = g + p /\ y.sHoleSize = None
      BY <1>3, <2>3, <2>5, <2>6, <2>7, ZenonT(30) DEF Tcb, TxSame
    <2> HIDE DEF y
    <2>9. Filled(y, g, 0, p)
      <3>1. ASSUME NEW j \in 0 .. p - 1 PROVE u.rx[Place(t, j, RxSlots)] = g + j + 1
        <4>1. j \in 0 .. v - 1 \/ j \in r + k .. p - 1
          BY <2>2
        <4>2. Filled(u, g, 0, v)
          BY DEF RxHolds
        <4> QED
          BY <2>3, <4>1, <4>2 DEF Filled
      <3> QED
        BY <2>8, <3>1 DEF Filled
    <2>10. RxHolds(y, g, p, e) /\ HoleHolds(y, g, p, e)
      BY <2>8, <2>9 DEF RxHolds, HoleHolds
    <2> QED
      BY <2>8, <2>10 DEF RxOK, y
  <1>6. CASE extra >= 0 /\ hole > 0
    <2>1. y = [u EXCEPT !.sHoleSize = hole]
      BY <1>2, <1>6
    <2>2. /\ y \in Tcb /\ TxSame(u, y) /\ y.rxTail = u.rxTail /\ y.rx = u.rx /\ y.rxHead = u.rxHead
          /\ y.RemoteSEQ = u.RemoteSEQ /\ y.sHoleSize = hole /\ y.wFutureDataSize = f
      BY <2>1, ZenonT(30) DEF Tcb, TxSame
    <2> HIDE DEF y
    <2>3. RxHolds(y, g, v, e)
      BY <2>2 DEF RxHolds, Filled
    <2>4. hole \in Nat /\ v + hole = r + k /\ v + hole + f = p
      BY <1>1, <1>6
    <2>5. Filled(y, g, v + hole, p)
      BY <2>2, <2>4 DEF Filled
    <2>6. HoleHolds(y, g, v, e)
      BY <1>6, <2>2, <2>4, <2>5 DEF HoleHolds
    <2> QED
      BY <2>2, <2>3, <2>6 DEF RxOK, y
  <1> QED
    BY <1>1, <1>4, <1>5, <1>6

(* Data that comes in sequence.                                            *)
LEMMA InSequenceOK ==
  ASSUME NEW s \in Tcb, NEW g \in Nat, NEW e \in Nat, RxOK(s, g, e),
         NEW m \in Segment, Carries(m, e), m.bytes # <<>>, Acceptable(s, m), Missing(s, m) <= 0
  PROVE  /\ InSequence(s, m) \in Tcb /\ TxSame(s, InSequence(s, m))
         /\ RxOK(InSequence(s, m), g, e)
  <1>1. PICK r \in Nat : RxHolds(s, g, r, e) /\ HoleHolds(s, g, r, e)
    BY DEF RxOK
  <1>2. PICK c \in Nat, z \in Nat : c = m.seq /\ z = Len(m.bytes)
    BY DEF Segment
  <1>3. s.RemoteSEQ = g + r /\ RxFree(s) = RxSlots - 1 - r /\ r <= RxSlots - 1
    BY <1>1, RxReady DEF RxHolds
  <1>4. PICK old \in Nat : old = -Missing(s, m) /\ c + old = g + r /\ old < z /\ r < RxSlots - 1
    <2>1. PICK d \in Int : d = c - (g + r)
      OBVIOUS
    <2>2. Missing(s, m) = d
      BY <1>2, <1>3, <2>1 DEF Missing
    <2>3. RxSlots - 1 - r > 0 /\ d + z > 0 /\ d <= 0
      BY <1>2, <1>3, <2>2 DEF Acceptable
    <2>4. PICK i \in Nat : i = -d
      BY <2>3
    <2>5. r < RxSlots - 1
      BY <2>3, Sizes
    <2>6. c + i = g + r /\ i < z
      BY <2>1, <2>3, <2>4
    <2> QED
      BY <2>2, <2>4, <2>5, <2>6
  <1>a. c + old = g + r /\ old < z /\ r < RxSlots - 1
    BY <1>4
  <1>5. PICK n \in Nat : /\ n = Least(Len(m.bytes) - old, RxFree(s))
                         /\ n > 0 /\ old + n <= z /\ r + n <= RxSlots - 1
    <2>1. PICK x \in Nat, y \in Nat : x = z - old /\ y = RxSlots - 1 - r /\ x > 0 /\ y > 0
      BY <1>a, RxSize
    <2>2. Len(m.bytes) - old = x /\ RxFree(s) = y
      BY <1>2, <1>3, <2>1
    <2>3. PICK n \in Nat : n = Least(x, y) /\ n > 0 /\ n <= x /\ n <= y
      BY <2>1 DEF Least
    <2>4. old + n <= z /\ r + n <= RxSlots - 1
      BY <2>1, <2>3, RxSize
    <2> QED
      BY <2>2, <2>3, <2>4
  <1>b. n > 0 /\ old + n <= z /\ r + n <= RxSlots - 1
    BY <1>5
  <1>6. PICK t \in 0 .. RxSlots - 1, q \in 0 .. RxSlots - 1 : t = s.rxTail /\ q = s.rxHead
    BY DEF Tcb
  <1>7. PICK bytes \in Seq(Nat) : /\ bytes = SubSeq(m.bytes, old + 1, old + n)
                                 /\ DOMAIN bytes = 1 .. n
                                 /\ \A i \in 1 .. n : bytes[i] = g + r + i
    <2>1. PICK w \in Seq(Nat) : w = m.bytes /\ z = Len(w) /\ \A k \in 1 .. z : w[k] = c + k
      BY <1>2 DEF Segment, Carries
    <2>2. PICK v \in Seq(Nat) : /\ v = SubSeq(w, old + 1, old + n) /\ DOMAIN v = 1 .. n
                                /\ \A i \in 1 .. n : v[i] = w[old + i]
      <3>1. old + n <= Len(w)
        BY <1>b, <2>1
      <3>2. /\ SubSeq(w, old + 1, old + n) \in Seq(Nat)
            /\ DOMAIN SubSeq(w, old + 1, old + n) = 1 .. n
            /\ \A i \in 1 .. n : SubSeq(w, old + 1, old + n)[i] = w[old + i]
        BY <3>1, SubSeqOf
      <3> QED
        BY <3>2
    <2>3. ASSUME NEW i \in 1 .. n PROVE v[i] = g + r + i
      <3>1. PICK k \in 1 .. z : k = old + i
        BY <1>b
      <3>2. w[k] = c + k
        BY <2>1
      <3>3. c + k = g + r + i
        BY <1>a, <3>1
      <3> QED
        BY <2>2, <3>1, <3>2, <3>3
    <2> QED
      BY <2>1, <2>2, <2>3
  <1>8. PICK ring \in [0 .. RxSlots - 1 -> Nat] : ring = Stored(s.rx, q, bytes, RxSlots)
    <2>1. PICK w \in [0 .. RxSlots - 1 -> Nat] : w = s.rx
      BY DEF Tcb
    <2>2. RxSlots \in Nat /\ RxSlots > 0
      BY Sizes
    <2>3. Stored(w, q, bytes, RxSlots) \in [0 .. RxSlots - 1 -> Nat]
      BY <2>2, StoredType
    <2> QED
      BY <2>1, <2>3
  <1>9. Keeps(ring, s.rx, t, g, r, n)
    <2>1. PICK w \in [0 .. RxSlots - 1 -> Nat] : w = s.rx
      BY DEF Tcb
    <2>2. q = Place(t, r, RxSlots)
      BY <1>1, <1>6 DEF RxHolds
    <2>3. PICK x \in 0 .. RxSlots - 1 : x = r /\ x + n <= RxSlots
      BY <1>a, <1>b, RxSize
    <2>4. DOMAIN bytes = 1 .. n /\ q = Place(t, x, RxSlots)
      BY <1>7, <2>2, <2>3
    <2>5. Fits(bytes, g, x, n)
      BY <1>7, <2>3 DEF Fits
    <2>6. Keeps(Stored(w, q, bytes, RxSlots), w, t, g, x, n)
      <3>1. x + n <= RxSlots
        BY <2>3
      <3> QED
        BY <2>4, <2>5, <3>1, RightStored
    <2> QED
      BY <1>8, <2>1, <2>3, <2>6
  <1>10. PICK v \in Nat : v = r + n /\ g + v <= e /\ g + r + n = g + v
    <2>1. c + z <= e
      BY <1>2 DEF Carries
    <2>2. g + (r + n) = c + (old + n)
      BY <1>a
    <2> QED
      BY <1>b, <2>1, <2>2
  <1>c. q = Place(t, r, RxSlots)
    BY <1>1, <1>6 DEF RxHolds
  <1>d. (q + n) % RxSlots = Place(t, v, RxSlots) /\ Place(t, v, RxSlots) \in 0 .. RxSlots - 1
    <2>1. v = r + n
      BY <1>10
    <2>2. (Place(t, r, RxSlots) + n) % RxSlots = Place(t, v, RxSlots)
          /\ Place(t, v, RxSlots) \in 0 .. RxSlots - 1
      BY <2>1, RxPointerOn
    <2> QED
      BY <1>c, <2>2
  <1> DEFINE u == [s EXCEPT !.rx = ring, !.RemoteSEQ = @ + n, !.rxHead = (@ + n) % RxSlots]
  <1>11. /\ u \in Tcb /\ TxSame(s, u) /\ u.rxTail = t /\ u.rx = ring
         /\ u.rxHead = Place(t, v, RxSlots) /\ u.RemoteSEQ = g + v
         /\ u.sHoleSize = s.sHoleSize /\ u.wFutureDataSize = s.wFutureDataSize
    <2>1. g + v \in Nat
      OBVIOUS
    <2>2. u = [s EXCEPT !.rx = ring, !.RemoteSEQ = g + v, !.rxHead = Place(t, v, RxSlots)]
      BY <1>3, <1>6, <1>10, <1>d
    <2> QED
      BY <1>6, <1>8, <1>d, <2>1, <2>2, ZenonT(30) DEF Tcb, TxSame
  <1>12. InSequence(s, m) = IF s.sHoleSize = None THEN u ELSE HoleClosed(u, n)
    BY <1>4, <1>5, <1>6, <1>7, <1>8 DEF InSequence
  <1> HIDE DEF u
  <1>14. Filled(u, g, 0, v)
    <2>1. ASSUME NEW j \in 0 .. v - 1 PROVE ring[Place(t, j, RxSlots)] = g + j + 1
      <3>1. v = r + n
        BY <1>10
      <3>2. j \in 0 .. RxSlots - 1 /\ (j \in 0 .. r - 1 \/ j \in r .. r + n - 1)
        BY <1>b, <3>1, RxSize
      <3>3. j \in 0 .. r - 1 => s.rx[Place(t, j, RxSlots)] = g + j + 1
        BY <1>1, <1>6 DEF RxHolds, Filled
      <3> QED
        BY <1>9, <3>2, <3>3 DEF Keeps
    <2> QED
      BY <1>11, <2>1 DEF Filled
  <1>15. RxHolds(u, g, v, e)
    <2>1. g + v <= e /\ v <= RxSlots - 1
      BY <1>10, <1>b
    <2> QED
      BY <1>11, <1>14, <2>1 DEF RxHolds
  <1>16. CASE s.sHoleSize = None
    <2>1. HoleHolds(u, g, v, e)
      BY <1>11, <1>16 DEF HoleHolds
    <2> QED
      BY <1>11, <1>12, <1>15, <1>16, <2>1 DEF RxOK
  <1>17. CASE s.sHoleSize # None
    <2>1. PICK k \in Nat, f \in Nat :
              /\ k = s.sHoleSize /\ f = s.wFutureDataSize /\ k > 0
              /\ r + k + f <= RxSlots - 1 /\ g + (r + k + f) <= e
              /\ Filled(s, g, r + k, r + k + f)
      BY <1>1, <1>17 DEF HoleHolds
    <2>2. PICK p \in Nat : p = r + k + f /\ p <= RxSlots - 1 /\ g + p <= e
                           /\ Filled(s, g, r + k, p)
      BY <2>1
    <2>3. Filled(u, g, r + k, p)
      <3>1. ASSUME NEW j \in r + k .. p - 1 PROVE ring[Place(t, j, RxSlots)] = g + j + 1
        <4>1. p <= RxSlots - 1
          BY <2>2
        <4>2. j \in 0 .. RxSlots - 1
          BY <4>1, RxSize, SMTT(30)
        <4>3. s.rx[Place(t, j, RxSlots)] = g + j + 1
          BY <1>6, <2>2 DEF Filled
        <4> QED
          BY <1>9, <4>2, <4>3 DEF Keeps
      <3> QED
        BY <1>11, <3>1 DEF Filled
    <2>4. u.sHoleSize = k /\ u.wFutureDataSize = f /\ k > 0 /\ v = r + n
      BY <1>10, <1>11, <2>1
    <2>5. p = r + k + f /\ p <= RxSlots - 1 /\ g + p <= e
      BY <2>2
    <2>6. /\ HoleClosed(u, n) \in Tcb /\ TxSame(u, HoleClosed(u, n))
          /\ RxOK(HoleClosed(u, n), g, e)
      BY <1>11, <1>15, <2>3, <2>4, <2>5, HoleClosedOK
    <2>7. InSequence(s, m) = HoleClosed(u, n)
      BY <1>12, <1>17
    <2> QED
      BY <1>11, <2>6, <2>7 DEF TxSame
  <1> QED
    BY <1>16, <1>17

(* Data ahead of it.  The part of the ring behind the hole stays whole.    *)
HoleOf(s, k, f) == s.sHoleSize = k /\ s.wFutureDataSize = f
Joined(d, n, k, f, kk, ff) ==
    /\ kk \in Nat /\ kk > 0 /\ ff \in Nat
    /\ \/ kk = d /\ ff = n
       \/ kk = d /\ d + ff = k + f /\ d + n >= k
       \/ kk = k /\ k + ff = d + n /\ d <= k + f
       \/ kk = k /\ ff = f

LEMMA FutureIs ==
  ASSUME NEW s, NEW d \in Nat, NEW n \in Nat, NEW k \in Nat, NEW f \in Nat, d > 0, k > 0,
         HoleOf(s, k, f)
  PROVE  Joined(d, n, k, f, Least(d, k), FutureOf(s, d, n))
  <1>1. FutureOf(s, d, n) =
            IF d < k THEN IF d + n > k + f \/ d + n < k THEN n ELSE k + f - d
            ELSE IF d + n > k + f /\ d <= k + f THEN d + n - k ELSE f
    BY DEF FutureOf, HoleOf
  <1>2. Least(d, k) = IF d < k THEN d ELSE k
    BY DEF Least
  <1>3. CASE d < k /\ (d + n > k + f \/ d + n < k)
    BY <1>1, <1>2, <1>3 DEF Joined
  <1>4. CASE d < k /\ ~(d + n > k + f \/ d + n < k)
    BY <1>1, <1>2, <1>4 DEF Joined
  <1>5. CASE ~(d < k) /\ d + n > k + f /\ d <= k + f
    BY <1>1, <1>2, <1>5 DEF Joined
  <1>6. CASE ~(d < k) /\ ~(d + n > k + f /\ d <= k + f)
    BY <1>1, <1>2, <1>6 DEF Joined
  <1> QED
    BY <1>3, <1>4, <1>5, <1>6

HoleSetOf(u, k, f) == [u EXCEPT !.sHoleSize = k, !.wFutureDataSize = f]

LEMMA HoleSet ==
  ASSUME NEW u \in Tcb, NEW k \in Int, NEW f \in Int
  PROVE  LET y == HoleSetOf(u, k, f) IN
         /\ y \in Tcb /\ TxSame(u, y) /\ y.rxTail = u.rxTail /\ y.rx = u.rx /\ y.rxHead = u.rxHead
         /\ y.RemoteSEQ = u.RemoteSEQ /\ y.sHoleSize = k /\ y.wFutureDataSize = f
  BY DEF Tcb, TxSame, HoleSetOf

LEMMA OutOfSequenceOK ==
  ASSUME NEW s \in Tcb, NEW g \in Nat, NEW e \in Nat, RxOK(s, g, e),
         NEW m \in Segment, Carries(m, e), m.bytes # <<>>, Acceptable(s, m), ~(Missing(s, m) <= 0)
  PROVE  /\ OutOfSequence(s, m) \in Tcb /\ TxSame(s, OutOfSequence(s, m))
         /\ RxOK(OutOfSequence(s, m), g, e)
  <1>1. PICK r \in Nat : RxHolds(s, g, r, e) /\ HoleHolds(s, g, r, e)
    BY DEF RxOK
  <1>2. PICK c \in Nat, z \in Nat : c = m.seq /\ z = Len(m.bytes)
    BY DEF Segment
  <1>3. s.RemoteSEQ = g + r /\ RxFree(s) = RxSlots - 1 - r /\ r <= RxSlots - 1
    BY <1>1, RxReady DEF RxHolds
  <1>4. PICK d \in Nat : d = Missing(s, m) /\ d > 0 /\ c = g + r + d /\ r + d < RxSlots - 1
    <2>1. PICK x \in Int : x = c - (g + r)
      OBVIOUS
    <2>2. Missing(s, m) = x
      BY <1>2, <1>3, <2>1 DEF Missing
    <2>3. ~(x <= 0) /\ x < RxSlots - 1 - r
      BY <1>3, <2>2 DEF Acceptable
    <2>4. x \in Nat /\ x > 0 /\ c = g + r + x /\ r + x < RxSlots - 1
      BY <2>1, <2>3, RxSize
    <2> QED
      BY <2>2, <2>4
  <1>5. d > 0 /\ c = g + r + d /\ r + d < RxSlots - 1
    BY <1>4
  <1>6. PICK n \in Nat : /\ n = Least(Len(m.bytes), RxFree(s) - Missing(s, m))
                         /\ n <= z /\ r + d + n <= RxSlots - 1
    <2>1. PICK y \in Nat : y = RxSlots - 1 - r - d
      BY <1>5, RxSize
    <2>2. RxFree(s) - Missing(s, m) = y
      BY <1>3, <1>4, <2>1
    <2>3. PICK n \in Nat : n = Least(z, y) /\ n <= z /\ n <= y
      BY DEF Least
    <2>4. r + d + n <= RxSlots - 1
      BY <2>1, <2>3, RxSize
    <2> QED
      BY <1>2, <2>2, <2>3, <2>4
  <1>7. n <= z /\ r + d + n <= RxSlots - 1
    BY <1>6
  <1>8. PICK t \in 0 .. RxSlots - 1, q \in 0 .. RxSlots - 1 : t = s.rxTail /\ q = s.rxHead
    BY DEF Tcb
  <1>9. PICK x \in 0 .. RxSlots - 1 : x = r + d /\ x + n <= RxSlots - 1 /\ g + x + n <= e
    <2>1. c + z <= e
      BY <1>2 DEF Carries
    <2>2. r + d \in 0 .. RxSlots - 1
      BY <1>5, RxSize
    <2>3. g + (r + d) + n <= e
      BY <1>5, <1>7, <2>1
    <2> QED
      BY <1>7, <2>2, <2>3
  <1>10. x = r + d /\ x + n <= RxSlots - 1 /\ g + x + n <= e /\ x \in Nat
    BY <1>9, RxSize
  <1>11. PICK bytes \in Seq(Nat) : bytes = SubSeq(m.bytes, 1, n) /\ Fits(bytes, g, x, n)
    <2>1. PICK w \in Seq(Nat) : w = m.bytes /\ z = Len(w) /\ \A k \in 1 .. z : w[k] = c + k
      BY <1>2 DEF Segment, Carries
    <2>2. PICK v \in Seq(Nat) : /\ v = SubSeq(w, 0 + 1, 0 + n) /\ DOMAIN v = 1 .. n
                                /\ \A i \in 1 .. n : v[i] = w[0 + i]
      <3>1. 0 \in Nat /\ 0 + n <= Len(w)
        BY <1>7, <2>1
      <3>2. /\ SubSeq(w, 0 + 1, 0 + n) \in Seq(Nat)
            /\ DOMAIN SubSeq(w, 0 + 1, 0 + n) = 1 .. n
            /\ \A i \in 1 .. n : SubSeq(w, 0 + 1, 0 + n)[i] = w[0 + i]
        BY <3>1, SubSeqOf
      <3> QED
        BY <3>2
    <2>3. v = SubSeq(w, 1, n)
      BY <2>2
    <2>4. ASSUME NEW i \in 1 .. n PROVE v[i] = g + x + i
      <3>1. v[i] = w[i]
        BY <2>2
      <3>2. i \in 1 .. z
        BY <1>7
      <3>3. w[i] = c + i
        BY <2>1, <3>2
      <3>4. c = g + x
        BY <1>5, <1>10
      <3> QED
        BY <3>1, <3>3, <3>4
    <2> QED
      BY <2>1, <2>2, <2>3, <2>4 DEF Fits
  <1>12. (q + d) % RxSlots = Place(t, x, RxSlots)
    <2>1. q = Place(t, r, RxSlots)
      BY <1>1, <1>8 DEF RxHolds
    <2>2. PICK i \in Nat : i = x /\ i = r + d
      BY <1>10
    <2>3. i = r + d
      BY <2>2
    <2>4. (Place(t, r, RxSlots) + d) % RxSlots = Place(t, i, RxSlots)
      BY <2>3, RxPointerOn
    <2> QED
      BY <2>1, <2>2, <2>4
  <1>13. PICK ring \in [0 .. RxSlots - 1 -> Nat] :
             ring = Stored(s.rx, (s.rxHead + Missing(s, m)) % RxSlots, bytes, RxSlots)
             /\ Keeps(ring, s.rx, t, g, x, n)
    <2>1. PICK w \in [0 .. RxSlots - 1 -> Nat], from \in Int :
              w = s.rx /\ from = Place(t, x, RxSlots)
      <3>1. Place(t, x, RxSlots) \in Int
        <4>1. t \in Int /\ x \in Int
          BY RxSize
        <4>2. Place(t, x, RxSlots) \in 0 .. RxSlots - 1
          BY <4>1, RxSize, PlaceType
        <4> QED
          BY <4>2, RxSize
      <3> QED
        BY <3>1 DEF Tcb
    <2>2. (s.rxHead + Missing(s, m)) % RxSlots = from
      BY <1>4, <1>8, <1>12, <2>1
    <2>3. Stored(w, from, bytes, RxSlots) \in [0 .. RxSlots - 1 -> Nat]
      BY RxSize, StoredType
    <2>4. Keeps(Stored(w, from, bytes, RxSlots), w, t, g, x, n)
      <3>1. from = Place(t, x, RxSlots)
        BY <2>1
      <3>2. x + n <= RxSlots
        BY <1>10, RxSize, SMTT(30)
      <3>3. Fits(bytes, g, x, n)
        BY <1>11
      <3> QED
        BY <3>1, <3>2, <3>3, RightStored
    <2> QED
      BY <2>1, <2>2, <2>3, <2>4
  <1> DEFINE u == [s EXCEPT !.rx = ring]
  <1>14. OutOfSequence(s, m) =
             IF s.sHoleSize = None
               THEN [u EXCEPT !.sHoleSize = d, !.wFutureDataSize = n]
               ELSE [u EXCEPT !.sHoleSize = Least(d, @), !.wFutureDataSize = FutureOf(s, d, n)]
    BY <1>4, <1>6, <1>11, <1>13 DEF OutOfSequence
  <1>15. /\ u \in Tcb /\ TxSame(s, u) /\ u.rxTail = t /\ u.rx = ring /\ u.rxHead = s.rxHead
         /\ u.RemoteSEQ = s.RemoteSEQ
         /\ u.sHoleSize = s.sHoleSize /\ u.wFutureDataSize = s.wFutureDataSize
    BY <1>8 DEF Tcb, TxSame
  <1> HIDE DEF u
  <1>16. \A j \in x .. x + n - 1 : ring[Place(t, j, RxSlots)] = g + j + 1
    <2> TAKE j \in x .. x + n - 1
    <2>1. j \in 0 .. RxSlots - 1
      <3>1. x + n <= RxSlots - 1 /\ x \in Nat
        BY <1>10
      <3> QED
        BY <3>1, RxSize
    <2> QED
      BY <1>13, <2>1 DEF Keeps
  <1>17. Filled(u, g, 0, r)
    <2>1. ASSUME NEW j \in 0 .. r - 1 PROVE ring[Place(t, j, RxSlots)] = g + j + 1
      <3>1. j \in 0 .. RxSlots - 1
        BY <1>5, RxSize
      <3>2. s.rx[Place(t, j, RxSlots)] = g + j + 1
        BY <1>1, <1>8 DEF RxHolds, Filled
      <3> QED
        BY <1>13, <3>1, <3>2 DEF Keeps
    <2> QED
      BY <1>15, <2>1 DEF Filled
  (* What is recorded behind the head after all.                           *)
  <1>18. ASSUME NEW k \in Nat, NEW f \in Nat, NEW y, k > 0,
                y = [u EXCEPT !.sHoleSize = k, !.wFutureDataSize = f],
                NEW p \in Nat, p = r + k + f, p <= RxSlots - 1, g + p <= e,
                \A j \in r + k .. p - 1 : ring[Place(t, j, RxSlots)] = g + j + 1
         PROVE  y \in Tcb /\ TxSame(s, y) /\ RxOK(y, g, e)
    <2>1. /\ y \in Tcb /\ TxSame(u, y) /\ y.rxTail = t /\ y.rx = ring /\ y.rxHead = s.rxHead
          /\ y.RemoteSEQ = s.RemoteSEQ /\ y.sHoleSize = k /\ y.wFutureDataSize = f
      <3>1. y = HoleSetOf(u, k, f)
        BY <1>18 DEF HoleSetOf
      <3>2. u \in Tcb /\ k \in Int /\ f \in Int
        BY <1>15
      <3>3. /\ y \in Tcb /\ TxSame(u, y) /\ y.rxTail = u.rxTail /\ y.rx = u.rx /\ y.rxHead = u.rxHead
            /\ y.RemoteSEQ = u.RemoteSEQ /\ y.sHoleSize = k /\ y.wFutureDataSize = f
        BY <3>1, <3>2, HoleSet
      <3> QED
        BY <1>15, <3>3
    <2>2. RxHolds(y, g, r, e)
      BY <1>1, <1>8, <1>15, <1>17, <2>1 DEF RxHolds, Filled
    <2>3. Filled(y, g, r + k, p)
      BY <1>18, <2>1 DEF Filled
    <2>4. k > 0 /\ r + k + f = p /\ p <= RxSlots - 1 /\ g + p <= e
      BY <1>18
    <2>5. HoleHolds(y, g, r, e)
      BY <2>1, <2>3, <2>4 DEF HoleHolds
    <2> QED
      BY <1>15, <2>1, <2>2, <2>5 DEF RxOK, TxSame
  <1>19. CASE s.sHoleSize = None
    <2>1. OutOfSequence(s, m) = [u EXCEPT !.sHoleSize = d, !.wFutureDataSize = n]
      BY <1>14, <1>19
    <2>2. PICK p \in Nat : p = r + d + n /\ p = x + n
      BY <1>10
    <2>3. d > 0 /\ p = r + d + n /\ p <= RxSlots - 1 /\ g + p <= e
      BY <1>5, <1>10, <2>2
    <2>4. \A j \in r + d .. p - 1 : ring[Place(t, j, RxSlots)] = g + j + 1
      BY <1>10, <1>16, <2>2
    <2> QED
      BY <1>18, <2>1, <2>3, <2>4
  <1>20. CASE s.sHoleSize # None
    <2>1. PICK k \in Nat, f \in Nat :
              /\ k = s.sHoleSize /\ f = s.wFutureDataSize /\ k > 0
              /\ r + k + f <= RxSlots - 1 /\ g + (r + k + f) <= e
              /\ Filled(s, g, r + k, r + k + f)
      BY <1>1, <1>20 DEF HoleHolds
    <2>2. r + k + f <= RxSlots - 1 /\ g + (r + k + f) <= e /\ k > 0
      BY <2>1
    <2>3. \A j \in r + k .. r + k + f - 1 : ring[Place(t, j, RxSlots)] = g + j + 1
      <3> TAKE j \in r + k .. r + k + f - 1
      <3>1. j \in 0 .. RxSlots - 1
        BY <2>2, RxSize, SMTT(30)
      <3>2. Filled(s, g, r + k, r + k + f)
        BY <2>1
      <3>3. s.rx[Place(t, j, RxSlots)] = g + j + 1
        BY <1>8, <3>2 DEF Filled
      <3> QED
        BY <1>13, <3>1, <3>3 DEF Keeps
    <2>4. HoleOf(s, k, f) /\ d > 0 /\ k > 0
      BY <1>5, <2>1 DEF HoleOf
    <2>5. Joined(d, n, k, f, Least(d, k), FutureOf(s, d, n))
      BY <2>4, FutureIs
    <2>6. PICK kk \in Nat, ff \in Nat :
              kk = Least(d, k) /\ ff = FutureOf(s, d, n) /\ Joined(d, n, k, f, kk, ff)
      BY <2>5 DEF Joined
    <2>7. /\ kk > 0
          /\ \/ kk = d /\ ff = n
             \/ kk = d /\ d + ff = k + f /\ d + n >= k
             \/ kk = k /\ k + ff = d + n /\ d <= k + f
             \/ kk = k /\ ff = f
      BY <2>6 DEF Joined
    <2>11. OutOfSequence(s, m) = [u EXCEPT !.sHoleSize = kk, !.wFutureDataSize = ff]
      BY <1>14, <1>15, <1>20, <2>1, <2>6
    <2>8. PICK p \in Nat : p = r + kk + ff
      OBVIOUS
    <2>9. p <= RxSlots - 1 /\ g + p <= e
      BY <1>10, <2>2, <2>7, <2>8, RxSize
    <2>10. ASSUME NEW j \in r + kk .. p - 1 PROVE ring[Place(t, j, RxSlots)] = g + j + 1
      <3>1. j \in x .. x + n - 1 \/ j \in r + k .. r + k + f - 1
        BY <1>10, <2>7, <2>8
      <3> QED
        BY <1>16, <2>3, <3>1
    <2> QED
      BY <1>18, <2>11, <2>7, <2>8, <2>9, <2>10
  <1> QED
    BY <1>19, <1>20

LEMMA TextOK ==
  ASSUME NEW s \in Tcb, NEW g \in Nat, NEW e \in Nat, RxOK(s, g, e),
         NEW m \in Segment, Carries(m, e), m.bytes # <<>>, Acceptable(s, m)
  PROVE  /\ Text(s, m) \in Tcb /\ TxSame(s, Text(s, m))
         /\ RxOK(Text(s, m), g, e)
  BY InSequenceOK, OutOfSequenceOK DEF Text

(* What is read leaves the ring.                                           *)
Taken(s, n) == [s EXCEPT !.rxTail = (@ + n) % RxSlots]

LEMMA TakenOK ==
  ASSUME NEW s \in Tcb, NEW g \in Nat, NEW e \in Nat, RxOK(s, g, e), NEW n \in Nat, n <= Ready(s)
  PROVE  /\ Taken(s, n) \in Tcb /\ TxSame(s, Taken(s, n)) /\ RxOK(Taken(s, n), g + n, e)
         /\ DOMAIN Slots(s.rx, s.rxTail, n, RxSlots) = 1 .. n
         /\ \A i \in 1 .. n : Slots(s.rx, s.rxTail, n, RxSlots)[i] = g + i
  <1>1. PICK r \in Nat : RxHolds(s, g, r, e) /\ HoleHolds(s, g, r, e)
    BY DEF RxOK
  <1>2. PICK t \in 0 .. RxSlots - 1 : t = s.rxTail
    BY DEF Tcb
  <1>3. n <= r /\ r <= RxSlots - 1 /\ g + r <= e
    BY <1>1, RxReady DEF RxHolds
  <1>4. s.rxHead = Place(t, r, RxSlots) /\ s.RemoteSEQ = g + r /\ Filled(s, g, 0, r)
    BY <1>1, <1>2 DEF RxHolds
  <1>5. t \in Int /\ RxSlots \in Nat /\ RxSlots > 0
    BY RxSize
  <1>6. PICK p \in 0 .. RxSlots - 1 : p = (t + n) % RxSlots /\ p = Place(t, n, RxSlots)
    <2>1. (t + n) % RxSlots = Place(t, n, RxSlots)
      BY DEF Place
    <2>2. PICK k \in Int : k = n
      OBVIOUS
    <2>3. Place(t, k, RxSlots) \in 0 .. RxSlots - 1
      BY <1>5, PlaceType
    <2> QED
      BY <2>1, <2>2, <2>3
  <1>7. \A j \in Int : Place(p, j - n, RxSlots) = Place(t, j, RxSlots)
    <2>1. PICK k \in Int : k = n
      OBVIOUS
    <2>2. \A j \in Int : Place(Place(t, k, RxSlots), j - k, RxSlots) = Place(t, j, RxSlots)
      BY <1>5, TailOn
    <2> QED
      BY <1>6, <2>1, <2>2
  <1> DEFINE y == Taken(s, n)
  <1>8. y = [s EXCEPT !.rxTail = p]
    BY <1>2, <1>6 DEF Taken
  <1>9. y \in Tcb /\ TxSame(s, y)
    BY <1>8, ZenonT(30) DEF Tcb, TxSame
  <1>10. /\ y.rx = s.rx /\ y.rxHead = s.rxHead /\ y.rxTail = p /\ y.RemoteSEQ = s.RemoteSEQ
         /\ y.sHoleSize = s.sHoleSize /\ y.wFutureDataSize = s.wFutureDataSize
    BY <1>8 DEF Tcb
  <1> HIDE DEF y
  <1>11. PICK v \in Nat : v = r - n
    BY <1>3
  <1>12. ASSUME NEW lo \in Nat, NEW hi \in Nat, NEW x \in Nat, NEW z \in Nat,
                x = lo + n, z = hi + n, Filled(s, g, x, z)
         PROVE  Filled(y, g + n, lo, hi)
    <2>1. ASSUME NEW j \in lo .. hi - 1 PROVE s.rx[Place(p, j, RxSlots)] = g + n + j + 1
      <3>1. PICK i \in x .. z - 1 : i = j + n /\ i - n = j
        BY <1>12
      <3>2. Place(p, i - n, RxSlots) = Place(t, i, RxSlots)
        BY <1>7
      <3>3. s.rx[Place(t, i, RxSlots)] = g + i + 1
        BY <1>2, <1>12 DEF Filled
      <3>4. g + i + 1 = g + n + j + 1
        BY <3>1
      <3> QED
        BY <3>1, <3>2, <3>3, <3>4
    <2> QED
      BY <1>10, <2>1 DEF Filled
  <1>13. RxHolds(y, g + n, v, e)
    <2>1. v + n = r /\ g + n + v = g + r
      BY <1>11
    <2>2. Filled(s, g, n, r)
      BY <1>4 DEF Filled
    <2>3. 0 + n = n
      OBVIOUS
    <2>4. Filled(y, g + n, 0, v)
      BY <1>12, <2>1, <2>2, <2>3
    <2>5. s.rxHead = Place(p, v, RxSlots)
      <3>1. PICK i \in Int : i = r
        OBVIOUS
      <3>2. Place(p, i - n, RxSlots) = Place(t, i, RxSlots)
        BY <1>7
      <3> QED
        BY <1>4, <1>11, <3>1, <3>2
    <2>6. v <= RxSlots - 1 /\ g + n + v <= e
      BY <1>3, <1>5, <2>1
    <2> QED
      BY <1>4, <1>10, <2>1, <2>4, <2>5, <2>6 DEF RxHolds
  <1>14. HoleHolds(y, g + n, v, e)
    <2>1. CASE s.sHoleSize = None
      BY <1>10, <2>1 DEF HoleHolds
    <2>2. CASE s.sHoleSize # None
      <3>1. PICK k \in Nat, f \in Nat :
                /\ k = s.sHoleSize /\ f = s.wFutureDataSize /\ k > 0
                /\ r + k + f <= RxSlots - 1 /\ g + (r + k + f) <= e
                /\ Filled(s, g, r + k, r + k + f)
        BY <1>1, <2>2 DEF HoleHolds
      <3>2. k > 0 /\ r + k + f <= RxSlots - 1 /\ g + (r + k + f) <= e
        BY <3>1
      <3>3. PICK lo \in Nat, hi \in Nat, x \in Nat, z \in Nat :
                lo = v + k /\ hi = v + k + f /\ x = r + k /\ z = r + k + f
        OBVIOUS
      <3>4. x = lo + n /\ z = hi + n /\ hi <= RxSlots - 1 /\ g + n + hi <= e
        BY <1>11, <3>2, <3>3, <1>3, <1>5
      <3>5. Filled(s, g, x, z)
        BY <3>1, <3>3
      <3>6. Filled(y, g + n, lo, hi)
        BY <1>12, <3>4, <3>5
      <3>7. y.sHoleSize = k /\ y.wFutureDataSize = f
        BY <1>10, <3>1
      <3> QED
        BY <3>2, <3>3, <3>4, <3>6, <3>7 DEF HoleHolds
    <2> QED
      BY <2>1, <2>2
  <1>15. RxOK(y, g + n, e)
    BY <1>13, <1>14 DEF RxOK
  <1>16. /\ DOMAIN Slots(s.rx, t, n, RxSlots) = 1 .. n
         /\ \A i \in 1 .. n : Slots(s.rx, t, n, RxSlots)[i] = g + i
    <2>1. t = Place(t, 0, RxSlots)
      BY <1>5, PlaceNone
    <2>2. /\ DOMAIN Slots(s.rx, t, n, RxSlots) = 1 .. n
          /\ \A i \in 1 .. n : Slots(s.rx, t, n, RxSlots)[i] = s.rx[Place(t, 0 + i - 1, RxSlots)]
      BY <1>5, <2>1, SlotsAre
    <2>3. ASSUME NEW i \in 1 .. n PROVE s.rx[Place(t, 0 + i - 1, RxSlots)] = g + i
      <3>1. PICK j \in 0 .. r - 1 : j = 0 + i - 1 /\ g + j + 1 = g + i
        BY <1>3
      <3>2. s.rx[Place(t, j, RxSlots)] = g + j + 1
        BY <1>2, <1>4 DEF Filled
      <3> QED
        BY <3>1, <3>2
    <2> QED
      BY <2>2, <2>3
  <1> QED
    BY <1>2, <1>9, <1>15, <1>16 DEF y

-----------------------------------------------------------------------------
(* The invariant.  The application has written w bytes and read g, the     *)
(* peer has received a and sent e.                                         *)

SockOK(s, w, a, g, e) == s \in Tcb /\ TxOK(s, w, a) /\ RxOK(s, g, e)

(* A segment of ours carries what was written, and invites no more than    *)
(* the receive ring has room for.                                          *)
OutOK(m, w, g) == /\ m \in Segment /\ Carries(m, w) /\ Len(m.bytes) <= TxSlots - 1
                  /\ m.ack + m.win <= g + (RxSlots - 1)
InOK(m, e, a) == m \in Segment /\ Carries(m, e) /\ m.ack <= a

AllOut(M, w, g) == \A m \in M : OutOK(m, w, g)
AllIn(M, e, a) == \A m \in M : InOK(m, e, a)

Counted(q) == q \in Seq(Nat) /\ \A i \in 1 .. Len(q) : q[i] = i

PeerType == [in : Seq(Nat), out : Nat, una : Nat, sent : Nat, edge : Nat]
PeerOK(p, w, g) == /\ p \in PeerType /\ Counted(p.in) /\ Len(p.in) <= w
                   /\ p.edge <= g + (RxSlots - 1) /\ p.sent <= g + RxSlots

StreamInv ==
    /\ SockOK(tcb, wrote, Len(peer.in), Len(got), peer.sent)
    /\ AllOut(toPeer, wrote, Len(got))
    /\ AllIn(toUs, peer.sent, Len(peer.in))
    /\ PeerOK(peer, wrote, Len(got))
    /\ Counted(got) /\ wrote \in Nat /\ load \in Loads

LEMMA OutMore ==
  ASSUME NEW M, NEW w \in Nat, NEW g \in Nat, NEW v \in Nat, NEW h \in Nat, w <= v, g <= h,
         AllOut(M, w, g)
  PROVE  AllOut(M, v, h)
  <1> SUFFICES ASSUME NEW m \in M PROVE OutOK(m, v, h)
    BY DEF AllOut
  <1>1. OutOK(m, w, g)
    BY DEF AllOut
  <1>2. PICK c \in Nat, z \in Nat, i \in Int : c = m.seq /\ z = Len(m.bytes) /\ i = m.ack + m.win
    BY <1>1 DEF OutOK, Segment
  <1>3. c + z <= v /\ i <= h + (RxSlots - 1)
    <2>1. c + z <= w /\ i <= g + (RxSlots - 1)
      BY <1>1, <1>2 DEF OutOK, Carries
    <2> QED
      BY <2>1, RxSize
  <1> QED
    BY <1>1, <1>2, <1>3 DEF OutOK, Carries

LEMMA InMore ==
  ASSUME NEW M, NEW e \in Nat, NEW a \in Nat, NEW f \in Nat, NEW b \in Nat, e <= f, a <= b,
         AllIn(M, e, a)
  PROVE  AllIn(M, f, b)
  <1> SUFFICES ASSUME NEW m \in M PROVE InOK(m, f, b)
    BY DEF AllIn
  <1>1. InOK(m, e, a)
    BY DEF AllIn
  <1>2. PICK c \in Nat, z \in Nat, i \in Nat : c = m.seq /\ z = Len(m.bytes) /\ i = m.ack
    BY <1>1 DEF InOK, Segment
  <1>3. c + z <= f /\ i <= b
    <2>1. c + z <= e /\ i <= a
      BY <1>1, <1>2 DEF InOK, Carries
    <2> QED
      BY <2>1
  <1> QED
    BY <1>1, <1>2, <1>3 DEF InOK, Carries

LEMMA TxOKMore ==
  ASSUME NEW s, NEW w, NEW a \in Nat, NEW b \in Nat, a <= b, TxOK(s, w, a)
  PROVE  TxOK(s, w, b)
  BY DEF TxOK

LEMMA SockMore ==
  ASSUME NEW s, NEW w, NEW g \in Nat, NEW a \in Nat, NEW b \in Nat, a <= b,
         NEW e \in Nat, NEW f \in Nat, e <= f, SockOK(s, w, a, g, e)
  PROVE  SockOK(s, w, b, g, f)
  BY TxOKMore, RxOKMore DEF SockOK

LEMMA SameSock ==
  ASSUME NEW s, NEW t \in Tcb, TxSame(s, t), RxSame(s, t),
         NEW w, NEW a, NEW g, NEW e, SockOK(s, w, a, g, e)
  PROVE  SockOK(t, w, a, g, e)
  BY TxSameOK, RxSameOK DEF SockOK

(* What a socket that is right sends is right, and it stays so.            *)
LEMMA SentSock ==
  ASSUME NEW s, NEW w \in Nat, NEW a \in Nat, NEW g \in Nat, NEW e \in Nat,
         SockOK(s, w, a, g, e), NEW reset \in BOOLEAN
  PROVE  SockOK(Sent(s, reset), w, a, g, e) /\ OutOK(SegmentOf(s), w, g)
  <1>1. s \in Tcb /\ TxOK(s, w, a) /\ RxOK(s, g, e)
    BY DEF SockOK
  <1>2. PICK b \in Nat, u \in Nat, h \in Nat : TxHolds(s, b, u, h) /\ w = b + h /\ b <= a
    BY <1>1 DEF TxOK
  <1>3. PICK n \in Nat : n = SendLength(s) /\ n <= h - u
    <2>1. SendLength(s) \in 0 .. h - u
      BY <1>1, <1>2, SendLengthType
    <2> QED
      BY <2>1
  <1>4. /\ Sent(s, reset) \in Tcb /\ RxSame(s, Sent(s, reset))
    BY <1>1, <1>2, SentType DEF RxSame
  <1>5. TxOK(Sent(s, reset), w, a)
    <2>1. TxHolds(Sent(s, reset), b, u + n, h)
      BY <1>1, <1>2, <1>3, SentHolds
    <2>2. u + n \in Nat
      OBVIOUS
    <2> QED
      BY <1>2, <2>1, <2>2 DEF TxOK
  <1>6. SockOK(Sent(s, reset), w, a, g, e)
    BY <1>1, <1>4, <1>5, RxSameOK DEF SockOK
  <1>7. OutOK(SegmentOf(s), w, g)
    <2>1. /\ SegmentOf(s).seq = b + u /\ SegmentOf(s).ack = s.RemoteSEQ
          /\ SegmentOf(s).win = RxFree(s)
          /\ DOMAIN SegmentOf(s).bytes = 1 .. n
          /\ \A i \in 1 .. n : SegmentOf(s).bytes[i] = b + u + i
      BY <1>1, <1>2, <1>3, SegmentHolds
    <2>2. PICK r \in Nat : RxHolds(s, g, r, e)
      BY <1>1 DEF RxOK
    <2>3. RxFree(s) = RxSlots - 1 - r /\ s.RemoteSEQ = g + r
      BY <1>1, <2>2, RxReady DEF RxHolds
    <2>4. PICK bytes \in Seq(Nat) : bytes = SegmentOf(s).bytes /\ Len(bytes) = n
                                   /\ \A i \in 1 .. n : bytes[i] = b + u + i
      <3>1. \A i \in 1 .. n : b + u + i \in Nat
        OBVIOUS
      <3>2. SegmentOf(s).bytes = [i \in 1 .. n |-> SegmentOf(s).bytes[i]]
        BY <2>1 DEF SegmentOf, Slots
      <3>3. SegmentOf(s).bytes \in Seq(Nat) /\ Len(SegmentOf(s).bytes) = n
        BY <2>1, <3>1, <3>2, SMTT(30)
      <3> QED
        BY <2>1, <3>3
    <2>5. SegmentOf(s) \in Segment
      <3>1. g + r \in Nat /\ RxSlots - 1 - r \in Int /\ b + u \in Nat
        BY RxSize
      <3> QED
        BY <2>1, <2>3, <2>4, <3>1 DEF SegmentOf, Segment
    <2>6. Carries(SegmentOf(s), w)
      <3>1. b + u + n <= w
        BY <1>2, <1>3
      <3> QED
        BY <2>1, <2>4, <3>1 DEF Carries
    <2>7. Len(SegmentOf(s).bytes) <= TxSlots - 1
      <3>1. u <= h /\ h <= TxSlots - 1
        BY <1>2 DEF TxHolds
      <3>2. n <= TxSlots - 1
        BY <1>3, <3>1, Sizes
      <3> QED
        BY <2>4, <3>2
    <2>8. SegmentOf(s).ack + SegmentOf(s).win <= g + (RxSlots - 1)
      <3>1. g + r + (RxSlots - 1 - r) <= g + (RxSlots - 1)
        BY RxSize
      <3> QED
        BY <2>1, <2>3, <3>1
    <2> QED
      BY <2>5, <2>6, <2>7, <2>8 DEF OutOK
  <1> QED
    BY <1>6, <1>7

LEMMA SendsOK ==
  ASSUME NEW s, NEW w \in Nat, NEW a \in Nat, NEW g \in Nat, NEW e \in Nat,
         SockOK(s, w, a, g, e), AllOut(toPeer, w, g), NEW reset \in BOOLEAN, Sends(s, reset)
  PROVE  SockOK(tcb', w, a, g, e) /\ AllOut(toPeer', w, g)
  <1>1. SockOK(Sent(s, reset), w, a, g, e) /\ OutOK(SegmentOf(s), w, g)
    BY SentSock
  <1>2. tcb' = Sent(s, reset) /\ toPeer' = Carried(SegmentOf(s))
    BY DEF Sends
  <1>3. Carried(SegmentOf(s)) \subseteq toPeer \cup {SegmentOf(s)}
    BY DEF Carried
  <1> QED
    BY <1>1, <1>2, <1>3 DEF AllOut

LEMMA QuietOK ==
  ASSUME NEW s, NEW w, NEW a, NEW g, NEW e,
         SockOK(s, w, a, g, e), AllOut(toPeer, w, g), Quiet(s)
  PROVE  SockOK(tcb', w, a, g, e) /\ AllOut(toPeer', w, g)
  BY DEF Quiet

LEMMA DueLaterSock ==
  ASSUME NEW s, NEW w, NEW a, NEW g, NEW e, SockOK(s, w, a, g, e)
  PROVE  SockOK(DueLater(s), w, a, g, e)
  BY DueLaterSame, SameSock DEF SockOK

(* What the invariant says of the numbers.                                 *)
LEMMA Numbers ==
  ASSUME StreamInv
  PROVE  /\ Len(got) \in Nat /\ Len(peer.in) \in Nat /\ Len(peer.in) <= wrote /\ wrote \in Nat
         /\ peer.sent \in Nat /\ peer.edge \in Nat /\ peer.una \in Nat /\ peer.out \in Nat
         /\ peer.edge <= Len(got) + (RxSlots - 1) /\ peer.sent <= Len(got) + RxSlots
  BY DEF StreamInv, PeerOK, PeerType, Counted

(* A step that leaves the peer and what comes from it alone.               *)
LEMMA OurStep ==
  ASSUME StreamInv, UNCHANGED <<wrote, got, peer, load>>, toUs' \subseteq toUs,
         SockOK(tcb', wrote, Len(peer.in), Len(got), peer.sent), AllOut(toPeer', wrote, Len(got))
  PROVE  StreamInv'
  BY DEF StreamInv, AllIn

-----------------------------------------------------------------------------
(* Each operation keeps the invariant.                                     *)

LEMMA CountedMore ==
  ASSUME NEW x, Counted(x), NEW y \in Seq(Nat), \A i \in 1 .. Len(y) : y[i] = Len(x) + i
  PROVE  Counted(x \o y) /\ Len(x \o y) = Len(x) + Len(y)
  <1>1. x \in Seq(Nat) /\ \A i \in 1 .. Len(x) : x[i] = i
    BY DEF Counted
  <1>2. PICK g \in Nat, k \in Nat : g = Len(x) /\ k = Len(y)
    BY <1>1
  <1>3. x \o y \in Seq(Nat) /\ Len(x \o y) = g + k
    BY <1>1, <1>2
  <1>4. ASSUME NEW i \in 1 .. g + k PROVE (x \o y)[i] = i
    <2>1. CASE i <= g
      <3>1. i \in 1 .. g /\ i \in 1 .. Len(x) + Len(y) /\ i <= Len(x)
        BY <1>2, <2>1
      <3>2. (x \o y)[i] = x[i]
        BY <1>1, <3>1, ConcatProperties
      <3> QED
        BY <1>1, <1>2, <3>1, <3>2
    <2>2. CASE ~(i <= g)
      <3>1. PICK j \in 1 .. k : j = i - g /\ g + j = i
        BY <2>2
      <3>2. (x \o y)[i] = y[i - Len(x)]
        BY <1>1, <1>2, <2>2, ConcatProperties
      <3>3. y[j] = g + j
        BY <1>2
      <3>4. i - Len(x) = j /\ g + j = i
        BY <1>2, <3>1
      <3>5. (x \o y)[i] = y[j]
        BY <3>2, <3>4
      <3>6. g + j = i
        BY <3>1
      <3>7. y[j] = i
        BY <3>3, <3>6
      <3> QED
        BY <3>5, <3>7
    <2> QED
      BY <2>1, <2>2
  <1> QED
    BY <1>2, <1>3, <1>4 DEF Counted

LEMMA ArrayPutKeeps ==
  ASSUME StreamInv, NEW n \in 1 .. TxSlots - 1, NEW needSend \in BOOLEAN, ArrayPut(n, needSend)
  PROVE  StreamInv' /\ Written!Next
  <1>1. PICK a \in Nat, g \in Nat, e \in Nat, w \in Nat, k \in Nat :
            a = Len(peer.in) /\ g = Len(got) /\ e = peer.sent /\ w = wrote /\ k = n
    BY Numbers, Sizes, SMTT(30)
  <1>2. PICK v \in Nat : v = wrote + n /\ w <= v
    BY <1>1
  <1>3. SockOK(tcb, w, a, g, e) /\ AllOut(toPeer, w, g) /\ n <= TxFree(tcb) /\ a <= w
    BY <1>1, Numbers DEF StreamInv, ArrayPut
  <1>4. PICK b \in Nat, u \in Nat, h \in Nat : TxHolds(tcb, b, u, h) /\ w = b + h /\ b <= a
    BY <1>3 DEF SockOK, TxOK
  <1>5. tcb \in Tcb /\ wrote = b + h /\ k <= TxFree(tcb)
    BY <1>1, <1>3, <1>4 DEF SockOK
  <1>6. Put(tcb, k) \in Tcb /\ TxHolds(Put(tcb, k), b, u, h + k)
    BY <1>4, <1>5, PutHolds
  <1>7. TxOK(Put(tcb, n), v, a)
    <2>1. h + k \in Nat /\ v = b + (h + k)
      BY <1>1, <1>2, <1>5
    <2> QED
      BY <1>1, <1>4, <1>6, <2>1 DEF TxOK
  <1>8. RxSame(tcb, Put(tcb, n))
    BY <1>5 DEF Put, Tcb, RxSame
  <1>9. SockOK(Put(tcb, n), v, a, g, e)
    BY <1>1, <1>3, <1>6, <1>7, <1>8, RxSameOK DEF SockOK
  <1>10. AllOut(toPeer, v, g)
    BY <1>2, <1>3, OutMore
  <1>11. SockOK(tcb', v, a, g, e) /\ AllOut(toPeer', v, g)
    <2>1. CASE Quiet(DueLater(Put(tcb, n)))
      BY <1>9, <1>10, <2>1, DueLaterSock, QuietOK
    <2>2. CASE Sends(Put(tcb, n), TRUE)
      BY <1>9, <1>10, <2>2, SendsOK
    <2>3. CASE Quiet(Put(tcb, n))
      BY <1>9, <1>10, <2>3, QuietOK
    <2> QED
      BY <2>1, <2>2, <2>3 DEF ArrayPut
  <1>12. wrote' = v /\ UNCHANGED <<got, peer, toUs, load>>
    BY <1>2 DEF ArrayPut
  <1>13. StreamInv'
    <2>1. PeerOK(peer, v, g)
      <3>1. a <= v
        BY <1>2, <1>3
      <3> QED
        BY <1>1, <3>1 DEF StreamInv, PeerOK
    <2> QED
      BY <1>1, <1>11, <1>12, <2>1 DEF StreamInv
  <1>14. Written!Next
    <2>1. v - a <= TxSlots - 1
      <3>1. TxFree(tcb) = TxSlots - 1 - h
        BY <1>4, <1>5, TxCounts
      <3>2. k <= TxSlots - 1 - h /\ v = b + h + k
        BY <1>1, <1>2, <1>5, <3>1
      <3>3. b <= a
        BY <1>4
      <3> QED
        BY <3>2, <3>3, Sizes
    <2>2. wrote' = wrote + n /\ wrote' - Len(peer.in) <= TxSlots - 1 /\ UNCHANGED peer.in
      BY <1>1, <1>2, <1>12, <2>1
    <2> QED
      BY <2>2 DEF Written!Next, Written!Write
  <1> QED
    BY <1>13, <1>14

LEMMA ArrayGetKeeps ==
  ASSUME StreamInv, NEW n \in 1 .. RxSlots - 1, ArrayGet(n)
  PROVE  StreamInv' /\ Received!Next
  <1>1. PICK a \in Nat, g \in Nat, e \in Nat, w \in Nat, k \in Nat :
            a = Len(peer.in) /\ g = Len(got) /\ e = peer.sent /\ w = wrote /\ k = n
    BY Numbers, Sizes
  <1>2. PICK h \in Nat : h = g + k /\ g <= h
    OBVIOUS
  <1>3. SockOK(tcb, w, a, g, e) /\ AllOut(toPeer, w, g) /\ k <= Ready(tcb) /\ tcb \in Tcb
    BY <1>1 DEF StreamInv, ArrayGet, SockOK
  <1> DEFINE taken == Slots(tcb.rx, tcb.rxTail, n, RxSlots)
             s == Taken(tcb, n)
  <1>4. /\ s \in Tcb /\ TxSame(tcb, s) /\ RxOK(s, h, e)
        /\ DOMAIN taken = 1 .. n /\ \A i \in 1 .. n : taken[i] = g + i
    <2>1. RxOK(tcb, g, e)
      BY <1>3 DEF SockOK
    <2>2. /\ Taken(tcb, k) \in Tcb /\ TxSame(tcb, Taken(tcb, k)) /\ RxOK(Taken(tcb, k), g + k, e)
          /\ DOMAIN Slots(tcb.rx, tcb.rxTail, k, RxSlots) = 1 .. k
          /\ \A i \in 1 .. k : Slots(tcb.rx, tcb.rxTail, k, RxSlots)[i] = g + i
      BY <1>3, <2>1, TakenOK
    <2> QED
      BY <1>1, <1>2, <2>2
  <1>5. SockOK(s, w, a, h, e)
    BY <1>3, <1>4, TxSameOK DEF SockOK
  <1>6. AllOut(toPeer, w, h)
    BY <1>2, <1>3, OutMore
  <1>7. /\ got' = got \o taken
        /\ \/ Sends(s, TRUE) \/ Quiet([s EXCEPT !.asap = TRUE]) \/ Quiet(DueLater(s))
        /\ UNCHANGED <<wrote, peer, toUs, load>>
    BY DEF ArrayGet, Taken
  <1>8. taken = [i \in 1 .. n |-> g + i]
    BY <1>4 DEF Slots
  <1> HIDE DEF taken, s
  <1>9. SockOK(tcb', w, a, h, e) /\ AllOut(toPeer', w, h)
    <2>1. CASE Sends(s, TRUE)
      BY <1>5, <1>6, <2>1, SendsOK
    <2>2. CASE Quiet([s EXCEPT !.asap = TRUE])
      <3> DEFINE t == [s EXCEPT !.asap = TRUE]
      <3>1. t \in Tcb /\ TxSame(s, t) /\ RxSame(s, t)
        BY <1>4 DEF Tcb, TxSame, RxSame
      <3> HIDE DEF t
      <3>2. SockOK(t, w, a, h, e)
        BY <1>5, <3>1, SameSock
      <3>3. Quiet(t)
        BY <2>2 DEF t
      <3> QED
        BY <1>6, <3>2, <3>3, QuietOK
    <2>3. CASE Quiet(DueLater(s))
      BY <1>5, <1>6, <2>3, DueLaterSock, QuietOK
    <2> QED
      BY <1>7, <2>1, <2>2, <2>3
  <1>10. Counted(got') /\ Len(got') = h /\ got' = got \o [i \in 1 .. k |-> Len(got) + i]
    <2>1. PICK y \in Seq(Nat) : /\ y = [i \in 1 .. k |-> g + i] /\ Len(y) = k
                                /\ \A i \in 1 .. k : y[i] = g + i
      <3>1. [i \in 1 .. k |-> g + i] \in Seq(Nat) /\ Len([i \in 1 .. k |-> g + i]) = k
        OBVIOUS
      <3> QED
        BY <3>1
    <2>2. \A i \in 1 .. Len(y) : y[i] = Len(got) + i
      BY <1>1, <2>1
    <2>3. Counted(got)
      BY DEF StreamInv
    <2>4. Counted(got \o y) /\ Len(got \o y) = Len(got) + Len(y)
      BY <2>2, <2>3, CountedMore
    <2> QED
      BY <1>1, <1>2, <1>7, <1>8, <2>1, <2>4
  <1>11. StreamInv'
    <2>1. PeerOK(peer, w, h)
      <3>1. PICK x \in Nat : x = peer.edge
        BY Numbers
      <3>2. x <= h + (RxSlots - 1) /\ e <= h + RxSlots
        <4>1. x <= g + (RxSlots - 1) /\ e <= g + RxSlots
          BY <1>1, <3>1, Numbers
        <4> QED
          BY <1>2, <4>1, RxSize
      <3> QED
        BY <1>1, <3>1, <3>2 DEF StreamInv, PeerOK
    <2> QED
      BY <1>1, <1>7, <1>9, <1>10, <2>1 DEF StreamInv
  <1>12. Received!Next
    <2>1. h <= e
      <3>1. PICK r \in Nat : RxHolds(s, h, r, e)
        BY <1>4 DEF RxOK
      <3>2. h + r <= e
        BY <3>1 DEF RxHolds
      <3> QED
        BY <3>2
    <2>2. k \in 1 .. RxSlots /\ Len(got') <= peer.sent /\ UNCHANGED peer.sent
      BY <1>1, <1>7, <1>10, <2>1, RxSize
    <2> QED
      BY <1>10, <2>2 DEF Received!Next, Received!Read
  <1> QED
    BY <1>11, <1>12

LEMMA FlushKeeps ==
  ASSUME StreamInv, Flush \/ TickSends
  PROVE  StreamInv'
  <1>1. SockOK(tcb, wrote, Len(peer.in), Len(got), peer.sent) /\ AllOut(toPeer, wrote, Len(got))
    BY DEF StreamInv
  <1>2. \E reset \in BOOLEAN : Sends(tcb, reset)
    BY DEF Flush, TickSends
  <1>3. SockOK(tcb', wrote, Len(peer.in), Len(got), peer.sent) /\ AllOut(toPeer', wrote, Len(got))
    BY <1>1, <1>2, Numbers, SendsOK
  <1>4. UNCHANGED <<wrote, got, peer, load>> /\ toUs' \subseteq toUs
    BY DEF Flush, TickSends
  <1> QED
    BY <1>3, <1>4, OurStep

LEMMA TickRetransmitsKeeps ==
  ASSUME StreamInv, TickRetransmits
  PROVE  StreamInv'
  <1> DEFINE s == [tcb EXCEPT !.retryCount = @ + 1]
  <1>1. /\ tcb \in Tcb /\ SockOK(tcb, wrote, Len(peer.in), Len(got), peer.sent)
        /\ AllOut(toPeer, wrote, Len(got))
    BY DEF StreamInv, SockOK
  <1>2. s \in Tcb /\ TxSame(tcb, s) /\ RxSame(tcb, s)
    <2>1. tcb.retryCount \in 0 .. MaxRetries /\ tcb.retryCount < MaxRetries
      BY <1>1 DEF Tcb, TickRetransmits
    <2>2. tcb.retryCount + 1 \in 0 .. MaxRetries
      BY <2>1, Sizes
    <2> QED
      BY <1>1, <2>2 DEF Tcb, TxSame, RxSame
  <1>3. Sends(RolledBack(s), FALSE) /\ UNCHANGED <<wrote, got, peer, load>> /\ toUs' \subseteq toUs
    BY DEF TickRetransmits
  <1> HIDE DEF s
  <1>4. SockOK(s, wrote, Len(peer.in), Len(got), peer.sent)
    BY <1>1, <1>2, SameSock
  <1>5. SockOK(RolledBack(s), wrote, Len(peer.in), Len(got), peer.sent)
    BY <1>4, RolledBackOK, RxSameOK DEF SockOK
  <1>6. SockOK(tcb', wrote, Len(peer.in), Len(got), peer.sent) /\ AllOut(toPeer', wrote, Len(got))
    BY <1>1, <1>3, <1>5, Numbers, SendsOK
  <1> QED
    BY <1>3, <1>6, OurStep

LEMMA HandleSegKeeps ==
  ASSUME StreamInv, NEW m \in toUs, NEW late \in BOOLEAN, HandleSeg(m, late), toUs' \subseteq toUs
  PROVE  StreamInv'
  <1>1. PICK a \in Nat, g \in Nat, e \in Nat, w \in Nat :
            a = Len(peer.in) /\ g = Len(got) /\ e = peer.sent /\ w = wrote /\ a <= w
    BY Numbers
  <1>2. tcb \in Tcb /\ SockOK(tcb, w, a, g, e) /\ AllOut(toPeer, w, g)
    BY <1>1 DEF StreamInv, SockOK
  <1>3. m \in Segment /\ Carries(m, e) /\ m.ack <= a
    BY <1>1 DEF StreamInv, AllIn, InOK
  <1> DEFINE s == Acknowledged(tcb, m, late)
  <1>4. s \in Tcb /\ RxSame(tcb, s) /\ TxOK(s, w, a)
    <2>1. TxOK(tcb, w, a) /\ a <= w
      BY <1>1, <1>2 DEF SockOK
    <2> QED
      BY <1>2, <1>3, <2>1, AcknowledgedOK
  <1> HIDE DEF s
  <1>5. RxOK(s, g, e)
    BY <1>2, <1>4, RxSameOK DEF SockOK
  <1>6. SockOK(s, w, a, g, e)
    BY <1>4, <1>5 DEF SockOK
  <1>7. ASSUME m.bytes # <<>>, Acceptable(tcb, m)
        PROVE  Text(s, m) \in Tcb /\ SockOK(Text(s, m), w, a, g, e)
    <2>1. Acceptable(s, m)
      BY <1>4, <1>7 DEF Acceptable, Missing, RxFree, Ready, RxSame
    <2>2. Text(s, m) \in Tcb /\ TxSame(s, Text(s, m)) /\ RxOK(Text(s, m), g, e)
      BY <1>3, <1>4, <1>5, <1>7, <2>1, TextOK
    <2> QED
      BY <1>4, <2>2, TxSameOK DEF SockOK
  <1>8. SockOK(tcb', w, a, g, e) /\ AllOut(toPeer', w, g)
    <2>1. CASE Sends(tcb, TRUE) \/ Sends(tcb, FALSE)
      BY <1>2, <2>1, SendsOK
    <2>2. CASE Quiet(s)
      BY <1>2, <1>6, <2>2, QuietOK
    <2>3. CASE m.bytes # <<>> /\ Acceptable(tcb, m) /\ Sends(Text(s, m), TRUE)
      BY <1>2, <1>7, <2>3, SendsOK
    <2>4. CASE /\ m.bytes # <<>> /\ Acceptable(tcb, m)
               /\ Quiet(DueLater([Text(s, m) EXCEPT !.oneSegment = TRUE]))
      <3> DEFINE x == Text(s, m)
                 t == [x EXCEPT !.oneSegment = TRUE]
      <3>1. x \in Tcb /\ SockOK(x, w, a, g, e)
        BY <1>7, <2>4
      <3>2. Quiet(DueLater(t))
        BY <2>4
      <3> HIDE DEF x
      <3>3. t \in Tcb /\ TxSame(x, t) /\ RxSame(x, t)
        BY <3>1 DEF Tcb, TxSame, RxSame
      <3> HIDE DEF t
      <3>4. SockOK(t, w, a, g, e)
        BY <3>1, <3>3, SameSock
      <3> QED
        BY <1>2, <3>2, <3>4, DueLaterSock, QuietOK
    <2> QED
      BY <2>1, <2>2, <2>3, <2>4 DEF HandleSeg, s
  <1>9. UNCHANGED <<wrote, got, peer, load>>
    BY DEF HandleSeg
  <1> QED
    BY <1>1, <1>8, <1>9, OurStep

(* The peer sends and acknowledges.                                        *)
LEMMA PeerSegmentOK ==
  ASSUME StreamInv, NEW seq \in Nat, NEW n \in Nat, NEW e \in Nat, seq + n <= e
  PROVE  InOK(PeerSegment(seq, n), e, Len(peer.in))
  <1>1. Len(peer.in) \in Nat /\ PeerWindow \in Int
    BY Numbers, Sizes DEF PeerWindow
  <1>2. PICK bytes \in Seq(Nat) : /\ bytes = [i \in 1 .. n |-> seq + i] /\ Len(bytes) = n
                                 /\ \A i \in 1 .. n : bytes[i] = seq + i
    <2>1. [i \in 1 .. n |-> seq + i] \in Seq(Nat) /\ Len([i \in 1 .. n |-> seq + i]) = n
      OBVIOUS
    <2> QED
      BY <2>1
  <1>3. PeerSegment(seq, n) = [seq |-> seq, ack |-> Len(peer.in), win |-> PeerWindow, bytes |-> bytes]
    BY <1>2 DEF PeerSegment
  <1>4. PeerSegment(seq, n) \in Segment
    BY <1>1, <1>2, <1>3 DEF Segment
  <1> QED
    BY <1>1, <1>2, <1>3, <1>4 DEF InOK, Carries

LEMMA PeerSendsKeeps ==
  ASSUME StreamInv, NEW seq \in Nat, NEW n \in 1 .. MaxPayload, PeerSends(seq, n)
  PROVE  StreamInv' /\ (Received!Next \/ UNCHANGED <<peer.sent, got>>)
  <1>1. PICK a \in Nat, g \in Nat, e \in Nat, w \in Nat, k \in Nat, edge \in Nat :
            /\ a = Len(peer.in) /\ g = Len(got) /\ e = peer.sent /\ w = wrote /\ k = n
            /\ edge = peer.edge
    <2>1. n \in Nat
      BY Sizes
    <2> QED
      BY <2>1, Numbers
  <1>2. edge <= g + (RxSlots - 1) /\ e <= g + RxSlots /\ k > 0
    BY <1>1, Numbers, Sizes
  <1>3. seq + k <= edge \/ (seq = edge /\ k = 1)
    BY <1>1 DEF PeerSends, PeerMaySend
  <1>4. PICK f \in Nat : f = Most(e, seq + k) /\ f >= e /\ seq + k <= f /\ (f = e \/ f = seq + k)
    BY DEF Most
  <1>5. f >= e /\ seq + k <= f /\ (f = e \/ f = seq + k)
    BY <1>4
  <1>6. f <= g + RxSlots
    BY <1>2, <1>3, <1>5, RxSize
  <1>7. peer' = [peer EXCEPT !.sent = f]
    BY <1>1, <1>4 DEF PeerSends
  <1>8. peer \in PeerType
    BY DEF StreamInv, PeerOK
  <1>9. /\ peer' \in PeerType /\ peer'.in = peer.in /\ peer'.edge = peer.edge /\ peer'.sent = f
    BY <1>7, <1>8 DEF PeerType
  <1>10. UNCHANGED <<tcb, wrote, got, toPeer, load>> /\ toUs' = toUs \cup {PeerSegment(seq, n)}
    BY DEF PeerSends
  <1>11. AllIn(toUs', f, a)
    <2>1. AllIn(toUs, f, a)
      BY <1>1, <1>5, InMore DEF StreamInv
    <2>2. InOK(PeerSegment(seq, k), f, a)
      BY <1>1, <1>5, PeerSegmentOK
    <2> QED
      BY <1>1, <1>10, <2>1, <2>2 DEF AllIn
  <1>12. SockOK(tcb, w, a, g, f)
    <2>1. SockOK(tcb, w, a, g, e) /\ a <= a /\ e <= f
      BY <1>1, <1>5 DEF StreamInv
    <2> QED
      BY <2>1, SockMore
  <1>13. PeerOK(peer', wrote, g)
    BY <1>1, <1>6, <1>9 DEF StreamInv, PeerOK
  <1>14. StreamInv'
    BY <1>1, <1>9, <1>10, <1>11, <1>12, <1>13 DEF StreamInv
  <1>15. Received!Next \/ UNCHANGED <<peer.sent, got>>
    <2>1. CASE f = e
      BY <1>1, <1>9, <1>10, <2>1
    <2>2. CASE f # e
      <3>1. g <= e
        <4>1. PICK r \in Nat : RxHolds(tcb, g, r, e)
          BY <1>1 DEF StreamInv, SockOK, RxOK
        <4>2. g + r <= e
          BY <4>1 DEF RxHolds
        <4> QED
          BY <4>2
      <3>2. PICK i \in 1 .. RxSlots : f = e + i
        BY <1>5, <1>6, <2>2, <3>1, RxSize
      <3>3. f - g <= RxSlots
        BY <1>6, RxSize
      <3>4. peer'.sent = peer.sent + i /\ peer'.sent - Len(got) <= RxSlots /\ got' = got
        BY <1>1, <1>9, <1>10, <3>2, <3>3
      <3> QED
        BY <3>4 DEF Received!Next, Received!Write
    <2> QED
      BY <2>1, <2>2
  <1> QED
    BY <1>14, <1>15

LEMMA PeerAcksKeeps ==
  ASSUME StreamInv, PeerAcks
  PROVE  StreamInv'
  <1>1. InOK(PeerSegment(peer.sent, 0), peer.sent, Len(peer.in))
    <2>1. PICK e \in Nat : e = peer.sent
      BY Numbers
    <2>2. e + 0 <= e
      OBVIOUS
    <2>3. InOK(PeerSegment(e, 0), e, Len(peer.in))
      BY <2>2, PeerSegmentOK
    <2> QED
      BY <2>1, <2>3
  <1> QED
    BY <1>1 DEF StreamInv, PeerAcks, AllIn

LEMMA PeerReadsKeeps ==
  ASSUME StreamInv, PeerReads
  PROVE  StreamInv'
  <1>1. peer \in PeerType /\ peer' = [peer EXCEPT !.out = @ + 1]
    BY DEF StreamInv, PeerOK, PeerReads
  <1>4. peer.out + 1 \in Nat
    BY Numbers
  <1>2. /\ peer' \in PeerType /\ peer'.in = peer.in /\ peer'.sent = peer.sent
        /\ peer'.edge = peer.edge
    BY <1>1, <1>4 DEF PeerType
  <1>3. UNCHANGED <<tcb, wrote, got, toPeer, toUs, load>>
    BY DEF PeerReads
  <1> QED
    BY <1>2, <1>3 DEF StreamInv, PeerOK

LEMMA LosesKeeps ==
  ASSUME StreamInv, Loses
  PROVE  StreamInv'
  BY DEF StreamInv, Loses, AllIn, AllOut

(* The peer takes what comes next, and no more than it has room for.       *)
LEMMA PeerReceivesKeeps ==
  ASSUME StreamInv, NEW m \in toPeer, PeerReceives(m), toPeer' \subseteq toPeer, UNCHANGED toUs
  PROVE  StreamInv' /\ (Written!Next \/ UNCHANGED <<wrote, peer.in>>) /\ UNCHANGED peer.sent
  <1>1. PICK a \in Nat, g \in Nat, e \in Nat, w \in Nat :
            a = Len(peer.in) /\ g = Len(got) /\ e = peer.sent /\ w = wrote /\ a <= w
    BY Numbers
  <1>2. m \in Segment /\ Carries(m, w) /\ Len(m.bytes) <= TxSlots - 1
        /\ m.ack + m.win <= g + (RxSlots - 1)
    BY <1>1 DEF StreamInv, AllOut, OutOK
  <1>3. PICK c \in Nat, z \in Nat, y \in Seq(Nat) :
            /\ c = m.seq /\ z = Len(m.bytes) /\ y = m.bytes /\ z = Len(y)
            /\ c + z <= w /\ z <= TxSlots - 1 /\ \A i \in 1 .. z : y[i] = c + i
    <2>1. m.bytes \in Seq(Nat) /\ m.seq \in Nat
      BY <1>2 DEF Segment
    <2>2. Len(m.bytes) \in Nat
      BY <2>1
    <2>3. /\ m.seq + Len(m.bytes) <= w /\ Len(m.bytes) <= TxSlots - 1
          /\ \A i \in 1 .. Len(m.bytes) : m.bytes[i] = m.seq + i
      BY <1>2 DEF Carries
    <2> QED
      BY <2>1, <2>2, <2>3
  <1>4. peer \in PeerType /\ Counted(peer.in)
    BY DEF StreamInv, PeerOK
  <1>5. PeerWindow \in Int
    BY Numbers, Sizes DEF PeerWindow
  <1> DEFINE old == Len(peer.in) - m.seq
             n == Least(Len(m.bytes) - old, PeerWindow)
             in == IF old >= 0 /\ n > 0 THEN peer.in \o SubSeq(m.bytes, old + 1, old + n) ELSE peer.in
  <1>6. peer' = [peer EXCEPT !.una = Most(@, m.ack), !.edge = Most(@, m.ack + m.win), !.in = in]
    BY DEF PeerReceives, PeerTakes
  <1>7. \/ in = peer.in
        \/ \E k \in 1 .. TxSlots - 1 :
              /\ Counted(in) /\ Len(in) = a + k /\ a + k <= w
              /\ in = peer.in \o [i \in 1 .. k |-> Len(peer.in) + i]
    <2>1. CASE ~(old >= 0 /\ n > 0)
      BY <2>1
    <2>2. CASE old >= 0 /\ n > 0
      <3>1. PICK d \in Nat : d = old /\ c + d = a
        BY <1>1, <1>3, <2>2
      <3>2. PICK x \in Int, v \in Int : x = z - d /\ v = PeerWindow
        BY <1>5
      <3>3. n = Least(x, v)
        BY <1>3, <3>1, <3>2
      <3>4. PICK k \in Nat : k = n /\ k > 0 /\ k <= x
        BY <2>2, <3>3 DEF Least
      <3>5. k > 0 /\ d + k <= z /\ c + d = a
        BY <3>1, <3>2, <3>4
      <3>6. k \in 1 .. TxSlots - 1 /\ a + k <= w
        <4>1. z <= TxSlots - 1 /\ c + z <= w
          BY <1>3
        <4> QED
          BY <3>5, <4>1, Sizes
      <3>7. PICK u \in Seq(Nat) : /\ u = SubSeq(y, d + 1, d + k) /\ Len(u) = k /\ DOMAIN u = 1 .. k
                                 /\ \A i \in 1 .. k : u[i] = y[d + i]
        <4>1. d + k <= Len(y)
          BY <1>3, <3>5
        <4>2. /\ SubSeq(y, d + 1, d + k) \in Seq(Nat)
              /\ DOMAIN SubSeq(y, d + 1, d + k) = 1 .. k
              /\ \A i \in 1 .. k : SubSeq(y, d + 1, d + k)[i] = y[d + i]
          BY <4>1, SubSeqOf
        <4>3. Len(SubSeq(y, d + 1, d + k)) = k
          BY <4>2
        <4> QED
          BY <4>2, <4>3
      <3>8. ASSUME NEW i \in 1 .. k PROVE u[i] = a + i
        <4>1. PICK j \in 1 .. z : j = d + i
          BY <3>5
        <4>2. y[j] = c + j
          BY <1>3
        <4>3. c + j = a + i
          BY <3>5, <4>1
        <4> QED
          BY <3>7, <4>1, <4>2, <4>3
      <3>9. in = peer.in \o u
        BY <1>3, <2>2, <3>1, <3>4, <3>7
      <3>10. Counted(peer.in \o u) /\ Len(peer.in \o u) = Len(peer.in) + Len(u)
        <4>1. \A i \in 1 .. Len(u) : u[i] = Len(peer.in) + i
          BY <1>1, <3>7, <3>8
        <4> QED
          BY <1>4, <4>1, CountedMore
      <3>11. u = [i \in 1 .. k |-> Len(peer.in) + i]
        <4>3. u \in [1 .. k -> Nat]
          BY <3>7, LenProperties
        <4>1. u = [i \in 1 .. k |-> u[i]]
          BY <4>3
        <4>2. \A i \in 1 .. k : u[i] = Len(peer.in) + i
          BY <1>1, <3>8
        <4> QED
          BY <4>1, <4>2
      <3>12. Len(in) = a + k
        BY <1>1, <3>7, <3>9, <3>10
      <3> QED
        BY <3>6, <3>9, <3>10, <3>11, <3>12
    <2> QED
      BY <2>1, <2>2
  <1> HIDE DEF in
  <1>8. PICK b \in Nat : b = Len(in) /\ a <= b /\ b <= w /\ Counted(in)
    <2>1. CASE in = peer.in
      BY <1>1, <1>4, <2>1
    <2>2. CASE in # peer.in
      <3>1. PICK k \in 1 .. TxSlots - 1 : Counted(in) /\ Len(in) = a + k /\ a + k <= w
        BY <1>7, <2>2
      <3>2. a + k \in Nat /\ a <= a + k
        BY Sizes
      <3> QED
        BY <3>1, <3>2
    <2> QED
      BY <2>1, <2>2
  <1>9. /\ peer' \in PeerType /\ peer'.in = in /\ peer'.sent = peer.sent
        /\ peer'.edge = Most(peer.edge, m.ack + m.win)
    <2>1. Most(peer.una, m.ack) \in Nat /\ Most(peer.edge, m.ack + m.win) \in Nat
      <3>1. PICK i \in Nat, j \in Int, x \in Nat, v \in Nat :
                i = m.ack /\ j = m.win /\ x = peer.una /\ v = peer.edge
        BY <1>2, Numbers DEF Segment
      <3>2. Most(x, i) \in Nat /\ Most(v, i + j) \in Nat
        BY DEF Most
      <3> QED
        BY <3>1, <3>2
    <2>2. in \in Seq(Nat)
      BY <1>8 DEF Counted
    <2> QED
      BY <1>4, <1>6, <2>1, <2>2 DEF PeerType
  <1>10. peer'.edge <= g + (RxSlots - 1)
    <2>1. peer.edge <= g + (RxSlots - 1)
      BY <1>1, Numbers
    <2> QED
      BY <1>2, <1>9, <2>1 DEF Most
  <1>11. PeerOK(peer', wrote, Len(got))
    BY <1>1, <1>8, <1>9, <1>10, Numbers DEF PeerOK
  <1>12. UNCHANGED <<tcb, wrote, got, load>>
    BY DEF PeerReceives
  <1>13. StreamInv'
    <2>1. SockOK(tcb, w, b, g, e)
      <3>1. SockOK(tcb, w, a, g, e) /\ a <= b /\ e <= e
        BY <1>1, <1>8 DEF StreamInv
      <3> QED
        BY <3>1, SockMore
    <2>2. AllIn(toUs, e, b)
      <3>1. AllIn(toUs, e, a) /\ a <= b /\ e <= e
        BY <1>1, <1>8 DEF StreamInv
      <3> QED
        BY <3>1, InMore
    <2>3. AllOut(toPeer', w, g)
      BY <1>1 DEF StreamInv, AllOut
    <2> QED
      BY <1>1, <1>8, <1>9, <1>11, <1>12, <2>1, <2>2, <2>3 DEF StreamInv
  <1>14. Written!Next \/ UNCHANGED <<wrote, peer.in>>
    <2>1. CASE in = peer.in
      BY <1>9, <1>12, <2>1
    <2>2. CASE in # peer.in
      <3>1. PICK k \in 1 .. TxSlots - 1 :
                Len(in) = a + k /\ a + k <= w /\ in = peer.in \o [i \in 1 .. k |-> Len(peer.in) + i]
        BY <1>7, <2>2
      <3>2. Len(peer'.in) <= wrote
        BY <1>1, <1>9, <3>1
      <3> QED
        BY <1>9, <1>12, <3>1, <3>2 DEF Written!Next, Written!Read
    <2> QED
      BY <2>1, <2>2
  <1> QED
    BY <1>9, <1>13, <1>14

-----------------------------------------------------------------------------
LEMMA InitKeeps ==
  ASSUME Init
  PROVE  StreamInv /\ Written!Init /\ Received!Init
  <1>1. load \in Loads /\ load.slot \in 0 .. RxSlots - 1
    BY StreamAssumption DEF Init
  <1>2. PICK t \in 0 .. RxSlots - 1 : t = load.slot
    BY <1>1
  <1>3. tcb \in Tcb
    <2>1. /\ 0 \in 0 .. TxSlots - 1 /\ PeerBuffer \in 0 .. WindowMod - 1 /\ None \in Int
          /\ 0 \in 0 .. MaxRetries /\ RxSlots - 1 \in Int
      BY Sizes DEF None
    <2> QED
      BY <1>1, <2>1 DEF Init, Tcb
  <1>4. /\ tcb.txHead = 0 /\ tcb.txTail = 0 /\ tcb.txUnackedTail = 0 /\ tcb.MySEQ = 0
        /\ tcb.rxHead = t /\ tcb.rxTail = t /\ tcb.RemoteSEQ = 0 /\ tcb.sHoleSize = None
        /\ wrote = 0 /\ got = <<>>
    BY <1>2 DEF Init
  <1>5. /\ peer \in PeerType /\ peer.in = <<>> /\ peer.sent = 0 /\ peer.edge = RxSlots - 1
    <2>1. RxSlots - 1 \in Nat
      BY RxSize
    <2> QED
      BY <2>1 DEF Init, PeerType
  <1>6. TxOK(tcb, 0, 0)
    <2>1. Place(0, 0, TxSlots) = 0
      <3>1. 0 \in 0 .. TxSlots - 1
        BY Sizes
      <3> QED
        BY <3>1, Sizes, PlaceNone
    <2>2. 0 <= TxSlots - 1
      BY Sizes
    <2>3. TxHolds(tcb, 0, 0, 0)
      BY <1>4, <2>1, <2>2 DEF TxHolds
    <2> QED
      BY <2>3 DEF TxOK
  <1>7. RxOK(tcb, 0, 0)
    <2>1. Place(t, 0, RxSlots) = t
      BY RxSize, PlaceNone
    <2>2. 0 <= RxSlots - 1
      BY RxSize
    <2>3. RxHolds(tcb, 0, 0, 0) /\ HoleHolds(tcb, 0, 0, 0)
      BY <1>4, <2>1, <2>2 DEF RxHolds, HoleHolds, Filled
    <2> QED
      BY <2>3 DEF RxOK
  <1>8. Len(got) = 0 /\ Len(peer.in) = 0 /\ Counted(got) /\ Counted(peer.in)
    BY <1>4, <1>5 DEF Counted
  <1>9. PeerOK(peer, 0, 0)
    <2>1. RxSlots - 1 <= 0 + (RxSlots - 1) /\ 0 <= 0 + RxSlots
      BY RxSize
    <2> QED
      BY <1>5, <1>8, <2>1 DEF PeerOK
  <1>10. toPeer = {} /\ toUs = {}
    BY DEF Init
  <1>11. StreamInv
    BY <1>1, <1>3, <1>4, <1>5, <1>6, <1>7, <1>8, <1>9, <1>10 DEF StreamInv, SockOK, AllOut, AllIn
  <1> QED
    BY <1>4, <1>5, <1>11 DEF Written!Init, Received!Init

(* One step: the invariant, and what it is of each direction's stream.     *)
LEMMA StepKeeps ==
  ASSUME StreamInv, [Next]_vars
  PROVE  /\ StreamInv'
         /\ [Written!Next]_<<wrote, peer.in>>
         /\ [Received!Next]_<<peer.sent, got>>
  <1>1. ASSUME NEW n \in 1 .. TxSlots - 1, NEW needSend \in BOOLEAN, ArrayPut(n, needSend)
        PROVE  StreamInv' /\ Written!Next /\ UNCHANGED <<peer.sent, got>>
    BY <1>1, ArrayPutKeeps DEF ArrayPut
  <1>2. CASE Flush \/ TickSends
    BY <1>2, FlushKeeps DEF Flush, TickSends
  <1>3. ASSUME NEW n \in 1 .. RxSlots - 1, ArrayGet(n)
        PROVE  StreamInv' /\ Received!Next /\ UNCHANGED <<wrote, peer.in>>
    BY <1>3, ArrayGetKeeps DEF ArrayGet
  <1>4. CASE TickRetransmits
    BY <1>4, TickRetransmitsKeeps DEF TickRetransmits
  <1>5. CASE TickGivesUp
    BY <1>5 DEF TickGivesUp, StreamInv
  <1>6. ASSUME NEW seq \in 0 .. load.peer, NEW n \in 1 .. MaxPayload, PeerSends(seq, n)
        PROVE  StreamInv' /\ (Received!Next \/ UNCHANGED <<peer.sent, got>>)
               /\ UNCHANGED <<wrote, peer.in>>
    <2>1. load.peer \in Nat
      BY StreamAssumption DEF StreamInv
    <2>2. seq \in Nat
      BY <2>1
    <2>3. UNCHANGED <<wrote, peer.in>>
      BY <1>6 DEF PeerSends, StreamInv, PeerOK, PeerType
    <2> QED
      BY <1>6, <2>2, <2>3, PeerSendsKeeps
  <1>7. CASE PeerAcks
    BY <1>7, PeerAcksKeeps DEF PeerAcks
  <1>8. CASE PeerReads
    <2>1. UNCHANGED <<wrote, peer.in, peer.sent, got>>
      BY <1>8 DEF PeerReads, StreamInv, PeerOK, PeerType
    <2> QED
      BY <1>8, <2>1, PeerReadsKeeps
  <1>9. ASSUME NEW m \in toUs, NEW late \in BOOLEAN, HandleSeg(m, late), toUs' \subseteq toUs
        PROVE  StreamInv' /\ UNCHANGED <<wrote, peer.in, peer.sent, got>>
    BY <1>9, HandleSegKeeps DEF HandleSeg
  <1>10. ASSUME NEW m \in toPeer, PeerReceives(m), toPeer' \subseteq toPeer, UNCHANGED toUs
         PROVE  StreamInv' /\ (Written!Next \/ UNCHANGED <<wrote, peer.in>>)
                /\ UNCHANGED <<peer.sent, got>>
    BY <1>10, PeerReceivesKeeps DEF PeerReceives
  <1>11. CASE Loses
    BY <1>11, LosesKeeps DEF Loses
  <1>12. CASE UNCHANGED vars
    BY <1>12 DEF vars, StreamInv
  <1>13. CASE Delivers
    <2>1. CASE \E m \in toUs : \E late, again \in BOOLEAN :
                  HandleSeg(m, late) /\ toUs' = IF again THEN toUs ELSE toUs \ {m}
      <3>1. PICK m \in toUs, late \in BOOLEAN : HandleSeg(m, late) /\ toUs' \subseteq toUs
        BY <2>1
      <3> QED
        BY <1>9, <3>1
    <2>2. CASE \E m \in toPeer : \E again \in BOOLEAN :
                  PeerReceives(m) /\ toPeer' = (IF again THEN toPeer ELSE toPeer \ {m})
                  /\ UNCHANGED toUs
      <3>1. PICK m \in toPeer : PeerReceives(m) /\ toPeer' \subseteq toPeer /\ UNCHANGED toUs
        BY <2>2
      <3> QED
        BY <1>10, <3>1
    <2> QED
      BY <1>13, <2>1, <2>2 DEF Delivers
  <1> QED
    BY <1>1, <1>2, <1>3, <1>4, <1>5, <1>6, <1>7, <1>8, <1>11, <1>12, <1>13
       DEF Next, Application, Tick, Peer

(* At every moment the rings hold what is under way: the bytes between the *)
(* pointers are those the sequence numbers speak of.                       *)
THEOREM StreamInvariant == Spec => []StreamInv
  <1> QED
    BY InitKeeps, StepKeeps, PTL DEF Spec

(* The peer receives what the application wrote, in order and once, for    *)
(* rings, payloads and windows of every size, over any network that loses, *)
(* repeats and reorders segments.                                          *)
THEOREM TxStreamHolds == Spec => TxIsStream
  <1>1. Init => Written!Init
    BY InitKeeps
  <1>2. StreamInv /\ [Next]_vars => [Written!Next]_<<wrote, peer.in>>
    BY StepKeeps
  <1> QED
    BY <1>1, <1>2, StreamInvariant, PTL DEF Spec, TxIsStream, Written!Spec

(* The application reads what the peer sent, in order and once, and the    *)
(* peer is never invited to send more than the receive ring can take.      *)
THEOREM RxStreamHolds == Spec => RxIsStream
  <1>1. Init => Received!Init
    BY InitKeeps
  <1>2. StreamInv /\ [Next]_vars => [Received!Next]_<<peer.sent, got>>
    BY StepKeeps
  <1> QED
    BY <1>1, <1>2, StreamInvariant, PTL DEF Spec, RxIsStream, Received!Spec

-----------------------------------------------------------------------------
(* The application does not write more than it has.                        *)
LoadInv == open \in BOOLEAN /\ wrote <= load.app

LEMMA LoadKeeps ==
  ASSUME LoadInv, [Next]_vars
  PROVE  LoadInv'
  <1>1. CASE Application
    BY <1>1 DEF LoadInv, Application, ArrayPut, Flush, ArrayGet
  <1>2. CASE Tick
    BY <1>2 DEF LoadInv, Tick, TickSends, TickRetransmits, TickGivesUp
  <1>3. CASE Peer
    BY <1>3 DEF LoadInv, Peer, PeerSends, PeerAcks, PeerReads
  <1>4. CASE Delivers
    BY <1>4 DEF LoadInv, Delivers, HandleSeg, PeerReceives
  <1>5. CASE Loses
    BY <1>5 DEF LoadInv, Loses
  <1>6. CASE UNCHANGED vars
    BY <1>6 DEF LoadInv, vars
  <1> QED
    BY <1>1, <1>2, <1>3, <1>4, <1>5, <1>6 DEF Next

LEMMA InvIsType ==
  ASSUME StreamInv, LoadInv
  PROVE  TypeOK
  <1>1. tcb \in Tcb /\ wrote \in Nat /\ load \in Loads
    BY DEF StreamInv, SockOK
  <1>2. PICK b \in Nat, u \in Nat, h \in Nat : TxHolds(tcb, b, u, h)
    BY DEF StreamInv, SockOK, TxOK
  <1>3. Unacked(tcb) + Unsent(tcb) = Held(tcb)
    <2>1. Unacked(tcb) = u /\ Held(tcb) = h /\ Unsent(tcb) = h - u
      BY <1>1, <1>2, TxCounts
    <2>2. u + (h - u) = h
      OBVIOUS
    <2> QED
      BY <2>1, <2>2
  <1>4. PICK r \in Nat : /\ RxHolds(tcb, Len(got), r, peer.sent)
                         /\ HoleHolds(tcb, Len(got), r, peer.sent)
    BY DEF StreamInv, SockOK, RxOK
  <1>5. RxFree(tcb) = RxSlots - 1 - r
    BY <1>1, <1>4, RxReady
  <1>6. tcb.sHoleSize = None
        \/ (tcb.sHoleSize > 0 /\ tcb.sHoleSize + tcb.wFutureDataSize <= RxFree(tcb))
    <2>1. CASE tcb.sHoleSize # None
      <3>1. PICK k \in Nat, f \in Nat : k = tcb.sHoleSize /\ f = tcb.wFutureDataSize
        BY <1>4, <2>1 DEF HoleHolds
      <3>2. k > 0 /\ r + k + f <= RxSlots - 1
        BY <1>4, <2>1, <3>1 DEF HoleHolds
      <3>3. k + f <= RxSlots - 1 - r
        BY <3>2, RxSize
      <3> QED
        BY <1>5, <3>1, <3>2, <3>3
    <2> QED
      BY <2>1
  <1>7. wrote \in 0 .. load.app
    <2>1. load.app \in Nat
      BY <1>1, StreamAssumption
    <2> QED
      BY <1>1, <2>1 DEF LoadInv
  <1> QED
    BY <1>1, <1>3, <1>6, <1>7 DEF TypeOK, Tcb, LoadInv

(* The pointers stay in their rings in the order tail, unacknowledged      *)
(* tail, head, and what is recorded behind the hole fits the receive ring. *)
THEOREM StreamTypeCorrect == Spec => []TypeOK
  <1>1. Init => LoadInv
    BY StreamAssumption DEF Init, LoadInv
  <1> QED
    BY <1>1, LoadKeeps, InvIsType, StreamInvariant, PTL DEF Spec
-----------------------------------------------------------------------------
(* The right edge of the window that the peer is shown.                    *)
WindowEdge == tcb.RemoteSEQ + RxFree(tcb)
EdgeInv == WindowEdge = Len(got) + (RxSlots - 1) /\ Len(got) \in Nat

LEMMA EdgeIs == StreamInv => EdgeInv
  <1> SUFFICES ASSUME StreamInv PROVE EdgeInv
    OBVIOUS
  <1>1. tcb \in Tcb
    BY DEF StreamInv, SockOK
  <1>2. PICK r \in Nat : RxHolds(tcb, Len(got), r, peer.sent)
    BY DEF StreamInv, SockOK, RxOK
  <1>3. RxFree(tcb) = RxSlots - 1 - r
    BY <1>1, <1>2, RxReady
  <1>4. tcb.RemoteSEQ = Len(got) + r
    BY <1>2 DEF RxHolds
  <1>5. Len(got) \in Nat
    BY DEF StreamInv, Counted
  <1> QED
    BY <1>3, <1>4, <1>5, RxSize DEF WindowEdge, EdgeInv

LEMMA ReadingGrows ==
  ASSUME StreamInv, StreamInv', [Received!Next]_<<peer.sent, got>>
  PROVE  Len(got) <= Len(got')
  <1>1. Len(got) \in Nat /\ Len(got') \in Nat
    BY DEF StreamInv, Counted
  <1>2. CASE Received!Next
    BY <1>1, <1>2 DEF Received!Next, Received!Write, Received!Read
  <1>3. CASE UNCHANGED <<peer.sent, got>>
    BY <1>1, <1>3
  <1> QED
    BY <1>2, <1>3

(* The room that the peer has been shown is never taken back: what comes   *)
(* in shortens the window by as much as it moves it, holes open and close  *)
(* inside it, and only a read of the application moves its right edge      *)
(* (_TcpHandleSeg, TCPIP_TCP_ArrayGet, and _TcpSend, which announces it).  *)
THEOREM WindowIsNeverTakenBack == Spec => [][WindowEdge <= WindowEdge']_vars
  <1>1. StreamInv /\ StreamInv' /\ EdgeInv /\ EdgeInv' /\ [Next]_vars => [WindowEdge <= WindowEdge']_vars
    <2> SUFFICES ASSUME StreamInv, StreamInv', EdgeInv, EdgeInv', [Next]_vars
                 PROVE  WindowEdge <= WindowEdge'
      OBVIOUS
    <2>1. Len(got) <= Len(got')
      BY StepKeeps, ReadingGrows
    <2> QED
      BY <2>1, RxSize DEF EdgeInv
  <1> QED
    BY <1>1, EdgeIs, StreamInvariant, PTL DEF Spec
=============================================================================
