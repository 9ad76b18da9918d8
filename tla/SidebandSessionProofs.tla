------------------------ MODULE SidebandSessionProofs ------------------------
(***************************************************************************)
(* Proofs about SidebandSession: for every set of threads, every packet    *)
(* length, queue limit and kernel buffer.                                  *)
(***************************************************************************)
EXTENDS SidebandSession, SequenceTheorems, TLAPS

(* ------------------------- bytes and sequences ------------------------- *)

\* The bytes of a packet are a non-empty sequence of bytes, numbered from 1.
LEMMA BytesType ==
    ASSUME NEW p \in Packet
    PROVE  /\ Size(p) \in Nat \ {0}
           /\ Bytes(p) \in Seq(Byte)
           /\ Len(Bytes(p)) = Size(p)
           /\ \A i \in 1..Size(p) : Bytes(p)[i] = [pkt |-> p, at |-> i]
  <1>1. Size(p) \in Nat \ {0}
    BY SizesAssumption DEF Size, Packet
  <1>2. \A i \in 1..Size(p) : [pkt |-> p, at |-> i] \in Byte
    BY <1>1 DEF Byte
  <1>3. Bytes(p) \in [1..Size(p) -> Byte]
    BY <1>2 DEF Bytes
  <1>4. Bytes(p) \in Seq(Byte) /\ Len(Bytes(p)) = Size(p)
    BY <1>1, <1>3, SeqDef, LenProperties
  <1>5. QED
    BY <1>1, <1>4 DEF Bytes

\* A sequence of whole packets stays one when a whole packet is appended.
LEMMA FramedAppend ==
    ASSUME NEW s \in Seq(Byte), WellFramed(s), NEW p \in Packet
    PROVE  WellFramed(s \o Bytes(p))
  <1> DEFINE u == s \o Bytes(p)
             n == Len(s)
             m == Size(p)
  <1>1. /\ m \in Nat \ {0} /\ n \in Nat
        /\ Bytes(p) \in Seq(Byte) /\ Len(Bytes(p)) = m
        /\ \A i \in 1..m : Bytes(p)[i] = [pkt |-> p, at |-> i]
    BY BytesType, LenProperties
  <1> HIDE DEF n, m
  <1>2. /\ Len(u) = n + m
        /\ \A i \in 1..n : u[i] = s[i]
        /\ \A i \in n+1..n+m : u[i] = [pkt |-> p, at |-> i - n]
    <2>1. /\ Len(u) = n + m
          /\ \A i \in 1..(n + m) : u[i] = IF i <= n THEN s[i] ELSE Bytes(p)[i - n]
      <3>1. /\ Len(s \o Bytes(p)) = Len(s) + Len(Bytes(p))
            /\ \A i \in 1..(Len(s) + Len(Bytes(p))) :
                   (s \o Bytes(p))[i] = IF i <= Len(s) THEN s[i] ELSE Bytes(p)[i - Len(s)]
        BY <1>1, ConcatProperties, Zenon
      <3> QED BY <1>1, <3>1, Zenon DEF n
    <2> HIDE DEF u
    <2>2. \A i \in n+1..n+m : i - n \in 1..m /\ i \in 1..(n+m) /\ ~(i <= n)
      BY <1>1
    <2>3. \A i \in 1..n : i \in 1..(n+m) /\ i <= n
      BY <1>1
    <2>4. QED
      BY <1>1, <2>1, <2>2, <2>3
  <1> HIDE DEF u
  <1>3. ASSUME NEW j \in 1..Len(u)
        PROVE  /\ First(u[j]) \/ (j > 1 /\ Follows(u[j-1], u[j]))
               /\ Last(u[j]) \/ (j < Len(u) /\ Follows(u[j], u[j+1]))
    <2>1. CASE j \in 1..n
      <3>1. /\ First(s[j]) \/ (j > 1 /\ Follows(s[j-1], s[j]))
            /\ Last(s[j]) \/ (j < n /\ Follows(s[j], s[j+1]))
        BY <2>1 DEF WellFramed, n
      <3>2. u[j] = s[j] /\ (j > 1 => u[j-1] = s[j-1]) /\ (j < n => u[j+1] = s[j+1])
        BY <1>1, <1>2, <2>1, SMTT(60)
      <3>3. QED
        BY <1>1, <1>2, <2>1, <3>1, <3>2
    <2>2. CASE j \in n+1..n+m
      <3>0. u[j] = [pkt |-> p, at |-> j - n]
        BY <1>2, <2>2
      <3>1. u[j].pkt = p /\ u[j].at = j - n
        BY <3>0
      <3>2. j > n + 1 => u[j-1].pkt = p /\ u[j-1].at = j - 1 - n
        BY <1>1, <1>2, <2>2, SMTT(60)
      <3>3. j < n + m => u[j+1].pkt = p /\ u[j+1].at = (j + 1) - n
        <4>1. ASSUME j < n + m
              PROVE  u[j+1].pkt = p /\ u[j+1].at = (j + 1) - n
          <5>1. j + 1 \in n+1..n+m
            BY <1>1, <2>2, <4>1
          <5>2. u[j+1] = [pkt |-> p, at |-> (j + 1) - n]
            BY <1>2, <5>1
          <5>3. QED
            BY <5>2
        <4>2. QED
          BY <4>1
      <3>4. First(u[j]) \/ (j > 1 /\ Follows(u[j-1], u[j]))
        BY <1>1, <2>2, <3>1, <3>2 DEF First, Follows
      <3>5. Last(u[j]) \/ (j < Len(u) /\ Follows(u[j], u[j+1]))
        BY <1>1, <1>2, <2>2, <3>1, <3>3 DEF Last, Follows, m
      <3>6. QED
        BY <3>4, <3>5
    <2>3. QED
      BY <1>1, <1>2, <2>1, <2>2
  <1>4. WellFramed(u)
    BY <1>3 DEF WellFramed
  <1>5. QED
    BY <1>4 DEF u

\* Cutting a sequence in two and putting it together again.
LEMMA CutAndJoin ==
    ASSUME NEW q \in Seq(Byte), NEW k \in 1..Len(q)
    PROVE  /\ SubSeq(q, 1, k) \in Seq(Byte)
           /\ Len(SubSeq(q, 1, k)) = k
           /\ SubSeq(q, k + 1, Len(q)) \in Seq(Byte)
           /\ Len(SubSeq(q, k + 1, Len(q))) = Len(q) - k
           /\ SubSeq(q, 1, k) \o SubSeq(q, k + 1, Len(q)) = q
  <1>1. Len(q) \in Nat /\ \A i \in 1..Len(q) : q[i] \in Byte
    BY LenProperties, ElementOfSeq
  <1>2. SubSeq(q, 1, k) \in Seq(Byte) /\ Len(SubSeq(q, 1, k)) = k
    <2>1. \A i \in 1..k : q[i] \in Byte
      BY <1>1
    <2>2. k \in Int /\ 1 <= k /\ k - 1 + 1 = k
      BY <1>1
    <2>3. /\ SubSeq(q, 1, k) \in Seq(Byte)
          /\ Len(SubSeq(q, 1, k)) = IF 1 <= k THEN k - 1 + 1 ELSE 0
      BY <2>1, <2>2, SubSeqProperties
    <2>4. QED
      BY <2>2, <2>3
  <1>3. /\ SubSeq(q, k + 1, Len(q)) \in Seq(Byte)
        /\ Len(SubSeq(q, k + 1, Len(q))) = Len(q) - k
    <2>1. \A i \in (k + 1)..Len(q) : q[i] \in Byte
      BY <1>1
    <2>2. k + 1 \in Int /\ Len(q) \in Int
      BY <1>1
    <2>3. /\ SubSeq(q, k + 1, Len(q)) \in Seq(Byte)
          /\ Len(SubSeq(q, k + 1, Len(q))) =
                 IF k + 1 <= Len(q) THEN Len(q) - (k + 1) + 1 ELSE 0
      BY <2>1, <2>2, SubSeqProperties
    <2>4. QED
      BY <1>1, <2>3
  <1>4. SubSeq(q, 1, k) \o SubSeq(q, k + 1, Len(q)) = SubSeq(q, 1, Len(q))
    <2>1. /\ 1 \in 1..Len(q)+1 /\ k \in 1-1..Len(q) /\ Len(q) \in k..Len(q)
      BY <1>1
    <2>2. QED
      BY <2>1, ConcatAdjacentSubSeq
  <1>5. SubSeq(q, 1, Len(q)) = q
    BY SubSeqFull
  <1>6. QED
    BY <1>2, <1>3, <1>4, <1>5

\* Concatenation of byte sequences is associative.
LEMMA ByteConcat ==
    \A r, s, t \in Seq(Byte) : (r \o s) \o t = r \o (s \o t)
  BY ConcatAssociative

(* ------------------------------ the state ------------------------------ *)

\* What is left of a packet is a sequence of bytes; before the first byte is
\* sent it is the whole packet.
LEMMA RemainderType ==
    ASSUME TypeOK, NEW t \in Threads
    PROVE  /\ Remainder(t) \in Seq(Byte)
           /\ Len(Remainder(t)) = Size(packet[t]) - offset[t]
           /\ offset[t] = 0 => Remainder(t) = Bytes(packet[t])
           /\ \A k \in 1..Len(Remainder(t)) :
                SubSeq(Remainder(t), k + 1, Len(Remainder(t))) =
                SubSeq(Bytes(packet[t]), offset[t] + k + 1, Size(packet[t]))
  <1> DEFINE p == packet[t]
             b == Bytes(p)
             n == Size(p)
             o == offset[t]
  <1>1. p \in Packet /\ o \in Nat /\ o <= n
    BY DEF TypeOK
  <1>2. /\ n \in Nat \ {0} /\ b \in Seq(Byte) /\ Len(b) = n
        /\ \A i \in 1..n : b[i] \in Byte
    BY <1>1, BytesType, ElementOfSeq
  <1> HIDE DEF p, b, n, o
  <1>3. CASE o = n
    <2>1. SubSeq(b, o + 1, n) = <<>>
      BY <1>1, <1>2, <1>3, SubSeqEmpty
    <2>2. QED
      BY <1>1, <1>2, <1>3, <2>1, EmptySeq DEF Remainder, p, b, n, o
  <1>4. CASE o < n
    <2>1. /\ SubSeq(b, o + 1, n) \in Seq(Byte)
          /\ Len(SubSeq(b, o + 1, n)) = n - o
      <3>1. \A i \in (o + 1)..n : b[i] \in Byte
        BY <1>1, <1>2
      <3>2. o + 1 \in Int /\ n \in Int
        BY <1>1, <1>2
      <3>3. /\ SubSeq(b, o + 1, n) \in Seq(Byte)
            /\ Len(SubSeq(b, o + 1, n)) = IF o + 1 <= n THEN n - (o + 1) + 1 ELSE 0
        BY <3>1, <3>2, SubSeqProperties
      <3>4. QED
        BY <1>1, <1>2, <1>4, <3>3
    <2>2. o = 0 => SubSeq(b, o + 1, n) = b
      BY <1>2, SubSeqFull
    <2>3. ASSUME NEW k \in 1..(n - o)
          PROVE  SubSeq(SubSeq(b, o + 1, n), k + 1, n - o) = SubSeq(b, o + k + 1, n)
      <3>1. CASE k = n - o
        <4>1. SubSeq(b, o + k + 1, n) = <<>>
          BY <1>1, <1>2, <3>1, SubSeqEmpty
        <4>2. SubSeq(SubSeq(b, o + 1, n), k + 1, n - o) = <<>>
          BY <1>1, <1>2, <3>1, SubSeqEmpty
        <4>3. QED
          BY <4>1, <4>2
      <3>2. CASE k < n - o
        <4>1. /\ o + 1 \in 1..Len(b) /\ n \in 1..Len(b)
              /\ k + 1 \in 1..(n - (o + 1) + 1) /\ n - o \in 1..(n - (o + 1) + 1)
          BY <1>1, <1>2, <1>4, <3>2
        <4> DEFINE i == o + 1
                   h == k + 1
                   l == n - o
        <4>2. /\ i \in 1..Len(b) /\ h \in 1..n-i+1 /\ l \in 1..n-i+1
              /\ i+h-1 = o + k + 1 /\ i+l-1 = n
          BY <1>1, <1>2, <4>1
        <4> HIDE DEF i, h, l
        <4>3. SubSeq(SubSeq(b, i, n), h, l) = SubSeq(b, i+h-1, i+l-1)
          BY <1>2, <4>1, <4>2, SubSeqOfSubSeq
        <4>4. QED
          BY <4>2, <4>3 DEF i, h, l
      <3>3. QED
        BY <1>1, <1>2, <3>1, <3>2
    <2>4. Remainder(t) = SubSeq(b, o + 1, n)
      BY DEF Remainder, p, b, n, o
    <2>5. /\ Remainder(t) \in Seq(Byte) /\ Len(Remainder(t)) = n - o
          /\ o = 0 => Remainder(t) = b
          /\ \A k \in 1..Len(Remainder(t)) :
               SubSeq(Remainder(t), k + 1, Len(Remainder(t))) = SubSeq(b, o + k + 1, n)
      BY <2>1, <2>2, <2>3, <2>4
    <2>6. QED
      BY <2>5 DEF p, b, n, o
  <1>5. o = n \/ o < n
    BY <1>1, <1>2
  <1>6. QED
    BY <1>3, <1>4, <1>5, Zenon

\* Every variable keeps to its type, an offset stays inside its packet and the
\* kernel's buffer is never overfilled.
THEOREM TypeCorrect == Spec => []TypeOK
  <1>1. Init => TypeOK
    <2> SUFFICES ASSUME Init PROVE TypeOK
      OBVIOUS
    <2>1. NoPacket \in Packet /\ Size(NoPacket) \in Nat
      BY SizesAssumption DEF NoPacket, Packet, Size, Kinds
    <2> HIDE DEF NoPacket
    <2>2. <<>> \in Seq(Byte) /\ Len(<<>>) = 0
      BY EmptySeq
    <2>3. /\ packet \in [Threads -> Packet] /\ offset \in [Threads -> Nat]
          /\ \A t \in Threads : offset[t] <= Size(packet[t])
      BY <2>1, SizesAssumption DEF Init
    <2>4. pc \in [Threads -> PCs]
      BY DEF Init, PCs
    <2>5. taken \in Nat /\ taken <= Len(wire) /\ Len(wire) - taken <= SockBuf
      BY <2>2, SizesAssumption DEF Init
    <2>6. QED
      BY <2>2, <2>3, <2>4, <2>5, Zenon DEF Init, TypeOK
  <1>2. TypeOK /\ [Next]_vars => TypeOK'
    <2> SUFFICES ASSUME TypeOK, [Next]_vars PROVE TypeOK'
      OBVIOUS
    <2> USE ThreadsAssumption DEF TypeOK
    <2>0. /\ ServerThread \in Threads /\ CursorThread \in Threads
          /\ TextThread \in Threads /\ CommandThreads \subseteq Threads
          /\ Len(wire) \in Nat /\ Len(sendQueue) \in Nat /\ SockBuf \in Nat
      BY LenProperties, SizesAssumption DEF Threads
    <2>1. ASSUME NEW t \in Threads, NEW kind \in Kinds, NEW h \in Nat, Build(t, kind, h)
          PROVE  TypeOK'
      <3>1. [id |-> built + 1, kind |-> kind, hash |-> h] \in Packet
        BY DEF Packet
      <3>2. packet' \in [Threads -> Packet] /\ offset' \in [Threads -> Nat]
        BY <2>1, <3>1 DEF Build
      <3>3. \A u \in Threads : Size(packet'[u]) \in Nat
        BY <3>2, BytesType
      <3>4. \A u \in Threads : offset'[u] <= Size(packet'[u])
        BY <2>1, <3>2, <3>3 DEF Build
      <3>5. QED
        BY <2>1, <3>2, <3>4 DEF Build, netVars, cacheVars, PCs
    <2>2. ASSUME NEW h \in Hashes, SendCursor(h)
          PROVE  TypeOK'
      BY <2>0, <2>1, <2>2, SizesAssumption DEF SendCursor, CursorKind, Kinds
    <2>3. ASSUME SendTextCursorState PROVE TypeOK'
      BY <2>0, <2>1, <2>3 DEF SendTextCursorState, Kinds
    <2>4. ASSUME NEW t \in CommandThreads, SendCommand(t) PROVE TypeOK'
      BY <2>0, <2>1, <2>4 DEF SendCommand, Kinds
    <2>5. ASSUME Account PROVE TypeOK'
      <3>1. packet[CursorThread].hash \in Nat
        BY <2>0 DEF Packet
      <3>2. cachedHashes' \in SUBSET Nat /\ lastSentHash' \in Nat
        <4>1. cachedHashes \cup {packet[CursorThread].hash} \in SUBSET Nat
          BY <3>1
        <4>2. \/ cachedHashes' = cachedHashes
              \/ cachedHashes' = cachedHashes \cup {packet[CursorThread].hash}
              \/ cachedHashes' = {}
          BY <2>5 DEF Account
        <4>3. lastSentHash' \in {packet[CursorThread].hash, 0}
          BY <2>5 DEF Account
        <4>4. QED
          BY <3>1, <4>1, <4>2, <4>3
      <3>3. pc' \in [Threads -> PCs]
        BY <2>5 DEF Account, PCs
      <3>4. QED
        BY <2>5, <3>2, <3>3 DEF Account, netVars
    <2>6. ASSUME NEW t \in Threads, SendStep(t) PROVE TypeOK'
      <3> DEFINE R == Remainder(t)
      <3>0. /\ R \in Seq(Byte) /\ Len(R) = Size(packet[t]) - offset[t]
            /\ Size(packet[t]) \in Nat /\ offset[t] \in Nat
        BY RemainderType, BytesType
      <3> HIDE DEF R
      <3>1. ASSUME NEW d \in BOOLEAN, Release(t, d)
            PROVE  lock' \in Threads \cup {NoThread} /\ pc' \in [Threads -> PCs]
        BY <3>1 DEF Release, AfterSend, PCs
      <3>2. CASE Acquire(t)
        BY <3>2 DEF Acquire, netVars, cacheVars, PCs
      <3>3. CASE FlushSent(t)
        <4>1. PICK k \in 1..Len(sendQueue) :
                 /\ k <= Room
                 /\ wire' = wire \o SubSeq(sendQueue, 1, k)
                 /\ sendQueue' = SubSeq(sendQueue, k + 1, Len(sendQueue))
                 /\ \/ UNCHANGED <<lock, pc>>
                    \/ pc' = [pc EXCEPT ![t] = "direct"] /\ UNCHANGED lock
                    \/ Release(t, FALSE)
          BY <3>3 DEF FlushSent
        <4>2. /\ wire' \in Seq(Byte) /\ sendQueue' \in Seq(Byte)
              /\ Len(wire') = Len(wire) + k
          <5>1. /\ SubSeq(sendQueue, 1, k) \in Seq(Byte)
                /\ Len(SubSeq(sendQueue, 1, k)) = k
                /\ SubSeq(sendQueue, k + 1, Len(sendQueue)) \in Seq(Byte)
            BY CutAndJoin
          <5>2. QED
            BY <4>1, <5>1, ConcatProperties
        <4>3. taken <= Len(wire') /\ Len(wire') - taken <= SockBuf
          BY <2>0, <4>1, <4>2 DEF Room
        <4>4. lock' \in Threads \cup {NoThread} /\ pc' \in [Threads -> PCs]
          BY <3>1, <4>1 DEF PCs
        <4>5. QED
          BY <3>3, <4>2, <4>3, <4>4 DEF FlushSent, netVars, cacheVars
      <3>4. CASE FlushFailed(t)
        BY <3>1, <3>4, EmptySeq DEF FlushFailed, netVars, cacheVars
      <3>5. CASE DirectSent(t)
        <4>1. PICK k \in 1..Len(R) :
                 /\ k <= Room
                 /\ wire' = wire \o SubSeq(R, 1, k)
                 /\ offset' = [offset EXCEPT ![t] = @ + k]
                 /\ UNCHANGED <<lock, pc>> \/ Release(t, TRUE)
          BY <3>5 DEF DirectSent, R
        <4>2. wire' \in Seq(Byte) /\ Len(wire') = Len(wire) + k
          BY <3>0, <4>1, CutAndJoin, ConcatProperties, SMTT(60)
        <4>3. taken <= Len(wire') /\ Len(wire') - taken <= SockBuf
          BY <2>0, <4>1, <4>2 DEF Room
        <4>4. lock' \in Threads \cup {NoThread} /\ pc' \in [Threads -> PCs]
          BY <3>1, <4>1
        <4>5. /\ offset' \in [Threads -> Nat]
              /\ \A u \in Threads : offset'[u] <= Size(packet[u])
          BY <3>0, <4>1
        <4>6. QED
          BY <3>5, <4>2, <4>3, <4>4, <4>5 DEF DirectSent, netVars, cacheVars
      <3>6. CASE DirectFailed(t)
        BY <3>1, <3>6 DEF DirectFailed, netVars, cacheVars
      <3>7. CASE Drop(t)
        BY <3>1, <3>7 DEF Drop, netVars, cacheVars
      <3>8. CASE Enqueue(t)
        <4>1. sendQueue' \in Seq(Byte)
          BY <3>0, <3>8, ConcatProperties DEF Enqueue, R
        <4>2. QED
          BY <3>1, <3>8, <4>1 DEF Enqueue, netVars, cacheVars
      <3>9. CASE Overflow(t)
        BY <3>1, <3>9, EmptySeq DEF Overflow, netVars, cacheVars
      <3>10. QED
        BY <2>6, <3>2, <3>3, <3>4, <3>5, <3>6, <3>7, <3>8, <3>9 DEF SendStep
    <2>7. ASSUME MainLoop PROVE TypeOK'
      <3>1. CASE PollWritable
        BY <3>1 DEF PollWritable, netVars, cacheVars, PCs
      <3>2. CASE AcquireFlush
        BY <2>0, <3>2 DEF AcquireFlush, netVars, cacheVars, PCs
      <3>3. CASE FlushBlocked
        BY <2>0, <3>3 DEF FlushBlocked, Release, AfterSend, netVars, cacheVars, PCs
      <3>4. CASE ReceiveEnds
        BY <3>4 DEF ReceiveEnds, netVars, cacheVars
      <3>5. CASE Close
        BY <3>5 DEF Close, netVars, cacheVars, PCs
      <3>6. CASE CloseSocket
        BY <3>6, EmptySeq DEF CloseSocket, netVars, cacheVars, PCs
      <3>7. QED
        BY <2>7, <3>1, <3>2, <3>3, <3>4, <3>5, <3>6 DEF MainLoop
    <2>8. ASSUME ClientReads PROVE TypeOK'
      BY <2>0, <2>8, SizesAssumption DEF ClientReads, cacheVars
    <2>9. ASSUME PeerResets PROVE TypeOK'
      BY <2>9 DEF PeerResets, cacheVars
    <2>10. ASSUME UNCHANGED vars PROVE TypeOK'
      BY <2>10 DEF vars, netVars, cacheVars
    <2>11. QED
      BY <2>2, <2>3, <2>4, <2>5, <2>6, <2>7, <2>8, <2>9, <2>10
         DEF Next, CursorWorker
  <1>3. QED
    BY <1>1, <1>2, PTL DEF Spec

(* ------------------------------ the mutex ------------------------------ *)

\* m_sendMutex is held by exactly the thread in its critical section, a packet
\* is written directly only past an empty queue, and a closing session is
\* disconnected: one step keeps all three.
LEMMA DisciplineStep ==
    ASSUME TypeOK, LockDiscipline, ClosingIsDisconnected, [Next]_vars
    PROVE  LockDiscipline' /\ ClosingIsDisconnected'
  <1> USE ThreadsAssumption DEF LockDiscipline, ClosingIsDisconnected, InMutex
  <1>0. /\ ServerThread \in Threads /\ CursorThread \in Threads
        /\ TextThread \in Threads /\ CommandThreads \subseteq Threads
        /\ pc \in [Threads -> PCs] /\ offset \in [Threads -> Nat]
        /\ packet \in [Threads -> Packet]
        /\ \A t \in Threads : Size(packet[t]) \in Nat \ {0}
        /\ lock \in Threads \cup {NoThread}
    BY BytesType DEF Threads, TypeOK
  <1>1. ASSUME NEW t \in Threads, NEW kind, NEW h, Build(t, kind, h)
        PROVE  LockDiscipline' /\ ClosingIsDisconnected'
    BY <1>0, <1>1 DEF Build
  <1>2. ASSUME NEW t \in Threads, SendStep(t)
        PROVE  LockDiscipline' /\ ClosingIsDisconnected'
    <2>1. ASSUME NEW d \in BOOLEAN, pc[t] \in InMutex, Release(t, d),
                 UNCHANGED packet,
                 \A u \in Threads \ {t} : offset'[u] = offset[u],
                 connected' => connected
          PROVE  LockDiscipline' /\ ClosingIsDisconnected'
      <3>1. /\ pc' \in [Threads -> PCs] /\ lock' = NoThread
            /\ pc'[t] \in {"idle", "account"}
            /\ \A u \in Threads \ {t} : pc'[u] = pc[u] /\ pc[u] \notin InMutex
        BY <1>0, <2>1 DEF Release, AfterSend, PCs
      <3>2. QED
        BY <1>0, <2>1, <3>1
    <2>2. CASE Acquire(t)
      BY <1>0, <2>2 DEF Acquire
    <2>3. CASE FlushSent(t)
      <3>1. PICK k \in 1..Len(sendQueue) :
               /\ sendQueue' = SubSeq(sendQueue, k + 1, Len(sendQueue))
               /\ \/ k < Len(sendQueue) /\ UNCHANGED <<lock, pc>>
                  \/ /\ k = Len(sendQueue)
                     /\ pc[t] = "flush"
                     /\ pc' = [pc EXCEPT ![t] = "direct"]
                     /\ UNCHANGED lock
                  \/ /\ k = Len(sendQueue)
                     /\ pc[t] = "flushOnly"
                     /\ Release(t, FALSE)
        BY <2>3 DEF FlushSent
      <3>2. UNCHANGED <<connected, packet, offset>> /\ pc[t] \in {"flush", "flushOnly"}
        BY <2>3 DEF FlushSent
      <3>3. CASE UNCHANGED <<lock, pc>>
        BY <1>0, <3>2, <3>3
      <3>4. CASE /\ k = Len(sendQueue)
                 /\ pc[t] = "flush"
                 /\ pc' = [pc EXCEPT ![t] = "direct"]
                 /\ UNCHANGED lock
        <4>1. sendQueue' = <<>>
          BY <3>1, <3>4, LenProperties, SubSeqEmpty DEF TypeOK
        <4>2. QED
          BY <1>0, <3>2, <3>4, <4>1
      <3>5. CASE Release(t, FALSE)
        BY <2>1, <3>2, <3>5
      <3>6. QED
        BY <3>1, <3>3, <3>4, <3>5
    <2>4. CASE FlushFailed(t)
      BY <2>1, <2>4 DEF FlushFailed
    <2>5. CASE DirectSent(t)
      <3> DEFINE R == Remainder(t)
      <3>0. Len(R) = Size(packet[t]) - offset[t]
        BY RemainderType
      <3> HIDE DEF R
      <3>1. PICK k \in 1..Len(R) :
               /\ offset' = [offset EXCEPT ![t] = @ + k]
               /\ \/ k < Len(R) /\ UNCHANGED <<lock, pc>>
                  \/ k = Len(R) /\ Release(t, TRUE)
        BY <2>5 DEF DirectSent, R
      <3>2. UNCHANGED <<connected, packet, sendQueue>> /\ pc[t] = "direct"
        BY <2>5 DEF DirectSent
      <3>3. CASE k < Len(R) /\ UNCHANGED <<lock, pc>>
        <4>1. offset'[t] < Size(packet[t])
          BY <1>0, <3>0, <3>1, <3>3
        <4>2. \A u \in Threads \ {t} : offset'[u] = offset[u]
          BY <1>0, <3>1
        <4>3. QED
          BY <1>0, <3>2, <3>3, <4>1, <4>2
      <3>4. CASE Release(t, TRUE)
        <4>1. \A u \in Threads \ {t} : offset'[u] = offset[u]
          BY <1>0, <3>1
        <4>2. QED
          BY <2>1, <3>2, <3>4, <4>1
      <3>5. QED
        BY <3>1, <3>3, <3>4
    <2>6. CASE DirectFailed(t)
      BY <2>1, <2>6 DEF DirectFailed
    <2>7. CASE Drop(t)
      BY <2>1, <2>7 DEF Drop
    <2>8. CASE Enqueue(t)
      BY <2>1, <2>8 DEF Enqueue
    <2>9. CASE Overflow(t)
      BY <2>1, <2>9 DEF Overflow
    <2>10. QED
      BY <1>2, <2>2, <2>3, <2>4, <2>5, <2>6, <2>7, <2>8, <2>9 DEF SendStep
  <1>3. CASE Account
    BY <1>0, <1>3 DEF Account
  <1>4. CASE MainLoop
    <2>1. CASE PollWritable
      BY <1>0, <2>1 DEF PollWritable
    <2>2. CASE AcquireFlush
      BY <1>0, <2>2 DEF AcquireFlush
    <2>3. CASE FlushBlocked
      BY <1>0, <2>3 DEF FlushBlocked, Release, AfterSend
    <2>4. CASE ReceiveEnds
      BY <1>0, <2>4 DEF ReceiveEnds
    <2>5. CASE Close
      BY <1>0, <2>5 DEF Close
    <2>6. CASE CloseSocket
      BY <1>0, <2>6 DEF CloseSocket
    <2>7. QED
      BY <1>4, <2>1, <2>2, <2>3, <2>4, <2>5, <2>6 DEF MainLoop
  <1>5. CASE ClientReads
    BY <1>5 DEF ClientReads
  <1>6. CASE PeerResets
    BY <1>6 DEF PeerResets
  <1>7. CASE UNCHANGED vars
    BY <1>7 DEF vars
  <1>8. QED
    BY <1>0, <1>1, <1>2, <1>3, <1>4, <1>5, <1>6, <1>7
       DEF Next, CursorWorker, SendCursor, SendTextCursorState, SendCommand

(* ----------------------------- the stream ------------------------------ *)

\* The stream is what is on the wire, then the queue, unless a packet is being
\* written directly.
LEMMA StreamParts ==
    ASSUME TypeOK, LockDiscipline
    PROVE  /\ Pending \in Seq(Byte)
           /\ Stream \in Seq(Byte)
           /\ Pending = <<>> => Stream = wire \o sendQueue
           /\ Stream = wire \o (sendQueue \o Pending)
           /\ (\A t \in Threads : pc[t] = "direct" => offset[t] = 0) => Pending = <<>>
           /\ \A t \in Threads :
                  pc[t] = "direct" =>
                      Stream = IF offset[t] = 0 THEN wire ELSE wire \o Remainder(t)
  <1>1. wire \in Seq(Byte) /\ sendQueue \in Seq(Byte) /\ <<>> \in Seq(Byte)
    BY EmptySeq DEF TypeOK
  <1>2. lock # NoThread => lock \in Threads
    BY DEF TypeOK
  <1>3. Pending \in Seq(Byte)
    BY <1>1, <1>2, RemainderType DEF Pending
  <1>4. wire \o sendQueue \in Seq(Byte)
    BY <1>1, ConcatProperties
  <1>5. Stream \in Seq(Byte) /\ Stream = wire \o (sendQueue \o Pending)
    BY <1>1, <1>3, <1>4, ConcatProperties, ConcatAssociative DEF Stream
  <1>6. Pending = <<>> => Stream = wire \o sendQueue
    BY <1>4, ConcatEmptySeq DEF Stream
  <1>7. (\A t \in Threads : pc[t] = "direct" => offset[t] = 0) => Pending = <<>>
    <2>1. offset \in [Threads -> Nat]
      BY DEF TypeOK
    <2>2. QED
      BY <1>2, <2>1 DEF Pending
  <1>8. ASSUME NEW t \in Threads, pc[t] = "direct"
        PROVE  Stream = IF offset[t] = 0 THEN wire ELSE wire \o Remainder(t)
    <2>1. lock = t /\ sendQueue = <<>> /\ lock # NoThread /\ offset[t] \in Nat
      BY <1>8, ThreadsAssumption DEF LockDiscipline, InMutex, TypeOK
    <2>2. Pending = IF offset[t] = 0 THEN <<>> ELSE Remainder(t)
      BY <1>8, <2>1 DEF Pending
    <2>3. wire \o sendQueue = wire
      BY <1>1, <2>1, ConcatEmptySeq
    <2>4. Stream = wire \o Pending
      BY <2>3 DEF Stream
    <2>5. wire \o <<>> = wire
      BY <1>1, ConcatEmptySeq
    <2>6. QED
      BY <2>2, <2>4, <2>5
  <1>9. QED
    BY <1>3, <1>5, <1>6, <1>7, <1>8

\* A step that touches neither the wire, the queue, nor a packet being written
\* leaves the stream as it is.
LEMMA StreamUnchanged ==
    ASSUME UNCHANGED <<wire, sendQueue>>, Pending' = Pending
    PROVE  Stream' = Stream
  BY DEF Stream

\* A sender whose packet has not joined the stream ...
Ready(t) ==
    \/ pc[t] \in {"wait", "flush"}
    \/ pc[t] = "direct" /\ offset[t] = 0

\* ... and one whose packet has, while SendOrQueue or SendCursor is not done.
Joined(t) ==
    \/ pc[t] = "account"
    \/ pc[t] = "direct" /\ offset[t] > 0

\* While the session stays connected, a step of a sender changes the stream in
\* one way only: a packet that has not joined the stream joins it, whole.  The
\* cursor thread books every packet of its own that joins.
LEMMA SenderStream ==
    ASSUME TypeOK, TypeOK', LockDiscipline, LockDiscipline', connected',
           NEW t \in Threads, SendStep(t)
    PROVE  \/ /\ Stream' = Stream
              /\ Ready(t)' => Ready(t)
              /\ t = CursorThread => (Joined(t)' <=> Joined(t))
           \/ /\ Stream' = Stream \o Bytes(packet[t])
              /\ Ready(t) /\ ~Ready(t)'
              /\ t = CursorThread => Joined(t)'
  <1> USE ThreadsAssumption DEF InMutex
  <1> DEFINE R == Remainder(t)
  <1>0. /\ wire \in Seq(Byte) /\ sendQueue \in Seq(Byte) /\ <<>> \in Seq(Byte)
        /\ R \in Seq(Byte) /\ Bytes(packet[t]) \in Seq(Byte)
        /\ offset[t] = 0 => R = Bytes(packet[t])
        /\ pc \in [Threads -> PCs] /\ offset \in [Threads -> Nat]
        /\ Len(R) \in Nat
    BY RemainderType, BytesType, EmptySeq, LenProperties DEF TypeOK
  <1>1. pc[t] \in InMutex => \A u \in Threads \ {t} : pc[u] \notin InMutex
    BY DEF LockDiscipline
  <1>2. ASSUME NEW d \in BOOLEAN, pc[t] \in InMutex, Release(t, d)
        PROVE  Pending' = <<>>
    BY <1>2 DEF Release, Pending
  <1>3. ASSUME pc[t] \in {"flush", "flushOnly"}
        PROVE  Pending = <<>> /\ Stream = wire \o sendQueue
    BY <1>1, <1>3, StreamParts
  <1> HIDE DEF R
  <1>4. CASE Acquire(t)
    <2>1. Pending = <<>> /\ Pending' = <<>>
      BY <1>0, <1>4 DEF Acquire, Pending, LockDiscipline
    <2>2. Stream' = Stream
      BY <1>4, <2>1, StreamUnchanged DEF Acquire
    <2>3. Ready(t) /\ ~Joined(t) /\ ~Joined(t)'
      BY <1>0, <1>4 DEF Acquire, Ready, Joined, LockDiscipline
    <2>4. QED
      BY <2>2, <2>3
  <1>5. CASE FlushSent(t)
    <2>1. PICK k \in 1..Len(sendQueue) :
             /\ wire' = wire \o SubSeq(sendQueue, 1, k)
             /\ sendQueue' = SubSeq(sendQueue, k + 1, Len(sendQueue))
             /\ \/ UNCHANGED <<lock, pc>>
                \/ pc' = [pc EXCEPT ![t] = "direct"] /\ pc[t] = "flush" /\ UNCHANGED lock
                \/ Release(t, FALSE)
      BY <1>5 DEF FlushSent
    <2>2. pc[t] \in {"flush", "flushOnly"} /\ UNCHANGED <<packet, offset>>
      BY <1>5 DEF FlushSent
    <2>3. Pending' = <<>>
      <3>1. CASE UNCHANGED <<lock, pc>>
        BY <1>3, <2>2, <3>1 DEF Pending, Remainder
      <3>2. CASE pc' = [pc EXCEPT ![t] = "direct"] /\ pc[t] = "flush" /\ UNCHANGED lock
        <4>1. lock = t /\ offset[t] = 0
          BY <2>2, <3>2 DEF LockDiscipline
        <4>2. QED
          BY <1>0, <2>2, <3>2, <4>1 DEF Pending
      <3>3. CASE Release(t, FALSE)
        BY <1>2, <2>2, <3>3
      <3>4. QED
        BY <2>1, <3>1, <3>2, <3>3
    <2>4. Stream' = wire' \o sendQueue'
      <3>1. wire' \o sendQueue' \in Seq(Byte)
        BY ConcatProperties DEF TypeOK
      <3>2. QED
        BY <2>3, <3>1, ConcatEmptySeq DEF Stream
    <2>5. /\ SubSeq(sendQueue, 1, k) \in Seq(Byte)
          /\ SubSeq(sendQueue, k + 1, Len(sendQueue)) \in Seq(Byte)
          /\ SubSeq(sendQueue, 1, k) \o SubSeq(sendQueue, k + 1, Len(sendQueue)) = sendQueue
      BY <1>0, CutAndJoin
    <2>6. wire' \o sendQueue' = wire \o sendQueue
      <3> DEFINE a == SubSeq(sendQueue, 1, k)
                 b == SubSeq(sendQueue, k + 1, Len(sendQueue))
      <3>1. a \in Seq(Byte) /\ b \in Seq(Byte) /\ wire \in Seq(Byte)
        BY <1>0, <2>5
      <3>2. (wire \o a) \o b = wire \o (a \o b)
        BY <3>1, ByteConcat, Zenon
      <3>3. QED
        BY <2>1, <2>5, <3>2
    <2>7. Stream' = Stream
      BY <1>3, <2>2, <2>4, <2>6
    <2>8. /\ Ready(t)' => Ready(t)
          /\ ~Joined(t) /\ ~Joined(t)'
      <3>1. pc[t] = "flush" => offset[t] = 0
        BY DEF LockDiscipline
      <3>2. QED
        BY <1>0, <2>1, <2>2, <3>1 DEF Ready, Joined, Release, AfterSend
    <2>9. QED
      BY <2>7, <2>8
  <1>6. CASE DirectSent(t)
    <2>1. PICK k \in 1..Len(R) :
             /\ wire' = wire \o SubSeq(R, 1, k)
             /\ offset' = [offset EXCEPT ![t] = @ + k]
             /\ \/ k < Len(R) /\ UNCHANGED <<lock, pc>>
                \/ k = Len(R) /\ Release(t, TRUE)
      BY <1>6 DEF DirectSent, R
    <2>2. pc[t] = "direct" /\ UNCHANGED <<sendQueue, packet>> /\ lock = t /\ sendQueue = <<>>
      BY <1>6 DEF DirectSent, LockDiscipline
    <2>3. Stream = IF offset[t] = 0 THEN wire ELSE wire \o R
      BY <2>2, StreamParts DEF R
    <2>4. Stream' = wire \o R
      <3> DEFINE a == SubSeq(R, 1, k)
                 b == SubSeq(R, k + 1, Len(R))
      <3>1. a \in Seq(Byte) /\ b \in Seq(Byte) /\ a \o b = R
        BY <1>0, CutAndJoin
      <3>2. Stream' = (wire \o a) \o Pending'
        <4>1. wire \o a \in Seq(Byte)
          BY <1>0, <3>1, ConcatProperties
        <4>2. (wire \o a) \o <<>> = wire \o a
          BY <4>1, ConcatEmptySeq
        <4>3. QED
          BY <2>1, <2>2, <4>2 DEF Stream
      <3>3. CASE k < Len(R) /\ UNCHANGED <<lock, pc>>
        <4>1. offset'[t] = offset[t] + k /\ offset'[t] > 0
          BY <1>0, <2>1
        <4>2. Pending' = SubSeq(Bytes(packet[t]), (offset[t] + k) + 1, Size(packet[t]))
          BY <2>2, <3>3, <4>1 DEF Pending, Remainder
        <4>3. (offset[t] + k) + 1 = offset[t] + k + 1
          OBVIOUS
        <4>4. b = SubSeq(Bytes(packet[t]), offset[t] + k + 1, Size(packet[t]))
          BY RemainderType DEF R
        <4>5. Pending' = b
          BY <4>2, <4>3, <4>4
        <4>6. (wire \o a) \o b = wire \o (a \o b)
          <5>1. a \in Seq(Byte) /\ b \in Seq(Byte) /\ wire \in Seq(Byte)
            BY <1>0, <3>1
          <5>2. QED
            BY <5>1, ByteConcat, Zenon
        <4>7. QED
          BY <3>1, <3>2, <4>5, <4>6
      <3>4. CASE k = Len(R) /\ Release(t, TRUE)
        <4>1. Pending' = <<>>
          BY <1>2, <2>2, <3>4
        <4>2. a = R
          BY <1>0, <3>4, SubSeqFull
        <4>3. wire \o R \in Seq(Byte)
          BY <1>0, ConcatProperties
        <4>4. QED
          BY <3>2, <4>1, <4>2, <4>3, ConcatEmptySeq
      <3>5. QED
        BY <2>1, <3>3, <3>4
    <2>5. Stream' = IF offset[t] = 0 THEN Stream \o Bytes(packet[t]) ELSE Stream
      BY <1>0, <2>3, <2>4
    <2>6. /\ ~Ready(t)'
          /\ offset[t] = 0 => Ready(t)
          /\ offset[t] # 0 => Joined(t)
          /\ t = CursorThread => Joined(t)'
      <3>1. offset'[t] > 0 /\ offset[t] \in Nat
        BY <1>0, <2>1
      <3>2. \/ pc'[t] = "direct"
            \/ pc'[t] = IF t = CursorThread THEN "account" ELSE "idle"
        BY <1>0, <2>1, <2>2 DEF Release, AfterSend
      <3>3. QED
        BY <2>2, <3>1, <3>2 DEF Ready, Joined
    <2>7. QED
      BY <2>5, <2>6
  <1>7. CASE Drop(t)
    <2>1. pc[t] \in {"flush", "direct"} /\ offset[t] = 0 /\ UNCHANGED <<wire, sendQueue>>
      BY <1>7 DEF Drop, MayDrop
    <2>2. Pending' = <<>>
      BY <1>2, <1>7, <2>1 DEF Drop
    <2>3. Pending = <<>>
      BY <1>1, <2>1, StreamParts
    <2>4. Stream' = Stream
      BY <2>1, <2>2, <2>3, StreamUnchanged
    <2>5. Ready(t) /\ ~Joined(t) /\ ~Joined(t)'
      BY <1>0, <1>7, <2>1 DEF Drop, Release, AfterSend, Ready, Joined
    <2>6. QED
      BY <2>4, <2>5
  <1>8. CASE Enqueue(t)
    <2>1. /\ pc[t] \in {"flush", "direct"} /\ UNCHANGED wire
          /\ sendQueue' = sendQueue \o R
      BY <1>8 DEF Enqueue, R
    <2>2. Pending' = <<>>
      BY <1>2, <1>8, <2>1 DEF Enqueue
    <2>3. Stream' = wire \o (sendQueue \o R)
      <3>1. sendQueue \o R \in Seq(Byte)
        BY <1>0, ConcatProperties
      <3>2. wire \o (sendQueue \o R) \in Seq(Byte)
        BY <1>0, <3>1, ConcatProperties
      <3>3. QED
        BY <2>1, <2>2, <3>2, ConcatEmptySeq DEF Stream
    <2>4. ASSUME offset[t] = 0 PROVE Stream' = Stream \o Bytes(packet[t])
      <3>1. Stream = wire \o sendQueue
        BY <1>1, <2>1, <2>4, StreamParts
      <3>2. (wire \o sendQueue) \o R = wire \o (sendQueue \o R)
        BY <1>0, ConcatAssociative, SMTT(60)
      <3>3. QED
        BY <1>0, <2>3, <2>4, <3>1, <3>2
    <2>5. ASSUME offset[t] # 0 PROVE Stream' = Stream
      <3>1. pc[t] = "direct" /\ sendQueue = <<>>
        BY <2>1, <2>5 DEF LockDiscipline
      <3>2. Stream = wire \o R
        BY <2>5, <3>1, StreamParts DEF R
      <3>3. sendQueue \o R = R
        BY <1>0, <3>1, ConcatEmptySeq
      <3>4. QED
        BY <2>3, <3>2, <3>3
    <2>6. Stream' = IF offset[t] = 0 THEN Stream \o Bytes(packet[t]) ELSE Stream
      BY <2>4, <2>5
    <2>7. /\ ~Ready(t)'
          /\ offset[t] = 0 => Ready(t)
          /\ offset[t] # 0 => Joined(t)
          /\ t = CursorThread => Joined(t)'
      <3>1. offset[t] \in Nat /\ (pc[t] = "flush" => offset[t] = 0)
        BY <1>0 DEF LockDiscipline
      <3>2. pc'[t] = IF t = CursorThread THEN "account" ELSE "idle"
        BY <1>0, <1>8 DEF Enqueue, Release, AfterSend
      <3>3. QED
        BY <2>1, <3>1, <3>2 DEF Ready, Joined
    <2>8. QED
      BY <2>6, <2>7
  <1>9. CASE FlushFailed(t) \/ DirectFailed(t) \/ Overflow(t)
    BY <1>9 DEF FlushFailed, DirectFailed, Overflow
  <1>10. QED
    BY <1>4, <1>5, <1>6, <1>7, <1>8, <1>9 DEF SendStep

\* Any other step of the session leaves the stream of a connected session as
\* it is.
LEMMA OtherStream ==
    ASSUME TypeOK, TypeOK', LockDiscipline, LockDiscipline', ClosingIsDisconnected,
           connected', Next, ~ \E t \in Threads : SendStep(t)
    PROVE  Stream' = Stream
  <1> USE ThreadsAssumption DEF InMutex
  <1>0. /\ ServerThread \in Threads /\ CursorThread \in Threads
        /\ TextThread \in Threads /\ CommandThreads \subseteq Threads
        /\ pc \in [Threads -> PCs] /\ offset \in [Threads -> Nat]
        /\ packet \in [Threads -> Packet]
        /\ lock \in Threads \cup {NoThread}
    BY DEF Threads, TypeOK
  <1>1. ASSUME NEW t \in Threads, NEW kind, NEW h, Build(t, kind, h)
        PROVE  Stream' = Stream
    <2>1. lock # t /\ UNCHANGED <<lock, wire, sendQueue>>
      BY <1>1 DEF Build, LockDiscipline
    <2>2. \A u \in Threads \ {t} : /\ pc'[u] = pc[u] /\ packet'[u] = packet[u]
                                   /\ offset'[u] = offset[u]
      BY <1>0, <1>1 DEF Build
    <2>3. Pending' = Pending
      BY <1>0, <2>1, <2>2 DEF Pending, Remainder
    <2>4. QED
      BY <2>1, <2>3, StreamUnchanged
  <1>2. CASE Account
    <2>1. lock # CursorThread /\ UNCHANGED <<lock, wire, sendQueue, packet, offset>>
      BY <1>0, <1>2 DEF Account, LockDiscipline
    <2>2. \A u \in Threads \ {CursorThread} : pc'[u] = pc[u]
      BY <1>0, <1>2 DEF Account
    <2>3. Pending' = Pending
      BY <1>0, <2>1, <2>2 DEF Pending, Remainder
    <2>4. QED
      BY <2>1, <2>3, StreamUnchanged
  <1>3. CASE MainLoop
    <2>1. CASE PollWritable
      <3>1. Pending' = Pending
        BY <1>0, <2>1 DEF PollWritable, Pending
      <3>2. QED
        BY <2>1, <3>1, StreamUnchanged DEF PollWritable
    <2>2. CASE AcquireFlush
      <3>1. Pending' = Pending
        BY <1>0, <2>2 DEF AcquireFlush, Pending
      <3>2. QED
        BY <2>2, <3>1, StreamUnchanged DEF AcquireFlush
    <2>3. CASE FlushBlocked
      <3>1. lock = ServerThread /\ pc[ServerThread] = "flushOnly"
        BY <1>0, <2>3 DEF FlushBlocked, LockDiscipline
      <3>2. Pending' = Pending
        BY <1>0, <2>3, <3>1 DEF FlushBlocked, Release, Pending
      <3>3. QED
        BY <2>3, <3>2, StreamUnchanged DEF FlushBlocked
    <2>4. CASE ReceiveEnds \/ Close
      BY <2>4 DEF ReceiveEnds, Close
    <2>5. CASE CloseSocket
      BY <2>5 DEF CloseSocket, ClosingIsDisconnected
    <2>6. QED
      BY <1>3, <2>1, <2>2, <2>3, <2>4, <2>5 DEF MainLoop
  <1>4. CASE ClientReads \/ PeerResets
    <2>1. UNCHANGED <<lock, pc, packet, offset, wire, sendQueue>>
      BY <1>4 DEF ClientReads, PeerResets
    <2>2. Pending' = Pending
      BY <2>1 DEF Pending, Remainder
    <2>3. QED
      BY <2>1, <2>2, StreamUnchanged
  <1>5. QED
    BY <1>0, <1>1, <1>2, <1>3, <1>4
       DEF Next, CursorWorker, SendCursor, SendTextCursorState, SendCommand

\* Nothing reconnects a session.
LEMMA NoReconnect ==
    ASSUME [Next]_vars, connected'
    PROVE  connected
  BY DEF vars, Next, CursorWorker, SendCursor, SendTextCursorState, SendCommand, Build,
         Account, SendStep, Acquire, FlushSent, FlushFailed, DirectSent, DirectFailed,
         Drop, Enqueue, Overflow, MainLoop, PollWritable, AcquireFlush, FlushBlocked,
         ReceiveEnds, Close, CloseSocket, ClientReads, PeerResets

\* The packets of a connected session are whole and one after the other on the
\* wire and in the queue, for any number of senders, any packet lengths and any
\* sequence of partial writes.
THEOREM FramingHolds == Spec => []FramingInv
  <1>1. Init => LockDiscipline /\ ClosingIsDisconnected /\ Framing
    <2> SUFFICES ASSUME Init PROVE LockDiscipline /\ ClosingIsDisconnected /\ Framing
      OBVIOUS
    <2>1. LockDiscipline /\ ClosingIsDisconnected
      BY ThreadsAssumption DEF Init, LockDiscipline, ClosingIsDisconnected, InMutex, Threads
    <2>2. Stream = <<>> /\ Len(<<>>) = 0
      BY ConcatEmptySeq, EmptySeq DEF Init, Stream, Pending
    <2>3. QED
      BY <2>1, <2>2 DEF Framing, WellFramed
  <1>2. TypeOK /\ TypeOK' /\ FramingInv /\ [Next]_vars => FramingInv'
    <2> SUFFICES ASSUME TypeOK, TypeOK', FramingInv, [Next]_vars
                 PROVE  FramingInv'
      OBVIOUS
    <2>1. LockDiscipline /\ ClosingIsDisconnected /\ Framing
      BY DEF FramingInv
    <2>2. LockDiscipline' /\ ClosingIsDisconnected'
      BY <2>1, DisciplineStep
    <2>3. ASSUME connected' PROVE WellFramed(Stream')
      <3>1. connected /\ WellFramed(Stream) /\ Stream \in Seq(Byte)
        BY <2>1, <2>3, NoReconnect, StreamParts DEF Framing
      <3>2. CASE \E t \in Threads : SendStep(t)
        <4>1. PICK t \in Threads : SendStep(t)
          BY <3>2
        <4>2. Stream' = Stream \/ Stream' = Stream \o Bytes(packet[t])
          BY <2>1, <2>2, <2>3, <4>1, SenderStream
        <4>3. packet[t] \in Packet
          BY DEF TypeOK
        <4>4. WellFramed(Stream \o Bytes(packet[t]))
          BY <3>1, <4>3, FramedAppend
        <4>5. QED
          BY <3>1, <4>2, <4>4
      <3>3. CASE Next /\ ~ \E t \in Threads : SendStep(t)
        BY <2>1, <2>2, <2>3, <3>1, <3>3, OtherStream
      <3>4. CASE UNCHANGED vars
        <4>1. Stream' = Stream
          BY <3>4 DEF vars, Stream, Pending, Remainder
        <4>2. QED
          BY <3>1, <4>1
      <3>5. QED
        BY <3>2, <3>3, <3>4
    <2>4. WellFramed(Stream)' <=> WellFramed(Stream')
      BY DEF WellFramed
    <2>5. QED
      BY <2>2, <2>3, <2>4 DEF FramingInv, Framing
  <1>3. TypeOK /\ LockDiscipline /\ ClosingIsDisconnected /\ Framing => FramingInv
    BY DEF FramingInv
  <1>4. QED
    BY <1>1, <1>2, <1>3, TypeCorrect, PTL DEF Spec

\* The two parts of the invariant that the runs check, by name: no torn packet
\* in the stream of a connected session ...
THEOREM StreamFramed == Spec => []Framing
  BY FramingHolds, PTL DEF FramingInv

\* ... and mutual exclusion on m_sendMutex, with nothing queued ahead of a
\* packet that is being written.
THEOREM MutexHolds == Spec => []LockDiscipline
  BY FramingHolds, PTL DEF FramingInv

\* The queue never passes MAX_SEND_QUEUE_BYTES, and nothing is left in the queue
\* of a closed session, where the main loop would poll for it for ever.
THEOREM QueueHolds == Spec => []QueueBounded
  <1> DEFINE QInv == QueueBounded
  <1>1. Init => QInv
    BY EmptySeq, SizesAssumption DEF Init, QueueBounded
  <1>2. TypeOK /\ TypeOK' /\ QInv /\ [Next]_vars => QInv'
    <2> SUFFICES ASSUME TypeOK, TypeOK', QInv, [Next]_vars PROVE QInv'
      OBVIOUS
    <2> USE DEF QueueBounded
    <2>0. /\ Len(sendQueue) \in Nat /\ Len(sendQueue') \in Nat
          /\ sendQueue \in Seq(Byte) /\ Len(<<>>) = 0
      BY LenProperties, EmptySeq DEF TypeOK
    <2>1. CASE UNCHANGED <<sendQueue, sockOpen>>
      BY <2>1
    <2>2. CASE sendQueue' = <<>>
      BY <2>0, <2>2, SizesAssumption
    <2>3. ASSUME NEW t \in Threads, FlushSent(t) PROVE QInv'
      <3>1. PICK k \in 1..Len(sendQueue) :
               sendQueue' = SubSeq(sendQueue, k + 1, Len(sendQueue))
        BY <2>3 DEF FlushSent
      <3>2. Len(sendQueue') = Len(sendQueue) - k
        BY <2>0, <3>1, CutAndJoin
      <3>3. sockOpen'
        BY <2>3 DEF FlushSent, Alive
      <3>4. QED
        BY <2>0, <3>2, <3>3, SizesAssumption
    <2>4. ASSUME NEW t \in Threads, Enqueue(t) PROVE QInv'
      <3>1. Remainder(t) \in Seq(Byte)
        BY RemainderType
      <3>2. Len(sendQueue') = Len(sendQueue) + Len(Remainder(t))
        BY <2>0, <2>4, <3>1, ConcatProperties DEF Enqueue
      <3>3. sockOpen'
        BY <2>4 DEF Enqueue, Blocked, Alive
      <3>4. QED
        BY <2>4, <3>2, <3>3 DEF Enqueue, Fits
    <2>5. CASE Next /\ ~ \E t \in Threads : FlushSent(t) \/ Enqueue(t)
      <3>1. UNCHANGED <<sendQueue, sockOpen>> \/ sendQueue' = <<>>
        BY <2>5 DEF Next, CursorWorker, SendCursor, SendTextCursorState, SendCommand,
           Build, Account, SendStep, Acquire, FlushFailed, DirectSent, DirectFailed,
           Drop, Overflow, MainLoop, PollWritable, AcquireFlush, FlushBlocked,
           ReceiveEnds, Close, CloseSocket, ClientReads, PeerResets
      <3>2. QED
        BY <2>1, <2>2, <3>1
    <2>6. CASE UNCHANGED vars
      BY <2>1, <2>6 DEF vars
    <2>7. QED
      BY <2>3, <2>4, <2>5, <2>6
  <1>3. QED
    BY <1>1, <1>2, TypeCorrect, PTL DEF Spec

(* ------------------------- the cursor protocol ------------------------- *)

\* s holds a byte of a full cursor packet of hash h.
HasFull(s, h) ==
    \E i \in 1..Len(s) : s[i].pkt.kind = "full" /\ s[i].pkt.hash = h

\* The last cursor packet of s is one of hash h.
Shown(s, h) ==
    \E j \in 1..Len(s) :
        /\ IsCursor(s[j])
        /\ s[j].pkt.hash = h
        /\ \A i \in (j+1)..Len(s) : IsCursor(s[i]) => s[i].pkt.hash = h

\* Only the cursor thread sends cursor packets, and it does nothing else.
SenderKinds ==
    /\ \A t \in Threads \ {CursorThread} : packet[t].kind \in {"text", "cmd"}
    /\ pc[CursorThread] \in {"idle", "wait", "flush", "direct", "account"}
    /\ pc[CursorThread] # "idle" => packet[CursorThread].kind \in {"full", "short"}

\* What SendCursor takes the client to have: the hashes it has booked, the hash
\* of a short packet on its way, and that of a packet about to be booked.
CacheHeld ==
    connected =>
        /\ \A h \in cachedHashes : HasFull(Stream, h)
        /\ (/\ pc[CursorThread] # "idle"
            /\ packet[CursorThread].kind = "short" \/ Joined(CursorThread)) =>
               HasFull(Stream, packet[CursorThread].hash)

\* What SendCursor takes the client to show, a packet about to be booked first.
ShownHeld ==
    connected =>
        IF Joined(CursorThread)
        THEN Shown(Stream, packet[CursorThread].hash)
        ELSE lastSentHash # 0 => Shown(Stream, lastSentHash)

CursorInv == SenderKinds /\ CacheHeld /\ ShownHeld /\ ShortAfterFull

\* Where the bytes of a stream are once a packet has been appended to it.
LEMMA AppendedBytes ==
    ASSUME NEW s \in Seq(Byte), NEW p \in Packet
    PROVE  /\ Len(s) \in Nat /\ Size(p) \in Nat \ {0}
           /\ Len(s \o Bytes(p)) = Len(s) + Size(p)
           /\ \A i \in 1..Len(s) : (s \o Bytes(p))[i] = s[i]
           /\ \A i \in (Len(s) + 1)..(Len(s) + Size(p)) : (s \o Bytes(p))[i].pkt = p
  <1>1. /\ Len(s) \in Nat /\ Size(p) \in Nat \ {0}
        /\ Bytes(p) \in Seq(Byte) /\ Len(Bytes(p)) = Size(p)
        /\ \A i \in 1..Size(p) : Bytes(p)[i] = [pkt |-> p, at |-> i]
    BY BytesType, LenProperties
  <1>2. /\ Len(s \o Bytes(p)) = Len(s) + Size(p)
        /\ \A i \in 1..(Len(s) + Size(p)) :
              (s \o Bytes(p))[i] = IF i <= Len(s) THEN s[i] ELSE Bytes(p)[i - Len(s)]
    <2> DEFINE b == Bytes(p)
               m == Size(p)
    <2>1. b \in Seq(Byte) /\ Len(b) = m
      BY <1>1
    <2> HIDE DEF b, m
    <2>2. /\ Len(s \o b) = Len(s) + m
          /\ \A i \in 1..(Len(s) + m) :
                (s \o b)[i] = IF i <= Len(s) THEN s[i] ELSE b[i - Len(s)]
      BY <2>1, ConcatProperties
    <2>3. QED
      BY <2>2 DEF b, m
  <1>3. ASSUME NEW i \in (Len(s) + 1)..(Len(s) + Size(p))
        PROVE  (s \o Bytes(p))[i].pkt = p
    <2>1. i - Len(s) \in 1..Size(p) /\ i \in 1..(Len(s) + Size(p)) /\ ~(i <= Len(s))
      BY <1>1
    <2>2. (s \o Bytes(p))[i] = Bytes(p)[i - Len(s)]
      BY <1>2, <2>1
    <2>3. Bytes(p)[i - Len(s)] = [pkt |-> p, at |-> i - Len(s)]
      BY <1>1, <2>1
    <2>4. QED
      BY <2>2, <2>3
  <1>4. \A i \in 1..Len(s) : i \in 1..(Len(s) + Size(p)) /\ i <= Len(s)
    BY <1>1
  <1>5. QED
    BY <1>1, <1>2, <1>3, <1>4

\* A full packet once in the stream stays there, and a full packet appended is
\* in it.
LEMMA FullAppended ==
    ASSUME NEW s \in Seq(Byte), NEW p \in Packet, NEW h
    PROVE  /\ HasFull(s, h) => HasFull(s \o Bytes(p), h)
           /\ p.kind = "full" => HasFull(s \o Bytes(p), p.hash)
  <1> DEFINE u == s \o Bytes(p)
             n == Len(s)
             m == Size(p)
  <1>1. /\ n \in Nat /\ m \in Nat \ {0} /\ Len(u) = n + m
        /\ \A i \in 1..n : u[i] = s[i]
        /\ \A i \in (n + 1)..(n + m) : u[i].pkt = p
    BY AppendedBytes
  <1> HIDE DEF u, n, m
  <1>2. ASSUME HasFull(s, h) PROVE HasFull(u, h)
    <2>1. PICK i \in 1..n : s[i].pkt.kind = "full" /\ s[i].pkt.hash = h
      BY <1>2 DEF HasFull, n
    <2>2. i \in 1..Len(u) /\ u[i] = s[i]
      BY <1>1
    <2>3. QED
      BY <2>1, <2>2 DEF HasFull
  <1>3. ASSUME p.kind = "full" PROVE HasFull(u, p.hash)
    <2>1. n + 1 \in 1..Len(u) /\ u[n + 1].pkt = p
      BY <1>1
    <2>2. QED
      BY <1>3, <2>1 DEF HasFull
  <1>4. QED
    BY <1>2, <1>3 DEF u

\* A packet that is no cursor changes nothing of what is shown; a cursor packet
\* appended is what is shown.
LEMMA ShownAppended ==
    ASSUME NEW s \in Seq(Byte), NEW p \in Packet, NEW h
    PROVE  /\ (Shown(s, h) /\ p.kind \notin {"full", "short"}) => Shown(s \o Bytes(p), h)
           /\ p.kind \in {"full", "short"} => Shown(s \o Bytes(p), p.hash)
  <1> DEFINE u == s \o Bytes(p)
             n == Len(s)
             m == Size(p)
  <1>1. /\ n \in Nat /\ m \in Nat \ {0} /\ Len(u) = n + m
        /\ \A i \in 1..n : u[i] = s[i]
        /\ \A i \in (n + 1)..(n + m) : u[i].pkt = p
    BY AppendedBytes
  <1> HIDE DEF u, n, m
  <1>2. ASSUME Shown(s, h), p.kind \notin {"full", "short"} PROVE Shown(u, h)
    <2>1. PICK j \in 1..n : /\ IsCursor(s[j]) /\ s[j].pkt.hash = h
                            /\ \A i \in (j+1)..n : IsCursor(s[i]) => s[i].pkt.hash = h
      BY <1>2 DEF Shown, n
    <2>2. j \in 1..Len(u) /\ u[j] = s[j]
      BY <1>1
    <2>3. ASSUME NEW i \in (j+1)..Len(u), IsCursor(u[i]) PROVE u[i].pkt.hash = h
      <3>1. CASE i <= n
        <4>1. i \in (j+1)..n /\ i \in 1..n
          BY <1>1, <3>1
        <4>2. QED
          BY <1>1, <2>1, <2>3, <4>1
      <3>2. CASE i > n
        <4>1. i \in (n + 1)..(n + m)
          BY <1>1, <3>2
        <4>2. QED
          BY <1>1, <1>2, <2>3, <4>1 DEF IsCursor
      <3>3. QED
        BY <1>1, <3>1, <3>2
    <2>4. QED
      BY <2>1, <2>2, <2>3 DEF Shown
  <1>3. ASSUME p.kind \in {"full", "short"} PROVE Shown(u, p.hash)
    <2>1. n + 1 \in 1..Len(u) /\ u[n + 1].pkt = p
      BY <1>1
    <2>2. \A i \in ((n + 1)+1)..Len(u) : i \in (n + 1)..(n + m)
      BY <1>1
    <2>3. \A i \in ((n + 1)+1)..Len(u) : u[i].pkt = p
      BY <1>1, <2>2
    <2>4. QED
      BY <1>3, <2>1, <2>3 DEF Shown, IsCursor
  <1>4. QED
    BY <1>2, <1>3 DEF u

\* A packet appended to a stream in which short packets follow full ones keeps
\* it so, if it is not short or its full packet is there.
LEMMA ShortAppended ==
    ASSUME NEW s \in Seq(Byte), NEW p \in Packet,
           \A j \in 1..Len(s) : s[j].pkt.kind = "short" =>
               \E i \in 1..(j-1) : s[i].pkt.kind = "full" /\ s[i].pkt.hash = s[j].pkt.hash,
           p.kind = "short" => HasFull(s, p.hash)
    PROVE  \A j \in 1..Len(s \o Bytes(p)) :
               (s \o Bytes(p))[j].pkt.kind = "short" =>
                   \E i \in 1..(j-1) :
                       /\ (s \o Bytes(p))[i].pkt.kind = "full"
                       /\ (s \o Bytes(p))[i].pkt.hash = (s \o Bytes(p))[j].pkt.hash
  <1> DEFINE u == s \o Bytes(p)
             n == Len(s)
             m == Size(p)
  <1>1. /\ n \in Nat /\ m \in Nat \ {0} /\ Len(u) = n + m
        /\ \A i \in 1..n : u[i] = s[i]
        /\ \A i \in (n + 1)..(n + m) : u[i].pkt = p
    BY AppendedBytes
  <1>2. /\ \A j \in 1..n : s[j].pkt.kind = "short" =>
               \E i \in 1..(j-1) : s[i].pkt.kind = "full" /\ s[i].pkt.hash = s[j].pkt.hash
        /\ p.kind = "short" =>
               \E i \in 1..n : s[i].pkt.kind = "full" /\ s[i].pkt.hash = p.hash
    BY DEF HasFull
  <1> HIDE DEF u, n, m
  <1>3. ASSUME NEW j \in 1..Len(u), u[j].pkt.kind = "short"
        PROVE  \E i \in 1..(j-1) : u[i].pkt.kind = "full" /\ u[i].pkt.hash = u[j].pkt.hash
    <2>1. CASE j <= n
      <3>1. j \in 1..n /\ u[j] = s[j]
        BY <1>1, <2>1
      <3>2. PICK i \in 1..(j-1) : s[i].pkt.kind = "full" /\ s[i].pkt.hash = s[j].pkt.hash
        BY <1>2, <1>3, <3>1
      <3>3. u[i] = s[i]
        BY <1>1, <3>1
      <3>4. QED
        BY <3>1, <3>2, <3>3
    <2>2. CASE j > n
      <3>1. u[j].pkt = p
        BY <1>1, <2>2
      <3>2. PICK i \in 1..n : s[i].pkt.kind = "full" /\ s[i].pkt.hash = p.hash
        BY <1>2, <1>3, <3>1
      <3>3. u[i] = s[i] /\ i \in 1..(j-1)
        BY <1>1, <2>2
      <3>4. QED
        BY <3>1, <3>2, <3>3
    <2>3. QED
      BY <1>1, <2>1, <2>2
  <1>4. QED
    BY <1>3 DEF u

\* What a sender's step leaves alone: every packet, SendCursor's cache, and the
\* other threads.
LEMMA SenderFrame ==
    ASSUME TypeOK, NEW t \in Threads, SendStep(t)
    PROVE  /\ UNCHANGED <<packet, cachedHashes, lastSentHash, built>>
           /\ \A u \in Threads \ {t} : pc'[u] = pc[u] /\ offset'[u] = offset[u]
           /\ pc[t] \in {"wait", "flush", "direct", "flushOnly"}
           /\ pc'[t] \in {pc[t], "flush", "direct", "idle"} \/ pc'[t] = AfterSend(t, TRUE)
  <1>0. pc \in [Threads -> PCs] /\ offset \in [Threads -> Nat]
    BY DEF TypeOK
  <1>1. ASSUME NEW d \in BOOLEAN, Release(t, d)
        PROVE  /\ \A u \in Threads \ {t} : pc'[u] = pc[u]
               /\ pc'[t] \in {"idle", AfterSend(t, TRUE)}
    BY <1>0, <1>1 DEF Release, AfterSend
  <1>2. CASE Acquire(t)
    BY <1>0, <1>2 DEF Acquire, cacheVars
  <1>3. CASE FlushSent(t)
    <2>1. /\ UNCHANGED <<packet, offset, cachedHashes, lastSentHash, built>>
          /\ pc[t] \in {"flush", "flushOnly"}
          /\ UNCHANGED pc \/ pc' = [pc EXCEPT ![t] = "direct"] \/ Release(t, FALSE)
      BY <1>3 DEF FlushSent, cacheVars
    <2>2. QED
      BY <1>0, <1>1, <2>1
  <1>4. CASE DirectSent(t)
    <2>1. /\ UNCHANGED <<packet, cachedHashes, lastSentHash, built>>
          /\ pc[t] = "direct"
          /\ \A u \in Threads \ {t} : offset'[u] = offset[u]
          /\ UNCHANGED pc \/ Release(t, TRUE)
      BY <1>0, <1>4 DEF DirectSent, cacheVars
    <2>2. QED
      BY <1>0, <1>1, <2>1
  <1>5. CASE \/ FlushFailed(t) \/ DirectFailed(t)
             \/ Drop(t) \/ Enqueue(t) \/ Overflow(t)
    <2>1. /\ UNCHANGED <<packet, offset, cachedHashes, lastSentHash, built>>
          /\ pc[t] \in {"flush", "direct", "flushOnly"}
          /\ Release(t, FALSE) \/ Release(t, TRUE)
      BY <1>5 DEF FlushFailed, DirectFailed, Drop, Enqueue, Overflow, cacheVars
    <2>2. QED
      BY <1>0, <1>1, <2>1
  <1>6. QED
    BY <1>2, <1>3, <1>4, <1>5 DEF SendStep

\* What the main loop and the client leave alone: packets, the cache, and every
\* thread but the server's, which stays outside SendOrQueue.
LEMMA QuietFrame ==
    ASSUME TypeOK, MainLoop \/ ClientReads \/ PeerResets
    PROVE  /\ UNCHANGED <<packet, offset, cachedHashes, lastSentHash, built>>
           /\ \A u \in Threads :
                  \/ pc'[u] = pc[u]
                  \/ /\ u = ServerThread
                     /\ pc[u] \notin {"wait", "flush", "direct", "account"}
                     /\ pc'[u] \notin {"wait", "flush", "direct", "account"}
  <1>0. pc \in [Threads -> PCs] /\ ServerThread \in Threads
    BY ThreadsAssumption DEF TypeOK, Threads
  <1>1. CASE PollWritable \/ Close \/ CloseSocket
    BY <1>0, <1>1 DEF PollWritable, Close, CloseSocket, cacheVars
  <1>2. CASE AcquireFlush \/ FlushBlocked
    BY <1>0, <1>2 DEF AcquireFlush, FlushBlocked, Release, AfterSend, cacheVars
  <1>3. CASE ReceiveEnds \/ ClientReads \/ PeerResets
    BY <1>3 DEF ReceiveEnds, ClientReads, PeerResets, cacheVars
  <1>4. QED
    BY <1>1, <1>2, <1>3 DEF MainLoop

\* One step of a sender keeps the cursor protocol.
LEMMA CursorSenderStep ==
    ASSUME TypeOK, TypeOK', LockDiscipline, LockDiscipline', CursorInv,
           NEW t \in Threads, SendStep(t), connected' => connected
    PROVE  CursorInv'
  <1> DEFINE C == CursorThread
             p == packet[t]
  <1>0. /\ C \in Threads /\ packet \in [Threads -> Packet] /\ p \in Packet
        /\ SenderKinds /\ CacheHeld /\ ShownHeld /\ ShortAfterFull
    BY DEF Threads, TypeOK, CursorInv
  <1>1. /\ UNCHANGED <<packet, cachedHashes, lastSentHash>>
        /\ \A u \in Threads \ {t} : pc'[u] = pc[u] /\ offset'[u] = offset[u]
        /\ pc[t] \in {"wait", "flush", "direct", "flushOnly"}
        /\ pc'[t] \in {pc[t], "flush", "direct", "idle"} \/ pc'[t] = AfterSend(t, TRUE)
    BY SenderFrame
  <1>2. SenderKinds'
    <2>1. CASE t = C
      BY <1>0, <1>1, <2>1 DEF SenderKinds, AfterSend
    <2>2. CASE t # C
      BY <1>0, <1>1, <2>2 DEF SenderKinds
    <2>3. QED
      BY <2>1, <2>2
  <1>3. ASSUME connected'
        PROVE  /\ connected /\ Stream \in Seq(Byte)
               /\ \/ Stream' = Stream /\ (Joined(C)' <=> Joined(C))
                  \/ /\ Stream' = Stream \o Bytes(p)
                     /\ IF t = C THEN Joined(C)' ELSE Joined(C)' <=> Joined(C)
    <2>1. connected /\ Stream \in Seq(Byte)
      BY <1>3, StreamParts
    <2>2. t # C => (Joined(C)' <=> Joined(C))
      BY <1>0, <1>1 DEF Joined
    <2>3. \/ /\ Stream' = Stream
             /\ t = CursorThread => (Joined(t)' <=> Joined(t))
          \/ /\ Stream' = Stream \o Bytes(p)
             /\ t = CursorThread => Joined(t)'
      BY <1>3, SenderStream
    <2>4. QED
      BY <2>1, <2>2, <2>3
  <1>4. t = C => pc[C] # "idle" /\ p.kind \in {"full", "short"}
    BY <1>0, <1>1 DEF SenderKinds
  <1>5. t # C => p.kind \in {"text", "cmd"}
    BY <1>0 DEF SenderKinds
  <1>6. pc'[C] # "idle" => pc[C] # "idle"
    BY <1>0, <1>1, <1>4
  <1> HIDE DEF p, C
  <1>7. CacheHeld'
    <2> SUFFICES ASSUME connected'
                 PROVE  /\ \A h \in cachedHashes' : HasFull(Stream', h)
                        /\ (/\ pc'[C] # "idle"
                            /\ packet[C].kind = "short" \/ Joined(C)') =>
                               HasFull(Stream', packet[C].hash)
      BY <1>1 DEF CacheHeld, HasFull, C
    <2>1. /\ \A h \in cachedHashes : HasFull(Stream, h)
          /\ (/\ pc[C] # "idle"
              /\ packet[C].kind = "short" \/ Joined(C)) => HasFull(Stream, packet[C].hash)
      BY <1>0, <1>3 DEF CacheHeld, C
    <2>2. \A h : HasFull(Stream, h) => HasFull(Stream', h)
      BY <1>0, <1>3, FullAppended
    <2>3. \A h \in cachedHashes' : HasFull(Stream', h)
      BY <1>1, <2>1, <2>2
    <2>4. ASSUME pc'[C] # "idle", packet[C].kind = "short" \/ Joined(C)'
          PROVE  HasFull(Stream', packet[C].hash)
      <3>1. CASE packet[C].kind = "short" \/ Joined(C)
        BY <1>6, <2>1, <2>2, <2>4, <3>1
      <3>2. CASE packet[C].kind # "short" /\ ~Joined(C)
        <4>1. Stream' = Stream \o Bytes(p) /\ t = C
          BY <1>3, <2>4, <3>2
        <4>2. p.kind = "full" /\ packet[C] = p
          BY <1>4, <3>2, <4>1 DEF p
        <4>3. QED
          BY <1>0, <1>3, <4>1, <4>2, FullAppended
      <3>3. QED
        BY <3>1, <3>2
    <2>5. QED
      BY <2>3, <2>4
  <1>8. ShownHeld'
    <2> SUFFICES ASSUME connected'
                 PROVE  IF Joined(C)' THEN Shown(Stream', packet[C].hash)
                        ELSE lastSentHash # 0 => Shown(Stream', lastSentHash)
      BY <1>1 DEF ShownHeld, Shown, C
    <2>1. IF Joined(C) THEN Shown(Stream, packet[C].hash)
          ELSE lastSentHash # 0 => Shown(Stream, lastSentHash)
      BY <1>0, <1>3 DEF ShownHeld, C
    <2>2. CASE Stream' = Stream /\ (Joined(C)' <=> Joined(C))
      BY <2>1, <2>2
    <2>3. CASE Stream' = Stream \o Bytes(p) /\ t = C
      <3>1. Joined(C)' /\ packet[C] = p
        <4>1. CASE Stream' = Stream /\ (Joined(C)' <=> Joined(C))
          <5>1. Len(Stream) = Len(Stream) + Size(p) /\ Len(Stream) \in Nat /\ Size(p) \in Nat \ {0}
            BY <1>0, <1>3, <2>3, <4>1, AppendedBytes
          <5>2. QED
            BY <5>1
        <4>2. QED
          BY <1>3, <2>3, <4>1 DEF p
      <3>2. Shown(Stream', p.hash)
        BY <1>0, <1>3, <1>4, <2>3, ShownAppended
      <3>3. QED
        BY <3>1, <3>2
    <2>4. CASE Stream' = Stream \o Bytes(p) /\ t # C
      <3>1. Joined(C)' <=> Joined(C)
        BY <1>3, <2>4
      <3>2. p.kind \notin {"full", "short"}
        BY <1>5, <2>4
      <3>3. \A h : Shown(Stream, h) => Shown(Stream', h)
        BY <1>0, <1>3, <2>4, <3>2, ShownAppended
      <3>4. QED
        BY <2>1, <3>1, <3>3
    <2>5. QED
      BY <1>3, <2>2, <2>3, <2>4
  <1>9. ShortAfterFull'
    <2> DEFINE After(s) ==
                 \A j \in 1..Len(s) : s[j].pkt.kind = "short" =>
                     \E i \in 1..(j-1) : /\ s[i].pkt.kind = "full"
                                         /\ s[i].pkt.hash = s[j].pkt.hash
    <2> SUFFICES ASSUME connected' PROVE After(Stream')
      BY DEF ShortAfterFull
    <2>1. After(Stream)
      BY <1>0, <1>3 DEF ShortAfterFull
    <2>2. CASE Stream' = Stream \o Bytes(p)
      <3>1. p.kind = "short" => HasFull(Stream, p.hash)
        BY <1>0, <1>3, <1>4, <1>5 DEF CacheHeld, p, C
      <3>2. Stream \in Seq(Byte) /\ p \in Packet
        BY <1>0, <1>3
      <3>3. After(Stream \o Bytes(p))
        BY <2>1, <3>1, <3>2, ShortAppended, Zenon
      <3>4. QED
        BY <2>2, <3>3
    <2>3. QED
      BY <1>3, <2>1, <2>2
  <1>10. QED
    BY <1>2, <1>7, <1>8, <1>9 DEF CursorInv

\* Any other step keeps it: the one that matters is SendCursor booking a packet.
LEMMA CursorOtherStep ==
    ASSUME TypeOK, LockDiscipline, CursorInv, Next,
           ~ \E t \in Threads : SendStep(t),
           connected' => connected /\ Stream' = Stream
    PROVE  CursorInv'
  <1> DEFINE C == CursorThread
  <1>0. /\ C \in Threads /\ TextThread \in Threads /\ CommandThreads \subseteq Threads
        /\ ServerThread \in Threads /\ ServerThread # C
        /\ pc \in [Threads -> PCs] /\ packet \in [Threads -> Packet]
        /\ offset \in [Threads -> Nat]
        /\ SenderKinds /\ CacheHeld /\ ShownHeld /\ ShortAfterFull
    BY ThreadsAssumption DEF Threads, TypeOK, CursorInv
  <1>1. ShortAfterFull'
    BY <1>0 DEF ShortAfterFull
  <1>2. ASSUME UNCHANGED <<pc[C], packet[C], offset[C], cachedHashes, lastSentHash>>,
               SenderKinds'
        PROVE  CursorInv'
    <2>1. Joined(C)' <=> Joined(C)
      BY <1>2 DEF Joined
    <2>2. CacheHeld'
      BY <1>0, <1>2, <2>1 DEF CacheHeld, HasFull
    <2>3. ShownHeld'
      BY <1>0, <1>2, <2>1 DEF ShownHeld, Shown
    <2>4. QED
      BY <1>1, <1>2, <2>2, <2>3 DEF CursorInv
  <1>3. ASSUME NEW t \in Threads \ {C}, NEW kind \in {"text", "cmd"}, Build(t, kind, 0)
        PROVE  CursorInv'
    <2>1. UNCHANGED <<pc[C], packet[C], offset[C], cachedHashes, lastSentHash>>
      BY <1>0, <1>3 DEF Build, cacheVars
    <2>2. SenderKinds'
      BY <1>0, <1>3 DEF Build, SenderKinds
    <2>3. QED
      BY <1>2, <2>1, <2>2
  <1>4. ASSUME NEW h \in Hashes, SendCursor(h) PROVE CursorInv'
    <2>1. /\ pc[C] = "idle" /\ pc' = [pc EXCEPT ![C] = "wait"]
          /\ packet' = [packet EXCEPT ![C] =
                [id |-> built + 1, kind |-> CursorKind(h), hash |-> h]]
          /\ UNCHANGED <<cachedHashes, lastSentHash>>
      BY <1>4 DEF SendCursor, Build, cacheVars
    <2>2. /\ pc'[C] = "wait" /\ packet'[C].kind = CursorKind(h) /\ packet'[C].hash = h
          /\ \A t \in Threads \ {C} : packet'[t] = packet[t]
      BY <1>0, <2>1
    <2>3. SenderKinds'
      BY <1>0, <2>2 DEF SenderKinds, CursorKind
    <2>4. ~Joined(C) /\ ~Joined(C)'
      BY <2>1, <2>2 DEF Joined
    <2>5. CacheHeld'
      BY <1>0, <2>1, <2>2, <2>4 DEF CacheHeld, CursorKind, HasFull
    <2>6. ShownHeld'
      BY <1>0, <2>1, <2>4 DEF ShownHeld, Shown
    <2>7. QED
      BY <1>1, <2>3, <2>5, <2>6 DEF CursorInv
  <1>5. CASE Account
    <2>1. /\ pc[C] = "account" /\ pc' = [pc EXCEPT ![C] = "idle"]
          /\ UNCHANGED packet
          /\ cachedHashes' \subseteq cachedHashes \cup {packet[C].hash}
          /\ lastSentHash' \in {packet[C].hash, 0}
      BY <1>5 DEF Account
    <2>2. pc'[C] = "idle" /\ Joined(C) /\ ~Joined(C)'
      BY <1>0, <2>1 DEF Joined
    <2>3. SenderKinds'
      BY <1>0, <2>1, <2>2 DEF SenderKinds
    <2>4. CacheHeld'
      <3> SUFFICES ASSUME connected' PROVE \A h \in cachedHashes' : HasFull(Stream', h)
        BY <2>2 DEF CacheHeld, HasFull
      <3>1. /\ \A h \in cachedHashes : HasFull(Stream, h)
            /\ HasFull(Stream, packet[C].hash)
        BY <1>0, <2>1, <2>2 DEF CacheHeld
      <3>2. QED
        BY <2>1, <3>1
    <2>5. ShownHeld'
      <3> SUFFICES ASSUME connected', lastSentHash' # 0 PROVE Shown(Stream', lastSentHash')
        BY <2>2 DEF ShownHeld, Shown
      <3>1. Shown(Stream, packet[C].hash)
        BY <1>0, <2>2 DEF ShownHeld
      <3>2. QED
        BY <2>1, <3>1
    <2>6. QED
      BY <1>1, <2>3, <2>4, <2>5 DEF CursorInv
  <1>6. CASE MainLoop \/ ClientReads \/ PeerResets
    <2>1. /\ UNCHANGED <<packet, offset, cachedHashes, lastSentHash>>
          /\ pc'[C] = pc[C]
      BY <1>0, <1>6, QuietFrame
    <2>2. SenderKinds'
      BY <1>0, <2>1 DEF SenderKinds
    <2>3. QED
      BY <1>2, <2>1, <2>2
  <1>7. CASE SendTextCursorState \/ \E t \in CommandThreads : SendCommand(t)
    BY <1>0, <1>3, <1>7, ThreadsAssumption DEF SendTextCursorState, SendCommand
  <1>8. QED
    BY <1>4, <1>5, <1>6, <1>7 DEF Next, CursorWorker

\* The cursor protocol holds for every cache limit and every interleaving: the
\* client has the full packet of every hash SendCursor has booked, and shows
\* the cursor whose repetition SendCursor suppresses.
THEOREM CursorProtocol == Spec => []CursorInv
  <1>1. Init => CursorInv
    <2> SUFFICES ASSUME Init PROVE CursorInv
      OBVIOUS
    <2>1. Stream = <<>> /\ Len(<<>>) = 0
      BY ConcatEmptySeq, EmptySeq DEF Init, Stream, Pending
    <2>2. ~Joined(CursorThread) /\ CursorThread \in Threads
      BY DEF Init, Joined, Threads
    <2>3. QED
      BY <2>1, <2>2 DEF Init, CursorInv, SenderKinds, CacheHeld, ShownHeld,
                        ShortAfterFull, NoPacket
  <1>2. TypeOK /\ TypeOK' /\ FramingInv /\ FramingInv' /\ CursorInv /\ [Next]_vars
            => CursorInv'
    <2> SUFFICES ASSUME TypeOK, TypeOK', FramingInv, FramingInv', CursorInv, [Next]_vars
                 PROVE  CursorInv'
      OBVIOUS
    <2>1. /\ LockDiscipline /\ LockDiscipline' /\ ClosingIsDisconnected
          /\ connected' => connected
      BY NoReconnect DEF FramingInv
    <2>2. CASE \E t \in Threads : SendStep(t)
      BY <2>1, <2>2, CursorSenderStep
    <2>3. CASE Next /\ ~ \E t \in Threads : SendStep(t)
      BY <2>1, <2>3, OtherStream, CursorOtherStep
    <2>4. CASE UNCHANGED vars
      <3>1. Stream' = Stream
        BY <2>4 DEF vars, Stream, Pending, Remainder
      <3>2. UNCHANGED <<connected, pc, packet, offset, cachedHashes, lastSentHash>>
        BY <2>4 DEF vars, cacheVars
      <3>3. SenderKinds' /\ ShortAfterFull'
        BY <3>1, <3>2 DEF CursorInv, SenderKinds, ShortAfterFull
      <3>4. CacheHeld'
        BY <3>1, <3>2 DEF CursorInv, CacheHeld, Joined, HasFull
      <3>5. ShownHeld'
        BY <3>1, <3>2 DEF CursorInv, ShownHeld, Joined, Shown
      <3>6. QED
        BY <3>3, <3>4, <3>5 DEF CursorInv
    <2>5. QED
      BY <2>2, <2>3, <2>4
  <1>3. QED
    BY <1>1, <1>2, TypeCorrect, FramingHolds, PTL DEF Spec

\* A client never gets a short cursor packet before the full packet of its hash:
\* SendCursor's short packets always name a cursor the client can draw ...
THEOREM ShortFollowsFull == Spec => []ShortAfterFull
  BY CursorProtocol, PTL DEF CursorInv

\* ... and the frames SendCursor leaves out show what the client shows already.
THEOREM SuppressedFrameShown == Spec => []SuppressedIsShown
  <1>1. CursorInv => SuppressedIsShown
    BY DEF CursorInv, ShownHeld, SuppressedIsShown, Joined, Shown
  <1>2. QED
    BY <1>1, CursorProtocol, PTL

(* ------------------- the session implements the channel ---------------- *)

\* Packets are told apart: each one built is new, and while its thread has not
\* sent it no byte of it is in the stream.
Fresh ==
    /\ built <= MaxPackets
    /\ \A t \in Threads : packet[t].id <= built
    /\ \A t \in Threads : Ready(t) => packet[t] \in Buildable
    /\ \A t, u \in Threads :
           (Ready(t) /\ Ready(u) /\ t # u) => packet[t].id # packet[u].id
    /\ connected =>
           \A j \in 1..Len(Stream) :
               /\ Stream[j].pkt.id <= built
               /\ \A t \in Threads : Ready(t) => Stream[j].pkt.id # packet[t].id

\* One step of a sender keeps packets apart.
LEMMA FreshSenderStep ==
    ASSUME TypeOK, TypeOK', LockDiscipline, LockDiscipline', Fresh,
           NEW t \in Threads, SendStep(t), connected' => connected
    PROVE  Fresh'
  <1> DEFINE p == packet[t]
  <1>0. packet \in [Threads -> Packet] /\ p \in Packet /\ built \in Nat
    BY DEF TypeOK
  <1>1. /\ UNCHANGED <<packet, built>>
        /\ \A u \in Threads \ {t} : pc'[u] = pc[u] /\ offset'[u] = offset[u]
        /\ pc[t] \in {"wait", "flush", "direct", "flushOnly"}
    BY SenderFrame
  <1>2. \A u \in Threads \ {t} : Ready(u)' <=> Ready(u)
    BY <1>1 DEF Ready
  <1>3. Ready(t)' => Ready(t)
    <2>1. CASE pc[t] \in {"wait", "flush"}
      BY <2>1 DEF Ready
    <2>2. CASE pc[t] = "flushOnly"
      <3>1. FlushSent(t) \/ FlushFailed(t)
        BY <2>2 DEF SendStep, Acquire, DirectSent, DirectFailed, Drop, Enqueue, Overflow
      <3>2. pc'[t] \in {"flushOnly", "idle"}
        BY <2>2, <3>1 DEF FlushSent, FlushFailed, Release, AfterSend, TypeOK
      <3>3. QED
        BY <3>2 DEF Ready
    <2>3. CASE pc[t] = "direct"
      <3>1. /\ offset \in [Threads -> Nat] /\ Len(Remainder(t)) \in Nat
        BY RemainderType, LenProperties DEF TypeOK
      <3>2. CASE DirectSent(t)
        <4>1. PICK k \in 1..Len(Remainder(t)) : offset' = [offset EXCEPT ![t] = @ + k]
          BY <3>2 DEF DirectSent
        <4>2. offset'[t] > 0
          BY <3>1, <4>1
        <4>3. pc'[t] \notin {"wait", "flush"}
          BY <2>3, <3>2 DEF DirectSent, Release, AfterSend, TypeOK
        <4>4. QED
          BY <4>2, <4>3 DEF Ready
      <3>3. CASE DirectFailed(t) \/ Drop(t) \/ Enqueue(t) \/ Overflow(t)
        BY <3>3 DEF DirectFailed, Drop, Enqueue, Overflow, Release, AfterSend, TypeOK, Ready
      <3>4. QED
        BY <2>3, <3>2, <3>3 DEF SendStep, Acquire, FlushSent, FlushFailed
    <2>4. QED
      BY <1>1, <2>1, <2>2, <2>3
  <1>4. \A u \in Threads : Ready(u)' => Ready(u)
    BY <1>2, <1>3
  <1>5. ASSUME connected', NEW j \in 1..Len(Stream')
        PROVE  /\ Stream'[j].pkt.id <= built
               /\ \A u \in Threads : Ready(u)' => Stream'[j].pkt.id # packet[u].id
    <2>1. /\ connected /\ Stream \in Seq(Byte)
          /\ \A i \in 1..Len(Stream) :
                /\ Stream[i].pkt.id <= built
                /\ \A u \in Threads : Ready(u) => Stream[i].pkt.id # packet[u].id
      BY <1>5, StreamParts DEF Fresh
    <2>2. CASE Stream' = Stream
      BY <1>4, <1>5, <2>1, <2>2
    <2>3. CASE Stream' = Stream \o Bytes(p) /\ Ready(t) /\ ~Ready(t)'
      <3>1. /\ Len(Stream) \in Nat /\ Size(p) \in Nat \ {0}
            /\ Len(Stream') = Len(Stream) + Size(p)
            /\ \A i \in 1..Len(Stream) : Stream'[i] = Stream[i]
            /\ \A i \in (Len(Stream) + 1)..(Len(Stream) + Size(p)) : Stream'[i].pkt = p
        BY <1>0, <2>1, <2>3, AppendedBytes
      <3>2. CASE j <= Len(Stream)
        BY <1>4, <2>1, <3>1, <3>2
      <3>3. CASE j > Len(Stream)
        <4>1. Stream'[j].pkt = p
          BY <3>1, <3>3
        <4>2. \A u \in Threads : Ready(u)' => p.id # packet[u].id
          BY <1>4, <2>3 DEF Fresh
        <4>3. QED
          BY <4>1, <4>2 DEF Fresh
      <3>4. QED
        BY <3>1, <3>2, <3>3
    <2>4. QED
      BY <1>5, <2>2, <2>3, SenderStream
  <1>6. QED
    <2>1. /\ built' <= MaxPackets
          /\ \A u \in Threads : packet'[u].id <= built'
          /\ \A u \in Threads : Ready(u)' => packet'[u] \in Buildable
          /\ \A u, v \in Threads :
                 (Ready(u)' /\ Ready(v)' /\ u # v) => packet'[u].id # packet'[v].id
      BY <1>1, <1>4 DEF Fresh
    <2>2. connected' => \A j \in 1..Len(Stream') :
                 /\ Stream'[j].pkt.id <= built'
                 /\ \A u \in Threads : Ready(u)' => Stream'[j].pkt.id # packet'[u].id
      BY <1>1, <1>5
    <2>3. QED
      BY <2>1, <2>2 DEF Fresh

\* Every other step keeps them apart: a packet is built with a number that has
\* not been used.
LEMMA FreshOtherStep ==
    ASSUME TypeOK, Fresh, Next, ~ \E t \in Threads : SendStep(t),
           connected' => connected /\ Stream' = Stream
    PROVE  Fresh'
  <1>0. /\ CursorThread \in Threads /\ TextThread \in Threads
        /\ CommandThreads \subseteq Threads
        /\ pc \in [Threads -> PCs] /\ packet \in [Threads -> Packet]
        /\ offset \in [Threads -> Nat] /\ built \in Nat
        /\ MaxPackets \in Nat /\ Hashes \subseteq Nat
    BY SizesAssumption DEF Threads, TypeOK
  <1>1. ASSUME UNCHANGED <<packet, built>>,
               \A u \in Threads : Ready(u)' => Ready(u)
        PROVE  Fresh'
    <2>1. /\ built' <= MaxPackets
          /\ \A u \in Threads : packet'[u].id <= built'
          /\ \A u \in Threads : Ready(u)' => packet'[u] \in Buildable
          /\ \A u, v \in Threads :
                 (Ready(u)' /\ Ready(v)' /\ u # v) => packet'[u].id # packet'[v].id
      BY <1>1 DEF Fresh
    <2>2. connected' => \A j \in 1..Len(Stream') :
                 /\ Stream'[j].pkt.id <= built'
                 /\ \A u \in Threads : Ready(u)' => Stream'[j].pkt.id # packet'[u].id
      BY <1>1 DEF Fresh
    <2>3. QED
      BY <2>1, <2>2 DEF Fresh
  <1>2. ASSUME NEW t \in Threads, NEW kind \in Kinds, NEW h \in Hashes \cup {0},
               Build(t, kind, h)
        PROVE  Fresh'
    <2> DEFINE p == [id |-> built + 1, kind |-> kind, hash |-> h]
    <2>1. /\ built' = built + 1 /\ built < MaxPackets
          /\ packet' = [packet EXCEPT ![t] = p]
          /\ offset' = [offset EXCEPT ![t] = 0]
          /\ pc' = [pc EXCEPT ![t] = "wait"]
      BY <1>2 DEF Build
    <2>2. p \in Buildable /\ p.id = built + 1
      BY <1>0, <2>1 DEF Buildable
    <2>3. \A u \in Threads : packet[u].id \in Nat /\ packet[u].id <= built
      BY <1>0 DEF Fresh, Packet
    <2>4. /\ packet'[t] = p
          /\ \A u \in Threads \ {t} : packet'[u] = packet[u] /\ (Ready(u)' <=> Ready(u))
      BY <1>0, <2>1 DEF Ready
    <2> HIDE DEF p
    <2>5. /\ built' <= MaxPackets
          /\ \A u \in Threads : packet'[u].id <= built'
      BY <1>0, <2>1, <2>2, <2>3, <2>4
    <2>6. \A u \in Threads : Ready(u)' => packet'[u] \in Buildable
      BY <2>2, <2>4 DEF Fresh
    <2>7. ASSUME NEW u \in Threads, NEW v \in Threads, Ready(u)', Ready(v)', u # v
          PROVE  packet'[u].id # packet'[v].id
      <3>1. CASE u # t /\ v # t
        BY <2>4, <2>7, <3>1 DEF Fresh
      <3>2. CASE u = t
        BY <1>0, <2>2, <2>3, <2>4, <2>7, <3>2
      <3>3. CASE v = t
        BY <1>0, <2>2, <2>3, <2>4, <2>7, <3>3
      <3>4. QED
        BY <3>1, <3>2, <3>3
    <2>8. ASSUME connected', NEW j \in 1..Len(Stream')
          PROVE  /\ Stream'[j].pkt.id <= built'
                 /\ \A u \in Threads : Ready(u)' => Stream'[j].pkt.id # packet'[u].id
      <3>1. connected /\ Stream' = Stream /\ j \in 1..Len(Stream)
        BY <2>8
      <3>2. /\ Stream[j].pkt.id <= built
            /\ \A u \in Threads : Ready(u) => Stream[j].pkt.id # packet[u].id
        BY <3>1 DEF Fresh
      <3>3. Stream[j].pkt.id \in Int
        <4>1. Stream' \in Seq(Byte) \/ Stream \in Seq(Byte)
          <5>1. wire \in Seq(Byte) /\ sendQueue \in Seq(Byte)
            BY DEF TypeOK
          <5>2. lock # NoThread => lock \in Threads
            BY DEF TypeOK
          <5>3. Pending \in Seq(Byte)
            BY <5>2, RemainderType, EmptySeq DEF Pending
          <5>4. wire \o sendQueue \in Seq(Byte)
            BY <5>1, ConcatProperties
          <5>5. QED
            BY <5>3, <5>4, ConcatProperties DEF Stream
        <4>2. Stream[j] \in Byte
          BY <3>1, <4>1, ElementOfSeq
        <4>3. QED
          BY <4>2 DEF Byte, Packet
      <3>4. Stream[j].pkt.id <= built' /\ Stream[j].pkt.id # packet'[t].id
        BY <1>0, <2>1, <2>2, <2>4, <3>2, <3>3
      <3>5. QED
        BY <2>4, <3>1, <3>2, <3>4
    <2>9. QED
      BY <2>5, <2>6, <2>7, <2>8 DEF Fresh
  <1>3. CASE \E h \in Hashes : SendCursor(h)
    BY <1>0, <1>2, <1>3 DEF SendCursor, CursorKind, Kinds
  <1>4. CASE SendTextCursorState \/ \E t \in CommandThreads : SendCommand(t)
    BY <1>0, <1>2, <1>4 DEF SendTextCursorState, SendCommand, Kinds
  <1>5. CASE Account
    BY <1>0, <1>1, <1>5 DEF Account, Ready
  <1>6. CASE MainLoop \/ ClientReads \/ PeerResets
    <2>1. /\ UNCHANGED <<packet, offset, built>>
          /\ \A u \in Threads :
                 \/ pc'[u] = pc[u]
                 \/ pc'[u] \notin {"wait", "flush", "direct", "account"}
      BY <1>6, QuietFrame
    <2>2. \A u \in Threads : Ready(u)' => Ready(u)
      BY <2>1 DEF Ready
    <2>3. QED
      BY <1>1, <2>1, <2>2
  <1>7. QED
    BY <1>3, <1>4, <1>5, <1>6 DEF Next, CursorWorker

\* send() only ever adds to what is on the wire.
LEMMA WireGrows ==
    ASSUME TypeOK, TypeOK', [Next]_vars
    PROVE  Len(wire) \in Nat /\ Len(wire') \in Nat /\ Len(wire) <= Len(wire')
  <1>1. Len(wire) \in Nat /\ Len(wire') \in Nat /\ wire \in Seq(Byte)
    BY LenProperties DEF TypeOK
  <1>2. ASSUME NEW t \in Threads, FlushSent(t) PROVE Len(wire) <= Len(wire')
    <2>1. PICK k \in 1..Len(sendQueue) : wire' = wire \o SubSeq(sendQueue, 1, k)
      BY <1>2 DEF FlushSent
    <2>2. SubSeq(sendQueue, 1, k) \in Seq(Byte) /\ Len(SubSeq(sendQueue, 1, k)) \in Nat
      BY CutAndJoin, LenProperties DEF TypeOK
    <2>3. QED
      BY <1>1, <2>1, <2>2, ConcatProperties
  <1>3. ASSUME NEW t \in Threads, DirectSent(t) PROVE Len(wire) <= Len(wire')
    <2> DEFINE R == Remainder(t)
    <2>0. R \in Seq(Byte)
      BY RemainderType
    <2>1. PICK k \in 1..Len(R) : wire' = wire \o SubSeq(R, 1, k)
      BY <1>3 DEF DirectSent
    <2> HIDE DEF R
    <2>2. SubSeq(R, 1, k) \in Seq(Byte) /\ Len(SubSeq(R, 1, k)) \in Nat
      BY <2>0, CutAndJoin, LenProperties
    <2>3. QED
      BY <1>1, <2>1, <2>2, ConcatProperties
  <1>4. CASE Next /\ ~ \E t \in Threads : FlushSent(t) \/ DirectSent(t)
    <2>1. wire' = wire
      BY <1>4 DEF Next, CursorWorker, SendCursor, SendTextCursorState, SendCommand,
         Build, Account, SendStep, Acquire, FlushFailed, DirectFailed,
         Drop, Enqueue, Overflow, MainLoop, PollWritable, AcquireFlush, FlushBlocked,
         ReceiveEnds, Close, CloseSocket, ClientReads, PeerResets
    <2>2. QED
      BY <1>1, <2>1
  <1>5. CASE UNCHANGED vars
    BY <1>1, <1>5 DEF vars
  <1>6. QED
    BY <1>1, <1>2, <1>3, <1>4, <1>5

\* Every packet built is new to the stream until its thread sends it.
THEOREM PacketsFresh == Spec => []Fresh
  <1>1. Init => Fresh
    <2> SUFFICES ASSUME Init PROVE Fresh
      OBVIOUS
    <2>1. Stream = <<>> /\ Len(<<>>) = 0
      BY ConcatEmptySeq, EmptySeq DEF Init, Stream, Pending
    <2>2. \A t \in Threads : packet[t].id = 0 /\ ~Ready(t)
      BY DEF Init, Ready, NoPacket
    <2>3. QED
      BY <2>1, <2>2, SizesAssumption DEF Init, Fresh
  <1>2. TypeOK /\ TypeOK' /\ FramingInv /\ FramingInv' /\ Fresh /\ [Next]_vars => Fresh'
    <2> SUFFICES ASSUME TypeOK, TypeOK', FramingInv, FramingInv', Fresh, [Next]_vars
                 PROVE  Fresh'
      OBVIOUS
    <2>1. /\ LockDiscipline /\ LockDiscipline' /\ ClosingIsDisconnected
          /\ connected' => connected
      BY NoReconnect DEF FramingInv
    <2>2. CASE \E t \in Threads : SendStep(t)
      BY <2>1, <2>2, FreshSenderStep
    <2>3. CASE Next /\ ~ \E t \in Threads : SendStep(t)
      BY <2>1, <2>3, OtherStream, FreshOtherStep
    <2>4. CASE UNCHANGED vars
      <3>1. Stream' = Stream
        BY <2>4 DEF vars, Stream, Pending, Remainder
      <3>2. UNCHANGED <<connected, pc, packet, offset, built>>
        BY <2>4 DEF vars
      <3>3. QED
        BY <3>1, <3>2 DEF Fresh, Ready
    <2>5. QED
      BY <2>2, <2>3, <2>4
  <1>3. QED
    BY <1>1, <1>2, TypeCorrect, FramingHolds, PTL DEF Spec

\* What send() has taken is no more than the stream.
SentIsStream == Len(wire) \in Nat /\ Len(Stream) \in Nat /\ Len(wire) <= Len(Stream)

\* The session implements PacketChannel: while it is connected its stream grows
\* by whole packets, each for once, and what has been sent is a beginning of it,
\* whatever the packets, the partial sends and the interleaving of the senders.
THEOREM ImplementsChannel == Spec => ChannelSpec
  <1> DEFINE Chan == IF connected THEN Stream ELSE <<>>
             Arrived == IF connected THEN Len(wire) ELSE 0
  <1>1. Init => Channel!Init
    <2>1. Init => Stream = <<>> /\ Len(wire) = 0
      BY ConcatEmptySeq, EmptySeq DEF Init, Stream, Pending
    <2>2. QED
      BY <2>1 DEF Init, Channel!Init
  <1>2. TypeOK /\ FramingInv => SentIsStream
    <2> SUFFICES ASSUME TypeOK, LockDiscipline PROVE SentIsStream
      BY DEF FramingInv
    <2> DEFINE rest == sendQueue \o Pending
    <2>1. Stream = wire \o rest /\ wire \in Seq(Byte) /\ Stream \in Seq(Byte)
      BY StreamParts DEF TypeOK
    <2>2. rest \in Seq(Byte)
      BY StreamParts, ConcatProperties DEF TypeOK
    <2> HIDE DEF rest
    <2>3. Len(wire \o rest) = Len(wire) + Len(rest) /\ Len(rest) \in Nat /\ Len(wire) \in Nat
      BY <2>1, <2>2, ConcatProperties, LenProperties
    <2>4. QED
      BY <2>1, <2>3 DEF SentIsStream
  <1>3. /\ TypeOK /\ TypeOK' /\ FramingInv /\ FramingInv' /\ Fresh /\ SentIsStream'
        /\ [Next]_vars
        => [Channel!Next]_Channel!vars
    <2> SUFFICES ASSUME TypeOK, TypeOK', FramingInv, FramingInv', Fresh, SentIsStream',
                        [Next]_vars
                 PROVE  [Channel!Next]_Channel!vars
      OBVIOUS
    <2>1. /\ LockDiscipline /\ LockDiscipline' /\ ClosingIsDisconnected
          /\ connected' => connected
          /\ connected \in BOOLEAN /\ connected' \in BOOLEAN
      BY NoReconnect DEF FramingInv, TypeOK
    <2>2. CASE ~connected
      BY <2>1, <2>2 DEF Channel!vars
    <2>3. CASE connected /\ ~connected'
      <3>1. Channel!Break
        BY <2>3 DEF Channel!Break
      <3>2. QED
        BY <3>1 DEF Channel!Next
    <2>4. CASE connected /\ connected'
      <3>1. Chan = Stream /\ Chan' = Stream' /\ Arrived = Len(wire) /\ Arrived' = Len(wire')
        BY <2>4
      <3>2. Arrived' \in Arrived..Len(Chan')
        <4>1. Len(wire) \in Nat /\ Len(wire') \in Nat /\ Len(wire) <= Len(wire')
          BY WireGrows
        <4>2. QED
          BY <3>1, <4>1 DEF SentIsStream
      <3>3. Chan' = Chan \/ \E p \in Buildable : Channel!Accept(p)
        <4>1. CASE \E t \in Threads : SendStep(t)
          <5>1. PICK t \in Threads : SendStep(t)
            BY <4>1
          <5>2. \/ Stream' = Stream
                \/ Stream' = Stream \o Bytes(packet[t]) /\ Ready(t)
            BY <2>1, <2>4, <5>1, SenderStream
          <5>3. ASSUME Stream' = Stream \o Bytes(packet[t]), Ready(t)
                PROVE  \E p \in Buildable : Channel!Accept(p)
            <6>1. packet[t] \in Buildable /\ packet[t] \in Packet
              BY <5>3 DEF Fresh, TypeOK
            <6>2. Bytes(packet[t])[1].pkt = packet[t]
              <7>1. Size(packet[t]) \in Nat \ {0}
                BY <6>1, BytesType
              <7>2. Bytes(packet[t])[1] = [pkt |-> packet[t], at |-> 1]
                BY <7>1 DEF Bytes
              <7>3. QED
                BY <7>2
            <6>3. \A k \in 1..Len(Stream) : Stream[k] # Bytes(packet[t])[1]
              BY <2>4, <5>3, <6>2 DEF Fresh
            <6>4. Channel!Accept(packet[t])
              BY <3>1, <5>3, <6>1, <6>3 DEF Channel!Accept
            <6>5. QED
              BY <6>1, <6>4
          <5>4. QED
            BY <3>1, <5>2, <5>3
        <4>2. CASE Next /\ ~ \E t \in Threads : SendStep(t)
          BY <2>1, <2>4, <3>1, <4>2, OtherStream
        <4>3. CASE UNCHANGED vars
          <5>1. Stream' = Stream
            BY <4>3 DEF vars, Stream, Pending, Remainder
          <5>2. QED
            BY <3>1, <5>1
        <4>4. QED
          BY <4>1, <4>2, <4>3
      <3>4. Channel!Transfer
        BY <2>4, <3>2, <3>3 DEF Channel!Transfer
      <3>5. QED
        BY <3>4 DEF Channel!Next
    <2>5. QED
      BY <2>2, <2>3, <2>4
  <1>4. QED
    BY <1>1, <1>2, <1>3, TypeCorrect, FramingHolds, PacketsFresh, PTL
       DEF Spec, ChannelSpec, Channel!Spec

=============================================================================
