-------------------------- MODULE ReceiveParserProofs --------------------------
(***************************************************************************)
(* That the receive parser never loses its place, for every client, every  *)
(* cut of the stream and every size of header, packet and buffer.          *)
(*                                                                         *)
(* The promises speak of packets, the program of bytes: Layout says where  *)
(* in the stream each packet is, InPlace that the parser stands where one  *)
(* ends and has dispatched what the packets before it ask for.  NextPacket *)
(* joins the two: what the program reads there are the next packet's       *)
(* fields.                                                                 *)
(***************************************************************************)
EXTENDS ReceiveParser, TLAPS

\* The stream is the packets, one behind the other.
Layout ==
    /\ stream \in Seq(Nat) /\ ends \in Seq(Nat)
    /\ Len(ends) = Len(sent) /\ EndOf(Len(sent)) = Len(stream)
    /\ \A n \in DOMAIN sent :
           /\ ends[n] = EndOf(n - 1) + Field + sent[n].bodyLen
           /\ \A i \in 1..(Field + sent[n].bodyLen) :
                  stream[EndOf(n - 1) + i] = BytesOf(sent[n], n)[i]
    /\ \A m, n \in 0..Len(sent) : m < n => EndOf(m) + Field <= EndOf(n)

\* The parser stands behind the n-th packet: it has dispatched what the packets
\* up to there ask for, none of them ends the session, and between two calls the
\* next one is not whole.
ParsedUpTo(n) ==
    /\ parsed + consumed = EndOf(n)
    /\ \A m \in 1..n : ~Ends(sent[m]) /\ (Asked(m) => DispatchedWithin(m, Len(dispatched)))
    /\ \A k \in DOMAIN dispatched : dispatched[k][2] <= n
    /\ pc = "poll" /\ n < Len(sent) => received < ends[n + 1]

\* As long as it will go on parsing, it stands behind a packet.
InPlace ==
    connected \/ pc # "poll" => \E n \in 0..Len(sent) : ParsedUpTo(n)

ParserInv == TypeOK /\ Layout /\ DispatchedInOrder /\ InPlace

-----------------------------------------------------------------------------
(* The stream. *)

\* The assumption's parts.
LEMMA Sizes ==
  /\ Packets \subseteq Packet /\ MaxBody \in Nat /\ Slack \in Nat
  /\ Field \in Nat /\ Field > 0 /\ RecvSize \in Nat /\ RecvSize > 0
  /\ Field <= Slack /\ HeaderSize = 4 * Field /\ HeaderSize <= MaxBody
  BY ReceiveAssumption DEF HeaderSize

\* Where a packet's fields are in its bytes, if its body goes that far.
LEMMA PacketBytes ==
  ASSUME NEW k \in Packet, NEW req \in Nat
  PROVE  LET bytes == BytesOf(k, req)
         IN  /\ k.bodyLen \in Nat
             /\ bytes \in Seq(Nat) /\ Len(bytes) = Field + k.bodyLen
             /\ bytes[1] = k.bodyLen
             /\ Field <= k.bodyLen => bytes[Field + 1] = k.hash
             /\ HeaderSize <= k.bodyLen => /\ bytes[2 * Field + 1] = k.cmd
                                             /\ bytes[3 * Field + 1] = req
                                             /\ bytes[4 * Field + 1] = k.payloadLen
<1> DEFINE bytes == BytesOf(k, req)
<1>1. k.bodyLen \in Nat /\ k.hash \in Nat /\ k.cmd \in Nat /\ k.payloadLen \in Nat
  BY DEF Packet
<1>2. DOMAIN bytes = 1..(Field + k.bodyLen)
  BY DEF BytesOf
<1>3. ASSUME NEW i \in 1..(Field + k.bodyLen)
      PROVE  /\ bytes[i] \in Nat
             /\ i = 1 => bytes[i] = k.bodyLen
             /\ i = Field + 1 => bytes[i] = k.hash
             /\ i = 2 * Field + 1 => bytes[i] = k.cmd
             /\ i = 3 * Field + 1 => bytes[i] = req
             /\ i = 4 * Field + 1 => bytes[i] = k.payloadLen
  <2>1. bytes[i] = CASE i = 1             -> k.bodyLen
                     [] i = Field + 1     -> k.hash
                     [] i = 2 * Field + 1 -> k.cmd
                     [] i = 3 * Field + 1 -> req
                     [] i = 4 * Field + 1 -> k.payloadLen
                     [] OTHER             -> 0
    BY DEF BytesOf
  <2> HIDE DEF bytes
  <2> QED BY <1>1, <2>1, Sizes
<1>4. bytes \in Seq(Nat) /\ Len(bytes) = Field + k.bodyLen
  <2>1. bytes \in [1..(Field + k.bodyLen) -> Nat]
    BY <1>3 DEF BytesOf
  <2> QED BY <1>1, <2>1, Sizes
<1> HIDE DEF bytes
<1>5. bytes[1] = k.bodyLen
  BY <1>1, <1>3, Sizes
<1>6. Field <= k.bodyLen => bytes[Field + 1] = k.hash
  BY <1>1, <1>3, Sizes
<1>7. HeaderSize <= k.bodyLen => /\ bytes[2 * Field + 1] = k.cmd
                                   /\ bytes[3 * Field + 1] = req
                                   /\ bytes[4 * Field + 1] = k.payloadLen
  BY <1>1, <1>3, Sizes
<1> QED BY <1>1, <1>4, <1>5, <1>6, <1>7 DEF bytes

\* The places of the packets in the stream.
LEMMA Positions ==
  ASSUME TypeOK, Layout
  PROVE  /\ DOMAIN sent = 1..Len(sent) /\ Len(sent) \in Nat /\ Len(stream) \in Nat
         /\ \A n \in DOMAIN sent : sent[n] \in Packet /\ ends[n] \in Nat
         /\ \A n \in 0..Len(sent) : EndOf(n) \in Nat /\ EndOf(n) <= Len(stream)
  <1>1. /\ DOMAIN sent = 1..Len(sent) /\ Len(sent) \in Nat /\ Len(stream) \in Nat
        /\ DOMAIN ends = 1..Len(sent)
    BY DEF TypeOK, Layout
  <1>2. \A n \in DOMAIN sent : sent[n] \in Packet
    <2>1. \A n \in DOMAIN sent : sent[n] \in Packets
      BY DEF TypeOK
    <2> QED BY <2>1, Sizes
  <1>3. \A n \in DOMAIN sent : ends[n] \in Nat
    BY <1>1 DEF Layout
  <1>4. ASSUME NEW n \in 0..Len(sent) PROVE EndOf(n) \in Nat /\ EndOf(n) <= Len(stream)
    <2>1. EndOf(n) \in Nat
      BY <1>1, <1>3 DEF EndOf
    <2>2. EndOf(Len(sent)) = Len(stream) /\ (n < Len(sent) => EndOf(n) + Field <= EndOf(Len(sent)))
      BY <1>1 DEF Layout
    <2> QED BY <1>1, <2>1, <2>2, Sizes
  <1> QED BY <1>1, <1>2, <1>3, <1>4

\* What the parser sees where it stands behind the n-th packet: the fields of the
\* next one.
LEMMA NextPacket ==
  ASSUME TypeOK, Layout, NEW n \in 0..Len(sent), parsed + consumed = EndOf(n),
         Avail >= Field
  PROVE  /\ n < Len(sent) /\ n + 1 \in DOMAIN sent
         /\ BodyLen = sent[n + 1].bodyLen /\ BodyLen \in Nat
         /\ ends[n + 1] = EndOf(n) + Field + BodyLen
         /\ BodyLen <= MaxBody => (IsCommand <=> Legal(sent[n + 1]))
         /\ BodyLen <= MaxBody /\ IsCommand =>
                /\ FieldAt(2 * Field) = sent[n + 1].cmd
                /\ FieldAt(3 * Field) = n + 1
<1> DEFINE k == sent[n + 1]
           base == EndOf(n)
           bytes == BytesOf(k, n + 1)
<1>0. /\ received \in Nat /\ parsed \in Nat /\ consumed \in Nat /\ received <= Len(stream)
      /\ base \in Nat /\ Len(sent) \in Nat /\ Len(stream) \in Nat
  <2>1. Len(sent) \in Nat /\ Len(stream) \in Nat /\ EndOf(n) \in Nat
    BY Positions
  <2>2. received \in Nat /\ parsed \in Nat /\ consumed \in Nat /\ arrived \in Nat
    BY DEF TypeOK
  <2> QED BY <2>1, <2>2 DEF TypeOK
<1>1. n < Len(sent)
  <2>1. base + Field <= Len(stream)
    BY <1>0, Sizes DEF Avail
  <2>2. EndOf(Len(sent)) = Len(stream)
    BY DEF Layout
  <2> QED BY <1>0, <2>1, <2>2, Sizes
<1>2. n + 1 \in DOMAIN sent /\ k \in Packet
  <2>1. n + 1 \in 1..Len(sent)
    BY <1>0, <1>1
  <2> HIDE DEF base, bytes
  <2> QED BY <2>1, Positions
<1>3. /\ ends[n + 1] = base + Field + k.bodyLen
      /\ \A i \in 1..(Field + k.bodyLen) : stream[base + i] = bytes[i]
  <2>1. (n + 1) - 1 = n
    BY <1>0
  <2>2. \A m \in DOMAIN sent :
            /\ ends[m] = EndOf(m - 1) + Field + sent[m].bodyLen
            /\ \A i \in 1..(Field + sent[m].bodyLen) :
                   stream[EndOf(m - 1) + i] = BytesOf(sent[m], m)[i]
    BY DEF Layout
  <2>3. /\ ends[n + 1] = EndOf((n + 1) - 1) + Field + k.bodyLen
        /\ \A i \in 1..(Field + k.bodyLen) : stream[EndOf((n + 1) - 1) + i] = bytes[i]
    BY <1>2, <2>2, Zenon
  <2> QED BY <2>1, <2>3, Zenon
<1>4. /\ k.bodyLen \in Nat /\ bytes[1] = k.bodyLen
      /\ Field <= k.bodyLen => bytes[Field + 1] = k.hash
      /\ HeaderSize <= k.bodyLen => /\ bytes[2 * Field + 1] = k.cmd
                                      /\ bytes[3 * Field + 1] = n + 1
                                      /\ bytes[4 * Field + 1] = k.payloadLen
  <2>1. n + 1 \in Nat
    BY <1>0
  <2> HIDE DEF k
  <2> QED BY <1>2, <2>1, PacketBytes
<1>5. k.bodyLen \in Nat /\ k.payloadLen \in Nat
  BY <1>2 DEF Packet
<1>6. ASSUME NEW i \in Nat, i + 1 <= Field + k.bodyLen PROVE FieldAt(i) = bytes[i + 1]
  <2>1. i + 1 \in 1..(Field + k.bodyLen)
    BY <1>4, <1>6, Sizes
  <2>2. stream[base + (i + 1)] = bytes[i + 1]
    BY <1>3, <2>1
  <2>3. parsed + consumed + i + 1 = base + (i + 1)
    BY <1>0
  <2> QED BY <2>2, <2>3 DEF FieldAt
<1> HIDE DEF k, base, bytes
<1>7. BodyLen = k.bodyLen
  BY <1>4, <1>6, Sizes DEF BodyLen
<1>8. ASSUME BodyLen <= MaxBody
      PROVE  /\ IsCommand <=> Legal(k)
             /\ IsCommand => FieldAt(2 * Field) = k.cmd /\ FieldAt(3 * Field) = n + 1
  <2>2. Field <= k.bodyLen => FieldAt(Field) = k.hash
    BY <1>4, <1>5, <1>6, Sizes
  <2>3. HeaderSize <= k.bodyLen => /\ FieldAt(2 * Field) = k.cmd
                                   /\ FieldAt(3 * Field) = n + 1
                                   /\ FieldAt(4 * Field) = k.payloadLen
    <3> SUFFICES ASSUME HeaderSize <= k.bodyLen
                 PROVE  /\ FieldAt(2 * Field) = k.cmd
                        /\ FieldAt(3 * Field) = n + 1
                        /\ FieldAt(4 * Field) = k.payloadLen
      OBVIOUS
    <3>1. /\ 2 * Field \in Nat /\ 3 * Field \in Nat /\ 4 * Field \in Nat
          /\ 2 * Field + 1 <= Field + k.bodyLen
          /\ 3 * Field + 1 <= Field + k.bodyLen
          /\ 4 * Field + 1 <= Field + k.bodyLen
      BY <1>5, Sizes
    <3> QED BY <1>4, <1>6, <3>1
  <2>4. HeaderSize >= Field
    BY Sizes
  <2>5. Legal(k) <=> /\ k.hash = MagicHash
                     /\ k.bodyLen = HeaderSize + k.payloadLen
    BY <1>7, <1>8 DEF Legal
  <2>6. IsCommand <=> /\ k.bodyLen >= Field /\ FieldAt(Field) = MagicHash
                      /\ k.bodyLen >= HeaderSize
                      /\ k.bodyLen = HeaderSize + FieldAt(4 * Field)
    BY <1>7 DEF IsCommand
  <2>7. HeaderSize \in Nat /\ Field \in Nat
    BY Sizes
  <2> QED BY <1>5, <2>2, <2>3, <2>4, <2>5, <2>6, <2>7
<1> QED BY <1>1, <1>2, <1>3, <1>4, <1>5, <1>7, <1>8 DEF k, base

-----------------------------------------------------------------------------
(* Every step keeps the parser in place. *)

\* Where the elements of two sequences are in their concatenation.
LEMMA Joined ==
  ASSUME NEW s \in Seq(Nat), NEW t \in Seq(Nat)
  PROVE  /\ s \o t \in Seq(Nat) /\ Len(s \o t) = Len(s) + Len(t)
         /\ \A i \in 1..Len(s) : (s \o t)[i] = s[i]
         /\ \A i \in 1..Len(t) : (s \o t)[Len(s) + i] = t[i]
  <1>1. s \o t \in Seq(Nat) /\ Len(s \o t) = Len(s) + Len(t)
    OBVIOUS
  <1>2. \A i \in 1..Len(s) : (s \o t)[i] = s[i]
    OBVIOUS
  <1>3. ASSUME NEW i \in 1..Len(t) PROVE (s \o t)[Len(s) + i] = t[i]
    <2>1. Len(s) \in Nat /\ Len(t) \in Nat /\ (Len(s) + i) - Len(s) = i
      OBVIOUS
    <2>2. Len(s) + i \in 1..(Len(s) + Len(t)) /\ ~(Len(s) + i <= Len(s))
      BY <2>1
    <2> QED BY <2>1, <2>2
  <1> QED BY <1>1, <1>2, <1>3

\* The client sends one more packet: the ones before it, and what they ask for,
\* stay as they are.
LEMMA SendStep ==
  ASSUME ParserInv, NEW k \in Packets, Send(k)
  PROVE  ParserInv'
<1> USE DEF ParserInv, netVars
<1>n. PICK N \in Nat : N = Len(sent)
  BY DEF TypeOK
<1>l. PICK L \in Nat : L = Len(stream)
  BY DEF Layout
<1> DEFINE bytes == BytesOf(k, N + 1)
<1>0. /\ sent \in Seq(Packets) /\ stream \in Seq(Nat) /\ ends \in Seq(Nat)
      /\ N \in Nat /\ L \in Nat /\ Len(ends) = N /\ EndOf(N) = L
      /\ DOMAIN sent = 1..N /\ k \in Packet
  BY <1>n, <1>l, Positions, Sizes DEF TypeOK, Layout
<1>1. /\ k.bodyLen \in Nat /\ bytes \in Seq(Nat) /\ Len(bytes) = Field + k.bodyLen
  <2>1. N + 1 \in Nat
    BY <1>0
  <2> QED BY <1>0, <2>1, PacketBytes
<1>2. /\ sent' \in Seq(Packets) /\ Len(sent') = N + 1 /\ sent'[N + 1] = k
      /\ \A m \in 1..N : sent'[m] = sent[m]
  BY <1>0, <1>n DEF Send
<1>3. /\ stream' \in Seq(Nat) /\ Len(stream') = L + Field + k.bodyLen
      /\ \A i \in 1..L : stream'[i] = stream[i]
      /\ \A i \in 1..(Field + k.bodyLen) : stream'[L + i] = bytes[i]
  <2>1. stream' = stream \o bytes
    BY <1>2 DEF Send
  <2> HIDE DEF bytes
  <2>2. /\ stream' \in Seq(Nat) /\ Len(stream') = L + Len(bytes)
        /\ \A i \in 1..L : stream'[i] = stream[i]
        /\ \A i \in 1..Len(bytes) : stream'[L + i] = bytes[i]
    BY <1>0, <1>1, <1>l, <2>1, Joined
  <2>3. L + Len(bytes) = L + Field + k.bodyLen
    BY <1>0, <1>1, Sizes
  <2>4. \A i \in 1..(Field + k.bodyLen) : stream'[L + i] = bytes[i]
    BY <1>1, <2>2
  <2> QED BY <2>2, <2>3, <2>4
<1>4. /\ ends' \in Seq(Nat) /\ Len(ends') = N + 1 /\ ends'[N + 1] = L + Field + k.bodyLen
      /\ \A m \in 1..N : ends'[m] = ends[m]
  <2>1. Len(stream') \in Nat /\ ends' = Append(ends, Len(stream'))
    <3>1. Len(stream') \in Nat
      BY <1>3
    <3>2. ends' = Append(ends, Len(stream'))
      BY DEF Send
    <3> QED BY <3>1, <3>2
  <2>2. ends' \in Seq(Nat) /\ Len(ends') = N + 1 /\ ends'[N + 1] = Len(stream')
    BY <1>0, <2>1
  <2>3. \A m \in 1..N : ends'[m] = ends[m]
    BY <1>0, <2>1
  <2> QED BY <1>3, <2>2, <2>3
<1>5. UNCHANGED <<arrived, finished, received, parsed, consumed, pc, connected, cause, dispatched>>
  BY DEF Send
<1> HIDE DEF bytes
<1>6. /\ \A n \in 0..N : EndOf(n)' = EndOf(n)
      /\ EndOf(N + 1)' = L + Field + k.bodyLen
  BY <1>0, <1>4 DEF EndOf
<1>7. \A n \in 0..N : EndOf(n) \in Nat /\ EndOf(n) <= L
  BY <1>n, <1>l, Positions
<1>8. TypeOK'
  <2>1. L <= Len(stream')
    BY <1>0, <1>1, <1>3, Sizes
  <2>2. arrived <= L /\ arrived \in Nat /\ Len(stream') \in Nat
    BY <1>0, <1>3, <1>l, Positions DEF TypeOK
  <2>3. arrived <= Len(stream')
    BY <1>0, <2>1, <2>2
  <2> QED BY <1>2, <1>5, <2>3 DEF TypeOK
<1>9. Layout'
  <2>1. EndOf(Len(sent))' = Len(stream')
    BY <1>0, <1>2, <1>3, <1>4 DEF EndOf
  <2>2. ASSUME NEW n \in DOMAIN sent'
        PROVE  /\ ends'[n] = EndOf(n - 1)' + Field + sent'[n].bodyLen
               /\ \A i \in 1..(Field + sent'[n].bodyLen) :
                      stream'[EndOf(n - 1)' + i] = BytesOf(sent'[n], n)[i]
    <3>1. n \in 1..(N + 1)
      BY <1>2
    <3>2. CASE n \in 1..N
      <4>1. n - 1 \in 0..N /\ n \in 0..N
        BY <1>0, <3>2
      <4>2. EndOf(n - 1)' = EndOf(n - 1) /\ EndOf(n) <= L /\ EndOf(n - 1) \in Nat
        BY <1>6, <1>7, <4>1
      <4>3. EndOf(n) = ends[n] /\ sent'[n] = sent[n] /\ ends'[n] = ends[n]
        BY <1>0, <1>2, <1>4, <3>2 DEF EndOf
      <4>4. /\ ends[n] = EndOf(n - 1) + Field + sent[n].bodyLen
            /\ \A i \in 1..(Field + sent[n].bodyLen) :
                   stream[EndOf(n - 1) + i] = BytesOf(sent[n], n)[i]
        BY <1>0, <3>2 DEF Layout
      <4>5. sent[n].bodyLen \in Nat
        BY <1>0, <3>2, Positions DEF Packet
      <4>6. \A i \in 1..(Field + sent[n].bodyLen) : EndOf(n - 1) + i \in 1..L
        BY SMTT(30), <1>0, <4>2, <4>3, <4>4, <4>5, Sizes
      <4> QED BY <1>3, <4>2, <4>3, <4>4, <4>6
    <3>3. CASE n = N + 1
      <4>1. n - 1 = N /\ N \in 0..N
        BY <1>0, <3>3
      <4>2. EndOf(n - 1)' = L /\ sent'[n] = k
        BY <1>0, <1>2, <1>6, <3>3, <4>1
      <4> QED BY <1>3, <1>4, <3>3, <4>2 DEF bytes
    <3>4. n \in 1..N \/ n = N + 1
      BY <3>1
    <3> QED BY <3>2, <3>3, <3>4
  <2>3. ASSUME NEW m \in 0..Len(sent'), NEW n \in 0..Len(sent'), m < n
        PROVE  EndOf(m)' + Field <= EndOf(n)'
    <3>1. m \in 0..N /\ (n \in 0..N \/ n = N + 1)
      BY <1>0, <1>2, <2>3
    <3>2. CASE n \in 0..N
      <4>1. EndOf(m) + Field <= EndOf(n)
        BY <1>n, <2>3, <3>1, <3>2 DEF Layout
      <4> QED BY <1>6, <3>1, <3>2, <4>1
    <3>3. CASE n = N + 1
      <4>1. EndOf(m)' <= L /\ EndOf(m)' \in Nat /\ EndOf(n)' = L + Field + k.bodyLen
        BY <1>6, <1>7, <3>1, <3>3
      <4> QED BY SMTT(30), <1>0, <1>1, <4>1, Sizes
    <3> QED BY <3>1, <3>2, <3>3
  <2>4. DOMAIN sent' = 1..Len(sent')
    BY <1>2
  <2> QED BY <1>2, <1>3, <1>4, <2>1, <2>2, <2>3 DEF Layout
<1>10. /\ DOMAIN sent' = 1..(N + 1)
       /\ \A m \in DOMAIN sent : Asked(m)' <=> Asked(m)
  <2>1. DOMAIN sent' = 1..(N + 1)
    BY <1>0, <1>2
  <2>2. ASSUME NEW m \in DOMAIN sent PROVE Asked(m)' <=> Asked(m)
    <3>1. m \in DOMAIN sent' /\ m \in 1..N /\ \A j \in 1..(m - 1) : j \in 1..N
      BY <1>0, <2>1
    <3> QED BY <1>0, <1>2, <3>1 DEF Asked
  <2> QED BY <2>1, <2>2
<1>11. DispatchedInOrder'
  <2> SUFFICES ASSUME NEW j \in DOMAIN dispatched, NEW n, n = dispatched[j][2]
               PROVE  /\ Asked(n)' /\ ends'[n] <= received
                      /\ dispatched[j][1] = sent'[n].cmd
                      /\ j > 1 => dispatched[j - 1][2] < n
                      /\ \A m \in 1..(n - 1) : Asked(m)' => DispatchedWithin(m, j - 1)'
    BY <1>5 DEF DispatchedInOrder, Asked, DispatchedWithin
  <2>1. /\ Asked(n) /\ ends[n] <= received /\ dispatched[j][1] = sent[n].cmd
        /\ j > 1 => dispatched[j - 1][2] < n
        /\ \A m \in 1..(n - 1) : Asked(m) => DispatchedWithin(m, j - 1)
    BY DEF DispatchedInOrder
  <2>2. n \in 1..N /\ \A m \in 1..(n - 1) : m \in DOMAIN sent
    BY <1>0, <2>1 DEF Asked
  <2>3. \A m : DispatchedWithin(m, j - 1)' <=> DispatchedWithin(m, j - 1)
    BY <1>5 DEF DispatchedWithin
  <2>4. Asked(n)' /\ ends'[n] = ends[n] /\ sent'[n] = sent[n]
    BY <1>0, <1>2, <1>4, <1>10, <2>1, <2>2
  <2>5. \A m \in 1..(n - 1) : Asked(m)' => DispatchedWithin(m, j - 1)'
    BY <1>10, <2>1, <2>2, <2>3
  <2> QED BY <2>1, <2>4, <2>5
<1>12. InPlace'
  <2> SUFFICES ASSUME connected \/ pc # "poll"
               PROVE  \E n \in 0..Len(sent') : ParsedUpTo(n)'
    BY <1>5 DEF InPlace
  <2>1. PICK n \in 0..N : ParsedUpTo(n)
    BY <1>n DEF InPlace
  <2>2. n \in 0..Len(sent') /\ EndOf(n)' = EndOf(n)
    BY <1>0, <1>2, <1>6, <2>1
  <2>3. ASSUME NEW m \in 1..n
        PROVE  ~Ends(sent'[m]) /\ (Asked(m)' => DispatchedWithin(m, Len(dispatched))')
    <3>1. m \in 1..N
      BY <1>0
    <3>2. sent'[m] = sent[m] /\ (Asked(m)' <=> Asked(m))
      BY <1>0, <1>2, <1>10, <3>1
    <3>3. DispatchedWithin(m, Len(dispatched))' <=> DispatchedWithin(m, Len(dispatched))
      BY <1>5 DEF DispatchedWithin
    <3> QED BY <2>1, <3>2, <3>3 DEF ParsedUpTo
  <2>4. ASSUME pc = "poll", n < Len(sent') PROVE received < ends'[n + 1]
    <3>1. CASE n < N
      <4>1. n + 1 \in 1..N
        BY <1>0, <3>1
      <4> QED BY <1>4, <1>n, <2>1, <2>4, <3>1, <4>1 DEF ParsedUpTo
    <3>2. CASE n = N
      <4>1. received \in Nat /\ received <= L
        BY <1>0, <1>l, Positions DEF TypeOK
      <4> QED BY SMTT(30), <1>0, <1>1, <1>4, <3>2, <4>1, Sizes
    <3> QED BY <1>0, <1>2, <2>4, <3>1, <3>2
  <2> QED BY <1>5, <2>1, <2>2, <2>3, <2>4 DEF ParsedUpTo
<1> QED BY <1>8, <1>9, <1>11, <1>12

\* The bytes arrive, the session is ended by others or is read: nothing is
\* parsed.
LEMMA ReadStep ==
  ASSUME ParserInv,
         \/ Arrive \/ Finish \/ SenderEnds
         \/ TryReceive \/ Recv \/ RecvWouldBlock \/ RecvEnds
  PROVE  ParserInv'
<1> USE DEF ParserInv, netVars
<1>0. /\ received \in Nat /\ parsed \in Nat /\ consumed \in Nat /\ arrived \in Nat
      /\ Len(stream) \in Nat /\ connected \in BOOLEAN
      /\ parsed + consumed <= received /\ received <= arrived /\ arrived <= Len(stream)
  BY Positions DEF TypeOK
<1>1. UNCHANGED <<sent, stream, ends, consumed, dispatched>>
  BY DEF Arrive, Finish, SenderEnds, TryReceive, Recv, RecvWouldBlock, RecvEnds
<1>2. /\ received' \in Nat /\ received <= received' /\ received' <= arrived'
      /\ arrived' \in Nat /\ arrived' <= Len(stream)
  <2>1. CASE Arrive
    BY <1>0, <2>1 DEF Arrive
  <2>2. CASE Recv
    <3> DEFINE n == LeastOf(RecvSize, arrived - received)
    <3>1. n \in Nat /\ n <= arrived - received
      BY <1>0, <2>2, Sizes DEF Recv, LeastOf
    <3>2. received' = received + n /\ arrived' = arrived
      BY <2>2 DEF Recv
    <3> HIDE DEF n
    <3> QED BY <1>0, <3>1, <3>2
  <2>3. CASE Finish \/ SenderEnds \/ TryReceive \/ RecvWouldBlock \/ RecvEnds
    BY <1>0, <2>3 DEF Finish, SenderEnds, TryReceive, RecvWouldBlock, RecvEnds
  <2> QED BY <2>1, <2>2, <2>3
<1>3. \/ pc' = "poll" /\ ~connected' /\ parsed' \in {parsed, received'} /\ consumed' = 0
      \/ /\ parsed' = parsed /\ (connected' => connected)
         /\ \/ pc' = pc /\ received' = received
            \/ pc' \in {"recv", "process"} /\ (connected \/ pc # "poll") /\ consumed = 0
  <2>1. CASE Arrive \/ Finish \/ SenderEnds
    BY <2>1 DEF Arrive, Finish, SenderEnds
  <2>2. CASE TryReceive \/ RecvWouldBlock
    BY <2>2 DEF TryReceive, RecvWouldBlock, TypeOK
  <2>3. CASE Recv
    <3>1. pc = "recv" /\ consumed = 0 /\ consumed' = consumed
      BY <2>3 DEF Recv, TypeOK
    <3>2. \/ parsed' = received' /\ pc' = "poll" /\ ~connected'
          \/ parsed' = parsed /\ pc' \in {"recv", "process"} /\ connected' = connected
      BY <2>3 DEF Recv, End
    <3> QED BY <3>1, <3>2
  <2>4. CASE RecvEnds
    BY <2>4 DEF RecvEnds, End, TypeOK
  <2> QED BY <2>1, <2>2, <2>3, <2>4
<1>4. TypeOK'
  <2>1. /\ connected' \in BOOLEAN /\ finished' \in BOOLEAN /\ (cause' = "none" <=> connected')
        /\ cause' \in {"none", "sender", "client", "swollen", "oversized", "refused"}
    <3>0. /\ connected \in BOOLEAN /\ finished \in BOOLEAN /\ (cause = "none" <=> connected)
          /\ cause \in {"none", "sender", "client", "swollen", "oversized", "refused"}
      BY DEF TypeOK
    <3>1. CASE Arrive \/ TryReceive \/ RecvWouldBlock
      <4>1. UNCHANGED <<finished, connected, cause>>
        BY <3>1 DEF Arrive, TryReceive, RecvWouldBlock
      <4> QED BY <3>0, <4>1
    <3>2. CASE Finish
      <4>1. finished' = TRUE /\ UNCHANGED <<connected, cause>>
        BY <3>2 DEF Finish
      <4> QED BY <3>0, <4>1
    <3>3. CASE SenderEnds
      <4>1. connected' = FALSE /\ cause' = "sender" /\ UNCHANGED finished
        BY <3>3 DEF SenderEnds
      <4> QED BY <3>0, <4>1
    <3>4. CASE Recv \/ RecvEnds
      <4>1. /\ finished' = finished
            /\ \/ End("swollen") \/ End("client")
               \/ UNCHANGED <<connected, cause>>
        BY <3>4 DEF Recv, RecvEnds
      <4>2. CASE UNCHANGED <<connected, cause>>
        BY <3>0, <4>1, <4>2
      <4>3. ASSUME NEW why \in {"swollen", "client"}, End(why)
            PROVE  /\ connected' = FALSE /\ cause' # "none"
                   /\ cause' \in {"none", "sender", "client", "swollen", "oversized", "refused"}
        <5>1. connected' = FALSE /\ cause' = IF connected THEN why ELSE cause
          BY <4>3 DEF End
        <5>2. CASE connected
          BY <5>1, <5>2
        <5>3. CASE ~connected
          BY <3>0, <5>1, <5>3
        <5> QED BY <5>1, <5>2, <5>3
      <4> QED BY <3>0, <4>1, <4>2, <4>3
    <3> QED BY <3>1, <3>2, <3>3, <3>4
  <2>2. /\ pc' \in {"poll", "recv", "process"} /\ (pc' # "process" => consumed' = 0)
        /\ parsed' \in Nat /\ parsed' + consumed' <= received'
    <3>1. CASE pc' = "poll" /\ ~connected' /\ parsed' \in {parsed, received'} /\ consumed' = 0
      <4>1. parsed' = parsed \/ parsed' = received'
        BY <3>1
      <4>2. parsed' \in Nat /\ parsed' <= received'
        BY <1>0, <1>2, <4>1
      <4>3. consumed' = 0
        BY <3>1
      <4>4. parsed' + consumed' <= received'
        BY <4>2, <4>3
      <4> QED BY <3>1, <4>2, <4>3, <4>4
    <3>2. CASE parsed' = parsed /\ pc' = pc
      BY <1>0, <1>1, <1>2, <3>2 DEF TypeOK
    <3>3. CASE parsed' = parsed /\ pc' \in {"recv", "process"} /\ consumed = 0
      BY <1>0, <1>1, <1>2, <3>3
    <3> QED BY <1>3, <3>1, <3>2, <3>3
  <2> QED BY <1>0, <1>1, <1>2, <2>1, <2>2 DEF TypeOK
<1>5. Layout'
  BY <1>1 DEF Layout, EndOf
<1>6. /\ \A m : Asked(m)' <=> Asked(m)
      /\ \A m, j : DispatchedWithin(m, j)' <=> DispatchedWithin(m, j)
      /\ \A m : EndOf(m)' = EndOf(m)
  BY <1>1 DEF Asked, DispatchedWithin, EndOf
<1>7. DispatchedInOrder'
  <2> SUFFICES ASSUME NEW j \in DOMAIN dispatched, NEW n, n = dispatched[j][2]
               PROVE  /\ Asked(n)' /\ ends[n] <= received'
                      /\ dispatched[j][1] = sent[n].cmd
                      /\ j > 1 => dispatched[j - 1][2] < n
                      /\ \A m \in 1..(n - 1) : Asked(m)' => DispatchedWithin(m, j - 1)'
    BY <1>1 DEF DispatchedInOrder, Asked, DispatchedWithin
  <2>1. /\ Asked(n) /\ ends[n] <= received /\ dispatched[j][1] = sent[n].cmd
        /\ j > 1 => dispatched[j - 1][2] < n
        /\ \A m \in 1..(n - 1) : Asked(m) => DispatchedWithin(m, j - 1)
    BY DEF DispatchedInOrder
  <2>2. ends[n] \in Nat
    BY <2>1, Positions DEF Asked
  <2>3. ends[n] <= received'
    BY <1>0, <1>2, <2>1, <2>2
  <2> QED BY <1>6, <2>1, <2>3
<1>8. InPlace'
  <2> SUFFICES ASSUME connected' \/ pc' # "poll"
               PROVE  \E n \in 0..Len(sent') : ParsedUpTo(n)'
    BY DEF InPlace
  <2>1. /\ connected \/ pc # "poll"
        /\ parsed' = parsed
        /\ pc' = "poll" => pc = "poll" /\ received' = received
    BY <1>3
  <2>2. PICK n \in 0..Len(sent) : ParsedUpTo(n)
    BY <2>1 DEF InPlace
  <2> QED BY <1>1, <1>6, <2>1, <2>2 DEF ParsedUpTo
<1> QED BY <1>4, <1>5, <1>7, <1>8

\* One packet is cut off the buffer, or none is left whole.
LEMMA ProcessStep ==
  ASSUME ParserInv, ProcessRxBuffer
  PROVE  ParserInv'
<1> USE DEF ParserInv, netVars
<1>0. /\ received \in Nat /\ parsed \in Nat /\ consumed \in Nat /\ arrived \in Nat
      /\ parsed + consumed <= received /\ received <= arrived /\ arrived <= Len(stream)
      /\ sent \in Seq(Packets) /\ dispatched \in Seq(Nat \X Nat)
      /\ Len(sent) \in Nat /\ DOMAIN sent = 1..Len(sent)
      /\ pc \in {"poll", "recv", "process"}
  BY Positions DEF TypeOK
<1>c. /\ connected \in BOOLEAN /\ finished \in BOOLEAN /\ (cause = "none" <=> connected)
      /\ cause \in {"none", "sender", "client", "swollen", "oversized", "refused"}
  BY DEF TypeOK
<1>1. pc = "process" /\ UNCHANGED <<sent, stream, ends, arrived, finished, received>>
  BY DEF ProcessRxBuffer, Oversized, SkipPacket, HasPacket, Dispatch, Erase
<1>2. PICK n \in 0..Len(sent) : ParsedUpTo(n)
  BY <1>1 DEF InPlace
<1>3. /\ parsed + consumed = EndOf(n)
      /\ \A m \in 1..n : ~Ends(sent[m])
      /\ \A m \in 1..n : Asked(m) => DispatchedWithin(m, Len(dispatched))
      /\ \A k \in DOMAIN dispatched : dispatched[k][2] <= n
  BY <1>2 DEF ParsedUpTo
<1>4. Layout'
  BY <1>1 DEF Layout, EndOf
<1>5. /\ \A m : Asked(m)' <=> Asked(m)
      /\ \A m : EndOf(m)' = EndOf(m)
  BY <1>1 DEF Asked, EndOf
<1>6. ASSUME UNCHANGED dispatched
      PROVE  DispatchedInOrder' /\ \A m, j : DispatchedWithin(m, j)' <=> DispatchedWithin(m, j)
  BY <1>1, <1>6 DEF DispatchedInOrder, Asked, DispatchedWithin
<1>7. ASSUME HasPacket
      PROVE  /\ n + 1 \in 1..Len(sent) /\ n + 1 \in Nat
             /\ EndOf(n + 1) = parsed + Consumed /\ ends[n + 1] = EndOf(n + 1)
             /\ Consumed \in Nat /\ parsed + Consumed <= received
             /\ IsCommand <=> Legal(sent[n + 1])
             /\ IsCommand <=> Asked(n + 1)
             /\ IsCommand => /\ FieldAt(2 * Field) = sent[n + 1].cmd
                             /\ FieldAt(3 * Field) = n + 1
             /\ sent[n + 1].cmd \in Nat
             /\ Ends(sent[n + 1]) <=> (IsCommand /\ FieldAt(2 * Field) = LastFailure)
  <2>1. Avail >= Field /\ BodyLen <= MaxBody /\ Complete
    BY <1>7 DEF HasPacket
  <2>2. /\ n + 1 \in DOMAIN sent /\ BodyLen = sent[n + 1].bodyLen /\ BodyLen \in Nat
        /\ ends[n + 1] = EndOf(n) + Field + BodyLen
        /\ IsCommand <=> Legal(sent[n + 1])
        /\ IsCommand => FieldAt(2 * Field) = sent[n + 1].cmd /\ FieldAt(3 * Field) = n + 1
    BY <1>3, <2>1, NextPacket
  <2>3. n \in Nat /\ n + 1 \in Nat /\ n + 1 # 0 /\ (n + 1) - 1 = n
    BY <1>0
  <2>4. sent[n + 1] \in Packet /\ sent[n + 1].cmd \in Nat
    <3>1. sent[n + 1] \in Packet
      BY <2>2, Positions
    <3> QED BY <3>1 DEF Packet
  <2>5. EndOf(n + 1) = ends[n + 1]
    BY <2>3 DEF EndOf
  <2>6. Consumed \in Nat /\ parsed + Consumed = ends[n + 1]
    <3>1. parsed \in Nat /\ consumed \in Nat /\ Field \in Nat /\ BodyLen \in Nat
      BY <1>0, <2>2, Sizes
    <3>2. ends[n + 1] = (parsed + consumed) + Field + BodyLen
      BY <1>3, <2>2
    <3> QED BY <3>1, <3>2 DEF Consumed
  <2>7. parsed + Consumed <= received
    <3>1. BodyLen \in Nat /\ Field \in Nat /\ received - parsed - consumed >= Field + BodyLen
      BY <2>1, <2>2, Sizes DEF Complete, Avail
    <3>2. received \in Nat /\ parsed \in Nat /\ consumed \in Nat
      BY <1>0
    <3> QED BY <3>1, <3>2 DEF Consumed
  <2>8. ~(sent[n + 1].bodyLen > MaxBody)
    BY <2>1, <2>2, Sizes
  <2>9. Ends(sent[n + 1]) <=> (IsCommand /\ FieldAt(2 * Field) = LastFailure)
    BY <2>2, <2>8 DEF Ends
  <2>10. IsCommand <=> Asked(n + 1)
    BY <1>3, <2>2, <2>3 DEF Asked
  <2> QED BY <1>0, <2>2, <2>3, <2>4, <2>5, <2>6, <2>7, <2>9, <2>10
<1>8. CASE Oversized
  <2>1. /\ parsed' = received /\ consumed' = 0 /\ End("oversized") /\ UNCHANGED dispatched
    BY <1>8 DEF Oversized
  <2>2. connected' = FALSE /\ pc' = "poll"
    BY <2>1 DEF End
  <2>3. /\ cause' # "none"
        /\ cause' \in {"none", "sender", "client", "swollen", "oversized", "refused"}
    <3>1. cause' = IF connected THEN "oversized" ELSE cause
      BY <2>1 DEF End
    <3>2. CASE connected
      BY <3>1, <3>2
    <3>3. CASE ~connected
      BY <1>c, <3>1, <3>3
    <3> QED BY <3>2, <3>3
  <2>4. parsed' \in Nat /\ parsed' + consumed' <= received' /\ consumed' \in Nat
    BY <1>0, <1>1, <2>1
  <2>5. (cause' = "none" <=> connected') /\ connected' \in BOOLEAN /\ finished' \in BOOLEAN
    BY <1>1, <1>c, <2>2, <2>3
  <2>6. TypeOK'
    BY <1>0, <1>1, <2>1, <2>2, <2>3, <2>4, <2>5 DEF TypeOK
  <2>7. InPlace'
    BY <2>2 DEF InPlace
  <2> QED BY <1>4, <1>6, <2>1, <2>6, <2>7
<1>9. CASE SkipPacket
  <2>1. /\ HasPacket /\ ~IsCommand /\ consumed' = Consumed
        /\ UNCHANGED <<parsed, pc, connected, cause, dispatched>>
    BY <1>9 DEF SkipPacket
  <2>2. TypeOK'
    <3>1. (cause' = "none" <=> connected') /\ connected' \in BOOLEAN /\ finished' \in BOOLEAN
      BY <1>1, <1>c, <2>1
    <3>2. consumed' \in Nat /\ parsed' + consumed' <= received'
      BY <1>1, <1>7, <2>1
    <3> QED BY <1>0, <1>1, <1>c, <2>1, <3>1, <3>2 DEF TypeOK
  <2>3. InPlace'
    <3>1. n + 1 \in 0..Len(sent') /\ parsed' + consumed' = EndOf(n + 1)'
      BY <1>0, <1>1, <1>5, <1>7, <2>1
    <3>2. ~Ends(sent[n + 1]) /\ ~Asked(n + 1)
      BY <1>7, <2>1
    <3>3. ASSUME NEW m \in 1..(n + 1)
          PROVE  ~Ends(sent'[m]) /\ (Asked(m)' => DispatchedWithin(m, Len(dispatched))')
      <4>1. m \in 1..n \/ m = n + 1
        BY <1>0
      <4>2. DispatchedWithin(m, Len(dispatched))' <=> DispatchedWithin(m, Len(dispatched))
        BY <2>1 DEF DispatchedWithin
      <4> QED BY <1>1, <1>3, <1>5, <3>2, <4>1, <4>2
    <3>4. \A k \in DOMAIN dispatched' : dispatched'[k][2] <= n + 1
      <4>1. \A k \in DOMAIN dispatched : dispatched[k][2] \in Nat
        BY <1>0
      <4> QED BY SMTT(30), <1>0, <1>3, <2>1, <4>1
    <3>5. ParsedUpTo(n + 1)'
      BY <1>1, <2>1, <3>1, <3>3, <3>4 DEF ParsedUpTo
    <3> QED BY <3>1, <3>5 DEF InPlace
  <2> QED BY <1>4, <1>6, <2>1, <2>2, <2>3
<1>10. CASE Dispatch
  <2> DEFINE entry == <<FieldAt(2 * Field), FieldAt(3 * Field)>>
  <2>1. /\ HasPacket /\ IsCommand /\ dispatched' = Append(dispatched, entry)
        /\ connected' = (connected /\ FieldAt(2 * Field) # LastFailure)
        /\ cause' = IF connected /\ ~connected' THEN "refused" ELSE cause
        /\ \/ connected' /\ consumed' = Consumed /\ parsed' = parsed /\ pc' = pc
           \/ ~connected' /\ consumed' = 0 /\ parsed' = received /\ pc' = "poll"
    BY <1>10 DEF Dispatch
  <2>2. entry[1] = sent[n + 1].cmd /\ entry[2] = n + 1 /\ entry \in Nat \X Nat
    BY <1>7, <2>1
  <2>n. PICK N \in Nat : N = Len(dispatched)
    BY <1>0
  <2> HIDE DEF entry
  <2>3. /\ dispatched' \in Seq(Nat \X Nat) /\ Len(dispatched') = N + 1
        /\ dispatched'[N + 1][1] = sent[n + 1].cmd /\ dispatched'[N + 1][2] = n + 1
        /\ \A j \in 1..N : dispatched'[j] = dispatched[j]
        /\ DOMAIN dispatched = 1..N /\ DOMAIN dispatched' = 1..(N + 1)
    <3>1. /\ dispatched' \in Seq(Nat \X Nat) /\ Len(dispatched') = N + 1
          /\ dispatched'[N + 1] = entry
          /\ \A j \in 1..N : dispatched'[j] = dispatched[j]
      BY <1>0, <2>1, <2>2, <2>n
    <3> QED BY <1>0, <2>2, <2>n, <3>1
  <2>4. /\ \A m, j : j \in 0..N => (DispatchedWithin(m, j)' <=> DispatchedWithin(m, j))
        /\ DispatchedWithin(n + 1, N + 1)'
        /\ \A m : DispatchedWithin(m, N) => DispatchedWithin(m, N + 1)'
    <3>1. \A j \in 0..N : \A i \in 1..j : i \in 1..N
      OBVIOUS
    <3>2. N + 1 \in 1..(N + 1) /\ \A i \in 1..N : i \in 1..(N + 1)
      OBVIOUS
    <3> QED BY <2>3, <3>1, <3>2 DEF DispatchedWithin
  <2>5. TypeOK'
    <3>1. (cause' = "none" <=> connected') /\ connected' \in BOOLEAN /\ finished' \in BOOLEAN
      BY <1>1, <1>c, <2>1
    <3>2. cause' \in {"none", "sender", "client", "swollen", "oversized", "refused"}
      BY <1>c, <2>1
    <3>3. /\ consumed' \in Nat /\ parsed' \in Nat /\ parsed' + consumed' <= received'
          /\ pc' \in {"poll", "recv", "process"} /\ (pc' # "process" => consumed' = 0)
      BY <1>0, <1>1, <1>7, <2>1
    <3> QED BY <1>0, <1>1, <2>3, <3>1, <3>2, <3>3 DEF TypeOK
  <2>6. DispatchedInOrder'
    <3> SUFFICES ASSUME NEW j \in DOMAIN dispatched', NEW q, q = dispatched'[j][2]
                 PROVE  /\ Asked(q)' /\ ends[q] <= received
                        /\ dispatched'[j][1] = sent[q].cmd
                        /\ j > 1 => dispatched'[j - 1][2] < q
                        /\ \A m \in 1..(q - 1) : Asked(m)' => DispatchedWithin(m, j - 1)'
      BY <1>1, SMTT(60) DEF DispatchedInOrder, Asked, DispatchedWithin
    <3>0. j \in 1..N \/ j = N + 1
      BY <2>3
    <3>1. CASE j \in 1..N
      <4>1. j - 1 \in 0..N /\ (j > 1 => j - 1 \in 1..N)
        BY <3>1
      <4>2. q = dispatched[j][2] /\ j \in DOMAIN dispatched
        BY <2>3, <3>1
      <4>3. /\ Asked(q) /\ ends[q] <= received /\ dispatched[j][1] = sent[q].cmd
            /\ j > 1 => dispatched[j - 1][2] < q
            /\ \A m \in 1..(q - 1) : Asked(m) => DispatchedWithin(m, j - 1)
        BY <4>2 DEF DispatchedInOrder
      <4> QED BY <1>5, <2>3, <2>4, <3>1, <4>1, <4>3
    <3>2. CASE j = N + 1
      <4>1. q = n + 1 /\ j - 1 = N /\ q - 1 = n
        <5>1. q = dispatched'[N + 1][2]
          BY <3>2
        <5>2. q = n + 1
          BY <5>1, <2>3
        <5>3. n \in Nat
          BY <1>0
        <5> QED BY <3>2, <5>2, <5>3
      <4>2. Asked(q)' /\ ends[q] <= received /\ dispatched'[j][1] = sent[q].cmd
        BY <1>5, <1>7, <2>1, <2>3, <3>2, <4>1
      <4>3. ASSUME j > 1 PROVE dispatched'[j - 1][2] < q
        <5>0. N \in 1..N
          BY <3>2, <4>3
        <5>1. N \in DOMAIN dispatched /\ dispatched'[j - 1] = dispatched[N]
          BY <2>3, <4>1, <5>0
        <5>2. dispatched[N][2] <= n /\ dispatched[N][2] \in Nat
          BY <1>0, <1>3, <5>1
        <5>3. n \in Nat
          BY <1>0
        <5> QED BY <4>1, <5>1, <5>2, <5>3
      <4>4. \A m \in 1..(q - 1) : Asked(m)' => DispatchedWithin(m, j - 1)'
        <5>1. N \in 0..N
          OBVIOUS
        <5> QED BY <1>3, <1>5, <2>4, <2>n, <4>1, <5>1
      <4> QED BY <4>2, <4>3, <4>4
    <3> QED BY <3>0, <3>1, <3>2
  <2>7. CASE ~connected'
    <3>1. InPlace'
      BY <2>1, <2>7 DEF InPlace
    <3> QED BY <1>4, <2>5, <2>6, <3>1
  <2>8. CASE connected'
    <3>1. /\ consumed' = Consumed /\ parsed' = parsed /\ pc' = pc
          /\ FieldAt(2 * Field) # LastFailure
      BY <2>1, <2>8
    <3>2. n + 1 \in 0..Len(sent') /\ parsed' + consumed' = EndOf(n + 1)'
      BY <1>0, <1>1, <1>5, <1>7, <2>1, <3>1
    <3>3. ~Ends(sent[n + 1])
      BY <1>7, <2>1, <3>1
    <3>4. ASSUME NEW m \in 1..(n + 1)
          PROVE  ~Ends(sent'[m]) /\ (Asked(m)' => DispatchedWithin(m, Len(dispatched))')
      <4>1. m \in 1..n \/ m = n + 1
        BY <1>0
      <4>2. DispatchedWithin(m, Len(dispatched))' <=> DispatchedWithin(m, N + 1)'
        BY <2>3 DEF DispatchedWithin
      <4> QED BY <1>1, <1>3, <1>5, <2>4, <2>n, <3>3, <4>1, <4>2
    <3>5. \A k \in DOMAIN dispatched' : dispatched'[k][2] <= n + 1
      <4>1. \A k \in 1..N : dispatched[k][2] \in Nat /\ dispatched[k][2] <= n + 1
        <5>1. \A k \in 1..N : dispatched[k][2] \in Nat /\ dispatched[k][2] <= n
          <6> SUFFICES ASSUME NEW k \in 1..N
                       PROVE  dispatched[k][2] \in Nat /\ dispatched[k][2] <= n
            OBVIOUS
          <6>1. k \in DOMAIN dispatched
            BY <2>3
          <6> QED BY <1>0, <1>3, <6>1
        <5>2. n \in Nat
          BY <1>0
        <5> QED BY <5>1, <5>2
      <4>2. \A k \in 1..(N + 1) : k \in 1..N \/ k = N + 1
        OBVIOUS
      <4>3. n + 1 <= n + 1
        BY <1>0
      <4> QED BY <2>3, <4>1, <4>2, <4>3
    <3>6. ParsedUpTo(n + 1)'
      BY <1>1, <3>1, <3>2, <3>4, <3>5 DEF ParsedUpTo
    <3>7. InPlace'
      BY <3>2, <3>6 DEF InPlace
    <3> QED BY <1>4, <2>5, <2>6, <3>7
  <2> QED BY <2>7, <2>8
<1>11. CASE Erase
  <2>1. /\ ~(Avail >= Field /\ (BodyLen > MaxBody \/ Complete))
        /\ parsed' = parsed + consumed /\ consumed' = 0 /\ pc' = "poll"
        /\ UNCHANGED <<connected, cause, dispatched>>
    BY <1>11 DEF Erase
  <2>2. TypeOK'
    <3>1. (cause' = "none" <=> connected') /\ connected' \in BOOLEAN /\ finished' \in BOOLEAN
      BY <1>1, <1>c, <2>1
    <3>2. parsed' \in Nat /\ consumed' \in Nat /\ parsed' + consumed' <= received'
      BY <1>0, <1>1, <2>1
    <3> QED BY <1>0, <1>1, <1>c, <2>1, <3>1, <3>2 DEF TypeOK
  <2>3. InPlace'
    <3>1. n \in 0..Len(sent') /\ parsed' + consumed' = EndOf(n)'
      BY <1>0, <1>1, <1>3, <1>5, <2>1
    <3>2. ASSUME n < Len(sent) PROVE received < ends[n + 1]
      <4>1. n + 1 \in DOMAIN sent /\ (n + 1) - 1 = n
        BY <1>0, <3>2
      <4>2. /\ ends[n + 1] = EndOf(n) + Field + sent[n + 1].bodyLen
            /\ sent[n + 1] \in Packet /\ EndOf(n) \in Nat
        BY <4>1, Positions DEF Layout
      <4>3. sent[n + 1].bodyLen \in Nat
        BY <4>2 DEF Packet
      <4>4. CASE ~(Avail >= Field)
        BY SMTT(30), <1>0, <1>3, <4>2, <4>3, <4>4, Sizes DEF Avail
      <4>5. CASE Avail >= Field
        <5>1. ~(BodyLen > MaxBody) /\ ~Complete
          BY <2>1, <4>5
        <5>2. BodyLen \in Nat /\ BodyLen = sent[n + 1].bodyLen
          BY <1>3, <4>5, NextPacket
        <5>3. received - parsed - consumed < Field + BodyLen
          BY SMTT(30), <1>0, <5>1, <5>2, Sizes DEF Complete, Avail
        <5>4. ends[n + 1] = parsed + consumed + Field + BodyLen
          BY <1>0, <1>3, <4>2, <5>2, Sizes
        <5>5. /\ received \in Nat /\ parsed \in Nat /\ consumed \in Nat
              /\ BodyLen \in Nat /\ Field \in Nat
          BY <1>0, <5>2, Sizes
        <5>6. received < parsed + consumed + Field + BodyLen
          BY <5>3, <5>5
        <5> QED BY <5>4, <5>6
      <4> QED BY <4>4, <4>5
    <3>3. ASSUME NEW m \in 1..n
          PROVE  ~Ends(sent'[m]) /\ (Asked(m)' => DispatchedWithin(m, Len(dispatched))')
      <4>1. DispatchedWithin(m, Len(dispatched))' <=> DispatchedWithin(m, Len(dispatched))
        BY <2>1 DEF DispatchedWithin
      <4> QED BY <1>1, <1>3, <1>5, <4>1
    <3>4. ParsedUpTo(n)'
      BY <1>1, <1>3, <2>1, <3>1, <3>2, <3>3 DEF ParsedUpTo
    <3> QED BY <3>1, <3>4 DEF InPlace
  <2> QED BY <1>4, <1>6, <2>1, <2>2, <2>3
<1> QED BY <1>8, <1>9, <1>10, <1>11 DEF ProcessRxBuffer

-----------------------------------------------------------------------------
(* The invariant holds from the start. *)

LEMMA ParserInvInit == Init => ParserInv
<1> SUFFICES ASSUME Init PROVE ParserInv
  OBVIOUS
<1>1. /\ sent = <<>> /\ stream = <<>> /\ ends = <<>> /\ dispatched = <<>>
      /\ Len(sent) = 0 /\ DOMAIN sent = {} /\ DOMAIN dispatched = {}
  BY DEF Init
<1>2. TypeOK
  <2>1. /\ sent \in Seq(Packets) /\ dispatched \in Seq(Nat \X Nat) /\ Len(stream) = 0
    BY <1>1
  <2>2. /\ parsed = 0 /\ consumed = 0 /\ received = 0 /\ arrived = 0 /\ parsed + consumed = 0
        /\ pc = "poll" /\ connected = TRUE /\ finished = FALSE /\ cause = "none"
    BY DEF Init
  <2>3. {parsed, consumed, received, arrived} \subseteq Nat
    BY <2>2
  <2>4. (cause = "none" <=> connected) /\ connected \in BOOLEAN /\ finished \in BOOLEAN
    BY <2>2
  <2>5. parsed + consumed <= received /\ received <= arrived /\ arrived <= Len(stream)
    BY <2>1, <2>2
  <2> QED BY <2>1, <2>2, <2>3, <2>4, <2>5 DEF TypeOK
<1>3. EndOf(0) = 0 /\ 0..Len(sent) = {0} /\ 1..0 = {}
  BY <1>1 DEF EndOf
<1>4. Layout
  <2>1. stream \in Seq(Nat) /\ ends \in Seq(Nat) /\ Len(ends) = 0 /\ Len(stream) = 0
    BY <1>1
  <2>2. \A m, n \in 0..Len(sent) : ~(m < n)
    BY <1>3
  <2> QED BY <1>1, <1>3, <2>1, <2>2 DEF Layout
<1>5. DispatchedInOrder
  BY <1>1 DEF DispatchedInOrder
<1>6. InPlace
  <2>1. parsed + consumed = 0
    BY DEF Init
  <2>2. ParsedUpTo(0)
    BY <1>1, <1>3, <2>1 DEF ParsedUpTo
  <2> QED BY <1>3, <2>2 DEF InPlace
<1> QED BY <1>2, <1>4, <1>5, <1>6 DEF ParserInv

LEMMA ParserInvNext == ParserInv /\ [Next]_vars => ParserInv'
<1> SUFFICES ASSUME ParserInv, [Next]_vars PROVE ParserInv'
  OBVIOUS
<1>1. ASSUME NEW k \in Packets, Send(k) PROVE ParserInv'
  BY <1>1, SendStep
<1>2. CASE \/ Arrive \/ Finish \/ SenderEnds
           \/ TryReceive \/ Recv \/ RecvWouldBlock \/ RecvEnds
  BY <1>2, ReadStep
<1>3. CASE ProcessRxBuffer
  BY <1>3, ProcessStep
<1>4. CASE UNCHANGED vars
  <2>1. UNCHANGED <<sent, stream, ends, arrived, finished, received, parsed, consumed, pc,
                    connected, cause, dispatched>>
    BY <1>4 DEF vars, netVars
  <2>2. TypeOK'
    BY <2>1 DEF ParserInv, TypeOK
  <2>3. Layout'
    BY <2>1 DEF ParserInv, Layout, EndOf
  <2>4. DispatchedInOrder'
    BY <2>1 DEF ParserInv, DispatchedInOrder, Asked, DispatchedWithin
  <2>5. InPlace'
    BY <2>1 DEF ParserInv, InPlace, ParsedUpTo, EndOf, Asked, DispatchedWithin
  <2> QED BY <2>2, <2>3, <2>4, <2>5 DEF ParserInv
<1> QED BY <1>1, <1>2, <1>3, <1>4 DEF Next

\* The parser never loses its place, whatever the client and the network do.
THEOREM ParserInvHolds == Spec => []ParserInv
<1>1. Init => ParserInv
  BY ParserInvInit
<1>2. ParserInv /\ [Next]_vars => ParserInv'
  BY ParserInvNext
<1> QED BY <1>1, <1>2, PTL DEF Spec

-----------------------------------------------------------------------------
(* What the parser promises. *)

\* The type invariant: every variable keeps to its type, and m_rxBuffer is inside
\* what has arrived (TryReceive, ProcessRxBuffer).
THEOREM ParserTypes == Spec => []TypeOK
<1>1. ParserInv => TypeOK
  BY DEF ParserInv
<1> QED BY <1>1, ParserInvHolds, PTL

\* For every cut of the stream, and whatever the client puts in it, the commands
\* dispatched are the ones it sent, once each, in order and none behind a packet
\* that ends the session (ProcessRxBuffer).
THEOREM CommandsInOrder == Spec => []DispatchedInOrder
<1>1. ParserInv => DispatchedInOrder
  BY DEF ParserInv
<1> QED BY <1>1, ParserInvHolds, PTL

\* Between two calls of TryReceive no whole packet waits in the buffer for the
\* client to send the next.
THEOREM NothingLeft == Spec => []NothingLeftBehind
<1>1. ParserInv => NothingLeftBehind
  <2> SUFFICES ASSUME ParserInv, pc = "poll", connected,
                      NEW q \in DOMAIN sent, Asked(q), ends[q] <= received
               PROVE  DispatchedWithin(q, Len(dispatched))
    BY DEF NothingLeftBehind
  <2> USE DEF ParserInv
  <2>1. PICK n \in 0..Len(sent) : ParsedUpTo(n)
    BY DEF InPlace
  <2>2. /\ q \in 1..Len(sent) /\ Len(sent) \in Nat /\ received \in Nat
        /\ \A m \in 0..Len(sent) : EndOf(m) \in Nat
    BY Positions DEF TypeOK
  <2>3. CASE q <= n
    <3>1. q \in 1..n
      BY <2>2, <2>3
    <3> QED BY <2>1, <3>1 DEF ParsedUpTo
  <2>4. CASE n < q
    <3>1. n < Len(sent) /\ n + 1 \in 0..Len(sent) /\ q \in 0..Len(sent) /\ n + 1 # 0 /\ q # 0
      BY <2>2, <2>4
    <3>2. received < ends[n + 1]
      BY <2>1, <3>1 DEF ParsedUpTo
    <3>3. EndOf(n + 1) = ends[n + 1] /\ EndOf(q) = ends[q]
      BY <3>1 DEF EndOf
    <3>4. n + 1 = q \/ EndOf(n + 1) + Field <= EndOf(q)
      <4>1. n + 1 = q \/ n + 1 < q
        BY <2>2, <2>4
      <4> QED BY <3>1, <4>1 DEF Layout
    <3> QED BY <2>2, <3>1, <3>2, <3>3, <3>4, Sizes
  <2> QED BY <2>2, <2>3, <2>4
<1> QED BY <1>1, ParserInvHolds, PTL

\* A client whose last packet is the only one not yet parsed is never taken for
\* one that floods the buffer, unless the packet is longer than the server accepts
\* (TryReceive).
THEOREM OnlyFloods == Spec => OnlyFloodsSwell
<1>1. ParserInv /\ [Next]_vars =>
          [(cause' = "swollen" /\ cause # "swollen") =>
               \/ parsed < EndOf(Len(sent) - 1)
               \/ sent[Len(sent)].bodyLen > MaxBody]_vars
  <2> SUFFICES ASSUME ParserInv, Next, cause' = "swollen", cause # "swollen",
                      ~(sent[Len(sent)].bodyLen > MaxBody)
               PROVE  parsed < EndOf(Len(sent) - 1)
    BY DEF vars, netVars
  <2> USE DEF ParserInv
  <2>1. Recv /\ Swollen(received' - parsed)
    <3>1. ~\E k \in Packets : Send(k)
      BY DEF Send
    <3>2. ~(Arrive \/ Finish \/ SenderEnds \/ TryReceive \/ RecvWouldBlock \/ RecvEnds)
      BY DEF Arrive, Finish, SenderEnds, TryReceive, RecvWouldBlock, RecvEnds, End
    <3>3. ~ProcessRxBuffer
      BY DEF ProcessRxBuffer, Oversized, SkipPacket, Dispatch, Erase, End
    <3>4. Recv
      BY <3>1, <3>2, <3>3 DEF Next
    <3> QED BY <3>4 DEF Recv
  <2>2. pc = "recv" /\ consumed = 0
    BY <2>1 DEF Recv, TypeOK
  <2>3. PICK n \in 0..Len(sent) : ParsedUpTo(n)
    BY <2>2 DEF InPlace
  <2>4. /\ Len(sent) \in Nat /\ DOMAIN sent = 1..Len(sent)
        /\ \A m \in 0..Len(sent) : EndOf(m) \in Nat
        /\ parsed \in Nat /\ received \in Nat /\ arrived \in Nat /\ Len(stream) \in Nat
        /\ arrived <= Len(stream) /\ EndOf(Len(sent)) = Len(stream)
    BY Positions DEF TypeOK, Layout
  <2>5. received' \in Nat /\ received' <= Len(stream)
    <3> DEFINE got == LeastOf(RecvSize, arrived - received)
    <3>1. got \in Nat /\ got <= arrived - received /\ received' = received + got
      BY <2>1, <2>4, Sizes DEF Recv, LeastOf
    <3> HIDE DEF got
    <3> QED BY <2>4, <3>1
  <2>6. parsed = EndOf(n)
    BY <2>2, <2>3, <2>4 DEF ParsedUpTo
  <2>r. PICK r \in Nat : r = received'
    BY <2>5
  <2>7. r - parsed > MaxBody + Slack
    BY <2>1, <2>r DEF Swollen
  <2>n. Len(sent) \in Nat /\ n \in Nat /\ n <= Len(sent)
    BY <2>4
  <2>s. Len(stream) \in Nat /\ parsed \in Nat /\ r \in Nat /\ r <= Len(stream)
    BY <2>4, <2>5, <2>r
  <2>8. n # Len(sent)
    <3>1. n = Len(sent) => parsed = Len(stream)
      BY <2>4, <2>6
    <3>2. MaxBody \in Nat /\ Slack \in Nat
      BY Sizes
    <3>3. parsed # Len(stream)
      BY <2>s, <2>7, <3>2
    <3> QED BY <3>1, <3>3
  <2>9. n # Len(sent) - 1
    <3> SUFFICES ASSUME n = Len(sent) - 1 PROVE FALSE
      OBVIOUS
    <3>1. Len(sent) \in DOMAIN sent /\ Len(sent) # 0
      BY <2>4
    <3>2. /\ ends[Len(sent)] = EndOf(n) + Field + sent[Len(sent)].bodyLen
          /\ sent[Len(sent)] \in Packet
      BY <3>1, Positions DEF Layout
    <3>3. sent[Len(sent)].bodyLen \in Nat /\ sent[Len(sent)].bodyLen <= MaxBody
      BY <3>2, Sizes DEF Packet
    <3>4. ends[Len(sent)] = Len(stream)
      BY <2>4, <3>1 DEF EndOf
    <3>5. Len(stream) = parsed + Field + sent[Len(sent)].bodyLen
      BY <2>6, <3>2, <3>4
    <3>6. MaxBody \in Nat /\ Slack \in Nat /\ Field \in Nat /\ Field <= Slack
      BY Sizes
    <3> QED BY <2>s, <2>7, <3>3, <3>5, <3>6
  <2>10. Len(sent) - 1 \in 0..Len(sent) /\ n < Len(sent) - 1
    BY <2>n, <2>8, <2>9
  <2>11. EndOf(n) + Field <= EndOf(Len(sent) - 1)
    BY <2>10 DEF Layout
  <2>12. EndOf(Len(sent) - 1) \in Nat
    BY <2>4, <2>10
  <2> QED BY <2>s, <2>6, <2>11, <2>12, Sizes
<1> QED BY <1>1, ParserInvHolds, PTL DEF OnlyFloodsSwell, Spec
=============================================================================
