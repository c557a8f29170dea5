-------------------------- MODULE TcpSessionProofs --------------------------
(***************************************************************************)
(* Proofs about TcpSession: framing, the buffer, uploads and answers of    *)
(* one connection, for any headers, limits and number of frames.           *)
(***************************************************************************)
EXTENDS TcpSession, FiniteSetTheorems, SequenceTheorems, TLAPS

Units == [unit : {"header", "byte"}, h : Headers \cup {NoHeader}]

-----------------------------------------------------------------------------
(* Headers and the stream. *)

\* The fields of a header, and the length of its body.
LEMMA HeaderFields ==
  ASSUME NEW h \in Headers \cup {NoHeader}
  PROVE  /\ h.type \in {"create", "other"} /\ h.json \in Int /\ h.post \in Int
         /\ Body(h) \in Nat
         /\ ValidHeader(h) => /\ h.json \in 0..PayloadLimit
                              /\ h.post \in 0..PostLimit(h)
                              /\ Body(h) = h.json + h.post
<1>1. h.type \in {"create", "other"} /\ h.json \in Int /\ h.post \in Int
  BY HeadersAreHeaders, LimitsAreInt64 DEF NoHeader
<1> QED BY <1>1, LimitsAreInt64 DEF Body, ValidHeader

\* The units of the stream and the headers among them.
LEMMA WirePlaces ==
  ASSUME TypeOK
  PROVE  /\ wire \in Seq(Units) /\ Len(wire) \in Nat /\ DOMAIN wire = 1..Len(wire)
         /\ \A i \in DOMAIN wire : wire[i] \in Units /\ Body(wire[i].h) \in Nat
         /\ IsFiniteSet(HeadersAt) /\ Cardinality(HeadersAt) \in Nat
<1>1. wire \in Seq(Units)
  BY DEF TypeOK, Units
<1>2. Len(wire) \in Nat /\ DOMAIN wire = 1..Len(wire)
  BY <1>1, LenProperties
<1>3. \A i \in DOMAIN wire : wire[i] \in Units
  BY <1>1, <1>2, ElementOfSeq
<1>4. \A i \in DOMAIN wire : Body(wire[i].h) \in Nat
  BY <1>3, HeaderFields DEF Units
<1>5. HeadersAt \subseteq 1..Len(wire)
  BY <1>2 DEF HeadersAt
<1>6. IsFiniteSet(HeadersAt)
  <2>1. IsFiniteSet(1..Len(wire))
    BY <1>2, FS_Interval
  <2> QED BY <1>5, <2>1, FS_Subset
<1>7. Cardinality(HeadersAt) \in Nat
  BY <1>6, FS_CardinalityType
<1> QED BY <1>1, <1>2, <1>3, <1>4, <1>6, <1>7

\* What is left of the stream when n units were read.
LEMMA ArrivedPlaces ==
  ASSUME TypeOK, NEW n \in 1..Len(wire), Arrived(n)
  PROVE  /\ wire' \in Seq(Units) /\ Len(wire') = Len(wire) - n
         /\ DOMAIN wire' = 1..(Len(wire) - n)
         /\ \A j \in DOMAIN wire' : j + n \in DOMAIN wire /\ wire'[j] = wire[j + n]
<1>1. wire \in Seq(Units) /\ Len(wire) \in Nat /\ DOMAIN wire = 1..Len(wire)
  BY WirePlaces
<1>2. \A i \in (n + 1)..Len(wire) : wire[i] \in Units
  BY <1>1, WirePlaces
<1>3. n + 1 \in Int /\ Len(wire) \in Int
  BY <1>1
<1>4. /\ wire' \in Seq(Units)
      /\ Len(wire') = IF n + 1 <= Len(wire) THEN Len(wire) - (n + 1) + 1 ELSE 0
      /\ \A j \in 1..(Len(wire) - (n + 1) + 1) : wire'[j] = wire[n + 1 + j - 1]
  BY <1>2, <1>3, SubSeqProperties DEF Arrived
<1>5. Len(wire') = Len(wire) - n
  <2>1. n \in Int /\ 1 <= n /\ n <= Len(wire)
    BY <1>1
  <2>2. Len(wire') = IF n + 1 <= Len(wire) THEN Len(wire) - (n + 1) + 1 ELSE 0
    BY <1>4
  <2>3. CASE n + 1 <= Len(wire)
    BY <1>1, <2>1, <2>2, <2>3
  <2>4. CASE n = Len(wire)
    BY <1>1, <2>1, <2>2, <2>4
  <2>5. n + 1 <= Len(wire) \/ n = Len(wire)
    <3>1. Len(wire) \in Int
      BY <1>1
    <3> QED BY <2>1, <3>1
  <2> QED BY <2>3, <2>4, <2>5
<1>6. DOMAIN wire' = 1..(Len(wire) - n)
  BY <1>4, <1>5, LenProperties
<1>7. ASSUME NEW j \in DOMAIN wire' PROVE j + n \in DOMAIN wire /\ wire'[j] = wire[j + n]
  <2>1. j \in 1..(Len(wire) - (n + 1) + 1) /\ n + 1 + j - 1 = j + n
    BY <1>1, <1>6
  <2>2. wire'[j] = wire[n + 1 + j - 1]
    BY <1>4, <2>1
  <2>3. j + n \in 1..Len(wire)
    BY <1>1, <1>6
  <2> QED BY <1>1, <2>1, <2>2, <2>3
<1> QED BY <1>4, <1>5, <1>6, <1>7

\* What is left when the first units were read is frames again.
LEMMA ArrivedFrames ==
  ASSUME TypeOK, FramesInv, NEW n \in 1..Len(wire), Arrived(n)
  PROVE  /\ FramesInv'
         /\ (\A i \in HeadersAt : i + Body(wire[i].h) <= Len(wire))
              => \A i \in HeadersAt' : i + Body(wire'[i].h) <= Len(wire')
<1>1. /\ Len(wire) \in Nat /\ DOMAIN wire = 1..Len(wire)
      /\ \A i \in DOMAIN wire : Body(wire[i].h) \in Nat
  BY WirePlaces
<1>2. /\ Len(wire') = Len(wire) - n /\ DOMAIN wire' = 1..(Len(wire) - n)
      /\ \A j \in DOMAIN wire' : j + n \in DOMAIN wire /\ wire'[j] = wire[j + n]
  BY ArrivedPlaces
<1>3. ASSUME NEW i \in HeadersAt', NEW j \in DOMAIN wire'
      PROVE  /\ i < j /\ j <= i + Body(wire'[i].h) => wire'[j].unit = "byte"
             /\ j = i + Body(wire'[i].h) + 1 => wire'[j].unit = "header"
  <2> DEFINE b == Body(wire[i + n].h)
  <2>1. i \in DOMAIN wire' /\ i + n \in HeadersAt /\ wire'[i] = wire[i + n]
    BY <1>2 DEF HeadersAt
  <2>2. j + n \in DOMAIN wire /\ wire'[j] = wire[j + n]
    BY <1>2
  <2>3. b \in Nat /\ Body(wire'[i].h) = b
    BY <1>1, <1>2, <2>1
  <2>4. /\ i + n < j + n /\ j + n <= i + n + b => wire[j + n].unit = "byte"
        /\ j + n = i + n + b + 1 => wire[j + n].unit = "header"
    BY <2>1, <2>2 DEF FramesInv
  <2> HIDE DEF b
  <2>5. i \in Int /\ j \in Int
    BY <1>1, <1>2, <2>1
  <2> QED BY <2>2, <2>3, <2>4, <2>5
<1>4. ASSUME \A i \in HeadersAt : i + Body(wire[i].h) <= Len(wire), NEW i \in HeadersAt'
      PROVE  i + Body(wire'[i].h) <= Len(wire')
  <2>1. i \in DOMAIN wire' /\ i + n \in HeadersAt /\ wire'[i] = wire[i + n] /\ i \in Int
    BY <1>1, <1>2 DEF HeadersAt
  <2>2. i + n + Body(wire[i + n].h) <= Len(wire) /\ Body(wire[i + n].h) \in Nat
    BY <1>1, <1>2, <1>4, <2>1
  <2> QED BY <1>1, <1>2, <2>1, <2>2
<1>5. FramesInv'
  BY <1>3 DEF FramesInv
<1> QED BY <1>4, <1>5

\* Reading takes headers away, at least the one it begins with.
LEMMA ArrivedCount ==
  ASSUME TypeOK, NEW n \in 1..Len(wire), Arrived(n)
  PROVE  /\ Cardinality(HeadersAt') \in Nat
         /\ Cardinality(HeadersAt') <= Cardinality(HeadersAt)
         /\ wire[1].unit = "header" => Cardinality(HeadersAt') < Cardinality(HeadersAt)
<1> DEFINE Left == {i \in HeadersAt : i > n}
           down == [i \in Left |-> i - n]
<1>1. /\ Len(wire) \in Nat /\ DOMAIN wire = 1..Len(wire)
      /\ IsFiniteSet(HeadersAt) /\ Cardinality(HeadersAt) \in Nat
  BY WirePlaces
<1>2. /\ DOMAIN wire' = 1..(Len(wire) - n)
      /\ \A j \in DOMAIN wire' : j + n \in DOMAIN wire /\ wire'[j] = wire[j + n]
  BY ArrivedPlaces
<1>3. IsFiniteSet(Left) /\ Cardinality(Left) \in Nat /\ Cardinality(Left) <= Cardinality(HeadersAt)
  BY <1>1, FS_Subset, FS_CardinalityType
<1>4. \A i \in Left : i \in Int /\ i - n \in HeadersAt'
  <2> SUFFICES ASSUME NEW i \in Left PROVE i \in Int /\ i - n \in HeadersAt'
    OBVIOUS
  <2>1. i \in 1..Len(wire) /\ i > n /\ wire[i].unit = "header"
    BY <1>1 DEF HeadersAt
  <2>2. i - n \in DOMAIN wire' /\ i - n + n = i
    BY <1>1, <1>2, <2>1
  <2>3. wire'[i - n] = wire[i]
    BY <1>2, <2>2
  <2> QED BY <2>1, <2>2, <2>3 DEF HeadersAt
<1>5. \A j \in HeadersAt' : \E i \in Left : i - n = j
  <2> SUFFICES ASSUME NEW j \in HeadersAt' PROVE \E i \in Left : i - n = j
    OBVIOUS
  <2>1. j \in DOMAIN wire' /\ j \in 1..(Len(wire) - n) /\ wire'[j].unit = "header"
    BY <1>2 DEF HeadersAt
  <2>2. j + n \in Left
    BY <1>1, <1>2, <2>1 DEF HeadersAt
  <2>3. j + n - n = j
    BY <1>1, <2>1
  <2> HIDE DEF Left
  <2>4. PICK i \in Left : i = j + n
    BY <2>2
  <2>5. i - n = j
    BY <1>1, <1>2, <2>1, <2>4
  <2> QED BY <2>5
<1> HIDE DEF Left
<1>6. down \in [Left -> HeadersAt'] /\ \A j \in HeadersAt' : \E i \in Left : down[i] = j
  BY <1>4, <1>5
<1>7. down \in Surjection(Left, HeadersAt')
  BY <1>6 DEF Surjection
<1> HIDE DEF down
<1>8. IsFiniteSet(HeadersAt') /\ Cardinality(HeadersAt') <= Cardinality(Left)
  BY <1>3, <1>7, FS_Surjection
<1>9. Cardinality(HeadersAt') \in Nat
  BY <1>8, FS_CardinalityType
<1>10. ASSUME wire[1].unit = "header" PROVE Cardinality(Left) < Cardinality(HeadersAt)
  <2>1. 1 \in HeadersAt
    BY <1>1, <1>10 DEF HeadersAt
  <2>2. /\ IsFiniteSet(HeadersAt \ {1})
        /\ Cardinality(HeadersAt \ {1}) = Cardinality(HeadersAt) - 1
    BY <1>1, <2>1, FS_RemoveElement
  <2>3. Left \subseteq HeadersAt \ {1}
    BY DEF Left
  <2>4. Cardinality(Left) <= Cardinality(HeadersAt \ {1})
    BY <2>2, <2>3, FS_Subset
  <2> QED BY <1>1, <1>3, <2>2, <2>4
<1> QED BY <1>1, <1>3, <1>8, <1>9, <1>10
-----------------------------------------------------------------------------
(* The client. *)

\* The stream after a frame was sent.
LEMMA SentPlaces ==
  ASSUME TypeOK, NEW h \in Headers, ClientSend(h)
  PROVE  /\ wire' \in Seq(Units) /\ Len(wire') = Len(wire) + 1 + Body(h)
         /\ DOMAIN wire' = 1..(Len(wire) + 1 + Body(h))
         /\ \A j \in DOMAIN wire : j \in DOMAIN wire' /\ wire'[j] = wire[j]
         /\ wire'[Len(wire) + 1] = [unit |-> "header", h |-> h]
         /\ \A j \in DOMAIN wire' : j > Len(wire) + 1 => wire'[j].unit = "byte"
<1> DEFINE e == [unit |-> "header", h |-> h]
           b == Body(h)
           bytes == [i \in 1..b |-> [unit |-> "byte", h |-> NoHeader]]
           first == Append(wire, e)
<1>1. wire \in Seq(Units) /\ Len(wire) \in Nat /\ DOMAIN wire = 1..Len(wire)
  BY WirePlaces
<1>2. b \in Nat
  BY HeaderFields
<1>3. e \in Units /\ [unit |-> "byte", h |-> NoHeader] \in Units
  BY DEF Units
<1>4. bytes \in Seq(Units) /\ Len(bytes) = b /\ \A i \in 1..b : bytes[i].unit = "byte"
  <2> HIDE DEF b
  <2>1. bytes \in [1..b -> Units] /\ \A i \in 1..b : bytes[i].unit = "byte"
    BY <1>3
  <2>2. bytes \in Seq(Units)
    BY <1>2, <2>1, SeqDef
  <2>3. Len(bytes) = b
    BY <1>2, <2>1
  <2> QED BY <2>1, <2>2, <2>3
<1>5. wire' = first \o bytes
  BY DEF ClientSend
<1> HIDE DEF e, b, bytes
<1>6. /\ first \in Seq(Units) /\ Len(first) = Len(wire) + 1
      /\ \A j \in 1..Len(wire) : first[j] = wire[j]
      /\ first[Len(wire) + 1] = e
  BY <1>1, <1>3, AppendProperties
<1> HIDE DEF first
<1>7. /\ wire' \in Seq(Units) /\ Len(wire') = Len(first) + Len(bytes)
      /\ \A j \in 1..(Len(first) + Len(bytes)) :
           wire'[j] = IF j <= Len(first) THEN first[j] ELSE bytes[j - Len(first)]
  BY <1>4, <1>5, <1>6, ConcatProperties
<1>8. Len(wire') = Len(wire) + 1 + b
  BY <1>4, <1>6, <1>7
<1>9. DOMAIN wire' = 1..(Len(wire) + 1 + b)
  BY <1>7, <1>8, LenProperties
<1>10. ASSUME NEW j \in DOMAIN wire PROVE j \in DOMAIN wire' /\ wire'[j] = wire[j]
  <2>1. j \in 1..Len(wire) /\ j \in 1..(Len(wire) + 1 + b) /\ j <= Len(wire) + 1
    BY <1>1, <1>2
  <2> QED BY <1>4, <1>6, <1>7, <1>9, <2>1
<1>11. wire'[Len(wire) + 1] = e
  <2>1. Len(wire) + 1 \in 1..(Len(wire) + 1 + b)
    BY <1>1, <1>2
  <2> QED BY <1>1, <1>4, <1>6, <1>7, <2>1
<1>12. ASSUME NEW j \in DOMAIN wire', j > Len(wire) + 1 PROVE wire'[j].unit = "byte"
  <2>1. j \in 1..(Len(wire) + 1 + b) /\ j - (Len(wire) + 1) \in 1..b
    BY <1>1, <1>2, <1>9, <1>12
  <2>2. wire'[j] = bytes[j - (Len(wire) + 1)]
    BY <1>1, <1>4, <1>6, <1>7, <1>12, <2>1
  <2> QED BY <1>4, <2>1, <2>2
<1> QED BY <1>7, <1>8, <1>9, <1>10, <1>11, <1>12 DEF e, b

\* The stream after the client hung up.
LEMMA HungUpPlaces ==
  ASSUME TypeOK, ClientHangup
  PROVE  /\ wire' \in Seq(Units) /\ DOMAIN wire' \subseteq DOMAIN wire
         /\ \A j \in DOMAIN wire' : wire'[j] = wire[j]
<1>1. wire \in Seq(Units) /\ Len(wire) \in Nat /\ DOMAIN wire = 1..Len(wire)
  BY WirePlaces
<1>2. PICK n \in 0..Len(wire) : wire' = SubSeq(wire, 1, n)
  BY DEF ClientHangup
<1>3. n \in Int /\ \A i \in 1..n : i \in 1..Len(wire) /\ wire[i] \in Units
  BY <1>1, WirePlaces
<1>4. /\ wire' \in Seq(Units)
      /\ Len(wire') = IF 1 <= n THEN n - 1 + 1 ELSE 0
      /\ \A j \in 1..(n - 1 + 1) : wire'[j] = wire[1 + j - 1]
  BY <1>2, <1>3, SubSeqProperties
<1>5. Len(wire') = n
  <2>1. n \in Nat
    BY <1>1
  <2>2. Len(wire') = IF 1 <= n THEN n - 1 + 1 ELSE 0
    BY <1>4
  <2> QED BY <2>1, <2>2
<1>6. DOMAIN wire' = 1..n
  BY <1>4, <1>5, LenProperties
<1>7. ASSUME NEW j \in 1..n PROVE wire'[j] = wire[j]
  <2>1. j \in 1..(n - 1 + 1) /\ 1 + j - 1 = j
    BY <1>3
  <2>2. wire'[j] = wire[1 + j - 1]
    BY <1>4, <2>1
  <2> QED BY <2>1, <2>2
<1> QED BY <1>1, <1>3, <1>4, <1>6, <1>7

\* What is due is a number of bytes.
LEMMA DueIsInt == ASSUME TypeOK PROVE Due \in Int
<1>1. need \in Nat /\ header.post \in Int
  BY HeaderFields DEF TypeOK
<1> QED BY <1>1 DEF Due

\* A frame that is sent keeps the framing.
LEMMA SentStream ==
  ASSUME TypeOK, FramesInv, DueInv, WholeInv, CountInv, NEW h \in Headers, ClientSend(h)
  PROVE  FramesInv' /\ DueInv' /\ WholeInv' /\ CountInv'
<1> DEFINE L == Len(wire)
           b == Body(h)
<1>1. /\ L \in Nat /\ DOMAIN wire = 1..L
      /\ \A i \in DOMAIN wire : Body(wire[i].h) \in Nat
      /\ IsFiniteSet(HeadersAt) /\ Cardinality(HeadersAt) \in Nat
  BY WirePlaces
<1>2. b \in Nat
  BY HeaderFields
<1>3. /\ Len(wire') = L + 1 + b /\ DOMAIN wire' = 1..(L + 1 + b)
      /\ \A j \in DOMAIN wire : j \in DOMAIN wire' /\ wire'[j] = wire[j]
      /\ wire'[L + 1].unit = "header" /\ wire'[L + 1].h = h
      /\ \A j \in DOMAIN wire' : j > L + 1 => wire'[j].unit = "byte"
  <2>1. wire'[L + 1] = [unit |-> "header", h |-> h]
    BY SentPlaces
  <2>2. wire'[L + 1].unit = "header" /\ wire'[L + 1].h = h
    BY <2>1
  <2> QED BY <2>2, SentPlaces
<1>4. ~hungup /\ UNCHANGED <<hungup, pc, cur, header, need>> /\ sent' = sent + 1
  BY DEF ClientSend
<1>5. Due' = Due /\ Due \in Int
  BY <1>4, DueIsInt DEF Due
<1>6. /\ \A i \in HeadersAt : i + Body(wire[i].h) <= L
      /\ pc \notin {"closing", "closed"} => Due <= L
  BY <1>4 DEF WholeInv
<1> HIDE DEF L, b
<1>7. ASSUME NEW j \in DOMAIN wire' PROVE j \in Int /\ (j \in DOMAIN wire \/ j = L + 1 \/ j > L + 1)
  BY <1>1, <1>2, <1>3
<1>8. HeadersAt' = HeadersAt \cup {L + 1} /\ L + 1 \notin HeadersAt
  <2>1. L + 1 \in DOMAIN wire' /\ L + 1 \notin DOMAIN wire
    BY <1>1, <1>2, <1>3
  <2>2. ASSUME NEW j \in HeadersAt' PROVE j \in HeadersAt \cup {L + 1}
    <3>1. j \in DOMAIN wire' /\ wire'[j].unit = "header"
      BY DEF HeadersAt
    <3>2. j \in DOMAIN wire \/ j = L + 1
      BY <1>3, <1>7, <3>1
    <3> QED BY <1>3, <3>1, <3>2 DEF HeadersAt
  <2>3. ASSUME NEW j \in HeadersAt \cup {L + 1} PROVE j \in HeadersAt'
    BY <1>3, <2>1 DEF HeadersAt
  <2> QED BY <2>1, <2>2, <2>3 DEF HeadersAt
<1>9. FramesInv'
  <2> SUFFICES ASSUME NEW i \in HeadersAt', NEW j \in DOMAIN wire'
               PROVE  /\ i < j /\ j <= i + Body(wire'[i].h) => wire'[j].unit = "byte"
                      /\ j = i + Body(wire'[i].h) + 1 => wire'[j].unit = "header"
    BY DEF FramesInv
  <2>1. CASE i \in HeadersAt
    <3> DEFINE d == Body(wire[i].h)
    <3>1. i \in DOMAIN wire /\ wire'[i] = wire[i] /\ d \in Nat /\ i \in Int /\ i + d <= L
      BY <1>1, <1>3, <1>6, <2>1 DEF HeadersAt
    <3>2. Body(wire'[i].h) = d
      BY <3>1
    <3>3. CASE j \in DOMAIN wire
      <4>1. /\ i < j /\ j <= i + d => wire[j].unit = "byte"
            /\ j = i + d + 1 => wire[j].unit = "header"
        BY <2>1, <3>3 DEF FramesInv
      <4> QED BY <1>3, <3>2, <3>3, <4>1
    <3> HIDE DEF d
    <3>4. CASE j = L + 1
      BY <1>1, <1>3, <3>1, <3>2, <3>4
    <3>5. CASE j > L + 1
      BY <1>1, <1>7, <3>1, <3>2, <3>5
    <3> QED BY <1>7, <3>3, <3>4, <3>5
  <2>2. CASE i = L + 1
    <3>1. Body(wire'[i].h) = b
      BY <1>3, <2>2 DEF b
    <3>2. j <= i + b
      BY <1>1, <1>2, <1>3, <2>2
    <3>3. j \in Int /\ i \in Int
      BY <1>1, <1>7, <2>2
    <3>4. i < j => wire'[j].unit = "byte"
      BY <1>3, <2>2, <3>3
    <3>5. j # i + b + 1
      BY <1>2, <3>2, <3>3
    <3> QED BY <3>1, <3>4, <3>5
  <2> QED BY <1>8, <2>1, <2>2
<1>10. DueInv'
  <2> SUFFICES ASSUME pc \notin {"closing", "closed"}, NEW j \in DOMAIN wire'
               PROVE  /\ j <= Due => wire'[j].unit = "byte"
                      /\ j = Due + 1 => wire'[j].unit = "header"
    BY <1>4, <1>5 DEF DueInv
  <2>1. Due <= L
    BY <1>6
  <2>2. CASE j \in DOMAIN wire
    BY <1>3, <2>2 DEF DueInv
  <2>3. CASE j = L + 1
    BY <1>1, <1>3, <1>5, <2>1, <2>3
  <2>4. CASE j > L + 1
    BY <1>1, <1>5, <1>7, <2>1, <2>4
  <2> QED BY <1>7, <2>2, <2>3, <2>4
<1>11. WholeInv'
  <2>1. ASSUME NEW i \in HeadersAt' PROVE i + Body(wire'[i].h) <= Len(wire')
    <3>1. CASE i \in HeadersAt
      <4>1. wire'[i] = wire[i] /\ Body(wire[i].h) \in Nat /\ i \in Int /\ i + Body(wire[i].h) <= L
        BY <1>1, <1>3, <1>6, <3>1 DEF HeadersAt
      <4> QED BY <1>1, <1>2, <1>3, <4>1
    <3>2. CASE i = L + 1
      <4>1. Body(wire'[i].h) = b
        BY <1>3, <3>2 DEF b
      <4> QED BY <1>1, <1>2, <1>3, <3>2, <4>1
    <3> QED BY <1>8, <3>1, <3>2
  <2>2. pc \notin {"closing", "closed"} => Due <= Len(wire')
    BY <1>1, <1>2, <1>3, <1>5, <1>6
  <2> QED BY <1>4, <1>5, <2>1, <2>2 DEF WholeInv
<1>12. CountInv'
  <2>1. Cardinality(HeadersAt') = Cardinality(HeadersAt) + 1
    BY <1>1, <1>8, FS_AddElement
  <2>2. cur \in Nat /\ sent \in Nat
    BY MaxFramesIsNat DEF TypeOK
  <2> QED BY <1>1, <1>4, <2>1, <2>2 DEF CountInv
<1> QED BY <1>9, <1>10, <1>11, <1>12

\* A stream that was cut keeps the framing of what is left.
LEMMA HungUpStream ==
  ASSUME TypeOK, FramesInv, DueInv, CountInv, ClientHangup
  PROVE  FramesInv' /\ DueInv' /\ WholeInv' /\ CountInv'
<1>1. /\ DOMAIN wire' \subseteq DOMAIN wire
      /\ \A j \in DOMAIN wire' : wire'[j] = wire[j]
  BY HungUpPlaces
<1>2. hungup' /\ UNCHANGED <<pc, cur, header, need, sent>>
  BY DEF ClientHangup
<1>3. HeadersAt' \subseteq HeadersAt
  BY <1>1 DEF HeadersAt
<1>4. FramesInv'
  <2> SUFFICES ASSUME NEW i \in HeadersAt', NEW j \in DOMAIN wire'
               PROVE  /\ i < j /\ j <= i + Body(wire'[i].h) => wire'[j].unit = "byte"
                      /\ j = i + Body(wire'[i].h) + 1 => wire'[j].unit = "header"
    BY DEF FramesInv
  <2>1. wire'[i] = wire[i] /\ wire'[j] = wire[j] /\ i \in HeadersAt /\ j \in DOMAIN wire
    BY <1>1, <1>3 DEF HeadersAt
  <2> QED BY <2>1 DEF FramesInv
<1>5. Due' = Due
  BY <1>2 DEF Due
<1>6. DueInv'
  BY <1>1, <1>2, <1>5 DEF DueInv
<1>7. WholeInv'
  BY <1>2 DEF WholeInv
<1>8. CountInv'
  <2>1. IsFiniteSet(HeadersAt) /\ Cardinality(HeadersAt) \in Nat
    BY WirePlaces
  <2>2. Cardinality(HeadersAt') \in Nat /\ Cardinality(HeadersAt') <= Cardinality(HeadersAt)
    BY <1>3, <2>1, FS_Subset, FS_CardinalityType
  <2>3. cur \in Nat /\ sent \in Nat
    BY MaxFramesIsNat DEF TypeOK
  <2> QED BY <1>2, <2>1, <2>2, <2>3 DEF CountInv
<1> QED BY <1>4, <1>6, <1>7, <1>8
-----------------------------------------------------------------------------
(* The thread and the stream. *)

\* A step that reads nothing.
LEMMA QuietStream ==
  ASSUME FramesInv, DueInv, WholeInv, CountInv, UNCHANGED <<wire, clientVars, cur>>,
         pc' \in {"closing", "closed"} \/ (pc \notin {"closing", "closed"} /\ Due' = Due)
  PROVE  FramesInv' /\ DueInv' /\ WholeInv' /\ CountInv'
<1>1. UNCHANGED <<wire, sent, hungup, cur>> /\ HeadersAt' = HeadersAt
  BY DEF clientVars, HeadersAt
<1>2. FramesInv' /\ CountInv'
  BY <1>1 DEF FramesInv, CountInv
<1>3. DueInv'
  BY <1>1 DEF DueInv
<1>4. WholeInv'
  BY <1>1 DEF WholeInv
<1> QED BY <1>2, <1>3, <1>4

\* A step that reads bytes of the body.
LEMMA BytesStream ==
  ASSUME TypeOK, FramesInv, DueInv, WholeInv, CountInv, pc \notin {"closing", "closed"},
         NEW n \in 1..Len(wire), Arrived(n), UNCHANGED <<clientVars, cur, pc>>,
         Due' = Due - n
  PROVE  FramesInv' /\ DueInv' /\ WholeInv' /\ CountInv'
<1>1. Len(wire) \in Nat /\ n \in Int /\ Due \in Int
  BY WirePlaces, DueIsInt
<1>2. /\ Len(wire') = Len(wire) - n
      /\ \A j \in DOMAIN wire' : j + n \in DOMAIN wire /\ wire'[j] = wire[j + n] /\ j \in Int
  BY <1>1, ArrivedPlaces
<1>3. UNCHANGED <<sent, hungup, cur, pc>>
  BY DEF clientVars
<1>4. FramesInv'
  BY ArrivedFrames
<1>5. DueInv'
  <2> SUFFICES ASSUME NEW j \in DOMAIN wire'
               PROVE  /\ j <= Due' => wire'[j].unit = "byte"
                      /\ j = Due' + 1 => wire'[j].unit = "header"
    BY DEF DueInv
  <2>1. /\ j + n <= Due => wire[j + n].unit = "byte"
        /\ j + n = Due + 1 => wire[j + n].unit = "header"
    BY <1>2 DEF DueInv
  <2>2. j \in Int /\ wire'[j] = wire[j + n]
    BY <1>2
  <2>3. (j <= Due - n => j + n <= Due) /\ (j = Due - n + 1 => j + n = Due + 1)
    BY <1>1, <2>2
  <2> QED BY <2>1, <2>2, <2>3
<1>6. WholeInv'
  <2>1. ASSUME ~hungup PROVE \A i \in HeadersAt' : i + Body(wire'[i].h) <= Len(wire')
    BY <2>1, ArrivedFrames DEF WholeInv
  <2>2. ASSUME ~hungup PROVE Due' <= Len(wire')
    <3>1. Due <= Len(wire)
      BY <2>2 DEF WholeInv
    <3> QED BY <1>1, <1>2, <3>1
  <2> QED BY <1>3, <2>1, <2>2 DEF WholeInv
<1>7. CountInv'
  <2>1. cur \in Nat /\ sent \in Nat /\ Cardinality(HeadersAt) \in Nat
    BY WirePlaces, MaxFramesIsNat DEF TypeOK
  <2>2. Cardinality(HeadersAt') \in Nat /\ Cardinality(HeadersAt') <= Cardinality(HeadersAt)
    BY ArrivedCount
  <2> QED BY <1>3, <2>1, <2>2 DEF CountInv
<1> QED BY <1>4, <1>5, <1>6, <1>7

\* A step that reads a header, which is one.
LEMMA HeaderStream ==
  ASSUME TypeOK, FramesInv, DueInv, WholeInv, CountInv, pc = "header", wire # <<>>,
         Arrived(1), UNCHANGED clientVars, cur' = cur + 1,
         pc' \in {"closing", "closed"} \/ Due' = Body(Head(wire).h)
  PROVE  FramesInv' /\ DueInv' /\ WholeInv' /\ CountInv'
<1> DEFINE b == Body(wire[1].h)
<1>1. Len(wire) \in Nat /\ Len(wire) > 0 /\ DOMAIN wire = 1..Len(wire) /\ Head(wire) = wire[1]
  BY WirePlaces, EmptySeq
<1>2. 1 \in 1..Len(wire) /\ 1 \in DOMAIN wire
  BY <1>1
<1>3. wire[1].unit = "header" /\ 1 \in HeadersAt
  <2>1. Due = 0
    BY DEF Due
  <2>2. 1 = Due + 1
    BY <2>1
  <2>3. wire[1].unit = "header"
    BY <1>2, <2>2 DEF DueInv
  <2> QED BY <1>2, <2>3 DEF HeadersAt
<1>4. /\ Len(wire') = Len(wire) - 1
      /\ \A j \in DOMAIN wire' : j + 1 \in DOMAIN wire /\ wire'[j] = wire[j + 1] /\ j \in Int /\ j >= 1
  <2>1. /\ Len(wire') = Len(wire) - 1 /\ DOMAIN wire' = 1..(Len(wire) - 1)
        /\ \A j \in DOMAIN wire' : j + 1 \in DOMAIN wire /\ wire'[j] = wire[j + 1]
    BY <1>2, ArrivedPlaces
  <2>2. \A j \in 1..(Len(wire) - 1) : j \in Int /\ j >= 1
    BY <1>1
  <2> QED BY <2>1, <2>2
<1>5. UNCHANGED <<sent, hungup>>
  BY DEF clientVars
<1>6. b \in Nat
  BY <1>2, WirePlaces
<1>7. FramesInv'
  BY <1>2, ArrivedFrames
<1>8. pc' \notin {"closing", "closed"} => Due' = b
  BY <1>1
<1>9. DueInv'
  <2> SUFFICES ASSUME pc' \notin {"closing", "closed"}, NEW j \in DOMAIN wire'
               PROVE  /\ j <= b => wire'[j].unit = "byte"
                      /\ j = b + 1 => wire'[j].unit = "header"
    BY <1>8 DEF DueInv
  <2>1. /\ 1 < j + 1 /\ j + 1 <= 1 + b => wire[j + 1].unit = "byte"
        /\ j + 1 = 1 + b + 1 => wire[j + 1].unit = "header"
    BY <1>3, <1>4 DEF FramesInv
  <2> HIDE DEF b
  <2>2. j \in Int /\ j >= 1 /\ wire'[j] = wire[j + 1]
    BY <1>4
  <2> QED BY <1>6, <2>1, <2>2
<1>10. WholeInv'
  <2>1. ASSUME ~hungup PROVE \A i \in HeadersAt' : i + Body(wire'[i].h) <= Len(wire')
    BY <1>2, <2>1, ArrivedFrames DEF WholeInv
  <2>2. ASSUME ~hungup, pc' \notin {"closing", "closed"} PROVE Due' <= Len(wire')
    <3>1. 1 + b <= Len(wire)
      BY <1>3, <2>2 DEF WholeInv
    <3> HIDE DEF b
    <3> QED BY <1>1, <1>4, <1>6, <1>8, <2>2, <3>1
  <2> QED BY <1>5, <2>1, <2>2 DEF WholeInv
<1>11. CountInv'
  <2>1. cur \in Nat /\ sent \in Nat /\ Cardinality(HeadersAt) \in Nat
    BY WirePlaces, MaxFramesIsNat DEF TypeOK
  <2>2. Cardinality(HeadersAt') \in Nat /\ Cardinality(HeadersAt') < Cardinality(HeadersAt)
    BY <1>2, <1>3, ArrivedCount
  <2> QED BY <1>5, <2>1, <2>2 DEF CountInv
<1> QED BY <1>7, <1>9, <1>10, <1>11

\* How many bytes one round of read_exact reads.
LEMMA RoundSize ==
  ASSUME TypeOK, NEW n \in 1..MinOf(MinOf(Chunk, need), Len(wire))
  PROVE  n \in 1..Len(wire) /\ n \in Nat /\ n > 0 /\ n <= need
<1>1. Len(wire) \in Nat /\ need \in Nat /\ Chunk \in Nat
  BY WirePlaces, ChunkPositive DEF TypeOK
<1> QED BY <1>1 DEF MinOf

\* No step of the thread or of the client breaks the framing.
LEMMA StreamStep ==
  ASSUME TypeOK, FramesInv, DueInv, WholeInv, CountInv, RequestInv, [Next]_vars
  PROVE  FramesInv' /\ DueInv' /\ WholeInv' /\ CountInv'
<1> DEFINE Goal == FramesInv' /\ DueInv' /\ WholeInv' /\ CountInv'
<1>1. need \in Nat /\ header.post \in Int /\ header.json \in Int
  BY HeaderFields DEF TypeOK
<1> USE DEF clientVars
<1>2. CASE ReadBegin \/ ShortHeader \/ PostRead \/ BodyCut \/ OpenUpload \/ UploadRead
  <2>1. CASE ReadBegin
    BY <2>1, QuietStream DEF ReadBegin, Due
  <2>2. CASE ShortHeader
    BY <2>2, QuietStream DEF ShortHeader
  <2>3. CASE PostRead
    BY <2>3, QuietStream DEF PostRead, Due
  <2>4. CASE BodyCut
    BY <2>4, QuietStream DEF BodyCut
  <2>5. CASE OpenUpload
    BY <2>5, QuietStream DEF OpenUpload, Due
  <2>6. CASE UploadRead
    BY <2>6, QuietStream DEF UploadRead, Due
  <2> QED BY <1>2, <2>1, <2>2, <2>3, <2>4, <2>5, <2>6
<1>3. CASE TaskSucceeds \/ TaskFails \/ TaskUnwinds \/ Destroy
  BY <1>3, QuietStream DEF TaskSucceeds, TaskFails, TaskUnwinds, Destroy, Due
<1>4. CASE JsonRead
  <2>1. header.post >= 0
    BY <1>4, HeaderFields DEF JsonRead, RequestInv, Serving, ValidHeader
  <2>2. UNCHANGED <<wire, clientVars, cur>> /\ pc \notin {"closing", "closed"}
    BY <1>4 DEF JsonRead
  <2>3. Due' = Due
    BY <1>1, <1>4, <2>1 DEF JsonRead, Due
  <2> QED BY <2>2, <2>3, QuietStream
<1>5. CASE ReadIntoBuffer
  <2>1. PICK n \in 1..MinOf(MinOf(Chunk, need), Len(wire)) :
          Arrived(n) /\ need' = need - n
    BY <1>5 DEF ReadIntoBuffer
  <2>2. n \in 1..Len(wire) /\ n \in Nat
    BY RoundSize
  <2>3. /\ UNCHANGED <<clientVars, cur, pc>> /\ pc \notin {"closing", "closed"}
        /\ Due' = Due - n
    BY <1>1, <1>5, <2>1, <2>2 DEF ReadIntoBuffer, Due
  <2> QED BY <2>1, <2>2, <2>3, BytesStream
<1>6. CASE ReadIntoFile
  <2>1. PICK n \in 1..MinOf(MinOf(Chunk, need), Len(wire)) :
          Arrived(n) /\ need' = need - n
    BY <1>6 DEF ReadIntoFile
  <2>2. n \in 1..Len(wire) /\ n \in Nat
    BY RoundSize
  <2>3. /\ UNCHANGED <<clientVars, cur, pc>> /\ pc \notin {"closing", "closed"}
        /\ Due' = Due - n
    BY <1>1, <1>6, <2>1, <2>2 DEF ReadIntoFile, Due
  <2> QED BY <2>1, <2>2, <2>3, BytesStream
<1>7. CASE ReadHeader
  <2>1. /\ pc = "header" /\ wire # <<>> /\ Arrived(1) /\ UNCHANGED clientVars /\ cur' = cur + 1
        /\ header' = Head(wire).h /\ ValidHeader(header') /\ need' = header'.json /\ pc' = "json"
    BY <1>7 DEF ReadHeader
  <2>2. header' \in Headers \cup {NoHeader}
    BY <2>1, WirePlaces, HeadTailProperties DEF Units
  <2>3. Body(header') = header'.json + header'.post
    BY <2>1, <2>2, HeaderFields
  <2>4. Due' = Body(Head(wire).h)
    BY <2>1, <2>3 DEF Due
  <2> QED BY <2>1, <2>4, HeaderStream
<1>8. CASE RejectHeader
  BY <1>8, HeaderStream DEF RejectHeader
<1>9. ASSUME NEW h \in Headers, ClientSend(h) PROVE Goal
  BY <1>9, SentStream
<1>10. CASE ClientHangup
  BY <1>10, HungUpStream
<1>11. CASE UNCHANGED vars
  BY <1>11, WirePlaces DEF vars, FramesInv, DueInv, WholeInv, CountInv, HeadersAt, Due
<1> HIDE DEF Goal
<1> QED
  BY <1>2, <1>3, <1>4, <1>5, <1>6, <1>7, <1>8, <1>9, <1>10, <1>11
  DEF Next, Thread, Client, Goal

\* Framing kept is a header first where one is expected.
LEMMA DueMeansInSync == TypeOK /\ DueInv => InSync
<1> SUFFICES ASSUME TypeOK, DueInv, pc \in {"loop", "header"}, wire # <<>>
             PROVE  Head(wire).unit = "header"
  BY DEF InSync
<1>1. Head(wire) = wire[1] /\ Len(wire) \in Nat /\ Len(wire) > 0 /\ DOMAIN wire = 1..Len(wire)
  BY WirePlaces, EmptySeq
<1>2. 1 \in DOMAIN wire
  BY <1>1
<1>3. Due = 0
  BY DEF Due
<1>4. 1 = Due + 1
  BY <1>3
<1> QED BY <1>1, <1>2, <1>4 DEF DueInv
-----------------------------------------------------------------------------
(* Types, and the request being served. *)

\* What is known of the request once its header was accepted.
LEMMA RequestFacts ==
  ASSUME TypeOK, RequestInv
  PROVE  /\ header.type \in {"create", "other"} /\ header.json \in Int /\ header.post \in Int
         /\ need \in Nat /\ buffer \in Nat /\ PayloadLimit \in Nat
         /\ pc \in Serving => /\ header.json \in 0..PayloadLimit /\ header.post >= 0
                              /\ header.type = "other" => header.post <= PayloadLimit
                              /\ cur \in 1..MaxFrames
<1>1. header \in Headers \cup {NoHeader} /\ need \in Nat /\ buffer \in Nat /\ cur \in 0..MaxFrames
  BY DEF TypeOK
<1>2. header.type \in {"create", "other"} /\ header.json \in Int /\ header.post \in Int
  BY <1>1, HeaderFields
<1>3. PayloadLimit \in Nat /\ UploadLimit \in Nat
  BY LimitsAreInt64
<1>4. ASSUME pc \in Serving
      PROVE  /\ header.json \in 0..PayloadLimit /\ header.post >= 0
             /\ header.type = "other" => header.post <= PayloadLimit
             /\ cur \in 1..MaxFrames
  <2>1. ValidHeader(header) /\ cur >= 1
    BY <1>4 DEF RequestInv
  <2>2. header.json \in 0..PayloadLimit /\ header.post \in 0..PostLimit(header)
    BY <1>1, <2>1, HeaderFields
  <2>3. header.type = "other" => PostLimit(header) = PayloadLimit
    BY DEF PostLimit
  <2>4. PostLimit(header) \in Nat
    BY <1>3 DEF PostLimit
  <2>5. cur \in 1..MaxFrames
    BY <1>1, <2>1, MaxFramesIsNat
  <2> QED BY <1>2, <1>3, <2>2, <2>3, <2>4, <2>5
<1> QED BY <1>1, <1>2, <1>3, <1>4

Answers == (1..MaxFrames) \X {"result", "error"}

\* An answer was added, or none was.
LEMMA WriteOutcome ==
  ASSUME out \in Seq(Answers), NEW c \in 1..MaxFrames, NEW kind \in {"result", "error"},
         (out' = Append(out, <<c, kind>>)) \/ UNCHANGED out
  PROVE  out' \in Seq(Answers)
<1>1. <<c, kind>> \in Answers
  BY DEF Answers
<1> QED BY <1>1, AppendProperties

\* Every step preserves the types.
LEMMA TypeStep ==
  ASSUME TypeOK, DueInv, CountInv, RequestInv, [Next]_vars, CountInv', StrayInv'
  PROVE  TypeOK'
<1> DEFINE Rest == /\ wire' \in Seq(Units) /\ sent' \in 0..MaxFrames /\ hungup' \in BOOLEAN
                   /\ pc' \in PC /\ cur' \in 0..MaxFrames /\ header' \in Headers \cup {NoHeader}
                   /\ need' \in Nat /\ buffer' \in Nat /\ path' \in BOOLEAN
                   /\ disk' \in {"none", "partial", "whole", "bad"} /\ endpoint' \in BOOLEAN
                   /\ out' \in Seq(Answers) /\ BufferBounded'
<1>1. ASSUME Rest PROVE TypeOK'
  <2>1. stray' \subseteq 1..MaxFrames
    BY <1>1, MaxFramesIsNat DEF StrayInv
  <2> QED BY <1>1, <2>1 DEF TypeOK, Units, Answers, BufferBounded
<1>2. /\ wire \in Seq(Units) /\ sent \in 0..MaxFrames /\ hungup \in BOOLEAN
      /\ pc \in PC /\ cur \in 0..MaxFrames /\ header \in Headers \cup {NoHeader}
      /\ need \in Nat /\ buffer \in Nat /\ path \in BOOLEAN
      /\ disk \in {"none", "partial", "whole", "bad"} /\ endpoint \in BOOLEAN
      /\ out \in Seq(Answers)
  BY DEF TypeOK, Units, Answers
<1>3. BufferBounded
  BY DEF TypeOK
<1>4. /\ header.type \in {"create", "other"} /\ header.json \in Int /\ header.post \in Int
      /\ PayloadLimit \in Nat
      /\ pc \in Serving => /\ header.json \in 0..PayloadLimit /\ header.post >= 0
                           /\ header.type = "other" => header.post <= PayloadLimit
                           /\ cur \in 1..MaxFrames
  BY RequestFacts
<1> USE DEF clientVars, PC, Serving
<1>5. ASSUME UNCHANGED <<wire, sent, hungup, cur, header, buffer>>, pc # "loop" \/ pc' = "loop",
             pc' \in PC, need' \in Nat, path' \in BOOLEAN,
             disk' \in {"none", "partial", "whole", "bad"}, endpoint' \in BOOLEAN,
             out' \in Seq(Answers)
      PROVE  TypeOK'
  <2>1. BufferBounded'
    BY <1>3, <1>5 DEF BufferBounded
  <2> QED BY <1>1, <1>2, <1>5, <2>1
<1>6. CASE ReadBegin
  <2>1. BufferBounded'
    BY <1>4, <1>6 DEF ReadBegin, BufferBounded
  <2> QED BY <1>1, <1>2, <1>6, <2>1 DEF ReadBegin, CleanupUpload
<1>7. CASE ShortHeader \/ JsonRead \/ PostRead \/ BodyCut \/ UploadRead
  BY <1>2, <1>4, <1>5, <1>7 DEF ShortHeader, JsonRead, PostRead, BodyCut, UploadRead
<1>8. CASE TaskUnwinds \/ Destroy
  BY <1>2, <1>5, <1>8
  DEF TaskUnwinds, Destroy, EndpointThrows, EndpointKnown, CleanupUpload
<1>9. CASE TaskSucceeds \/ TaskFails
  <2>1. pc = "task" /\ UNCHANGED <<wire, sent, hungup, cur, header, need, buffer, path, disk>>
    BY <1>9 DEF TaskSucceeds, TaskFails
  <2>2. endpoint' \in BOOLEAN /\ pc' \in {"loop", "closing"}
    BY <1>9 DEF TaskSucceeds, TaskFails, EndpointKnown
  <2>3. \E kind \in {"result", "error"} : (out' = Append(out, <<cur, kind>>)) \/ UNCHANGED out
    BY <1>9 DEF TaskSucceeds, TaskFails, Write, WriteFails, SendError
  <2>4. out' \in Seq(Answers)
    BY <1>2, <1>4, <2>1, <2>3, WriteOutcome
  <2>5. BufferBounded'
    BY <1>3, <2>1 DEF BufferBounded
  <2> QED BY <1>1, <1>2, <2>1, <2>2, <2>4, <2>5
<1>10. CASE OpenUpload
  <2>1. pc = "open" /\ UNCHANGED <<wire, sent, hungup, cur, header, need, buffer>>
    BY <1>10 DEF OpenUpload
  <2>2. /\ pc' \in {"upload", "closing"} /\ path' \in BOOLEAN /\ endpoint' \in BOOLEAN
        /\ disk' \in {"none", "partial", "whole", "bad"}
    BY <1>2, <1>10 DEF OpenUpload, EndpointThrows, EndpointKnown
  <2>3. \E kind \in {"result", "error"} : (out' = Append(out, <<cur, kind>>)) \/ UNCHANGED out
    BY <1>10 DEF OpenUpload, SendError, Write, WriteFails, EndpointThrows
  <2>4. out' \in Seq(Answers)
    BY <1>2, <1>4, <2>1, <2>3, WriteOutcome
  <2> QED BY <1>2, <1>5, <2>1, <2>2, <2>4
<1>11. CASE ReadIntoBuffer
  <2>1. PICK n \in 1..MinOf(MinOf(Chunk, need), Len(wire)) :
          Arrived(n) /\ need' = need - n /\ buffer' = buffer + n
    BY <1>11 DEF ReadIntoBuffer
  <2>2. n \in 1..Len(wire) /\ n \in Nat /\ n > 0 /\ n <= need
    BY RoundSize
  <2>3. wire' \in Seq(Units)
    BY <2>1, <2>2, ArrivedPlaces
  <2>4. /\ UNCHANGED <<sent, hungup, pc, cur, header, path, disk, endpoint, out>>
        /\ pc \in {"json", "post"}
    BY <1>11 DEF ReadIntoBuffer
  <2>5. BufferBounded'
    <3>0. need \in Nat /\ n \in Nat /\ n <= need
      BY <2>2, RequestFacts
    <3>1. CASE pc = "json"
      <4>1. need <= header.json /\ buffer = header.json - need
        BY <3>1 DEF RequestInv
      <4>2. header.json \in 0..PayloadLimit /\ PayloadLimit \in Nat
        BY <1>4, <3>1
      <4>3. buffer' = header.json - need + n
        BY <2>1, <4>1
      <4>4. buffer' \in Int /\ buffer' <= PayloadLimit /\ buffer' <= 2 * PayloadLimit
        BY <3>0, <4>1, <4>2, <4>3
      <4> QED BY <4>2, <4>4 DEF BufferBounded
    <3>2. CASE pc = "post"
      <4>1. header.type = "other" /\ buffer = header.json + header.post - need
        BY <3>2 DEF RequestInv
      <4>2. header.json \in 0..PayloadLimit /\ header.post \in 0..PayloadLimit /\ PayloadLimit \in Nat
        BY <1>4, <3>2, <4>1
      <4>3. buffer' = header.json + header.post - need + n
        BY <2>1, <4>1
      <4>4. buffer' <= 2 * PayloadLimit
        BY <3>0, <4>2, <4>3
      <4> QED BY <2>4, <4>1, <4>4 DEF BufferBounded
    <3> QED BY <2>4, <3>1, <3>2
  <2>6. need' \in Nat /\ buffer' \in Nat
    BY <1>2, <2>1, <2>2
  <2> QED BY <1>1, <1>2, <2>3, <2>4, <2>5, <2>6
<1>12. CASE ReadIntoFile
  <2>1. PICK n \in 1..MinOf(MinOf(Chunk, need), Len(wire)) : Arrived(n) /\ need' = need - n
    BY <1>12 DEF ReadIntoFile
  <2>2. n \in 1..Len(wire) /\ n \in Nat /\ n <= need
    BY RoundSize
  <2>3. wire' \in Seq(Units)
    BY <2>1, <2>2, ArrivedPlaces
  <2>4. /\ UNCHANGED <<sent, hungup, pc, cur, header, buffer, path, endpoint, out>>
        /\ disk' \in {disk, "bad"}
    BY <1>12 DEF ReadIntoFile
  <2>5. need' \in Nat /\ BufferBounded'
    BY <1>2, <1>3, <2>1, <2>2, <2>4 DEF BufferBounded
  <2> QED BY <1>1, <1>2, <2>3, <2>4, <2>5
<1>13. CASE ReadHeader \/ RejectHeader
  <2>1. /\ pc = "header" /\ wire # <<>> /\ Arrived(1) /\ cur' = cur + 1 /\ header' = Head(wire).h
        /\ UNCHANGED <<sent, hungup, buffer, path, disk>>
    BY <1>13 DEF ReadHeader, RejectHeader
  <2>2. 1 \in 1..Len(wire) /\ header' \in Headers \cup {NoHeader}
    <3>1. Len(wire) \in Nat /\ Len(wire) > 0
      BY <1>2, <2>1, EmptySeq
    <3>2. Head(wire) \in Units
      BY <1>2, <2>1, HeadTailProperties
    <3> QED BY <2>1, <3>1, <3>2 DEF Units
  <2>3. wire' \in Seq(Units)
    BY <2>1, <2>2, ArrivedPlaces
  <2>4. cur' \in 1..MaxFrames
    <3>1. Cardinality(HeadersAt') \in Nat
      BY <2>1, <2>2, ArrivedCount
    <3>2. cur' + Cardinality(HeadersAt') <= sent'
      BY DEF CountInv
    <3> QED BY <1>2, <2>1, <3>1, <3>2, MaxFramesIsNat
  <2>5. BufferBounded'
    <3>1. buffer = 0
      BY <2>1 DEF RequestInv
    <3> QED BY <1>4, <2>1, <3>1 DEF BufferBounded
  <2>6. pc' \in PC /\ endpoint' \in BOOLEAN
    BY <1>2, <1>13 DEF ReadHeader, RejectHeader, EndpointThrows, EndpointKnown
  <2>7. need' \in Nat
    <3>1. CASE RejectHeader
      BY <1>2, <3>1 DEF RejectHeader
    <3>2. CASE ReadHeader
      <4>1. ValidHeader(header') /\ need' = header'.json
        BY <3>2 DEF ReadHeader
      <4>2. header'.json \in Int
        BY <2>2, HeaderFields
      <4> QED BY <4>1, <4>2 DEF ValidHeader
    <3> QED BY <1>13, <3>1, <3>2
  <2>8. (out' = Append(out, <<cur', "error">>)) \/ UNCHANGED out
    BY <1>13 DEF ReadHeader, RejectHeader, WriteFails
  <2>9. out' \in Seq(Answers)
    BY <1>2, <2>4, <2>8, WriteOutcome
  <2>10. cur' \in 0..MaxFrames
    BY <2>4
  <2> QED BY <1>1, <1>2, <2>1, <2>2, <2>3, <2>5, <2>6, <2>7, <2>9, <2>10
<1>14. ASSUME NEW h \in Headers, ClientSend(h) PROVE TypeOK'
  <2>1. /\ UNCHANGED <<hungup, pc, cur, header, need, buffer, path, disk, endpoint, out>>
        /\ sent < MaxFrames /\ sent' = sent + 1
    BY <1>14 DEF ClientSend
  <2>2. wire' \in Seq(Units)
    BY <1>14, SentPlaces
  <2>3. sent' \in 0..MaxFrames /\ BufferBounded'
    BY <1>2, <1>3, <2>1, MaxFramesIsNat DEF BufferBounded
  <2> QED BY <1>1, <1>2, <2>1, <2>2, <2>3
<1>15. CASE ClientHangup
  <2>1. UNCHANGED <<sent, pc, cur, header, need, buffer, path, disk, endpoint, out>> /\ hungup'
    BY <1>15 DEF ClientHangup
  <2>2. wire' \in Seq(Units)
    BY <1>15, HungUpPlaces
  <2>3. hungup' \in BOOLEAN /\ BufferBounded'
    BY <1>3, <1>15, <2>1 DEF BufferBounded, ClientHangup
  <2> QED BY <1>1, <1>2, <2>1, <2>2, <2>3
<1>16. CASE UNCHANGED vars
  BY <1>16 DEF vars, TypeOK, BufferBounded
<1> QED
  BY <1>6, <1>7, <1>8, <1>9, <1>10, <1>11, <1>12, <1>13, <1>14, <1>15, <1>16
  DEF Next, Thread, Client

\* A temp file that could not be removed is never that of the request being served.
LEMMA StrayStep ==
  ASSUME TypeOK, RequestInv, StrayInv, UploadHasOwner, [Next]_vars
  PROVE  StrayInv' /\ (pc' \in Serving => cur' \notin stray')
<1> DEFINE Goal == StrayInv' /\ (pc' \in Serving => cur' \notin stray')
<1>1. cur \in Nat /\ stray \subseteq 1..cur /\ (disk # "none" => cur \in 1..cur)
  BY MaxFramesIsNat DEF TypeOK, StrayInv
<1>2. pc \in Serving => cur \in 1..cur /\ cur \notin stray
  BY <1>1 DEF RequestInv, UploadHasOwner
\* Where cleanup_upload runs.
<1>3. CASE ReadBegin \/ Destroy
  <2>1. cur' = cur /\ pc' \in {"header", "closed"} /\ disk' \in {"none", disk}
    BY <1>3 DEF ReadBegin, Destroy, CleanupUpload
  <2>2. stray' = stray \/ (disk # "none" /\ stray' = stray \cup {cur})
    BY <1>3 DEF ReadBegin, Destroy, CleanupUpload
  <2>3. stray' \subseteq 1..cur
    BY <1>1, <2>2
  <2> QED BY <1>1, <2>1, <2>3 DEF StrayInv, Serving
\* Where the number of the frame changes.
<1>4. CASE ReadHeader \/ RejectHeader
  <2>1. cur' = cur + 1 /\ UNCHANGED <<stray, disk>>
    BY <1>4 DEF ReadHeader, RejectHeader
  <2>2. cur + 1 \notin stray /\ stray \subseteq 1..(cur + 1) /\ cur + 1 >= 1
    BY <1>1
  <2> QED BY <2>1, <2>2 DEF StrayInv
\* The other steps.
<1>5. ASSUME UNCHANGED <<cur, stray>>, pc' \in Serving => pc \in Serving,
             disk' = "none" \/ disk' = disk \/ pc \in Serving
      PROVE  Goal
  BY <1>1, <1>2, <1>5 DEF StrayInv
<1> USE DEF Serving, clientVars
<1>6. CASE ShortHeader \/ ReadIntoBuffer \/ JsonRead \/ PostRead \/ BodyCut
  BY <1>5, <1>6 DEF ShortHeader, ReadIntoBuffer, JsonRead, PostRead, BodyCut
<1>7. CASE OpenUpload \/ ReadIntoFile \/ UploadRead
  BY <1>5, <1>7 DEF OpenUpload, ReadIntoFile, UploadRead
<1>8. CASE TaskSucceeds \/ TaskFails \/ TaskUnwinds
  BY <1>5, <1>8 DEF TaskSucceeds, TaskFails, TaskUnwinds
<1>9. ASSUME NEW h \in Headers, ClientSend(h) PROVE Goal
  BY <1>5, <1>9 DEF ClientSend
<1>10. CASE ClientHangup \/ UNCHANGED vars
  BY <1>5, <1>10 DEF ClientHangup, vars
<1> HIDE DEF Goal
<1>11. Goal
  BY <1>3, <1>4, <1>6, <1>7, <1>8, <1>9, <1>10 DEF Next, Thread, Client, Goal
<1> QED BY <1>11 DEF Goal

\* The buffer and the temp file hold what was read of this request, and nothing
\* else; there is a temp file only while the thread knows its name.
LEMMA RequestStep ==
  ASSUME TypeOK, RequestInv, StrayInv, UploadHasOwner, TaskSeesWholeRequest, [Next]_vars
  PROVE  RequestInv' /\ UploadHasOwner' /\ TaskSeesWholeRequest'
<1> DEFINE Goal == RequestInv' /\ UploadHasOwner' /\ TaskSeesWholeRequest'
<1>s. pc' \in Serving => cur' \notin stray'
  BY StrayStep
<1>1. /\ header.type \in {"create", "other"} /\ header.json \in Int /\ header.post \in Int
      /\ need \in Nat /\ buffer \in Nat /\ cur \in Nat /\ path \in BOOLEAN
      /\ pc \in Serving => header.json >= 0 /\ header.post >= 0
  BY RequestFacts, MaxFramesIsNat DEF TypeOK
<1> USE <1>s DEF RequestInv, UploadHasOwner, TaskSeesWholeRequest, Serving, clientVars
<1>2. CASE ReadBegin
  BY <1>2 DEF ReadBegin, CleanupUpload
<1>3. CASE ReadHeader
  <2>1. /\ header' \in Headers \cup {NoHeader}
    <3>1. wire \in Seq(Units) /\ wire # <<>> /\ header' = Head(wire).h
      BY <1>3, WirePlaces DEF ReadHeader
    <3>2. Head(wire) \in Units
      BY <3>1, HeadTailProperties
    <3> QED BY <3>1, <3>2 DEF Units
  <2>2. header'.json \in Int /\ header'.post \in Int
    BY <2>1, HeaderFields
  <2>3. /\ pc = "header" /\ pc' = "json" /\ cur' = cur + 1 /\ need' = header'.json
        /\ ValidHeader(header)' /\ UNCHANGED <<buffer, path, disk>>
    BY <1>3 DEF ReadHeader, ValidHeader, PostLimit
  <2> QED BY <1>1, <2>2, <2>3
<1>4. CASE RejectHeader \/ ShortHeader \/ BodyCut \/ TaskUnwinds
  BY <1>4 DEF RejectHeader, ShortHeader, BodyCut, TaskUnwinds
<1>5. CASE ReadIntoBuffer
  <2>1. PICK n \in 1..MinOf(MinOf(Chunk, need), Len(wire)) :
          need' = need - n /\ buffer' = buffer + n
    BY <1>5 DEF ReadIntoBuffer
  <2>2. n \in Nat /\ n <= need
    BY RoundSize
  <2>3. /\ UNCHANGED <<pc, cur, header, path, disk>> /\ pc \in {"json", "post"}
        /\ ValidHeader(header)' = ValidHeader(header)
    BY <1>5 DEF ReadIntoBuffer, ValidHeader, PostLimit
  <2>4. CASE pc = "json"
    <3>1. need' <= header.json /\ buffer' = header.json - need'
      BY <1>1, <2>1, <2>2, <2>4
    <3> QED BY <2>3, <2>4, <3>1
  <2>5. CASE pc = "post"
    <3>1. need' <= header.post /\ buffer' = header.json + header.post - need'
      BY <1>1, <2>1, <2>2, <2>5
    <3> QED BY <2>3, <2>5, <3>1
  <2> QED BY <2>3, <2>4, <2>5
<1>6. CASE JsonRead
  <2>1. /\ pc = "json" /\ need = 0 /\ UNCHANGED <<cur, header, buffer, path, disk>>
        /\ ValidHeader(header)' = ValidHeader(header)
    BY <1>6 DEF JsonRead, ValidHeader, PostLimit
  <2>2. CASE header.post > 0
    BY <1>1, <1>6, <2>1, <2>2 DEF JsonRead
  <2>3. CASE header.post = 0
    BY <1>1, <1>6, <2>1, <2>3 DEF JsonRead
  <2> QED BY <1>1, <2>1, <2>2, <2>3
<1>7. CASE PostRead
  <2>1. /\ pc = "post" /\ need = 0 /\ pc' = "task" /\ UNCHANGED <<cur, header, buffer, path, disk>>
        /\ ValidHeader(header)' = ValidHeader(header)
    BY <1>7 DEF PostRead, ValidHeader, PostLimit
  <2> QED BY <1>1, <2>1
<1>8. CASE OpenUpload
  <2>1. /\ pc = "open" /\ UNCHANGED <<cur, header, need, buffer>>
        /\ ValidHeader(header)' = ValidHeader(header)
    BY <1>8 DEF OpenUpload, ValidHeader, PostLimit
  <2>2. \/ pc' = "upload" /\ path' /\ disk' = "partial"
        \/ pc' = "closing" /\ path' /\ disk' = disk
        \/ pc' = "closing" /\ path' = path /\ disk' = disk
    BY <1>8 DEF OpenUpload
  <2> QED BY <1>1, <2>1, <2>2
<1>9. CASE ReadIntoFile
  <2>1. PICK n \in 1..MinOf(MinOf(Chunk, need), Len(wire)) : need' = need - n
    BY <1>9 DEF ReadIntoFile
  <2>2. n \in Nat /\ n <= need
    BY RoundSize
  <2>3. /\ UNCHANGED <<pc, cur, header, buffer, path>> /\ pc = "upload" /\ disk' \in {disk, "bad"}
        /\ ValidHeader(header)' = ValidHeader(header)
    BY <1>9 DEF ReadIntoFile, ValidHeader, PostLimit
  <2> QED BY <1>1, <2>1, <2>2, <2>3
<1>10. CASE UploadRead
  <2>1. /\ pc = "upload" /\ UNCHANGED <<cur, header, buffer, path>>
        /\ \/ disk' = "whole" /\ pc' = "task"
           \/ disk' = "bad" /\ pc' = "closing"
        /\ ValidHeader(header)' = ValidHeader(header)
    BY <1>10 DEF UploadRead, ValidHeader, PostLimit
  <2> QED BY <1>1, <2>1
<1>11. CASE TaskSucceeds \/ TaskFails
  BY <1>11 DEF TaskSucceeds, TaskFails
<1>12. CASE Destroy
  BY <1>12 DEF Destroy, CleanupUpload
<1>13. ASSUME UNCHANGED <<pc, cur, header, need, buffer, path, disk>> PROVE Goal
  BY <1>13 DEF ValidHeader, PostLimit
<1>14. ASSUME NEW h \in Headers, ClientSend(h) PROVE Goal
  BY <1>13, <1>14 DEF ClientSend
<1>15. CASE ClientHangup
  BY <1>13, <1>15 DEF ClientHangup
<1>16. CASE UNCHANGED vars
  BY <1>13, <1>16 DEF vars
<1> HIDE DEF Goal
<1>17. Goal
  BY <1>2, <1>3, <1>4, <1>5, <1>6, <1>7, <1>8, <1>9, <1>10, <1>11, <1>12, <1>14, <1>15, <1>16
  DEF Next, Thread, Client, Goal
<1> QED BY <1>17 DEF Goal

-----------------------------------------------------------------------------
(* Answers. *)

\* The request being served is answered once, before the next header is read.
LEMMA AnswersStep ==
  ASSUME TypeOK, TypeOK', RequestInv, AnswersInv, AnswersInOrder, [Next]_vars
  PROVE  AnswersInv' /\ AnswersInOrder'
<1> DEFINE Goal == AnswersInv' /\ AnswersInOrder'
<1>1. /\ out \in Seq(Answers) /\ Len(out) \in Nat /\ DOMAIN out = 1..Len(out)
      /\ \A i \in 1..Len(out) : out[i][1] \in Int
  <2>1. out \in Seq(Answers)
    BY DEF TypeOK, Answers
  <2>2. \A i \in 1..Len(out) : out[i] \in Answers
    BY <2>1, ElementOfSeq
  <2> QED BY <2>1, <2>2, LenProperties DEF Answers
<1>2. cur \in Nat
  BY MaxFramesIsNat DEF TypeOK
<1>a. /\ ~hungup /\ pc \in {"loop", "header"} => Len(out) = cur
      /\ ~hungup /\ pc \in Serving => Len(out) = cur - 1
  BY DEF AnswersInv, AnswersInOrder
<1>d. ~hungup /\ pc \in {"closing", "closed"} => Len(out) >= cur - 1
  BY DEF AnswersInOrder
<1>b. \A i \in 1..Len(out) : out[i][1] <= cur /\ (pc \in Serving => out[i][1] < cur)
  BY <1>1 DEF AnswersInv
<1>c. \A i, j \in 1..Len(out) : i < j => out[i][1] < out[j][1]
  BY DEF AnswersInOrder
\* No answer is written, and none is due or the client is gone.
<1>3. ASSUME UNCHANGED out, hungup => hungup',
             \/ pc' \in {"closing", "closed"} /\ cur' = cur
             \/ pc = "header" /\ pc' = "closing" /\ cur' = cur + 1
             \/ pc \in {"loop", "header"} /\ pc' \in {"loop", "header"} /\ cur' = cur
             \/ pc \in Serving /\ pc' \in Serving /\ cur' = cur
             \/ pc = "header" /\ pc' \in Serving /\ cur' = cur + 1
             \/ hungup' /\ pc' = "loop" /\ cur' = cur
      PROVE  Goal
  <2>1. \A i \in 1..Len(out) : out[i][1] <= cur' /\ (pc' \in Serving => out[i][1] < cur')
    BY <1>1, <1>2, <1>3, <1>b DEF Serving
  <2>2. ~hungup' => ~hungup
    BY <1>3
  <2>3. ~hungup' /\ pc' \in {"loop", "header"} => Len(out) = cur'
    BY <1>3, <1>a, <2>2 DEF Serving
  <2>4. ASSUME ~hungup', pc' \in Serving PROVE Len(out) = cur' - 1
    <3>1. CASE pc \in Serving /\ cur' = cur
      BY <1>a, <2>2, <2>4, <3>1
    <3>2. CASE pc = "header" /\ cur' = cur + 1
      <4>1. Len(out) = cur
        BY <1>a, <2>2, <2>4, <3>2
      <4> QED BY <1>2, <3>2, <4>1
    <3> QED BY <1>3, <2>4, <3>1, <3>2 DEF Serving
  <2>5. AnswersInv'
    BY <1>1, <1>3, <2>1, <2>4 DEF AnswersInv
  <2>6. ASSUME ~hungup', pc' \in {"closing", "closed"} PROVE Len(out') >= cur' - 1
    <3>1. pc \in {"loop", "header", "closing", "closed"} \cup Serving
      BY DEF TypeOK, PC, Serving
    <3>2. Len(out) >= cur - 1
      <4>1. CASE pc \in {"closing", "closed"}
        BY <1>d, <2>2, <2>6, <4>1
      <4>2. CASE pc \in {"loop", "header"} \cup Serving
        <5>1. Len(out) \in {cur, cur - 1}
          BY <1>a, <2>2, <2>6, <4>2
        <5> QED BY <1>2, <5>1
      <4> QED BY <3>1, <4>1, <4>2
    <3>3. CASE cur' = cur
      BY <1>3, <3>2, <3>3
    <3>4. CASE pc = "header" /\ cur' = cur + 1
      <4>1. Len(out) = cur
        BY <1>a, <2>2, <2>6, <3>4
      <4> QED BY <1>2, <1>3, <3>4, <4>1
    <3> QED BY <1>3, <3>3, <3>4
  <2> QED BY <1>3, <1>c, <2>3, <2>5, <2>6 DEF AnswersInOrder
\* The answer to the request that is being served, or that was just read.
<1>4. ASSUME NEW c \in 1..MaxFrames, NEW kind \in {"result", "error"},
             out' = Append(out, <<c, kind>>), cur' = c,
             (c = cur + 1 /\ pc = "header") \/ (c = cur /\ pc \in Serving), hungup' = hungup,
             pc' \in {"loop", "closing"}, pc' = "loop" => pc \in Serving /\ c = cur
      PROVE  Goal
  <2> DEFINE e == <<c, kind>>
             L == Len(out)
  <2>1. e \in Answers /\ e[1] = c
    BY <1>4 DEF Answers
  <2> HIDE DEF e
  <2>2. /\ out' \in Seq(Answers) /\ Len(out') = L + 1
        /\ \A i \in 1..L : out'[i] = out[i]
        /\ out'[L + 1] = e
    BY <1>1, <1>4, <2>1, AppendProperties DEF e
  <2>3. DOMAIN out' = 1..(L + 1)
    BY <2>2, LenProperties
  <2>4. \A i \in 1..L : out[i][1] < c
    <3>1. \A i \in 1..L : out[i][1] <= cur /\ (pc \in Serving => out[i][1] < cur)
      BY <1>1 DEF AnswersInv
    <3> QED BY <1>1, <1>2, <1>4, <3>1
  <2>5. ASSUME ~hungup' PROVE L + 1 = c
    <3>1. CASE c = cur /\ pc \in Serving
      <4>1. L = cur - 1
        BY <1>4, <1>a, <2>5, <3>1
      <4> QED BY <1>2, <3>1, <4>1
    <3>2. CASE c = cur + 1 /\ pc = "header"
      <4>1. L = cur
        BY <1>4, <1>a, <2>5, <3>2
      <4> QED BY <3>2, <4>1
    <3> QED BY <1>4, <3>1, <3>2
  <2>6. \A i, j \in 1..L : i < j => out[i][1] < out[j][1]
    BY DEF AnswersInOrder
  <2>7. L \in Nat /\ c \in Nat
    BY <1>1
  <2> HIDE DEF L
  <2>8. \A i \in 1..(L + 1) : i \in 1..L \/ i = L + 1
    BY <2>7
  <2>9. AnswersInv'
    <3>1. \A i \in DOMAIN out' : out'[i][1] <= c
      <4> SUFFICES ASSUME NEW i \in 1..(L + 1) PROVE out'[i][1] <= c
        BY <2>3
      <4>1. CASE i \in 1..L
        BY <1>1, <2>2, <2>4, <2>7, <4>1 DEF L
      <4>2. CASE i = L + 1
        BY <2>1, <2>2, <2>7, <4>2
      <4> QED BY <2>8, <4>1, <4>2
    <3>2. pc' \notin Serving
      BY <1>4 DEF Serving
    <3> QED BY <1>4, <3>1, <3>2 DEF AnswersInv
  <2>10. AnswersInOrder'
    <3>1. ASSUME NEW i \in 1..(L + 1), NEW j \in 1..(L + 1), i < j
          PROVE  out'[i][1] < out'[j][1]
      <4>1. i \in 1..L
        BY <2>7, <3>1
      <4>2. CASE j \in 1..L
        BY <2>2, <2>6, <3>1, <4>1, <4>2
      <4>3. CASE j = L + 1
        BY <2>1, <2>2, <2>4, <4>1, <4>3
      <4> QED BY <2>8, <4>2, <4>3
    <3>2. ~hungup' => Len(out') = cur' /\ Len(out') >= cur' - 1
      BY <1>4, <2>2, <2>5, <2>7
    <3>3. ~hungup' /\ pc' \in {"loop", "header"} => Len(out') = cur'
      BY <3>2
    <3>4. ~hungup' /\ pc' \in {"closing", "closed"} => Len(out') >= cur' - 1
      BY <3>2
    <3> QED BY <2>2, <3>1, <3>3, <3>4 DEF AnswersInOrder
  <2> QED BY <2>9, <2>10
<1> USE DEF Serving, clientVars
<1>5. CASE ReadBegin \/ ShortHeader \/ ReadIntoBuffer \/ JsonRead \/ PostRead \/ BodyCut
  BY <1>3, <1>5 DEF ReadBegin, ShortHeader, ReadIntoBuffer, JsonRead, PostRead, BodyCut
<1>6. CASE ReadIntoFile \/ UploadRead \/ TaskUnwinds \/ Destroy
  BY <1>3, <1>6 DEF ReadIntoFile, UploadRead, TaskUnwinds, Destroy
<1>7. CASE ReadHeader
  BY <1>3, <1>7 DEF ReadHeader
<1>8. CASE RejectHeader
  <2>1. /\ pc = "header" /\ pc' = "closing" /\ cur' = cur + 1 /\ UNCHANGED hungup
        /\ (out' = Append(out, <<cur', "error">>)) \/ UNCHANGED out
    BY <1>8 DEF RejectHeader, WriteFails
  <2>2. cur' \in 1..MaxFrames
    BY <1>2, <2>1 DEF TypeOK
  <2>3. CASE UNCHANGED out
    BY <1>3, <2>1, <2>3
  <2>4. CASE out' = Append(out, <<cur', "error">>)
    BY <1>4, <2>1, <2>2, <2>4
  <2> QED BY <2>1, <2>3, <2>4
<1>9. CASE OpenUpload
  <2>1. /\ pc = "open" /\ UNCHANGED <<hungup, cur>> /\ pc' \in {"upload", "closing"}
        /\ (out' = Append(out, <<cur, "error">>) /\ pc' = "closing") \/ UNCHANGED out
    BY <1>9 DEF OpenUpload, SendError, Write, WriteFails
  <2>2. cur \in 1..MaxFrames
    BY <2>1, RequestFacts
  <2>3. CASE UNCHANGED out
    BY <1>3, <2>1, <2>3
  <2>4. CASE out' = Append(out, <<cur, "error">>) /\ pc' = "closing"
    BY <1>4, <2>1, <2>2, <2>4
  <2> QED BY <2>1, <2>3, <2>4
<1>10. CASE TaskSucceeds \/ TaskFails
  <2>1. /\ pc = "task" /\ UNCHANGED <<hungup, cur>> /\ pc' \in {"loop", "closing"}
        /\ \/ \E kind \in {"result", "error"} : out' = Append(out, <<cur, kind>>)
           \/ UNCHANGED out /\ hungup
    BY <1>10 DEF TaskSucceeds, TaskFails, SendError, Write, WriteFails
  <2>2. cur \in 1..MaxFrames
    BY <2>1, RequestFacts
  <2>3. CASE UNCHANGED out /\ hungup
    BY <1>3, <2>1, <2>3
  <2>4. CASE \E kind \in {"result", "error"} : out' = Append(out, <<cur, kind>>)
    BY <1>4, <2>1, <2>2, <2>4
  <2> QED BY <2>1, <2>3, <2>4
<1>11. ASSUME UNCHANGED <<out, pc, cur>>, hungup => hungup' PROVE Goal
  BY <1>1, <1>11 DEF AnswersInv, AnswersInOrder, Goal
<1>12. ASSUME NEW h \in Headers, ClientSend(h) PROVE Goal
  BY <1>11, <1>12 DEF ClientSend
<1>13. CASE ClientHangup \/ UNCHANGED vars
  BY <1>11, <1>13 DEF ClientHangup, vars
<1> HIDE DEF Goal
<1>14. Goal
  BY <1>5, <1>6, <1>7, <1>8, <1>9, <1>10, <1>12, <1>13 DEF Next, Thread, Client, Goal
<1> QED BY <1>14 DEF Goal

-----------------------------------------------------------------------------

\* The inductive invariant holds initially.
LEMMA InitIInv == Init => IInv
<1> SUFFICES ASSUME Init PROVE IInv
  OBVIOUS
<1>1. /\ wire = <<>> /\ out = <<>> /\ sent = 0 /\ cur = 0 /\ pc = "loop"
      /\ header = NoHeader /\ need = 0 /\ buffer = 0 /\ path = FALSE /\ disk = "none" /\ stray = {}
      /\ hungup = FALSE /\ endpoint = FALSE
  BY DEF Init
<1>2. HeadersAt = {} /\ DOMAIN wire = {} /\ Cardinality(HeadersAt) = 0
  BY <1>1, FS_EmptySet DEF HeadersAt
<1>3. BufferBounded
  BY <1>1, LimitsAreInt64 DEF BufferBounded
<1>4. wire \in Seq(Units) /\ out \in Seq(Answers) /\ Len(wire) = 0 /\ Len(out) = 0
  BY <1>1, EmptySeq
<1>5. TypeOK
  <2>1. wire \in Seq([unit : {"header", "byte"}, h : Headers \cup {NoHeader}])
    BY <1>4 DEF Units
  <2>2. out \in Seq((1..MaxFrames) \X {"result", "error"})
    BY <1>4 DEF Answers
  <2>3. 0 \in 0..MaxFrames /\ 0 \in Nat
    BY MaxFramesIsNat
  <2>4. /\ sent \in 0..MaxFrames /\ cur \in 0..MaxFrames /\ need \in Nat /\ buffer \in Nat
        /\ header \in Headers \cup {NoHeader} /\ pc \in PC
        /\ hungup \in BOOLEAN /\ path \in BOOLEAN /\ endpoint \in BOOLEAN
        /\ disk \in {"none", "partial", "whole", "bad"} /\ stray \subseteq 1..MaxFrames
    BY <1>1, <2>3 DEF PC
  <2> QED BY <1>3, <2>1, <2>2, <2>4 DEF TypeOK
<1>6. FramesInv /\ DueInv /\ WholeInv /\ CountInv
  BY <1>1, <1>2, <1>4 DEF FramesInv, DueInv, WholeInv, CountInv, Due
<1>7. RequestInv /\ StrayInv /\ UploadHasOwner /\ TaskSeesWholeRequest
  BY <1>1 DEF RequestInv, StrayInv, Serving, UploadHasOwner, TaskSeesWholeRequest
<1>8. AnswersInv /\ AnswersInOrder
  BY <1>1, <1>4 DEF AnswersInv, AnswersInOrder, Serving
<1> QED
  BY <1>5, <1>6, <1>7, <1>8, DueMeansInSync DEF IInv

\* Every step preserves the inductive invariant.
LEMMA StepIInv == IInv /\ [Next]_vars => IInv'
<1> SUFFICES ASSUME IInv, [Next]_vars PROVE IInv'
  OBVIOUS
<1> USE DEF IInv
<1>1. FramesInv' /\ DueInv' /\ WholeInv' /\ CountInv'
  BY StreamStep
<1>s. StrayInv'
  BY StrayStep
<1>2. TypeOK'
  BY <1>1, <1>s, TypeStep
<1>3. InSync'
  BY <1>1, <1>2, DueMeansInSync, PTL
<1>4. RequestInv' /\ UploadHasOwner' /\ TaskSeesWholeRequest'
  BY RequestStep
<1>5. AnswersInv' /\ AnswersInOrder'
  BY <1>2, AnswersStep
<1> QED BY <1>1, <1>s, <1>2, <1>3, <1>4, <1>5

\* The inductive invariant holds in every reachable state.
THEOREM TcpInvariant == Spec => []IInv
  BY InitIInv, StepIInv, PTL DEF Spec

\* Types are respected, and the buffer stays within what the limits allow.
THEOREM TcpTypeCorrect == Spec => []TypeOK
<1>1. IInv => TypeOK
  BY DEF IInv
<1> QED BY <1>1, TcpInvariant, PTL

\* No byte of a body is ever taken for a header.
THEOREM TcpInSync == Spec => []InSync
<1>1. IInv => InSync
  BY DEF IInv
<1> QED BY <1>1, TcpInvariant, PTL

\* There is a temp file only while the connection that made it knows its name,
\* unless remove() failed on it, and then it is not that of the request served.
THEOREM TcpUploadHasOwner == Spec => []UploadHasOwner
<1>1. IInv => UploadHasOwner
  BY DEF IInv
<1> QED BY <1>1, TcpInvariant, PTL

\* A task sees exactly the request that was sent.
THEOREM TcpTaskSeesWholeRequest == Spec => []TaskSeesWholeRequest
<1>1. IInv => TaskSeesWholeRequest
  BY DEF IInv
<1> QED BY <1>1, TcpInvariant, PTL

\* Answers come in the order of the frames, at most one each; while the client is
\* there every frame has one, but possibly the last before the connection ends.
THEOREM TcpAnswersInOrder == Spec => []AnswersInOrder
<1>1. IInv => AnswersInOrder
  BY DEF IInv
<1> QED BY <1>1, TcpInvariant, PTL
=============================================================================
