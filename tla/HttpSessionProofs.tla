------------------------- MODULE HttpSessionProofs -------------------------
(***************************************************************************)
(* Proofs about HttpSession: the buffer, answers, keep-alive and the       *)
(* stream of one connection, for any requests, limit and chunk.            *)
(***************************************************************************)
EXTENDS HttpSession, SequenceTheorems, TLAPS

-----------------------------------------------------------------------------
(* Streams of units, and what reading, cutting and sending make of them. *)

\* What is left of a request is a number.
LEMMA LeftIsInt ==
  ASSUME NEW a \in Seq(Requests), NEW u \in Units, u[1] \in 1..Len(a)
  PROVE  Left(u, a) \in Int /\ u[1] \in Nat /\ u[2] \in Nat
<1>1. a[u[1]] \in Requests
  BY ElementOfSeq
<1>2. a[u[1]].body \in Nat
  BY <1>1, RequestsAreRequests
<1>3. u[1] \in Nat /\ u[2] \in Nat
  BY MaxRequestsIsNat DEF Units
<1> QED BY <1>2, <1>3 DEF Left

\* The units of a stream, and what is left after each.
LEMMA UnitPlaces ==
  ASSUME NEW a \in Seq(Requests), NEW s \in Seq(Units), InFrames(s, a)
  PROVE  /\ Len(s) \in Nat /\ DOMAIN s = 1..Len(s)
         /\ \A p \in DOMAIN s : /\ s[p] \in Units /\ s[p][1] \in 1..Len(a)
                                /\ s[p][1] \in Nat /\ s[p][2] \in Nat
                                /\ Left(s[p], a) \in Nat
<1>1. Len(s) \in Nat /\ DOMAIN s = 1..Len(s)
  BY LenProperties
<1>2. ASSUME NEW p \in DOMAIN s
      PROVE  /\ s[p] \in Units /\ s[p][1] \in 1..Len(a) /\ s[p][1] \in Nat /\ s[p][2] \in Nat
             /\ Left(s[p], a) \in Nat
  <2>1. s[p] \in Units
    BY <1>1, ElementOfSeq
  <2>2. s[p][1] \in 1..Len(a) /\ Left(s[p], a) >= 0
    BY DEF InFrames
  <2>3. Left(s[p], a) \in Int /\ s[p][1] \in Nat /\ s[p][2] \in Nat
    BY <2>1, <2>2, LeftIsInt
  <2> QED BY <2>1, <2>2, <2>3
<1> QED BY <1>1, <1>2

\* What is left when the first n units are gone.
LEMMA SuffixInFrames ==
  ASSUME NEW a \in Seq(Requests), NEW s \in Seq(Units), InFrames(s, a),
         NEW t \in Seq(Units), NEW n \in 0..Len(s), Len(t) = Len(s) - n,
         \A j \in 1..Len(t) : t[j] = s[j + n]
  PROVE  InFrames(t, a) /\ (Complete(s, a) => Complete(t, a))
<1>1. Len(s) \in Nat /\ DOMAIN s = 1..Len(s)
  BY LenProperties
<1>2. DOMAIN t = 1..Len(t) /\ Len(t) \in Nat
  BY LenProperties
<1>3. ASSUME NEW j \in DOMAIN t PROVE j + n \in DOMAIN s /\ t[j] = s[j + n] /\ j \in Int /\ n \in Int
  <2>1. j \in 1..Len(t) /\ j + n \in 1..Len(s)
    BY <1>1, <1>2
  <2> QED BY <1>1, <2>1
<1>4. ASSUME NEW p \in DOMAIN t PROVE t[p][1] \in 1..Len(a) /\ Left(t[p], a) >= 0
  BY <1>3 DEF InFrames
<1>5. ASSUME NEW p \in DOMAIN t, NEW q \in DOMAIN t, p < q
      PROVE  IF q - p <= Left(t[p], a)
             THEN t[q] = <<t[p][1], t[p][2] + (q - p)>>
             ELSE t[q][1] > t[p][1]
  <2>1. p + n < q + n /\ (q + n) - (p + n) = q - p
    BY <1>3, <1>5
  <2>2. IF (q + n) - (p + n) <= Left(s[p + n], a)
        THEN s[q + n] = <<s[p + n][1], s[p + n][2] + ((q + n) - (p + n))>>
        ELSE s[q + n][1] > s[p + n][1]
    BY <1>3, <2>1 DEF InFrames
  <2>3. t[p] = s[p + n] /\ t[q] = s[q + n]
    BY <1>3
  <2> QED BY <2>1, <2>2, <2>3
<1>6. ASSUME Complete(s, a), NEW p \in DOMAIN t PROVE p + Left(t[p], a) <= Len(t)
  <2>1. p + n + Left(s[p + n], a) <= Len(s)
    BY <1>3, <1>6 DEF Complete
  <2>2. Left(s[p + n], a) \in Nat
    BY <1>3, UnitPlaces
  <2>3. p + n + Left(t[p], a) <= Len(s) /\ Left(t[p], a) \in Int /\ p \in Int /\ n \in Int
    BY <1>3, <2>1, <2>2
  <2> QED BY <1>1, <2>3
<1>7. InFrames(t, a)
  BY <1>4, <1>5 DEF InFrames
<1> QED BY <1>6, <1>7 DEF Complete

\* What is left when the last units are gone.
LEMMA PrefixInFrames ==
  ASSUME NEW a \in Seq(Requests), NEW s \in Seq(Units), InFrames(s, a),
         NEW t \in Seq(Units), DOMAIN t \subseteq DOMAIN s,
         \A j \in DOMAIN t : t[j] = s[j]
  PROVE  InFrames(t, a)
<1>1. ASSUME NEW p \in DOMAIN t PROVE t[p][1] \in 1..Len(a) /\ Left(t[p], a) >= 0
  BY DEF InFrames
<1>2. ASSUME NEW p \in DOMAIN t, NEW q \in DOMAIN t, p < q
      PROVE  IF q - p <= Left(t[p], a)
             THEN t[q] = <<t[p][1], t[p][2] + (q - p)>>
             ELSE t[q][1] > t[p][1]
  <2>1. IF q - p <= Left(s[p], a)
        THEN s[q] = <<s[p][1], s[p][2] + (q - p)>>
        ELSE s[q][1] > s[p][1]
    BY <1>2 DEF InFrames
  <2> QED BY <2>1
<1> QED BY <1>1, <1>2 DEF InFrames

\* What there is when one more request was sent.
LEMMA SentInFrames ==
  ASSUME NEW a \in Seq(Requests), NEW s \in Seq(Units), InFrames(s, a), Complete(s, a),
         NEW r \in Requests, NEW t \in Seq(Units),
         Len(t) = Len(s) + (r.body + 1),
         \A j \in 1..Len(s) : t[j] = s[j],
         \A k \in 1..(r.body + 1) : t[Len(s) + k] = <<Len(a) + 1, k - 1>>
  PROVE  InFrames(t, Append(a, r)) /\ Complete(t, Append(a, r))
<1> DEFINE L == Len(s)
           b == r.body
           m == Len(a) + 1
           A == Append(a, r)
<1>1. /\ L \in Nat /\ DOMAIN s = 1..L
      /\ \A p \in DOMAIN s : /\ s[p] \in Units /\ s[p][1] \in 1..Len(a)
                             /\ s[p][1] \in Nat /\ s[p][2] \in Nat
                             /\ Left(s[p], a) \in Nat
  BY UnitPlaces
<1>2. b \in Nat
  BY RequestsAreRequests
<1>3. Len(a) \in Nat /\ m \in Nat
  BY LenProperties
<1>4. DOMAIN t = 1..(L + (b + 1)) /\ Len(t) = L + (b + 1)
  BY LenProperties
<1>5. Len(A) = m /\ (\A i \in 1..Len(a) : A[i] = a[i]) /\ A[m] = r
  BY AppendProperties
<1>6. \A k \in 1..(b + 1) : t[L + k] = <<m, k - 1>>
  OBVIOUS
<1>7. \A j \in 1..L : t[j] = s[j]
  OBVIOUS
<1> HIDE DEF L, b, m, A
<1>8. ASSUME NEW p \in DOMAIN t
      PROVE  /\ p \in Int
             /\ \/ p \in DOMAIN s /\ t[p] = s[p] /\ Left(t[p], A) = Left(s[p], a)
                \/ /\ p > L /\ p - L \in 1..(b + 1) /\ t[p] = <<m, p - L - 1>>
                   /\ Left(t[p], A) = b - (p - L - 1)
  <2>1. p \in Int /\ (p \in 1..L \/ (p > L /\ p - L \in 1..(b + 1)))
    BY <1>1, <1>2, <1>4
  <2>2. CASE p \in 1..L
    <3>1. p \in DOMAIN s /\ t[p] = s[p] /\ s[p][1] \in 1..Len(a)
      BY <1>1, <1>7, <2>2
    <3>2. Left(t[p], A) = Left(s[p], a)
      BY <1>5, <3>1 DEF Left
    <3> QED BY <2>1, <3>1, <3>2
  <2>3. CASE p > L /\ p - L \in 1..(b + 1)
    <3>1. L + (p - L) = p
      BY <1>1, <2>1
    <3>2. t[p] = <<m, p - L - 1>>
      BY <1>6, <2>3, <3>1
    <3>3. Left(t[p], A) = b - (p - L - 1)
      BY <1>5, <3>2 DEF Left, b
    <3> QED BY <2>1, <2>3, <3>2, <3>3
  <2> QED BY <2>1, <2>2, <2>3
<1>9. ASSUME NEW p \in DOMAIN t PROVE t[p][1] \in 1..Len(A) /\ Left(t[p], A) >= 0
  <2>1. CASE p \in DOMAIN s /\ t[p] = s[p] /\ Left(t[p], A) = Left(s[p], a)
    <3>1. s[p][1] \in 1..Len(a) /\ Left(s[p], a) \in Nat
      BY <1>1, <2>1
    <3> QED BY <1>3, <1>5, <2>1, <3>1 DEF m
  <2>2. CASE /\ p > L /\ p - L \in 1..(b + 1) /\ t[p] = <<m, p - L - 1>>
             /\ Left(t[p], A) = b - (p - L - 1)
    <3>1. t[p][1] = m /\ m \in 1..Len(A)
      BY <1>3, <1>5, <2>2 DEF m
    <3>2. b - (p - L - 1) >= 0
      BY <1>1, <1>2, <1>8, <2>2
    <3> QED BY <2>2, <3>1, <3>2
  <2> QED BY <1>8, <2>1, <2>2
<1>10. ASSUME NEW p \in DOMAIN t, NEW q \in DOMAIN t, p < q
       PROVE  IF q - p <= Left(t[p], A)
              THEN t[q] = <<t[p][1], t[p][2] + (q - p)>>
              ELSE t[q][1] > t[p][1]
  <2>1. p \in Int /\ q \in Int
    BY <1>8
  <2>2. CASE p \in DOMAIN s /\ t[p] = s[p] /\ Left(t[p], A) = Left(s[p], a)
    <3>1. CASE q \in DOMAIN s /\ t[q] = s[q]
      <4>1. IF q - p <= Left(s[p], a)
            THEN s[q] = <<s[p][1], s[p][2] + (q - p)>>
            ELSE s[q][1] > s[p][1]
        BY <1>10, <2>2, <3>1 DEF InFrames
      <4> QED BY <2>2, <3>1, <4>1
    <3>2. CASE q > L /\ t[q] = <<m, q - L - 1>>
      <4>1. p + Left(s[p], a) <= L /\ Left(s[p], a) \in Nat
        BY <1>1, <2>2 DEF Complete, L
      <4>2. ~(q - p <= Left(t[p], A))
        BY <1>1, <2>1, <2>2, <3>2, <4>1
      <4>3. t[q][1] = m /\ t[p][1] \in 1..Len(a)
        BY <1>1, <2>2, <3>2
      <4>4. t[q][1] > t[p][1]
        BY <1>3, <4>3 DEF m
      <4> QED BY <4>2, <4>4
    <3> QED BY <1>8, <3>1, <3>2
  <2>3. CASE /\ p > L /\ p - L \in 1..(b + 1) /\ t[p] = <<m, p - L - 1>>
             /\ Left(t[p], A) = b - (p - L - 1)
    <3>1. q \in 1..(L + (b + 1)) /\ q > L
      BY <1>1, <1>4, <1>10, <2>1, <2>3
    <3>2. q \notin DOMAIN s
      BY <1>1, <2>1, <3>1
    <3>3. t[q] = <<m, q - L - 1>>
      BY <1>8, <3>2
    <3>4. q - p <= b - (p - L - 1)
      BY <1>1, <1>2, <2>1, <3>1
    <3>5. p - L - 1 + (q - p) = q - L - 1
      BY <1>1, <2>1
    <3>6. t[p][1] = m /\ t[p][2] = p - L - 1
      BY <2>3
    <3> QED BY <2>3, <3>3, <3>4, <3>5, <3>6
  <2> QED BY <1>8, <2>2, <2>3
<1>11. ASSUME NEW p \in DOMAIN t PROVE p + Left(t[p], A) <= Len(t)
  <2>1. p \in Int
    BY <1>8
  <2>2. CASE p \in DOMAIN s /\ Left(t[p], A) = Left(s[p], a)
    <3>1. p + Left(s[p], a) <= L /\ Left(s[p], a) \in Nat
      BY <1>1, <2>2 DEF Complete, L
    <3> QED BY <1>1, <1>2, <1>4, <2>1, <2>2, <3>1
  <2>3. CASE Left(t[p], A) = b - (p - L - 1)
    BY <1>1, <1>2, <1>4, <2>1, <2>3
  <2> QED BY <1>8, <2>2, <2>3
<1>12. InFrames(t, A)
  BY <1>9, <1>10 DEF InFrames
<1>13. Complete(t, A)
  BY <1>11 DEF Complete
<1> QED BY <1>12, <1>13 DEF A
-----------------------------------------------------------------------------
(* The connection's stream. *)

\* What is unread is the buffer and the wire while the thread reads, else the wire.
LEMMA UnreadPlaces ==
  ASSUME TypeOK
  PROVE  /\ wire \in Seq(Units) /\ buffer \in Seq(Units) /\ asked \in Seq(Requests)
         /\ Unread \in Seq(Units)
         /\ Len(wire) \in Nat /\ Len(buffer) \in Nat /\ Len(asked) \in Nat /\ Len(Unread) \in Nat
         /\ DOMAIN wire = 1..Len(wire) /\ DOMAIN buffer = 1..Len(buffer)
         /\ DOMAIN Unread = 1..Len(Unread)
         /\ pc = "read" =>
              /\ Len(Unread) = Len(buffer) + Len(wire)
              /\ \A j \in 1..Len(buffer) : Unread[j] = buffer[j]
              /\ \A j \in 1..Len(wire) : wire[j] = Unread[j + Len(buffer)]
<1>1. wire \in Seq(Units) /\ buffer \in Seq(Units) /\ asked \in Seq(Requests)
  BY DEF TypeOK
<1>2. /\ Len(wire) \in Nat /\ Len(buffer) \in Nat /\ Len(asked) \in Nat
      /\ DOMAIN wire = 1..Len(wire) /\ DOMAIN buffer = 1..Len(buffer)
  BY <1>1, LenProperties
<1>3. ASSUME pc = "read"
      PROVE  /\ Unread \in Seq(Units) /\ Len(Unread) = Len(buffer) + Len(wire)
             /\ \A j \in 1..Len(buffer) : Unread[j] = buffer[j]
             /\ \A j \in 1..Len(wire) : wire[j] = Unread[j + Len(buffer)]
  <2> DEFINE u == buffer \o wire
  <2>1. /\ u \in Seq(Units) /\ Len(u) = Len(buffer) + Len(wire)
        /\ \A i \in 1..(Len(buffer) + Len(wire)) :
             u[i] = IF i <= Len(buffer) THEN buffer[i] ELSE wire[i - Len(buffer)]
    BY <1>1, ConcatProperties
  <2>2. Unread = u
    BY <1>3 DEF Unread
  <2> HIDE DEF u
  <2>3. ASSUME NEW j \in 1..Len(buffer) PROVE u[j] = buffer[j]
    <3>1. j \in 1..(Len(buffer) + Len(wire)) /\ j <= Len(buffer)
      BY <1>2
    <3> QED BY <2>1, <3>1
  <2>4. ASSUME NEW j \in 1..Len(wire) PROVE wire[j] = u[j + Len(buffer)]
    <3>1. /\ j + Len(buffer) \in 1..(Len(buffer) + Len(wire)) /\ ~(j + Len(buffer) <= Len(buffer))
          /\ j + Len(buffer) - Len(buffer) = j
      BY <1>2
    <3> QED BY <2>1, <3>1
  <2> QED BY <2>1, <2>2, <2>3, <2>4
<1>4. Unread \in Seq(Units)
  BY <1>1, <1>3 DEF Unread
<1>5. Len(Unread) \in Nat /\ DOMAIN Unread = 1..Len(Unread)
  BY <1>4, LenProperties
<1> QED BY <1>1, <1>2, <1>3, <1>4, <1>5

\* Reading only moves units from the wire to the buffer.
LEMMA ReadingKeepsUnread ==
  ASSUME TypeOK, ReadBegin \/ ReadSome PROVE Unread' = Unread
<1>1. wire \in Seq(Units) /\ buffer \in Seq(Units) /\ Len(wire) \in Nat /\ DOMAIN wire = 1..Len(wire)
  BY UnreadPlaces
<1>2. CASE ReadBegin
  <2>1. Unread = wire /\ Unread' = <<>> \o wire
    BY <1>2 DEF ReadBegin, Unread
  <2> QED BY <1>1, <2>1, ConcatEmptySeq
<1>3. CASE ReadSome
  <2>1. PICK n \in 1..(IF Chunk < Len(wire) THEN Chunk ELSE Len(wire)) :
          buffer' = buffer \o SubSeq(wire, 1, n) /\ wire' = SubSeq(wire, n + 1, Len(wire))
    BY <1>3 DEF ReadSome
  <2>2. n \in Nat /\ n >= 1 /\ n <= Len(wire)
    BY <1>1, SizesAreNat
  <2> DEFINE s == SubSeq(wire, 1, n)
             t == SubSeq(wire, n + 1, Len(wire))
  <2>3. \A i \in 1..Len(wire) : wire[i] \in Units
    BY <1>1, ElementOfSeq
  <2>4. s \in Seq(Units)
    <3>1. \A i \in 1..n : wire[i] \in Units
      BY <1>1, <2>2, <2>3
    <3> QED BY <2>2, <3>1, SubSeqProperties
  <2>5. t \in Seq(Units)
    <3>1. \A i \in (n + 1)..Len(wire) : wire[i] \in Units
      BY <1>1, <2>2, <2>3
    <3>2. n + 1 \in Int /\ Len(wire) \in Int
      BY <1>1, <2>2
    <3> QED BY <3>1, <3>2, SubSeqProperties
  <2>6. s \o t = wire
    <3>1. 1 \in 1..(Len(wire) + 1) /\ n \in (1 - 1)..Len(wire) /\ Len(wire) \in n..Len(wire)
      BY <1>1, <2>2
    <3>2. s \o t = SubSeq(wire, 1, Len(wire))
      BY <1>1, <3>1, ConcatAdjacentSubSeq
    <3> QED BY <1>1, <3>2, SubSeqFull
  <2>7. Unread = buffer \o wire /\ Unread' = (buffer \o s) \o t
    BY <1>3, <2>1 DEF ReadSome, Unread
  <2> HIDE DEF s, t
  <2>8. (buffer \o s) \o t = buffer \o (s \o t)
    BY <1>1, <2>4, <2>5, ConcatAssociative
  <2> QED BY <2>6, <2>7, <2>8
<1> QED BY <1>2, <1>3

\* What a client may do to the stream.
LEMMA HangupCutsUnread ==
  ASSUME TypeOK, ClientHangup
  PROVE  /\ wire' \in Seq(Units) /\ Unread' \in Seq(Units)
         /\ DOMAIN Unread' \subseteq DOMAIN Unread
         /\ \A j \in DOMAIN Unread' : Unread'[j] = Unread[j]
<1>1. /\ wire \in Seq(Units) /\ buffer \in Seq(Units) /\ Len(wire) \in Nat /\ Len(buffer) \in Nat
      /\ DOMAIN wire = 1..Len(wire) /\ DOMAIN Unread = 1..Len(Unread)
      /\ pc = "read" =>
           /\ Len(Unread) = Len(buffer) + Len(wire)
           /\ \A j \in 1..Len(buffer) : Unread[j] = buffer[j]
           /\ \A j \in 1..Len(wire) : wire[j] = Unread[j + Len(buffer)]
  BY UnreadPlaces
<1>2. PICK n \in 0..Len(wire) : wire' = SubSeq(wire, 1, n)
  BY DEF ClientHangup
<1>a. Len(wire) \in Nat /\ Len(buffer) \in Nat
  BY <1>1
<1>b. wire \in Seq(Units) /\ buffer \in Seq(Units)
  BY <1>1
<1>3. n \in Nat /\ n <= Len(wire)
  BY <1>a
<1>4. \A i \in 1..n : i \in 1..Len(wire) /\ wire[i] \in Units
  <2>1. \A i \in 1..n : i \in 1..Len(wire)
    BY <1>a, <1>3
  <2> QED BY <1>b, <2>1, ElementOfSeq
<1>5. /\ wire' \in Seq(Units)
      /\ Len(wire') = IF 1 <= n THEN n - 1 + 1 ELSE 0
      /\ \A j \in 1..(n - 1 + 1) : wire'[j] = wire[1 + j - 1]
  BY <1>2, <1>3, <1>4, SubSeqProperties
<1>6. Len(wire') = n
  <2>1. Len(wire') = IF 1 <= n THEN n - 1 + 1 ELSE 0
    BY <1>5
  <2> QED BY <1>3, <2>1
<1>7. \A j \in 1..n : wire'[j] = wire[j]
  <2> SUFFICES ASSUME NEW j \in 1..n PROVE wire'[j] = wire[j]
    OBVIOUS
  <2>1. j \in 1..(n - 1 + 1) /\ 1 + j - 1 = j
    BY <1>3
  <2>2. wire'[j] = wire[1 + j - 1]
    BY <1>5, <2>1
  <2> QED BY <2>1, <2>2
<1>8. UNCHANGED <<pc, buffer>>
  BY DEF ClientHangup
<1>9. CASE pc # "read"
  <2>1. Unread' = wire' /\ Unread = wire
    BY <1>8, <1>9 DEF Unread
  <2>2. DOMAIN wire' = 1..n
    BY <1>5, <1>6, LenProperties
  <2> QED BY <1>1, <1>3, <1>4, <1>5, <1>7, <2>1, <2>2
<1>10. CASE pc = "read"
  <2> DEFINE u == buffer \o wire'
  <2>1. Unread' = u
    BY <1>8, <1>10 DEF Unread
  <2>2. /\ u \in Seq(Units) /\ Len(u) = Len(buffer) + Len(wire')
        /\ \A i \in 1..(Len(buffer) + Len(wire')) :
             u[i] = IF i <= Len(buffer) THEN buffer[i] ELSE wire'[i - Len(buffer)]
    <3>1. wire' \in Seq(Units)
      BY <1>5
    <3> QED BY <1>b, <3>1, ConcatProperties
  <2> HIDE DEF u
  <2>3. DOMAIN u = 1..(Len(buffer) + n)
    BY <1>6, <2>2, LenProperties
  <2>4. ASSUME NEW j \in 1..(Len(buffer) + n) PROVE j \in 1..Len(Unread) /\ u[j] = Unread[j]
    <3>1. j \in 1..Len(Unread)
      BY <1>1, <1>3, <1>10
    <3>2. u[j] = IF j <= Len(buffer) THEN buffer[j] ELSE wire'[j - Len(buffer)]
      BY <1>6, <2>2
    <3>3. CASE j <= Len(buffer)
      BY <1>1, <1>3, <1>10, <3>1, <3>2, <3>3
    <3>4. CASE j > Len(buffer)
      <4>1. j - Len(buffer) \in 1..n /\ j - Len(buffer) + Len(buffer) = j /\ ~(j <= Len(buffer))
        BY <1>a, <1>3, <3>4
      <4>2. j - Len(buffer) \in 1..Len(wire)
        BY <1>4, <4>1
      <4>3. wire'[j - Len(buffer)] = Unread[j]
        BY <1>1, <1>7, <1>10, <4>1, <4>2
      <4> QED BY <3>1, <3>2, <4>1, <4>3
    <3>5. j \in Int /\ Len(buffer) \in Int
      BY <1>a, <1>3
    <3> QED BY <3>3, <3>4, <3>5
  <2> QED BY <1>1, <1>5, <2>1, <2>2, <2>3, <2>4
<1> QED BY <1>9, <1>10

\* A request that is sent is appended to what is unread, its head first.
LEMMA SendExtendsUnread ==
  ASSUME TypeOK, NEW r \in Requests, ClientSend(r)
  PROVE  /\ wire' \in Seq(Units) /\ Unread' \in Seq(Units)
         /\ Len(Unread') = Len(Unread) + (r.body + 1)
         /\ \A j \in 1..Len(Unread) : Unread'[j] = Unread[j]
         /\ \A k \in 1..(r.body + 1) : Unread'[Len(Unread) + k] = <<Len(asked) + 1, k - 1>>
<1> DEFINE b == r.body
           m == Len(asked) + 1
           more == [k \in 1..(b + 1) |-> <<m, k - 1>>]
<1>1. /\ wire \in Seq(Units) /\ buffer \in Seq(Units) /\ asked \in Seq(Requests)
      /\ Unread \in Seq(Units) /\ Len(Unread) \in Nat /\ Len(asked) \in Nat
  BY UnreadPlaces
<1>2. b \in Nat
  BY RequestsAreRequests
<1>3. Len(asked) < MaxRequests /\ asked' = Append(asked, r) /\ UNCHANGED <<pc, buffer>>
  BY DEF ClientSend
<1>4. Len(asked') = m /\ m \in 1..MaxRequests
  <2>1. Len(asked') = m
    BY <1>1, <1>3, AppendProperties
  <2> QED BY <1>1, <1>3, <2>1, MaxRequestsIsNat
<1>5. wire' = wire \o more
  BY <1>4 DEF ClientSend
<1> HIDE DEF b, m
<1>6. more \in Seq(Units) /\ Len(more) = b + 1 /\ \A k \in 1..(b + 1) : more[k] = <<m, k - 1>>
  <2>1. \A k \in 1..(b + 1) : k - 1 \in Nat
    BY <1>2
  <2>2. more \in [1..(b + 1) -> Units]
    BY <1>4, <2>1 DEF Units
  <2>3. b + 1 \in Nat
    BY <1>2
  <2>4. more \in Seq(Units)
    BY <2>2, <2>3, SeqDef
  <2> QED BY <2>2, <2>3, <2>4
<1> HIDE DEF more
<1>7. Unread' = Unread \o more
  <2>1. CASE pc = "read"
    <3>1. Unread = buffer \o wire /\ Unread' = buffer \o (wire \o more)
      BY <1>3, <1>5, <2>1 DEF Unread
    <3>2. buffer \in Seq(Units) /\ wire \in Seq(Units) /\ more \in Seq(Units)
      BY <1>1, <1>6
    <3>3. (buffer \o wire) \o more = buffer \o (wire \o more)
      BY <3>2, ConcatAssociative
    <3> QED BY <3>1, <3>3
  <2>2. CASE pc # "read"
    BY <1>3, <1>5, <2>2 DEF Unread
  <2> QED BY <2>1, <2>2
<1>8. wire' \in Seq(Units)
  BY <1>1, <1>5, <1>6, ConcatProperties
<1>9. /\ Unread' \in Seq(Units) /\ Len(Unread') = Len(Unread) + (b + 1)
      /\ \A i \in 1..(Len(Unread) + (b + 1)) :
           Unread'[i] = IF i <= Len(Unread) THEN Unread[i] ELSE more[i - Len(Unread)]
  BY <1>1, <1>6, <1>7, ConcatProperties
<1>10. ASSUME NEW j \in 1..Len(Unread) PROVE Unread'[j] = Unread[j]
  <2>1. j \in 1..(Len(Unread) + (b + 1)) /\ j <= Len(Unread)
    BY <1>1, <1>2
  <2> QED BY <1>9, <2>1
<1>11. ASSUME NEW k \in 1..(b + 1) PROVE Unread'[Len(Unread) + k] = <<m, k - 1>>
  <2>1. /\ Len(Unread) + k \in 1..(Len(Unread) + (b + 1)) /\ ~(Len(Unread) + k <= Len(Unread))
        /\ Len(Unread) + k - Len(Unread) = k
    BY <1>1, <1>2
  <2>2. Unread'[Len(Unread) + k] = more[Len(Unread) + k - Len(Unread)]
    BY <1>9, <2>1
  <2>3. Unread'[Len(Unread) + k] = more[k]
    BY <2>1, <2>2
  <2> QED BY <1>6, <2>3
<1> QED BY <1>8, <1>9, <1>10, <1>11 DEF b, m
-----------------------------------------------------------------------------
(* The stream invariant. *)

\* Steps that leave what is unread alone, and steps that leave the buffer behind.
Keeps == \/ Handshake \/ ReadBegin \/ ReadSome
         \/ HandleReturns \/ HandleDoc \/ HandleThrows \/ HandleUnwinds
         \/ Respond \/ RespondFails \/ Close
Leaves == ReadDone \/ EndOfStream \/ ReadFails

\* These steps do not lose a unit, and the requests stay what they are.
LEMMA KeepsUnread ==
  ASSUME TypeOK, Keeps PROVE Unread' = Unread /\ UNCHANGED <<asked, early, hungup, cur>>
<1>1. CASE ReadBegin \/ ReadSome
  BY <1>1, ReadingKeepsUnread DEF ReadBegin, ReadSome, clientVars
<1>2. CASE Handshake \/ Close
  BY <1>2 DEF Handshake, Close, Unread, clientVars
<1>3. CASE HandleReturns \/ HandleDoc \/ HandleThrows \/ HandleUnwinds
  BY <1>3 DEF HandleReturns, HandleDoc, HandleThrows, HandleUnwinds, Unread, clientVars
<1>4. CASE Respond \/ RespondFails
  BY <1>4 DEF Respond, RespondFails, Unread, clientVars
<1> QED BY <1>1, <1>2, <1>3, <1>4 DEF Keeps

\* A read that ends leaves the wire, and drops what is in the buffer.
LEMMA LeavesBuffer ==
  ASSUME TypeOK, Leaves
  PROVE  /\ pc = "read" /\ pc' \in {"handle", "closing"} /\ UNCHANGED <<wire, asked, early, hungup, out>>
         /\ Unread' = wire
         /\ Len(wire) = Len(Unread) - Len(buffer) /\ Len(buffer) \in 0..Len(Unread)
         /\ \A j \in 1..Len(wire) : wire[j] = Unread[j + Len(buffer)]
<1>1. pc = "read" /\ pc' \in {"handle", "closing"} /\ UNCHANGED <<wire, asked, early, hungup, out>>
  BY DEF Leaves, ReadDone, EndOfStream, ReadFails, clientVars
<1>2. /\ Len(Unread) = Len(buffer) + Len(wire)
      /\ \A j \in 1..Len(wire) : wire[j] = Unread[j + Len(buffer)]
  BY <1>1, UnreadPlaces
<1>3. Len(buffer) \in Nat /\ Len(wire) \in Nat
  BY UnreadPlaces
<1>4. Len(wire) = Len(Unread) - Len(buffer) /\ Len(buffer) \in 0..Len(Unread)
  BY <1>2, <1>3
<1> QED BY <1>1, <1>2, <1>4 DEF Unread

\* What is read as a request is the next one, and the whole of it.
LEMMA RequestRead ==
  ASSUME TypeOK, StreamInv, ReadDone
  PROVE  /\ Unread # <<>> /\ Unread[1] = <<cur', 0>>
         /\ cur' \in 1..Len(asked) /\ cur' > cur
         /\ \A j \in 1..Len(wire) : wire[j][1] > cur'
<1>1. /\ pc = "read" /\ buffer # <<>> /\ buffer[1][2] = 0 /\ cur' = buffer[1][1]
      /\ Len(buffer) > asked[buffer[1][1]].body
  BY DEF ReadDone, Whole, AtHead
<1>2. /\ Len(buffer) \in Nat /\ Len(wire) \in Nat /\ Len(buffer) >= 1
  BY <1>1, UnreadPlaces, EmptySeq
<1>3. /\ Unread \in Seq(Units) /\ DOMAIN Unread = 1..Len(Unread)
      /\ Len(Unread) = Len(buffer) + Len(wire)
      /\ Unread[1] = buffer[1]
      /\ \A j \in 1..Len(wire) : wire[j] = Unread[j + Len(buffer)]
  <2>1. 1 \in 1..Len(buffer)
    BY <1>2
  <2> QED BY <1>1, <2>1, UnreadPlaces
<1>4. 1 \in DOMAIN Unread
  BY <1>2, <1>3
<1>5. InFrames(Unread, asked) /\ \A p \in DOMAIN Unread : Unread[p][1] > cur
  BY DEF StreamInv
<1>6. asked \in Seq(Requests)
  BY UnreadPlaces
<1>7. Unread[1] \in Units /\ Unread[1][1] \in 1..Len(asked)
  BY <1>3, <1>4, <1>5, <1>6, UnitPlaces
<1>8. Unread[1] = <<cur', 0>>
  BY <1>1, <1>3, <1>7 DEF Units
<1>9. Left(Unread[1], asked) = asked[cur'].body - 0
  BY <1>8 DEF Left
<1>10. asked[cur'].body \in Nat
  <2>1. asked[cur'] \in Requests
    BY <1>6, <1>7, <1>8, ElementOfSeq
  <2> QED BY <2>1, RequestsAreRequests
<1>11. ASSUME NEW j \in 1..Len(wire) PROVE wire[j][1] > cur'
  <2>1. j + Len(buffer) \in DOMAIN Unread /\ 1 < j + Len(buffer)
    BY <1>2, <1>3
  <2>2. ~(j + Len(buffer) - 1 <= Left(Unread[1], asked))
    BY <1>1, <1>2, <1>9, <1>10
  <2>3. Unread[j + Len(buffer)][1] > Unread[1][1]
    BY <1>4, <1>5, <2>1, <2>2 DEF InFrames
  <2> QED BY <1>3, <1>8, <2>3
<1>12. cur' > cur
  BY <1>4, <1>5, <1>8
<1> QED BY <1>3, <1>4, <1>7, <1>8, <1>11, <1>12

\* What is unread stays made of whole requests that are still to be served.
LEMMA StreamStep ==
  ASSUME TypeOK, StreamInv, [Next]_vars PROVE StreamInv'
<1>1. InFrames(Unread, asked) /\ \A p \in DOMAIN Unread : Unread[p][1] > cur
  BY DEF StreamInv
<1>2. ~hungup => Complete(Unread, asked)
  BY DEF StreamInv
<1>3. /\ Unread \in Seq(Units) /\ wire \in Seq(Units) /\ asked \in Seq(Requests)
      /\ DOMAIN Unread = 1..Len(Unread) /\ DOMAIN wire = 1..Len(wire)
  BY UnreadPlaces
<1>4. CASE Keeps
  <2>1. Unread' = Unread /\ UNCHANGED <<asked, hungup, cur>>
    BY <1>4, KeepsUnread
  <2> QED BY <2>1 DEF StreamInv, InFrames, Complete, Left
<1>5. CASE Leaves
  <2>1. /\ UNCHANGED <<asked, hungup>> /\ Unread' = wire
        /\ Len(wire) = Len(Unread) - Len(buffer) /\ Len(buffer) \in 0..Len(Unread)
        /\ \A j \in 1..Len(wire) : wire[j] = Unread[j + Len(buffer)]
    BY <1>5, LeavesBuffer
  <2>2. InFrames(wire, asked) /\ (Complete(Unread, asked) => Complete(wire, asked))
    BY <1>1, <1>3, <2>1, SuffixInFrames
  <2>3. \A p \in DOMAIN wire : wire[p][1] > cur'
    <3>1. CASE ReadDone
      BY <1>3, <3>1, RequestRead
    <3>2. CASE cur' = cur
      <4> SUFFICES ASSUME NEW p \in 1..Len(wire) PROVE wire[p][1] > cur
        BY <1>3, <3>2
      <4>1. Len(Unread) \in Nat /\ Len(wire) \in Nat
        BY UnreadPlaces
      <4>2. p + Len(buffer) \in 1..Len(Unread)
        BY <2>1, <4>1
      <4> QED BY <1>1, <1>3, <2>1, <4>2
    <3> QED BY <1>5, <3>1, <3>2 DEF Leaves, EndOfStream, ReadFails
  <2> QED BY <1>2, <2>1, <2>2, <2>3 DEF StreamInv, InFrames, Complete, Left
<1>6. ASSUME NEW r \in Requests, ClientSend(r) PROVE StreamInv'
  <2>1. /\ Unread' \in Seq(Units)
        /\ Len(Unread') = Len(Unread) + (r.body + 1)
        /\ \A j \in 1..Len(Unread) : Unread'[j] = Unread[j]
        /\ \A k \in 1..(r.body + 1) : Unread'[Len(Unread) + k] = <<Len(asked) + 1, k - 1>>
    BY <1>6, SendExtendsUnread
  <2>2. ~hungup /\ asked' = Append(asked, r) /\ UNCHANGED <<hungup, cur>>
    BY <1>6 DEF ClientSend
  <2>3. InFrames(Unread', asked') /\ Complete(Unread', asked')
    BY <1>1, <1>2, <1>3, <2>1, <2>2, SentInFrames
  <2>4. ASSUME NEW p \in DOMAIN Unread' PROVE Unread'[p][1] > cur
    <3>1. Len(Unread) \in Nat /\ Len(asked) \in Nat /\ r.body \in Nat /\ cur \in 0..Len(asked)
      BY UnreadPlaces, RequestsAreRequests DEF TypeOK
    <3>2. p \in 1..(Len(Unread) + (r.body + 1))
      BY <2>1, LenProperties
    <3>3. CASE p \in 1..Len(Unread)
      BY <1>1, <1>3, <2>1, <3>3
    <3>4. CASE p > Len(Unread)
      <4>1. p - Len(Unread) \in 1..(r.body + 1) /\ Len(Unread) + (p - Len(Unread)) = p
        BY <3>1, <3>2, <3>4
      <4>2. Unread'[p] = <<Len(asked) + 1, p - Len(Unread) - 1>>
        BY <2>1, <4>1
      <4>3. Unread'[p][1] = Len(asked) + 1
        BY <4>2
      <4> QED BY <3>1, <4>3
    <3> QED BY <3>1, <3>2, <3>3, <3>4
  <2> QED BY <2>2, <2>3, <2>4 DEF StreamInv, InFrames, Complete, Left
<1>7. CASE ClientHangup
  <2>1. /\ Unread' \in Seq(Units) /\ DOMAIN Unread' \subseteq DOMAIN Unread
        /\ \A j \in DOMAIN Unread' : Unread'[j] = Unread[j]
    BY <1>7, HangupCutsUnread
  <2>2. hungup' /\ UNCHANGED <<asked, cur>>
    BY <1>7 DEF ClientHangup
  <2>3. InFrames(Unread', asked)
    BY <1>1, <1>3, <2>1, PrefixInFrames
  <2>4. \A p \in DOMAIN Unread' : Unread'[p][1] > cur
    BY <1>1, <2>1
  <2> QED BY <2>2, <2>3, <2>4 DEF StreamInv, InFrames, Left
<1>8. CASE UNCHANGED vars
  <2>1. Unread' = Unread /\ UNCHANGED <<asked, hungup, cur>>
    BY <1>8 DEF vars, Unread
  <2> QED BY <2>1 DEF StreamInv, InFrames, Complete, Left
<1> QED
  BY <1>4, <1>5, <1>6, <1>7, <1>8 DEF Next, Thread, Client, Keeps, Leaves
-----------------------------------------------------------------------------
(* Types. *)

\* A read goes on only while the request it has begun fits the limit and is not
\* all there.
LEMMA ReadStaysBounded ==
  ASSUME TypeOK, StreamInv, ReadSome
  PROVE  /\ wire' \in Seq(Units) /\ buffer' \in Seq(Units)
         /\ Len(buffer') <= BodyLimit + Chunk
<1>1. /\ wire \in Seq(Units) /\ buffer \in Seq(Units) /\ asked \in Seq(Requests)
      /\ Unread \in Seq(Units)
  BY UnreadPlaces
<1>2. Len(wire) \in Nat /\ Len(buffer) \in Nat /\ DOMAIN Unread = 1..Len(Unread)
  BY UnreadPlaces
<1>3. pc = "read" /\ ~TooBig /\ ~Garbled /\ ~Whole
  BY DEF ReadSome
<1>4. Len(buffer) <= BodyLimit
  <2>1. CASE buffer = <<>>
    BY <2>1, EmptySeq, SizesAreNat
  <2>2. CASE buffer # <<>>
    <3>1. AtHead
      BY <1>3, <2>2 DEF Garbled
    <3>2. ~(asked[buffer[1][1]].body > BodyLimit) /\ ~(Len(buffer) > asked[buffer[1][1]].body)
      BY <1>3, <3>1 DEF TooBig, Whole
    <3>3. 1 \in 1..Len(buffer)
      BY <1>1, <1>2, <2>2, EmptySeq
    <3>4. Unread[1] = buffer[1] /\ 1 \in DOMAIN Unread
      <4>1. /\ Len(Unread) = Len(buffer) + Len(wire)
            /\ \A j \in 1..Len(buffer) : Unread[j] = buffer[j]
        BY <1>3, UnreadPlaces
      <4> QED BY <1>2, <3>3, <4>1
    <3>5. buffer[1][1] \in 1..Len(asked)
      BY <3>4 DEF StreamInv, InFrames
    <3>6. asked[buffer[1][1]].body \in Nat
      BY <1>1, <3>5, ElementOfSeq, RequestsAreRequests
    <3> QED BY <1>2, <3>2, <3>6, SizesAreNat
  <2> QED BY <2>1, <2>2
<1>5. PICK n \in 1..(IF Chunk < Len(wire) THEN Chunk ELSE Len(wire)) :
        buffer' = buffer \o SubSeq(wire, 1, n) /\ wire' = SubSeq(wire, n + 1, Len(wire))
  BY DEF ReadSome
<1>6. n \in Nat /\ n >= 1 /\ n <= Len(wire) /\ n <= Chunk
  BY <1>2, SizesAreNat
<1>7. \A i \in 1..Len(wire) : wire[i] \in Units
  BY <1>1, ElementOfSeq
<1> DEFINE s == SubSeq(wire, 1, n)
<1>8. s \in Seq(Units) /\ Len(s) = n
  <2>1. \A i \in 1..n : wire[i] \in Units
    BY <1>2, <1>6, <1>7
  <2>2. s \in Seq(Units) /\ Len(s) = IF 1 <= n THEN n - 1 + 1 ELSE 0
    BY <1>6, <2>1, SubSeqProperties
  <2> QED BY <1>6, <2>2
<1>9. wire' \in Seq(Units)
  <2>1. \A i \in (n + 1)..Len(wire) : wire[i] \in Units
    BY <1>2, <1>6, <1>7
  <2>2. n + 1 \in Int /\ Len(wire) \in Int
    BY <1>2, <1>6
  <2> QED BY <1>5, <2>1, <2>2, SubSeqProperties
<1> HIDE DEF s
<1>10. buffer' \in Seq(Units) /\ Len(buffer') = Len(buffer) + n
  <2>1. buffer' = buffer \o s
    BY <1>5 DEF s
  <2> QED BY <1>1, <1>8, <2>1, ConcatProperties
<1>11. Len(buffer') <= BodyLimit + Chunk
  BY <1>2, <1>4, <1>6, <1>10, SizesAreNat
<1> QED BY <1>9, <1>10, <1>11

\* Every route answers the request it serves, with what that asked for about the
\* connection.
LEMMA Handled ==
  ASSUME TypeOK, HandleReturns \/ HandleDoc \/ HandleThrows
  PROVE  /\ pc = "handle" /\ pc' = "write" /\ UNCHANGED <<wire, clientVars, buffer, cur, out>>
         /\ endpoint' \in BOOLEAN
         /\ res' \in Responses /\ res'.req = cur /\ res'.keep = asked[cur].keep
<1>1. /\ pc = "handle" /\ pc' = "write" /\ UNCHANGED <<wire, clientVars, buffer, cur, out>>
      /\ endpoint' \in BOOLEAN
  BY DEF HandleReturns, HandleDoc, HandleThrows, EndpointKnown, TypeOK
<1>2. \E status \in Statuses, type \in {"json", "text", "yaml", "html"} : Reply(status, type)
  <2>1. CASE HandleReturns
    BY <2>1 DEF HandleReturns, Statuses
  <2>2. CASE HandleDoc
    BY <2>2 DEF HandleDoc, DocStatus, DocType, Statuses
  <2>3. CASE HandleThrows
    <3>1. PICK status \in Errors(Route(asked[cur])) : Reply(status, "json")
      BY <2>3 DEF HandleThrows
    <3>2. status \in Statuses
      BY <3>1 DEF Errors, Statuses
    <3> QED BY <3>1, <3>2
  <2> QED BY <2>1, <2>2, <2>3
<1>3. cur \in 0..MaxRequests /\ asked[cur].keep \in BOOLEAN
  <2>1. asked \in Seq(Requests) /\ Len(asked) \in Nat
    BY UnreadPlaces
  <2>2. cur \in 1..Len(asked) /\ Len(asked) <= MaxRequests
    BY <1>1, <2>1 DEF TypeOK
  <2>3. asked[cur] \in Requests
    BY <2>1, <2>2, ElementOfSeq
  <2> QED BY <2>1, <2>2, <2>3, RequestsAreRequests, MaxRequestsIsNat
<1> QED BY <1>1, <1>2, <1>3 DEF Reply, Responses

\* Every step preserves the types.
LEMMA TypeStep ==
  ASSUME TypeOK, StreamInv, [Next]_vars PROVE TypeOK'
<1>1. /\ asked \in Seq(Requests) /\ Len(asked) \in Nat /\ Len(asked) <= MaxRequests
      /\ cur \in 0..Len(asked) /\ (pc \in {"handle", "write"} => cur > 0)
  BY UnreadPlaces DEF TypeOK
<1>2. CASE Handshake \/ EndOfStream \/ ReadFails \/ HandleUnwinds \/ RespondFails \/ Close
  BY <1>2 DEF TypeOK, BufferBounded, PC, clientVars, EndpointKnown, EndpointThrows,
              Handshake, EndOfStream, ReadFails, HandleUnwinds, RespondFails, Close
<1>3. CASE ReadBegin
  <2>1. buffer' = <<>> /\ pc' = "read" /\ UNCHANGED <<wire, clientVars, cur, res, endpoint, out>>
    BY <1>3 DEF ReadBegin
  <2>2. buffer' \in Seq(Units) /\ Len(buffer') <= BodyLimit + Chunk
    BY <2>1, EmptySeq, SizesAreNat
  <2> QED BY <2>1, <2>2 DEF TypeOK, BufferBounded, PC, clientVars
<1>4. CASE ReadSome
  BY <1>4, ReadStaysBounded DEF ReadSome, TypeOK, BufferBounded, clientVars
<1>5. CASE ReadDone
  <2>1. cur' \in 1..Len(asked)
    BY <1>5, RequestRead
  <2>2. pc' = "handle" /\ UNCHANGED <<wire, clientVars, buffer, res, endpoint, out>>
    BY <1>5 DEF ReadDone
  <2>3. cur' \in 0..Len(asked) /\ cur' > 0
    BY <1>1, <2>1
  <2> QED BY <2>2, <2>3 DEF TypeOK, BufferBounded, PC, clientVars
<1>6. CASE HandleReturns \/ HandleDoc \/ HandleThrows
  BY <1>6, Handled DEF TypeOK, BufferBounded, PC, clientVars
<1>7. CASE Respond
  <2>1. out' = Append(out, res) /\ pc' \in {"loop", "closing"} /\ endpoint' = TRUE
        /\ UNCHANGED <<wire, clientVars, buffer, cur, res>>
    BY <1>7 DEF Respond, EndpointKnown
  <2>2. out' \in Seq(Responses)
    BY <2>1, AppendProperties DEF TypeOK
  <2> QED BY <2>1, <2>2 DEF TypeOK, BufferBounded, PC, clientVars
<1>8. ASSUME NEW r \in Requests, ClientSend(r) PROVE TypeOK'
  <2>1. wire' \in Seq(Units)
    BY <1>8, SendExtendsUnread
  <2>2. /\ Len(asked) < MaxRequests /\ asked' = Append(asked, r)
        /\ early' \in {early, early \cup {Len(asked')}}
        /\ UNCHANGED <<hungup, pc, buffer, cur, res, endpoint, out>>
    BY <1>8 DEF ClientSend
  <2>3. asked' \in Seq(Requests) /\ Len(asked') = Len(asked) + 1
    BY <1>1, <2>2, AppendProperties
  <2>4. Len(asked') <= MaxRequests /\ cur' \in 0..Len(asked')
    BY <1>1, <2>2, <2>3, MaxRequestsIsNat
  <2>5. early' \subseteq 1..Len(asked')
    <3>1. early \subseteq 1..Len(asked)
      BY DEF TypeOK
    <3>2. 1..Len(asked) \subseteq 1..Len(asked') /\ Len(asked') \in 1..Len(asked')
      BY <1>1, <2>3
    <3> QED BY <2>2, <3>1, <3>2
  <2> QED BY <2>1, <2>2, <2>3, <2>4, <2>5 DEF TypeOK, BufferBounded
<1>9. CASE ClientHangup
  <2>1. wire' \in Seq(Units)
    BY <1>9, HangupCutsUnread
  <2> QED BY <1>9, <2>1 DEF ClientHangup, TypeOK, BufferBounded
<1>10. CASE UNCHANGED vars
  BY <1>10 DEF vars, TypeOK, BufferBounded
<1> QED
  BY <1>2, <1>3, <1>4, <1>5, <1>6, <1>7, <1>8, <1>9, <1>10 DEF Next, Thread, Client
-----------------------------------------------------------------------------
(* Answers. *)

\* The answers, and the number of the request in work.
LEMMA OutPlaces ==
  ASSUME TypeOK
  PROVE  /\ out \in Seq(Responses) /\ Len(out) \in Nat /\ DOMAIN out = 1..Len(out)
         /\ \A j \in 1..Len(out) : out[j] \in Responses /\ out[j].req \in Nat
         /\ cur \in Nat /\ cur <= Len(asked) /\ Len(asked) \in Nat
<1>1. out \in Seq(Responses) /\ Len(asked) \in Nat
  BY UnreadPlaces DEF TypeOK
<1>2. Len(out) \in Nat /\ DOMAIN out = 1..Len(out)
  BY <1>1, LenProperties
<1>3. ASSUME NEW j \in 1..Len(out) PROVE out[j] \in Responses /\ out[j].req \in Nat
  <2>1. out[j] \in Responses
    BY <1>1, ElementOfSeq
  <2> QED BY <2>1, MaxRequestsIsNat DEF Responses
<1>4. cur \in Nat /\ cur <= Len(asked)
  BY <1>1 DEF TypeOK
<1> QED BY <1>1, <1>2, <1>3, <1>4

\* Requests keep their numbers.
LEMMA AskedGrows ==
  ASSUME TypeOK, [Next]_vars
  PROVE  /\ Len(asked') >= Len(asked) /\ Len(asked') \in Nat
         /\ \A i \in 1..Len(asked) : asked'[i] = asked[i]
<1>1. asked \in Seq(Requests) /\ Len(asked) \in Nat
  BY UnreadPlaces
<1>2. asked' = asked \/ \E r \in Requests : ClientSend(r)
  BY DEF Next, Thread, Client, vars, clientVars, Handshake, ReadBegin, ReadSome, ReadDone,
         EndOfStream, ReadFails, HandleReturns, HandleDoc, HandleThrows, HandleUnwinds,
         Respond, RespondFails, Close, ClientHangup
<1>3. ASSUME NEW r \in Requests, ClientSend(r)
      PROVE  /\ Len(asked') = Len(asked) + 1
             /\ \A i \in 1..Len(asked) : asked'[i] = asked[i]
  BY <1>1, <1>3, AppendProperties DEF ClientSend
<1> QED BY <1>1, <1>2, <1>3

\* Each answer goes to the request in work, which is later than all answered ones,
\* and is followed by another only if it kept the connection.
LEMMA AnswersStep ==
  ASSUME TypeOK, StreamInv, AnswersInv, KeepAliveAgrees, [Next]_vars
  PROVE  AnswersInv' /\ KeepAliveAgrees'
<1>1. /\ out \in Seq(Responses) /\ Len(out) \in Nat /\ DOMAIN out = 1..Len(out)
      /\ \A j \in 1..Len(out) : out[j] \in Responses /\ out[j].req \in Nat
      /\ cur \in Nat /\ cur <= Len(asked) /\ Len(asked) \in Nat
  BY OutPlaces
<1>2. \A i \in 1..Len(asked) : asked'[i] = asked[i]
  BY AskedGrows
<1>3. \A j \in 1..Len(out) :
        /\ out[j].req \in 1..cur /\ out[j].req \in 1..Len(asked)
        /\ pc \in {"handle", "write"} => out[j].req < cur
        /\ pc \notin {"closing", "closed"} => out[j].keep
        /\ out[j].keep = asked[out[j].req].keep
  <2> SUFFICES ASSUME NEW j \in 1..Len(out)
               PROVE  /\ out[j].req \in 1..cur /\ out[j].req \in 1..Len(asked)
                      /\ pc \in {"handle", "write"} => out[j].req < cur
                      /\ pc \notin {"closing", "closed"} => out[j].keep
                      /\ out[j].keep = asked[out[j].req].keep
    OBVIOUS
  <2>1. /\ out[j].req \in 1..cur
        /\ pc \in {"handle", "write"} => out[j].req < cur
        /\ pc \notin {"closing", "closed"} => out[j].keep
    BY <1>1 DEF AnswersInv
  <2>2. out[j].keep = asked[out[j].req].keep
    BY DEF KeepAliveAgrees
  <2>3. out[j].req \in 1..Len(asked)
    BY <1>1, <2>1
  <2> QED BY <2>1, <2>2, <2>3
<1>4. \A j \in 1..Len(out) - 1 : out[j].keep /\ out[j].req < out[j + 1].req
  BY DEF KeepAliveAgrees
<1>5. CASE out' = out
  <2>1. KeepAliveAgrees'
    BY <1>2, <1>3, <1>4, <1>5 DEF KeepAliveAgrees
  <2>2. CASE ReadDone
    <3>1. cur' \in Nat /\ cur' > cur /\ pc = "read" /\ pc' = "handle"
      BY <1>1, <2>2, RequestRead DEF ReadDone
    <3>2. \A j \in 1..Len(out) : out[j].req \in 1..cur' /\ out[j].req < cur' /\ out[j].keep
      BY <1>1, <1>3, <3>1
    <3> QED BY <1>1, <1>5, <2>1, <3>1, <3>2 DEF AnswersInv
  <2>3. CASE HandleReturns \/ HandleDoc \/ HandleThrows
    <3>1. /\ pc = "handle" /\ pc' = "write" /\ UNCHANGED <<asked, cur>>
          /\ res'.req = cur /\ res'.keep = asked[cur].keep
      BY <2>3, Handled DEF clientVars
    <3> QED BY <1>1, <1>3, <1>5, <2>1, <3>1 DEF AnswersInv
  <2>4. CASE ClientHangup \/ (\E r \in Requests : ClientSend(r)) \/ UNCHANGED vars
    <3>1. UNCHANGED <<pc, cur, res>>
      BY <2>4 DEF ClientHangup, ClientSend, vars
    <3>2. pc = "write" => cur \in 1..Len(asked)
      BY <1>1 DEF TypeOK
    <3>3. pc = "write" => res.req = cur /\ res.keep = asked'[cur].keep
      BY <1>2, <3>2 DEF AnswersInv
    <3> QED BY <1>1, <1>3, <1>5, <2>1, <3>1, <3>3 DEF AnswersInv
  <2>5. CASE \/ Handshake \/ ReadBegin \/ ReadSome \/ EndOfStream \/ ReadFails
             \/ HandleUnwinds \/ RespondFails \/ Close
    <3>1. /\ cur' = cur /\ pc' \notin {"handle", "write"}
          /\ pc' \notin {"closing", "closed"} => pc \notin {"closing", "closed"}
      BY <2>5 DEF Handshake, ReadBegin, ReadSome, EndOfStream, ReadFails,
                  HandleUnwinds, RespondFails, Close
    <3> QED BY <1>1, <1>3, <1>5, <2>1, <3>1 DEF AnswersInv
  <2>6. CASE Respond
    <3>1. Len(Append(out, res)) = Len(out) + 1
      BY <1>1, AppendProperties DEF TypeOK
    <3> QED BY <1>1, <1>5, <2>6, <3>1 DEF Respond
  <2> QED BY <2>2, <2>3, <2>4, <2>5, <2>6 DEF Next, Thread, Client
<1>6. CASE Respond
  <2>1. /\ pc = "write" /\ out' = Append(out, res) /\ UNCHANGED <<asked, cur, res>>
        /\ pc' = IF asked[cur].keep THEN "loop" ELSE "closing"
    BY <1>6 DEF Respond, clientVars
  <2>2. res \in Responses /\ res.req = cur /\ res.keep = asked[cur].keep /\ cur > 0
    BY <2>1 DEF TypeOK, AnswersInv
  <2> DEFINE n == Len(out) + 1
  <2>3. /\ out' \in Seq(Responses) /\ Len(out') = n /\ out'[n] = res
        /\ \A j \in 1..Len(out) : out'[j] = out[j]
    BY <1>1, <2>1, <2>2, AppendProperties
  <2>4. DOMAIN out' = 1..n
    BY <2>3, LenProperties
  <2>5. n \in Nat /\ n - 1 = Len(out)
    BY <1>1
  <2>6. \A j \in 1..n : j \in 1..Len(out) \/ j = n
    BY <1>1
  <2> HIDE DEF n
  <2>7. \A j \in 1..n : /\ out'[j].req \in 1..cur
                        /\ pc' \notin {"closing", "closed"} => out'[j].keep
                        /\ out'[j].keep = asked[out'[j].req].keep
    <3> SUFFICES ASSUME NEW j \in 1..n
                 PROVE  /\ out'[j].req \in 1..cur
                        /\ pc' \notin {"closing", "closed"} => out'[j].keep
                        /\ out'[j].keep = asked[out'[j].req].keep
      OBVIOUS
    <3>1. CASE j \in 1..Len(out)
      BY <1>3, <2>1, <2>3, <3>1
    <3>2. CASE j = n
      BY <1>1, <2>1, <2>2, <2>3, <3>2
    <3> QED BY <2>6, <3>1, <3>2
  <2>8. AnswersInv'
    BY <2>1, <2>4, <2>7 DEF AnswersInv
  <2>9. \A j \in 1..n - 1 : out'[j].keep /\ out'[j].req < out'[j + 1].req
    <3> SUFFICES ASSUME NEW j \in 1..Len(out)
                 PROVE  out'[j].keep /\ out'[j].req < out'[j + 1].req
      BY <2>5
    <3>1. out'[j] = out[j] /\ out[j].keep /\ out[j].req < cur
      BY <1>3, <2>1, <2>3
    <3>2. CASE j + 1 = n
      BY <2>2, <2>3, <3>1, <3>2
    <3>3. CASE j \in 1..Len(out) - 1
      <4>1. j + 1 \in 1..Len(out)
        BY <1>1, <3>3
      <4> QED BY <1>4, <2>3, <3>1, <3>3, <4>1
    <3>4. j + 1 = n \/ j \in 1..Len(out) - 1
      BY <1>1, <2>5
    <3> QED BY <3>2, <3>3, <3>4
  <2> QED BY <2>1, <2>3, <2>7, <2>8, <2>9 DEF KeepAliveAgrees
<1>7. out' = out \/ Respond
  BY DEF Next, Thread, Client, vars, Handshake, ReadBegin, ReadSome, ReadDone,
         EndOfStream, ReadFails, HandleReturns, HandleDoc, HandleThrows, HandleUnwinds,
         RespondFails, Close, ClientHangup, ClientSend
<1> QED BY <1>5, <1>6, <1>7
-----------------------------------------------------------------------------
(* Requests that wait for an answer. *)

\* An answer that was given stays given.
LEMMA AnsweredStays ==
  ASSUME TypeOK, [Next]_vars, NEW i PROVE Answered(i) => Answered(i)'
<1>1. out \in Seq(Responses) /\ Len(out) \in Nat /\ res \in Responses
  BY OutPlaces DEF TypeOK
<1>2. out' = out \/ out' = Append(out, res)
  BY DEF Next, Thread, Client, vars, Handshake, ReadBegin, ReadSome, ReadDone,
         EndOfStream, ReadFails, HandleReturns, HandleDoc, HandleThrows, HandleUnwinds,
         Respond, RespondFails, Close, ClientHangup, ClientSend
<1>3. CASE out' = out
  BY <1>3 DEF Answered
<1>4. CASE out' = Append(out, res)
  <2>1. Len(out') = Len(out) + 1 /\ \A j \in 1..Len(out) : out'[j] = out[j]
    BY <1>1, <1>4, AppendProperties
  <2>2. \A j \in 1..Len(out) : j \in 1..Len(out')
    BY <1>1, <2>1
  <2> QED BY <2>1, <2>2 DEF Answered
<1> QED BY <1>2, <1>3, <1>4

\* A request is read that no earlier one still waits before.
LEMMA OldestRead ==
  ASSUME TypeOK, StreamInv, AnswersInv, OwedInv, ReadDone,
         NEW i \in 1..Len(asked), i \notin early,
         NEW p \in DOMAIN Unread, Unread[p] = <<i, 0>>
  PROVE  i = cur'
<1>1. /\ Unread[1] = <<cur', 0>> /\ cur' \in 1..Len(asked) /\ cur' > cur
  BY RequestRead
<1>2. /\ Len(Unread) \in Nat /\ DOMAIN Unread = 1..Len(Unread)
      /\ out \in Seq(Responses) /\ DOMAIN out = 1..Len(out)
      /\ cur \in Nat /\ Len(asked) \in Nat
  BY UnreadPlaces, OutPlaces
<1>3. CASE p = 1
  BY <1>1, <1>3
<1>4. CASE p # 1
  <2>1. 1 \in DOMAIN Unread /\ 1 < p /\ p - 1 # 0
    BY <1>2, <1>4
  <2>2. IF p - 1 <= Left(Unread[1], asked)
        THEN Unread[p] = <<Unread[1][1], Unread[1][2] + (p - 1)>>
        ELSE Unread[p][1] > Unread[1][1]
    BY <2>1 DEF StreamInv, InFrames
  <2>3. Unread[1][2] + (p - 1) # 0
    BY <1>1, <1>2, <2>1
  <2>4. i > cur'
    BY <1>1, <2>2, <2>3
  <2>5. cur' \in 1..(i - 1)
    BY <1>1, <1>2, <2>4
  <2>6. PICK j \in 1..Len(out) : out[j].req = cur'
    BY <2>5 DEF OwedInv, Answered
  <2>7. out[j].req \in 1..cur
    BY <1>2 DEF AnswersInv
  <2>8. FALSE
    BY <1>1, <1>2, <2>6, <2>7
  <2> QED BY <2>8
<1> QED BY <1>3, <1>4

\* A request that was not sent early moves from the stream to the thread to the
\* answers: the thread cannot skip it, nor lose its head with the buffer.
LEMMA OwedStep ==
  ASSUME TypeOK, StreamInv, AnswersInv, OwedInv, [Next]_vars
  PROVE  OwedInv'
<1> DEFINE Waits(i) == \/ Answered(i)
                       \/ pc \in {"handle", "write"} /\ cur = i
                       \/ \E p \in DOMAIN Unread : Unread[p] = <<i, 0>>
<1>1. /\ Len(asked) \in Nat /\ asked \in Seq(Requests) /\ Unread \in Seq(Units)
      /\ Len(Unread) \in Nat /\ DOMAIN Unread = 1..Len(Unread)
  BY UnreadPlaces
<1>2. \A i : Answered(i) => Answered(i)'
  BY AnsweredStays
<1>3. /\ hungup => hungup'
      /\ pc \in {"closing", "closed"} => pc' \in {"closing", "closed"}
  BY DEF Next, Thread, Client, vars, clientVars, Handshake, ReadBegin, ReadSome, ReadDone,
         EndOfStream, ReadFails, HandleReturns, HandleDoc, HandleThrows, HandleUnwinds,
         Respond, RespondFails, Close, ClientHangup, ClientSend
<1>4. ASSUME NEW i \in 1..Len(asked), i \notin early,
             ~hungup', pc' \notin {"closing", "closed"}
      PROVE  Waits(i)'
  <2>1. Waits(i)
    BY <1>3, <1>4 DEF OwedInv
  <2>2. CASE Answered(i)
    BY <1>2, <2>2
  <2>3. CASE pc \in {"handle", "write"} /\ cur = i
    <3>1. CASE HandleReturns \/ HandleDoc \/ HandleThrows
      BY <2>3, <3>1, Handled
    <3>2. CASE Respond
      <4>1. out' = Append(out, res) /\ res.req = i /\ res \in Responses
        BY <2>3, <3>2 DEF Respond, AnswersInv, TypeOK
      <4>2. out \in Seq(Responses) /\ Len(out) \in Nat
        BY OutPlaces
      <4>3. Len(out') = Len(out) + 1 /\ out'[Len(out) + 1] = res
        BY <4>1, <4>2, AppendProperties
      <4>4. Len(out) + 1 \in 1..Len(out')
        BY <4>2, <4>3
      <4> QED BY <4>1, <4>3, <4>4 DEF Answered
    <3>3. CASE UNCHANGED <<pc, cur>>
      BY <2>3, <3>3
    <3>4. UNCHANGED <<pc, cur>> \/ HandleReturns \/ HandleDoc \/ HandleThrows \/ Respond
      BY <1>4, <2>3
      DEF Next, Thread, Client, vars, clientVars, Handshake, ReadBegin, ReadSome, ReadDone,
          EndOfStream, ReadFails, HandleUnwinds, RespondFails, Close, ClientHangup, ClientSend
    <3> QED BY <3>1, <3>2, <3>3, <3>4
  <2>4. CASE \E p \in DOMAIN Unread : Unread[p] = <<i, 0>>
    <3>0. PICK p \in DOMAIN Unread : Unread[p] = <<i, 0>>
      BY <2>4
    <3>1. CASE Keeps
      BY <3>0, <3>1, KeepsUnread
    <3>2. CASE ReadDone
      <4>1. i = cur'
        BY <1>4, <3>0, <3>2, OldestRead
      <4> QED BY <3>2, <4>1 DEF ReadDone
    <3>3. CASE EndOfStream \/ ReadFails \/ ClientHangup
      BY <1>4, <3>3 DEF EndOfStream, ReadFails, ClientHangup
    <3>4. ASSUME NEW r \in Requests, ClientSend(r) PROVE Waits(i)'
      <4>1. /\ Unread' \in Seq(Units) /\ Len(Unread') = Len(Unread) + (r.body + 1)
            /\ \A j \in 1..Len(Unread) : Unread'[j] = Unread[j]
        BY <3>4, SendExtendsUnread
      <4>2. r.body \in Nat
        BY RequestsAreRequests
      <4>3. DOMAIN Unread' = 1..Len(Unread')
        BY <4>1, LenProperties
      <4>4. p \in DOMAIN Unread'
        BY <1>1, <4>1, <4>2, <4>3
      <4> QED BY <1>1, <3>0, <4>1, <4>4
    <3>5. CASE UNCHANGED vars
      BY <3>0, <3>5 DEF vars, Unread
    <3> QED BY <3>1, <3>2, <3>3, <3>4, <3>5 DEF Next, Thread, Client, Keeps
  <2> QED BY <2>1, <2>2, <2>3, <2>4
<1>5. ASSUME NEW r \in Requests, ClientSend(r),
             NEW i, i = Len(asked'), i \notin early'
      PROVE  /\ Len(asked') = Len(asked) + 1
             /\ \A j \in 1..Len(asked) : Answered(j)
             /\ Waits(i)'
  <2>1. Len(asked') = Len(asked) + 1
    BY <1>1, <1>5, AppendProperties DEF ClientSend
  <2>2. \A j \in 1..Len(asked) : Answered(j)
    BY <1>5 DEF ClientSend
  <2>3. /\ Unread' \in Seq(Units) /\ Len(Unread') = Len(Unread) + (r.body + 1)
        /\ \A k \in 1..(r.body + 1) : Unread'[Len(Unread) + k] = <<Len(asked) + 1, k - 1>>
    BY <1>5, SendExtendsUnread
  <2>4. r.body \in Nat
    BY RequestsAreRequests
  <2>5. DOMAIN Unread' = 1..Len(Unread')
    BY <2>3, LenProperties
  <2>6. Len(Unread) + 1 \in DOMAIN Unread' /\ 1 \in 1..(r.body + 1)
    BY <1>1, <2>3, <2>4, <2>5
  <2>7. Unread'[Len(Unread) + 1] = <<Len(asked) + 1, 0>>
    <3>1. Unread'[Len(Unread) + 1] = <<Len(asked) + 1, 1 - 1>>
      BY <2>3, <2>6
    <3> QED BY <3>1
  <2>8. Waits(i)'
    <3>1. \E p \in DOMAIN Unread' : Unread'[p] = <<i, 0>>
      BY <1>5, <2>1, <2>6, <2>7
    <3> QED BY <3>1
  <2> QED BY <2>1, <2>2, <2>8
<1>6. early \subseteq early'
  BY DEF Next, Thread, Client, vars, clientVars, Handshake, ReadBegin, ReadSome, ReadDone,
         EndOfStream, ReadFails, HandleReturns, HandleDoc, HandleThrows, HandleUnwinds,
         Respond, RespondFails, Close, ClientHangup, ClientSend
<1>7. asked' = asked \/ \E r \in Requests : ClientSend(r)
  BY DEF Next, Thread, Client, vars, clientVars, Handshake, ReadBegin, ReadSome, ReadDone,
         EndOfStream, ReadFails, HandleReturns, HandleDoc, HandleThrows, HandleUnwinds,
         Respond, RespondFails, Close, ClientHangup
<1>8. ASSUME NEW i \in 1..Len(asked'), i \notin early'
      PROVE  /\ \A j \in 1..(i - 1) : Answered(j)'
             /\ ~hungup' /\ pc' \notin {"closing", "closed"} => Waits(i)'
  <2>1. CASE i \in 1..Len(asked)
    <3>1. i \notin early
      BY <1>6, <1>8
    <3>2. \A j \in 1..(i - 1) : Answered(j)
      BY <2>1, <3>1 DEF OwedInv
    <3> QED BY <1>2, <1>4, <2>1, <3>1, <3>2
  <2>2. CASE i \notin 1..Len(asked)
    <3>1. PICK r \in Requests : ClientSend(r)
      BY <1>7, <2>2
    <3>2. Len(asked') = Len(asked) + 1
      BY <1>1, <3>1, AppendProperties DEF ClientSend
    <3>3. i = Len(asked') /\ i = Len(asked) + 1 /\ i - 1 = Len(asked)
      BY <1>1, <2>2, <3>2
    <3>4. (\A j \in 1..Len(asked) : Answered(j)) /\ Waits(i)'
      BY <1>5, <1>8, <3>1, <3>3
    <3> QED BY <1>2, <3>3, <3>4
  <2> QED BY <2>1, <2>2
<1> QED BY <1>8 DEF OwedInv
-----------------------------------------------------------------------------
(* A client that waits for its answers. *)

\* With such a client only the last request may be without an answer.
LEMMA LastWaits ==
  ASSUME TypeOK, OwedInv, early = {}, NEW i \in 1..Len(asked), ~Answered(i)
  PROVE  i = Len(asked)
<1>1. Len(asked) \in Nat
  BY OutPlaces
<1>2. ASSUME i # Len(asked) PROVE FALSE
  <2>1. Len(asked) \in 1..Len(asked) /\ i \in 1..(Len(asked) - 1)
    BY <1>1, <1>2
  <2> QED BY <2>1 DEF OwedInv
<1> QED BY <1>2

\* The client that waits sends when everything is answered, and so read.
LEMMA LockstepStep ==
  ASSUME TypeOK, StreamInv, AnswersInv, OwedInv, LockstepInv, [Next]_vars
  PROVE  LockstepInv'
<1>1. /\ Len(asked) \in Nat /\ asked \in Seq(Requests) /\ Unread \in Seq(Units)
      /\ Len(Unread) \in Nat /\ DOMAIN Unread = 1..Len(Unread)
      /\ wire \in Seq(Units) /\ Len(wire) \in Nat /\ DOMAIN wire = 1..Len(wire)
  BY UnreadPlaces
<1>2. \A p \in DOMAIN Unread : Unread[p][1] \in 1..Len(asked) /\ Unread[p][1] > cur
  BY DEF StreamInv, InFrames
<1>3. \A i : Answered(i) => i \in 1..cur /\ (pc \in {"handle", "write"} => i < cur)
  <2>1. DOMAIN out = 1..Len(out)
    BY OutPlaces
  <2> QED BY <2>1 DEF Answered, AnswersInv
<1>4. cur \in Nat /\ cur <= Len(asked)
  BY OutPlaces
<1>5. CASE Keeps
  <2>1. Unread' = Unread /\ UNCHANGED early
    BY <1>5, KeepsUnread
  <2>2. /\ pc' \in {"handle", "write"} => pc \in {"handle", "write"}
        /\ pc' \notin {"closing", "closed"} => pc \notin {"closing", "closed"}
    BY <1>5 DEF Keeps, Handshake, ReadBegin, ReadSome, HandleReturns, HandleDoc, HandleThrows,
                HandleUnwinds, Respond, RespondFails, Close
  <2> QED BY <2>1, <2>2 DEF LockstepInv
<1>6. CASE ReadDone
  <2>1. cur' \in 1..Len(asked) /\ cur' > cur /\ \A j \in 1..Len(wire) : wire[j][1] > cur'
    BY <1>6, RequestRead
  <2>2. ~Answered(cur')
    BY <1>3, <1>4, <2>1
  <2>3. /\ Unread' = wire /\ UNCHANGED early
        /\ Len(wire) = Len(Unread) - Len(buffer) /\ Len(buffer) \in 0..Len(Unread)
        /\ \A j \in 1..Len(wire) : wire[j] = Unread[j + Len(buffer)]
    BY <1>6, LeavesBuffer DEF Leaves
  <2>4. ASSUME early = {}, wire # <<>> PROVE FALSE
    <3>1. cur' = Len(asked)
      BY <2>1, <2>2, <2>4, LastWaits
    <3>2. 1 \in 1..Len(wire)
      BY <1>1, <2>4, EmptySeq
    <3>3. 1 + Len(buffer) \in 1..Len(Unread) /\ wire[1] = Unread[1 + Len(buffer)]
      BY <1>1, <2>3, <3>2
    <3>4. wire[1][1] \in 1..Len(asked) /\ wire[1][1] > cur'
      BY <1>1, <1>2, <2>1, <3>2, <3>3
    <3> QED BY <1>1, <3>1, <3>4
  <2> QED BY <2>3, <2>4 DEF LockstepInv
<1>7. CASE EndOfStream \/ ReadFails
  BY <1>7 DEF EndOfStream, ReadFails, LockstepInv
<1>8. ASSUME NEW r \in Requests, ClientSend(r) PROVE LockstepInv'
  <2>1. /\ Unread' \in Seq(Units) /\ Len(Unread') = Len(Unread) + (r.body + 1)
        /\ \A k \in 1..(r.body + 1) : Unread'[Len(Unread) + k] = <<Len(asked) + 1, k - 1>>
    BY <1>8, SendExtendsUnread
  <2>2. /\ pc' = pc
        /\ early' = {} => early = {} /\ \A i \in 1..Len(asked) : Answered(i)
    BY <1>8 DEF ClientSend
  <2>3. ASSUME early' = {} PROVE Unread = <<>> /\ pc \notin {"handle", "write"}
    <3>1. \A i \in 1..Len(asked) : i \in 1..cur /\ (pc \in {"handle", "write"} => i < cur)
      BY <1>3, <2>2, <2>3
    <3>2. ASSUME Unread # <<>> PROVE FALSE
      <4>1. 1 \in DOMAIN Unread
        BY <1>1, <3>2, EmptySeq
      <4>2. Unread[1][1] \in 1..Len(asked) /\ Unread[1][1] > cur
        BY <1>2, <4>1
      <4> QED BY <1>1, <1>4, <3>1, <4>2
    <3>3. ASSUME pc \in {"handle", "write"} PROVE FALSE
      <4>1. cur \in 1..Len(asked)
        BY <1>1, <1>4, <3>3 DEF TypeOK
      <4> QED BY <1>4, <3>1, <3>3, <4>1
    <3> QED BY <3>2, <3>3
  <2>4. ASSUME Unread = <<>> PROVE Unread'[1][2] = 0
    <3>1. Len(Unread) = 0
      BY <2>4, EmptySeq
    <3>2. 1 \in 1..(r.body + 1) /\ Len(Unread) + 1 = 1
      BY <3>1, RequestsAreRequests
    <3>3. Unread'[1] = <<Len(asked) + 1, 1 - 1>>
      BY <2>1, <3>2
    <3> QED BY <3>3
  <2> QED BY <2>2, <2>3, <2>4 DEF LockstepInv
<1>9. CASE ClientHangup
  <2>1. /\ Unread' \in Seq(Units) /\ DOMAIN Unread' \subseteq DOMAIN Unread
        /\ \A j \in DOMAIN Unread' : Unread'[j] = Unread[j]
    BY <1>9, HangupCutsUnread
  <2>2. UNCHANGED <<pc, early>>
    BY <1>9 DEF ClientHangup
  <2>3. ASSUME Unread' # <<>> PROVE Unread # <<>> /\ Unread'[1] = Unread[1]
    <3>1. Len(Unread') \in Nat /\ Len(Unread') # 0 /\ DOMAIN Unread' = 1..Len(Unread')
      BY <2>1, <2>3, EmptySeq, LenProperties
    <3>2. 1 \in DOMAIN Unread'
      BY <3>1
    <3>3. 1 \in 1..Len(Unread)
      BY <1>1, <2>1, <3>2
    <3>4. Unread # <<>>
      BY <1>1, <3>3, EmptySeq
    <3> QED BY <2>1, <3>2, <3>4
  <2> QED BY <2>2, <2>3 DEF LockstepInv
<1>10. CASE UNCHANGED vars
  BY <1>10 DEF vars, Unread, LockstepInv
<1> QED
  BY <1>5, <1>6, <1>7, <1>8, <1>9, <1>10 DEF Next, Thread, Client, Keeps

-----------------------------------------------------------------------------
(* The theorems. *)

\* The inductive invariant holds initially.
LEMMA InitIInv == Init => IInv
<1> SUFFICES ASSUME Init PROVE IInv
  OBVIOUS
<1>1. /\ wire = <<>> /\ asked = <<>> /\ early = {} /\ hungup = FALSE
      /\ pc \in {"handshake", "loop"} /\ buffer = <<>> /\ cur = 0 /\ res = NoResponse
      /\ endpoint = FALSE /\ out = <<>>
  BY DEF Init
<1>2. Unread = <<>>
  BY <1>1 DEF Unread
<1>3. /\ wire \in Seq(Units) /\ buffer \in Seq(Units) /\ asked \in Seq(Requests)
      /\ out \in Seq(Responses)
      /\ Len(wire) = 0 /\ Len(buffer) = 0 /\ Len(asked) = 0 /\ Len(out) = 0
      /\ DOMAIN Unread = {} /\ DOMAIN out = {}
  BY <1>1, <1>2, EmptySeq
<1>4. TypeOK
  <2>1. res \in Responses
    BY <1>1, MaxRequestsIsNat DEF NoResponse, Responses, Statuses
  <2>2. Len(buffer) <= BodyLimit + Chunk /\ Len(asked) <= MaxRequests /\ cur \in 0..Len(asked)
    BY <1>1, <1>3, SizesAreNat, MaxRequestsIsNat
  <2> QED BY <1>1, <1>3, <2>1, <2>2 DEF TypeOK, BufferBounded, PC
<1>5. StreamInv
  BY <1>3 DEF StreamInv, InFrames, Complete
<1>6. AnswersInv /\ OwedInv /\ LockstepInv /\ KeepAliveAgrees
  <2>1. 1..Len(asked) = {} /\ 1..Len(out) = {} /\ 1..(Len(out) - 1) = {}
    BY <1>3
  <2> QED BY <1>1, <1>2, <1>3, <2>1 DEF AnswersInv, OwedInv, LockstepInv, KeepAliveAgrees
<1> QED BY <1>4, <1>5, <1>6 DEF IInv

\* Every step preserves the inductive invariant.
LEMMA StepIInv == IInv /\ [Next]_vars => IInv'
<1> SUFFICES ASSUME IInv, [Next]_vars PROVE IInv'
  OBVIOUS
<1> USE DEF IInv
<1>1. TypeOK' /\ StreamInv'
  BY TypeStep, StreamStep
<1>2. AnswersInv' /\ KeepAliveAgrees'
  BY AnswersStep
<1>3. OwedInv' /\ LockstepInv'
  BY OwedStep, LockstepStep
<1> QED BY <1>1, <1>2, <1>3

\* The inductive invariant: what is unread is whole requests, later than the one
\* in work, and every request that was not sent early is there, in work or
\* answered.
THEOREM HttpInvariant == Spec => []IInv
  BY InitIInv, StepIInv, PTL DEF Spec

\* Types are respected, and a connection holds no more than one body within the
\* limit and one chunk, whatever the client sends.
THEOREM HttpTypeCorrect == Spec => []TypeOK
<1>1. IInv => TypeOK
  BY DEF IInv
<1> QED BY <1>1, HttpInvariant, PTL

\* Answers come in the order of the requests, at most one each, and keep the
\* connection as each asked, on every route.
THEOREM HttpKeepAliveAgrees == Spec => []KeepAliveAgrees
<1>1. IInv => KeepAliveAgrees
  BY DEF IInv
<1> QED BY <1>1, HttpInvariant, PTL

\* A connection that waits for a request owes none of its answers, but to
\* requests that were sent early.
THEOREM HttpNoAnswerOwed == Spec => []NoAnswerOwed
<1>1. IInv => NoAnswerOwed
  <2> SUFFICES ASSUME IInv, pc = "read", buffer = <<>>, wire = <<>>, ~hungup,
                      NEW i \in 1..Len(asked), i \notin early
               PROVE  Answered(i)
    BY DEF NoAnswerOwed
  <2>1. Unread \in Seq(Units) /\ DOMAIN Unread = 1..Len(Unread) /\ Len(Unread) = Len(buffer) + Len(wire)
    BY UnreadPlaces DEF IInv
  <2>2. Len(buffer) = 0 /\ Len(wire) = 0
    BY EmptySeq
  <2>3. DOMAIN Unread = {}
    BY <2>1, <2>2
  <2> QED BY <2>3 DEF IInv, OwedInv
<1> QED BY <1>1, HttpInvariant, PTL

\* With a client that waits for its answers and stays, only a body over the limit
\* makes a read fail.
THEOREM HttpStaysInStep == Spec => StaysInStep
<1> DEFINE Step == pc = "read" /\ pc' = "closing" /\ ~hungup =>
                     early # {} \/ \E i \in 1..Len(asked) : asked[i].body > BodyLimit
<1>1. IInv /\ [Next]_vars => [Step]_vars
  <2> SUFFICES ASSUME IInv, Next, pc = "read", pc' = "closing", ~hungup, early = {}
               PROVE  \E i \in 1..Len(asked) : asked[i].body > BodyLimit
    OBVIOUS
  <2>1. EndOfStream \/ ReadFails
    BY DEF Next, Thread, Client, Handshake, ReadBegin, ReadSome, ReadDone,
           HandleReturns, HandleDoc, HandleThrows, HandleUnwinds,
           Respond, RespondFails, Close, ClientHangup, ClientSend
  <2>2. TooBig \/ Garbled
    BY <2>1 DEF EndOfStream, ReadFails, AtEof
  <2>3. buffer # <<>>
    BY <2>2 DEF TooBig, AtHead, Garbled
  <2>4. /\ buffer \in Seq(Units) /\ Len(buffer) \in Nat /\ Len(wire) \in Nat
        /\ Unread \in Seq(Units) /\ DOMAIN Unread = 1..Len(Unread)
        /\ Len(Unread) = Len(buffer) + Len(wire)
        /\ \A j \in 1..Len(buffer) : Unread[j] = buffer[j]
    BY UnreadPlaces DEF IInv
  <2>5. 1 \in 1..Len(buffer)
    BY <2>3, <2>4, EmptySeq
  <2>6. Unread[1] = buffer[1] /\ 1 \in DOMAIN Unread
    BY <2>4, <2>5
  <2>7. Unread # <<>>
    BY <2>4, <2>6, EmptySeq
  <2>8. AtHead
    BY <2>3, <2>6, <2>7 DEF IInv, LockstepInv, AtHead
  <2>9. buffer[1][1] \in 1..Len(asked)
    BY <2>6 DEF IInv, StreamInv, InFrames
  <2> QED BY <2>2, <2>8, <2>9 DEF Garbled, TooBig
<1>2. Spec => [][Step]_vars
  BY <1>1, HttpInvariant, PTL DEF Spec
<1> QED BY <1>2 DEF StaysInStep
=============================================================================
