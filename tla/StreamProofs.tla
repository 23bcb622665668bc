----------------------------- MODULE StreamProofs ------------------------------
(***************************************************************************)
(* The loops of writeAll and readAll deliver packets whole and in order:   *)
(* StreamIO implements PacketPipe, for packets of any shapes, buffers of   *)
(* any capacity and any splitting of what send() and recv() transfer.      *)
(***************************************************************************)
EXTENDS StreamIO, Integers, SequenceTheorems, WellFoundedInduction, TLAPS

(***************************************************************************)
(* The sizes of packets.                                                   *)
(***************************************************************************)
\* Induction: a nonempty set of natural numbers has a least element.
LEMMA LeastNumber ==
    ASSUME NEW T, T \subseteq Nat, T # {}
    PROVE  \E m \in T : \A k \in T : m <= k
<1> DEFINE R == OpToRel(<, Nat)
<1>1. IsWellFoundedOn(R, Nat)
  BY NatLessThanWellFounded
<1>2. \A x, y \in Nat : x < y => <<x, y>> \in R
  BY DEF OpToRel
<1> HIDE DEF R
<1>3. PICK m \in T : \A k \in T : ~(<<k, m>> \in R)
  BY <1>1, WFMin
<1>4. ASSUME NEW k \in T PROVE m <= k
  <2>1. k \in Nat /\ m \in Nat
    OBVIOUS
  <2>2. ~(k < m)
    BY <1>2, <1>3, <2>1
  <2> QED BY <2>1, <2>2
<1> QED BY <1>4

\* The sums that UpTo is defined by exist.
SumsOf(g, s, n) ==
    g = [i \in 0..n |-> IF i = 0 THEN 0 ELSE g[i - 1] + s[i]]

\* Every sequence of numbers has its partial sums.
LEMMA SumsExist ==
    ASSUME NEW s, NEW n \in Nat
    PROVE  \E g : SumsOf(g, s, n)
<1> DEFINE T == {k \in Nat : ~\E g : SumsOf(g, s, k)}
<1> SUFFICES ASSUME T # {} PROVE FALSE
  OBVIOUS
<1>1. PICK m \in T : \A k \in T : m <= k
  BY LeastNumber
<1>2. m \in Nat /\ ~\E g : SumsOf(g, s, m)
  OBVIOUS
<1>3. CASE m = 0
  <2> DEFINE g == [i \in 0..0 |-> 0]
  <2>1. g = [i \in 0..0 |-> IF i = 0 THEN 0 ELSE g[i - 1] + s[i]]
    OBVIOUS
  <2> HIDE DEF g
  <2>2. SumsOf(g, s, 0)
    BY <2>1 DEF SumsOf
  <2> QED BY <1>2, <1>3, <2>2
<1>4. CASE m # 0
  <2>1. m - 1 \in Nat /\ m - 1 \notin T
    BY <1>1, <1>2, <1>4
  <2>2. PICK g : SumsOf(g, s, m - 1)
    BY <2>1
  <2> DEFINE h == [i \in 0..m |-> IF i = m THEN g[m - 1] + s[m] ELSE g[i]]
  <2>3. \A i \in 0..(m - 1) : g[i] = IF i = 0 THEN 0 ELSE g[i - 1] + s[i]
    BY <2>2 DEF SumsOf
  <2>4. ASSUME NEW i \in 0..m
        PROVE  h[i] = IF i = 0 THEN 0 ELSE h[i - 1] + s[i]
    <3>1. CASE i = m
      BY <1>2, <1>4, <2>1, <3>1
    <3>2. CASE i # m
      BY <1>2, <1>4, <2>3, <3>2
    <3> QED BY <3>1, <3>2
  <2>5. h = [i \in 0..m |-> h[i]]
    OBVIOUS
  <2> HIDE DEF h
  <2>6. SumsOf(h, s, m)
    BY <2>4, <2>5 DEF SumsOf
  <2> QED BY <1>2, <2>6
<1> QED BY <1>3, <1>4

\* What UpTo is.
LEMMA UpToDef ==
    ASSUME NEW s \in Seq(Nat \ {0})
    PROVE  /\ UpTo(s) \in [0..Len(s) -> Nat]
           /\ UpTo(s)[0] = 0
           /\ \A i \in 1..Len(s) : UpTo(s)[i] = UpTo(s)[i - 1] + s[i]
<1>1. Len(s) \in Nat
  OBVIOUS
<1>2. SumsOf(UpTo(s), s, Len(s))
  <2>1. PICK g : SumsOf(g, s, Len(s))
    BY <1>1, SumsExist
  <2> QED BY <2>1 DEF SumsOf, UpTo
<1> PICK u : u = UpTo(s)
  OBVIOUS
<1>3. /\ u = [i \in 0..Len(s) |-> IF i = 0 THEN 0 ELSE u[i - 1] + s[i]]
  BY <1>2 DEF SumsOf
<1>4. u[0] = 0 /\ \A i \in 1..Len(s) : u[i] = u[i - 1] + s[i]
  BY <1>1, <1>3
<1>5. ASSUME NEW j \in 0..Len(s) PROVE u[j] \in Nat
  <2> DEFINE T == {k \in 0..Len(s) : u[k] \notin Nat}
  <2> SUFFICES ASSUME T # {} PROVE FALSE
    OBVIOUS
  <2>1. PICK m \in T : \A k \in T : m <= k
    <3>1. T \subseteq Nat
      BY <1>1
    <3> QED BY <3>1, LeastNumber
  <2>2. m \in 0..Len(s) /\ u[m] \notin Nat /\ m # 0
    BY <1>4
  <2>3. m \in 1..Len(s) /\ m - 1 \in 0..Len(s) /\ m - 1 \notin T
    BY <1>1, <2>1, <2>2
  <2>4. u[m - 1] \in Nat /\ s[m] \in Nat
    BY <2>3
  <2> QED BY <1>4, <2>2, <2>3, <2>4
<1> QED BY <1>3, <1>4, <1>5

\* Reads are of at least one byte: later ones end later.
LEMMA UpToGrows ==
    ASSUME NEW s \in Seq(Nat \ {0}), NEW i \in 0..Len(s), NEW j \in 0..Len(s), i < j
    PROVE  UpTo(s)[i] < UpTo(s)[j]
<1> PICK n \in Nat : n = Len(s)
  OBVIOUS
<1> PICK u \in [0..n -> Nat] : u = UpTo(s)
  BY UpToDef
<1>1. \A k \in 1..n : s[k] \in Nat /\ s[k] > 0
  OBVIOUS
<1>2. \A k \in 1..n : u[k] = u[k - 1] + s[k]
  BY UpToDef
<1>3. ASSUME NEW k \in 1..n PROVE u[k - 1] < u[k]
  <2>1. k - 1 \in 0..n /\ k \in 0..n
    OBVIOUS
  <2>2. u[k] \in Nat /\ u[k - 1] \in Nat
    BY <2>1
  <2> QED BY <1>1, <1>2, <2>2
<1> DEFINE T == {k \in (i + 1)..n : u[k] <= u[i]}
<1>4. i \in 0..n /\ j \in 0..n /\ u[i] \in Nat /\ u[j] \in Nat
  OBVIOUS
<1> SUFFICES ASSUME T # {} PROVE FALSE
  <2>1. j \in (i + 1)..n /\ j \notin T
    BY <1>4
  <2>2. ~(u[j] <= u[i])
    BY <2>1
  <2> QED BY <1>4, <2>2
<1>5. PICK m \in T : \A k \in T : m <= k
  <2>1. T \subseteq Nat
    BY <1>4
  <2> QED BY <2>1, LeastNumber
<1>6. /\ m \in 1..n /\ m \in (i + 1)..n /\ u[m] <= u[i]
      /\ m - 1 \in 0..n /\ u[m] \in Nat /\ u[m - 1] \in Nat
  <2>1. m \in (i + 1)..n /\ u[m] <= u[i]
    OBVIOUS
  <2>2. m \in 1..n /\ m \in 0..n /\ m - 1 \in 0..n
    BY <1>4, <2>1
  <2> QED BY <2>1, <2>2
<1>7. u[m - 1] < u[i]
  BY <1>3, <1>4, <1>6
<1>8. m - 1 # i
  <2> SUFFICES ASSUME m - 1 = i PROVE FALSE
    OBVIOUS
  <2>1. u[m - 1] = u[i]
    OBVIOUS
  <2> QED BY <1>4, <1>7, <2>1
<1>9. m - 1 \in (i + 1)..n /\ m - 1 < m
  BY <1>4, <1>6, <1>8
<1>10. m - 1 \in T
  BY <1>4, <1>6, <1>7, <1>9
<1> QED BY <1>5, <1>6, <1>9, <1>10

\* The shape of a packet, and its bytes.
LEMMA ShapeSizes ==
    ASSUME NEW s \in Shapes
    PROVE  /\ s \in Seq(Nat \ {0}) /\ Len(s) \in Nat \ {0} /\ s[1] = First
           /\ 1 \in 1..Len(s) /\ UpTo(s)[1] = s[1]
           /\ Total(s) \in Nat \ {0} /\ UpTo(s)[0] = 0
           /\ \A i \in 0..Len(s) : UpTo(s)[i] \in Nat /\ UpTo(s)[i] <= Total(s)
           /\ \A i \in 1..Len(s) : /\ UpTo(s)[i] = UpTo(s)[i - 1] + s[i]
                                    /\ s[i] \in Nat \ {0}
<1>1. s \in Seq(Nat \ {0}) /\ s # <<>> /\ s[1] = First
  BY ShapesAssumption
<1>2. Len(s) \in Nat \ {0} /\ \A i \in 1..Len(s) : s[i] \in Nat \ {0}
  BY <1>1
<1>3. /\ \A i \in 0..Len(s) : UpTo(s)[i] \in Nat
      /\ UpTo(s)[0] = 0 /\ \A i \in 1..Len(s) : UpTo(s)[i] = UpTo(s)[i - 1] + s[i]
  BY <1>1, UpToDef
<1>4. \A i \in 0..Len(s) : i < Len(s) => UpTo(s)[i] < Total(s)
  BY <1>1, <1>2, UpToGrows DEF Total
<1>5. Total(s) \in Nat /\ Total(s) > 0
  BY <1>2, <1>3, <1>4 DEF Total
<1>6. 1 \in 1..Len(s) /\ UpTo(s)[1] = s[1]
  <2>1. 1 \in 1..Len(s) /\ s[1] \in Nat
    BY <1>2
  <2>2. UpTo(s)[1] = UpTo(s)[1 - 1] + s[1]
    BY <1>3, <2>1
  <2>3. UpTo(s)[1] = 0 + s[1]
    BY <1>3, <2>2
  <2> QED BY <2>1, <2>3
<1> QED BY <1>1, <1>2, <1>3, <1>4, <1>5, <1>6, SMTT(30) DEF Total

\* The bytes of a packet are as many as its parts say, numbered in their order.
LEMMA PacketShape ==
    ASSUME NEW s \in Shapes, NEW n \in Nat
    PROVE  /\ PacketBytes(n, s) \in Seq(Bytes)
           /\ Len(PacketBytes(n, s)) = Total(s)
           /\ \A i \in 1..Total(s) :
                 PacketBytes(n, s)[i] = [packet |-> n, index |-> i, shape |-> s]
<1>1. Total(s) \in Nat
  BY ShapeSizes
<1>2. \A i \in 1..Total(s) : [packet |-> n, index |-> i, shape |-> s] \in Bytes
  BY <1>1 DEF Bytes
<1> QED BY <1>1, <1>2 DEF PacketBytes

-----------------------------------------------------------------------------
(***************************************************************************)
(* Runs of bytes.                                                          *)
(***************************************************************************)
\* What is left of a sequence of runs after its first bytes.
LEMMA RunsRest ==
    ASSUME NEW q \in Seq(Bytes), NEW r \in Seq(Bytes), NEW m \in Nat,
           Len(q) = m + Len(r), \A i \in 1..Len(r) : r[i] = q[i + m], Runs(q)
    PROVE  Runs(r)
<1>1. /\ DOMAIN q = 1..Len(q) /\ DOMAIN r = 1..Len(r)
      /\ Len(q) \in Nat /\ Len(r) \in Nat
  OBVIOUS
<1>2. \A i \in DOMAIN r : i + m \in DOMAIN q /\ r[i] = q[i + m]
  BY <1>1
<1>3. ASSUME NEW i \in DOMAIN r, i + 1 \in DOMAIN r
      PROVE  (i + m) + 1 \in DOMAIN q /\ r[i + 1] = q[(i + m) + 1]
  <2>1. (i + 1) + m = (i + m) + 1
    BY <1>1
  <2> QED BY <1>2, <1>3, <2>1
<1> SUFFICES
      ASSUME NEW i \in DOMAIN r
      PROVE  /\ r[i].index \in 1..Total(r[i].shape)
             /\ i + 1 \in DOMAIN r =>
                   IF r[i].index < Total(r[i].shape)
                   THEN r[i + 1] = [packet |-> r[i].packet, index |-> r[i].index + 1,
                                    shape |-> r[i].shape]
                   ELSE r[i + 1].packet = r[i].packet + 1 /\ r[i + 1].index = 1
  BY DEF Runs
<1> PICK j \in DOMAIN q : j = i + m
  BY <1>2
<1>4. r[i] = q[j] /\ (i + 1 \in DOMAIN r => j + 1 \in DOMAIN q
        /\ r[i + 1] = q[j + 1])
  BY <1>2, <1>3
<1> QED BY <1>4 DEF Runs

\* Runs go on with the next bytes of the packet that the last byte is of, or with
\* the first bytes of the next packet.
LEMMA RunsExtended ==
    ASSUME NEW q \in Seq(Bytes), NEW r \in Seq(Bytes), Runs(q),
           NEW s \in Shapes, NEW p \in Nat, NEW b \in Nat, NEW n \in Nat \ {0},
           b + n <= Total(s), Len(r) = Len(q) + n,
           \A i \in 1..Len(q) : r[i] = q[i],
           \A j \in 1..n :
              r[Len(q) + j] = [packet |-> p, index |-> b + j, shape |-> s],
           q # <<>> =>
              \/ b > 0 /\ q[Len(q)] = [packet |-> p, index |-> b, shape |-> s]
              \/ /\ b = 0 /\ q[Len(q)].packet + 1 = p
                 /\ q[Len(q)].index = Total(q[Len(q)].shape)
    PROVE  Runs(r)
<1> PICK l \in Nat : l = Len(q)
  OBVIOUS
<1>1. DOMAIN q = 1..l /\ DOMAIN r = 1..(l + n) /\ Len(r) = l + n
  OBVIOUS
<1>2. Total(s) \in Nat
  BY ShapeSizes
<1>3. ASSUME NEW i \in 1..(l + n), i > l
      PROVE  r[i] = [packet |-> p, index |-> b + (i - l), shape |-> s]
  <2>1. i - l \in 1..n /\ i = l + (i - l)
    BY <1>3
  <2> QED BY <2>1
<1>4. ASSUME NEW i \in 1..l
      PROVE  r[i] = q[i] /\ q[i] \in Bytes /\ Total(q[i].shape) \in Nat
  <2>1. q[i] \in Bytes
    BY <1>4
  <2> QED BY <2>1, ShapeSizes DEF Bytes
<1> SUFFICES
      ASSUME NEW i \in 1..(l + n)
      PROVE  /\ r[i].index \in 1..Total(r[i].shape)
             /\ i + 1 \in 1..(l + n) =>
                   IF r[i].index < Total(r[i].shape)
                   THEN r[i + 1] = [packet |-> r[i].packet, index |-> r[i].index + 1,
                                    shape |-> r[i].shape]
                   ELSE r[i + 1].packet = r[i].packet + 1 /\ r[i + 1].index = 1
  BY <1>1 DEF Runs
<1>5. CASE i + 1 <= l
  <2>1. i \in 1..l /\ i + 1 \in 1..l
    BY <1>5
  <2> QED BY <1>1, <1>4, <2>1 DEF Runs
<1>6. CASE i > l
  <2>1. b + (i - l) \in 1..Total(s)
    BY <1>2, <1>6
  <2>2. r[i] = [packet |-> p, index |-> b + (i - l), shape |-> s]
    BY <1>3, <1>6
  <2>3. ASSUME i + 1 \in 1..(l + n)
        PROVE  /\ r[i + 1] = [packet |-> p, index |-> (b + (i - l)) + 1, shape |-> s]
               /\ b + (i - l) < Total(s)
    <3>1. i + 1 > l /\ b + ((i + 1) - l) = (b + (i - l)) + 1
      BY <1>6
    <3>2. b + (i - l) < Total(s)
      BY <1>2, <1>6, <2>3
    <3> QED BY <1>3, <2>3, <3>1, <3>2
  <2> QED BY <2>1, <2>2, <2>3
<1>7. CASE i = l
  <2>1. q # <<>> /\ i \in 1..l /\ l \in 1..l /\ q[l] = r[i]
    BY <1>4, <1>7
  <2>2. r[l + 1] = [packet |-> p, index |-> b + 1, shape |-> s]
    OBVIOUS
  <2>3. r[i].index \in 1..Total(r[i].shape)
    BY <1>1, <2>1 DEF Runs
  <2>4. CASE b > 0 /\ q[l] = [packet |-> p, index |-> b, shape |-> s]
    <3>1. b < Total(s)
      BY <1>2
    <3> QED BY <1>7, <2>1, <2>2, <2>3, <2>4, <3>1
  <2>5. CASE b = 0 /\ q[l].packet + 1 = p /\ q[l].index = Total(q[l].shape)
    <3>1. ~(r[i].index < Total(r[i].shape))
      <4>1. Total(q[l].shape) \in Nat
        BY <1>4, <2>1
      <4> QED BY <2>1, <2>5, <4>1
    <3> QED BY <1>7, <2>1, <2>2, <2>3, <2>5, <3>1
  <2> QED BY <2>1, <2>4, <2>5
<1> QED BY <1>5, <1>6, <1>7

\* Runs that begin with the first byte of a packet begin with its bytes.
LEMMA RunsBegin ==
    ASSUME NEW q \in Seq(Bytes), Runs(q), q # <<>>, q[1].index = 1,
           NEW k \in 1..Len(q), k <= Total(q[1].shape)
    PROVE  q[k] = [packet |-> q[1].packet, index |-> k, shape |-> q[1].shape]
<1> PICK l \in Nat : l = Len(q)
  OBVIOUS
<1>1. q[1] \in Bytes /\ 1 \in 1..l
  OBVIOUS
<1> PICK s \in Shapes, p \in Nat : q[1] = [packet |-> p, index |-> 1, shape |-> s]
  BY <1>1 DEF Bytes
<1> PICK t \in Nat : t = Total(s)
  BY ShapeSizes
<1> DEFINE T == {j \in 1..l : j <= t
      /\ q[j] # [packet |-> p, index |-> j, shape |-> s]}
<1> SUFFICES ASSUME T # {} PROVE FALSE
  OBVIOUS
<1>2. PICK j \in T : \A i \in T : j <= i
  <2>1. T \subseteq Nat
    OBVIOUS
  <2> QED BY <2>1, LeastNumber
<1>3. /\ j \in 1..l /\ j <= t /\ j # 1
      /\ q[j] # [packet |-> p, index |-> j, shape |-> s]
  OBVIOUS
<1>4. j - 1 \in 1..l /\ (j - 1) + 1 = j /\ j - 1 < t /\ ~(j <= j - 1)
  BY <1>3
<1>5. q[j - 1] = [packet |-> p, index |-> j - 1, shape |-> s]
  BY <1>2, <1>4
<1>6. q[j] = [packet |-> p, index |-> (j - 1) + 1, shape |-> s]
  BY <1>3, <1>4, <1>5, SMTT(30) DEF Runs
<1> QED BY <1>3, <1>4, <1>6

-----------------------------------------------------------------------------
(***************************************************************************)
(* The steps.                                                              *)
(***************************************************************************)
\* Concatenation is associative.
LEMMA ConcatBytes ==
    \A s, t, u \in Seq(Bytes) : (s \o t) \o u = s \o (t \o u)
BY ConcatAssociative

\* The bytes of a concatenation.
LEMMA ConcatElements ==
    \A s, t \in Seq(Bytes) :
        /\ Len(s \o t) = Len(s) + Len(t)
        /\ \A i \in 1..(Len(s) + Len(t)) :
              (s \o t)[i] = IF i <= Len(s) THEN s[i] ELSE t[i - Len(s)]
BY ConcatProperties

\* Counts.
LEMMA Difference ==
    \A m, n \in Nat : m < n => n - m \in Nat \ {0} /\ n = m + (n - m)
OBVIOUS

\* Positions of a part that fits a sequence are positions of the sequence.
LEMMA Within ==
    \A c, n, t \in Nat : c + n <= t => \A j \in 1..n : c + j \in 1..t
OBVIOUS

\* The initial state is typed.
LEMMA TypesInit ==
    ASSUME Init
    PROVE  StreamTypeOK
<1>1. <<>> \in Seq(Bytes) /\ <<>> \in Seq(Seq(Bytes)) /\ 0 \in Nat
        /\ 1 \in Nat \ {0}
  OBVIOUS
<1> QED BY <1>1 DEF Init, StreamTypeOK

\* Types are kept.
LEMMA TypesNext ==
    ASSUME StreamTypeOK, [Next]_vars
    PROVE  StreamTypeOK'
<1> USE DEF StreamTypeOK
<1>1. CASE WriteAll
  <2>1. PICK s \in Shapes : packet' = PacketBytes(Len(written) + 1, s)
    BY <1>1 DEF WriteAll
  <2>2. packet' \in Seq(Bytes)
    <3>1. Len(written) + 1 \in Nat
      OBVIOUS
    <3> QED BY <2>1, <3>1, PacketShape
  <2> QED BY <1>1, <2>2 DEF WriteAll, readerVars
<1>2. CASE Write
  <2>1. PICK n \in 1..(Len(packet) - totalBytesWritten) :
          /\ \/ stream' = stream \o SubSeq(packet, totalBytesWritten + 1,
                                           totalBytesWritten + n)
             \/ UNCHANGED stream
          /\ totalBytesWritten' = totalBytesWritten + n
    BY <1>2 DEF Write
  <2>2. totalBytesWritten' \in Nat
    BY <2>1
  <2>3. SubSeq(packet, totalBytesWritten + 1, totalBytesWritten + n) \in Seq(Bytes)
    <3>1. /\ totalBytesWritten + 1 \in Nat /\ totalBytesWritten + n \in Nat
          /\ totalBytesWritten + n <= Len(packet) /\ 1 <= totalBytesWritten + 1
      OBVIOUS
    <3> QED BY <3>1
  <2>4. stream' \in Seq(Bytes)
    <3>1. stream \o SubSeq(packet, totalBytesWritten + 1, totalBytesWritten + n)
            \in Seq(Bytes)
      BY <2>3
    <3> QED BY <2>1, <3>1
  <2>5. UNCHANGED <<link, wpc, packet, writeMutex, written, readerVars>>
    BY <1>2 DEF Write
  <2> QED BY <2>2, <2>4, <2>5 DEF readerVars
<1>3. CASE WriteFails
  BY <1>3 DEF WriteFails, readerVars
<1>4. CASE WriteReturns
  <2>1. written' = Append(written, packet)
    BY <1>4 DEF WriteReturns
  <2>2. written' \in Seq(Seq(Bytes))
    BY <2>1
  <2> QED BY <1>4, <2>2 DEF WriteReturns, readerVars
<1>5. CASE ReadAll
  BY <1>5 DEF ReadAll, writerVars
<1>6. CASE Read
  <2>1. PICK n \in 1..Len(stream) :
          /\ buffer' = buffer \o SubSeq(stream, 1, n)
          /\ stream' = SubSeq(stream, n + 1, Len(stream))
    BY <1>6 DEF Read
  <2>2. SubSeq(stream, 1, n) \in Seq(Bytes)
          /\ SubSeq(stream, n + 1, Len(stream)) \in Seq(Bytes)
    OBVIOUS
  <2>3. buffer' \in Seq(Bytes) /\ stream' \in Seq(Bytes)
    BY <2>1, <2>2
  <2> QED BY <1>6, <2>3 DEF Read, writerVars
<1>7. CASE ReadFails
  BY <1>7 DEF ReadFails, writerVars
<1>8. CASE ReadReturns
  <2>1. assembled \o buffer \in Seq(Bytes)
    OBVIOUS
  <2>2. read' \in Seq(Seq(Bytes)) /\ assembled' \in Seq(Bytes)
          /\ piece' \in Nat \ {0}
    <3>1. /\ Append(read, assembled \o buffer) \in Seq(Seq(Bytes))
          /\ <<>> \in Seq(Bytes) /\ piece + 1 \in Nat \ {0} /\ 1 \in Nat \ {0}
      BY <2>1
    <3>2. \/ piece' = piece + 1 /\ assembled' = assembled \o buffer /\ read' = read
          \/ piece' = 1 /\ assembled' = <<>>
               /\ read' = Append(read, assembled \o buffer)
      BY <1>8 DEF ReadReturns
    <3> QED BY <2>1, <3>1, <3>2
  <2> QED BY <1>8, <2>2 DEF ReadReturns, UnlocksReadMutex, writerVars
<1>9. CASE Close
  BY <1>9 DEF Close, writerVars, readerVars
<1>10. CASE Reset
  BY <1>10 DEF Reset, writerVars, readerVars
<1>11. CASE UNCHANGED vars
  BY <1>11 DEF vars, writerVars, readerVars
<1> QED BY <1>1, <1>2, <1>3, <1>4, <1>5, <1>6, <1>7, <1>8, <1>9, <1>10, <1>11
        DEF Next, WriterStep, ReaderStep

\* What was sent, and what is in flight, are sequences.
LEMMA Sequences ==
    ASSUME StreamTypeOK
    PROVE  /\ Sent \in Seq(Seq(Bytes)) /\ InBuffer \in Seq(Bytes)
             /\ Flight \in Seq(Bytes)
           /\ Len(Sent) \in Nat /\ Len(read) \in Nat /\ Len(Flight) \in Nat
           /\ DOMAIN Sent = 1..Len(Sent) /\ DOMAIN read = 1..Len(read)
           /\ DOMAIN Flight = 1..Len(Flight)
<1>1. Sent \in Seq(Seq(Bytes))
  BY DEF StreamTypeOK, Sent
<1>2. InBuffer \in Seq(Bytes)
  BY DEF StreamTypeOK, InBuffer
<1>3. assembled \in Seq(Bytes) /\ stream \in Seq(Bytes) /\ read \in Seq(Seq(Bytes))
  BY DEF StreamTypeOK
<1>4. Flight \in Seq(Bytes)
  BY <1>2, <1>3 DEF Flight
<1> QED BY <1>1, <1>2, <1>3, <1>4

\* A step that hands nothing over or in keeps the order.
LEMMA OrderKept ==
    ASSUME StreamTypeOK, StreamTypeOK', InOrder,
           Flight' = Flight, read' = read, Len(Sent) <= Len(Sent'),
           \A i \in 1..Len(Sent) : Sent'[i] = Sent[i],
           \A b \in Bytes : HandedOver(b) => HandedOver(b)'
    PROVE  InOrder'
<1>1. /\ Len(Sent) \in Nat /\ Len(read) \in Nat /\ Len(Sent') \in Nat
      /\ DOMAIN read = 1..Len(read)
  BY Sequences
<1>2. Len(read) <= Len(Sent')
  BY <1>1 DEF InOrder
<1>3. ASSUME NEW i \in DOMAIN read PROVE read[i] = Sent'[i]
  BY <1>1, <1>3 DEF InOrder
<1>4. \A i \in DOMAIN Flight : Flight[i] \in Bytes
  BY Sequences
<1> QED BY <1>2, <1>3, <1>4 DEF InOrder

\* While writeAll is not in its loop with everything handed over, what was sent is
\* what it has returned for.
LEMMA SentIsWritten ==
    ASSUME StreamTypeOK, Writing, wpc # "loop" \/ totalBytesWritten < Len(packet)
    PROVE  Sent = written
<1>1. wpc = "loop" => totalBytesWritten # Len(packet)
  BY DEF StreamTypeOK
<1> QED BY <1>1 DEF Sent

\* A step of the reader, or of the connection, does not change what was handed
\* over by the writer.
LEMMA WriterQuiet ==
    ASSUME UNCHANGED writerVars
    PROVE  /\ Sent' = Sent /\ (Partial <=> Partial')
           /\ \A b : HandedOver(b) => HandedOver(b)'
<1>1. Sent' = Sent /\ (Partial <=> Partial')
  BY DEF writerVars, Sent, Partial
<1>2. ASSUME NEW b, HandedOver(b) PROVE HandedOver(b)'
  BY <1>1, <1>2 DEF HandedOver, writerVars
<1> QED BY <1>1, <1>2

\* The end of the stream is known from what was handed over.
LEMMA EndKept ==
    ASSUME Complete, Flight' = Flight, read' = read, Sent' = Sent,
           Partial' => Partial, Partial => Partial'
             /\ totalBytesWritten' = totalBytesWritten,
           link' # "down" => link # "down"
    PROVE  Complete'
<1>1. Partial' <=> Partial
  OBVIOUS
<1> QED BY <1>1 DEF Complete

\* Every read of a packet is of at least one byte, and ends where the sizes of the
\* reads up to it end.
LEMMA PieceSize ==
    ASSUME StreamTypeOK, Reading
    PROVE  /\ Wanted \in Nat \ {0}
           /\ assembled # <<>> =>
                 /\ assembled[1].shape \in Shapes
                 /\ piece \in 1..Len(assembled[1].shape)
                 /\ Len(assembled) + Wanted = UpTo(assembled[1].shape)[piece]
<1>1. CASE assembled = <<>>
  BY <1>1, ShapesAssumption DEF Reading, Wanted
<1>2. CASE assembled # <<>>
  <2>0. assembled[1] \in Bytes
    BY <1>2 DEF StreamTypeOK
  <2> PICK s \in Shapes : s = assembled[1].shape
    BY <2>0 DEF Bytes
  <2>1. piece \in 1..Len(s) /\ Wanted = s[piece]
          /\ Len(assembled) = UpTo(s)[piece - 1]
    <3>1. Len(s) \in Nat /\ piece \in Nat \ {0}
      BY ShapeSizes DEF StreamTypeOK
    <3> QED BY <1>2, <3>1 DEF Reading, Wanted
  <2> QED BY <2>1, ShapeSizes
<1> QED BY <1>1, <1>2

\* The writer's close leaves the bytes in flight as they are.
LEMMA CloseKeeps ==
    ASSUME StreamInv, StreamTypeOK', Close
    PROVE  StreamInv'
<1> USE DEF StreamInv, Close, writerVars, readerVars
<1>1. Flight' = Flight
  BY DEF Flight, InBuffer
<1>2. InOrder'
  BY <1>1, WriterQuiet, OrderKept, Sequences
<1>3. Complete'
  BY <1>1, WriterQuiet, EndKept
<1>4. Writing' /\ Reading'
  BY DEF Writing, Reading, Wanted
<1> QED BY <1>2, <1>3, <1>4

\* So does a reset of the connection.
LEMMA ResetKeeps ==
    ASSUME StreamInv, StreamTypeOK', Reset
    PROVE  StreamInv'
<1> USE DEF StreamInv, Reset, writerVars, readerVars
<1>1. Flight' = Flight
  BY DEF Flight, InBuffer
<1>2. InOrder'
  BY <1>1, WriterQuiet, OrderKept, Sequences
<1>3. Complete'
  BY DEF Complete
<1>4. Writing' /\ Reading'
  BY DEF Writing, Reading, Wanted
<1> QED BY <1>2, <1>3, <1>4

\* A call of readAll asks for the next part; no byte moves yet.
LEMMA ReadAllKeeps ==
    ASSUME StreamInv, StreamTypeOK', ReadAll
    PROVE  StreamInv'
<1> USE DEF StreamInv, ReadAll
<1>1. Flight' = Flight
  BY DEF Flight, InBuffer
<1>2. InOrder'
  BY <1>1, WriterQuiet, OrderKept, Sequences
<1>3. Complete'
  BY <1>1, WriterQuiet, EndKept DEF writerVars
<1>4. Writing'
  BY DEF Writing, writerVars
<1>5. Wanted \in Nat /\ Wanted' = Wanted
  BY PieceSize DEF Wanted
<1>6. Reading'
  BY <1>5 DEF Reading
<1> QED BY <1>2, <1>3, <1>4, <1>6

\* A recv() that fails ends the reading; what was read stays read.
LEMMA ReadFailsKeeps ==
    ASSUME StreamInv, StreamTypeOK', ReadFails
    PROVE  StreamInv'
<1> USE DEF StreamInv, ReadFails
<1>1. Flight' = Flight
  BY DEF Flight, InBuffer
<1>2. InOrder'
  BY <1>1, WriterQuiet, OrderKept, Sequences
<1>3. Complete'
  BY <1>1, WriterQuiet, EndKept DEF writerVars
<1>4. Writing' /\ Reading'
  BY DEF Writing, Reading, Wanted, writerVars
<1> QED BY <1>2, <1>3, <1>4


\* One recv() moves bytes from the connection into the buffer and asks for no
\* more than is left of the part, so that it does not reach the next one.
LEMMA ReadKeeps ==
    ASSUME StreamInv, StreamTypeOK', Read
    PROVE  StreamInv'
<1> USE DEF StreamInv
<1>1. PICK n \in 1..Len(stream) :
          /\ n <= Remaining
          /\ buffer' = buffer \o SubSeq(stream, 1, n)
          /\ stream' = SubSeq(stream, n + 1, Len(stream))
  BY DEF Read
<1>2. /\ stream \in Seq(Bytes) /\ buffer \in Seq(Bytes) /\ assembled \in Seq(Bytes)
      /\ Len(stream) \in Nat /\ n \in Nat /\ n <= Len(stream) /\ Len(buffer) \in Nat
  BY DEF StreamTypeOK
<1>a. /\ SubSeq(stream, 1, n) \in Seq(Bytes)
      /\ SubSeq(stream, n + 1, Len(stream)) \in Seq(Bytes)
  <2>1. 1 \in Nat /\ n + 1 \in Nat
    BY <1>2
  <2> QED BY <1>2, <2>1
<1> PICK a \in Seq(Bytes) : a = SubSeq(stream, 1, n)
  BY <1>a
<1> PICK c \in Seq(Bytes) : c = SubSeq(stream, n + 1, Len(stream))
  BY <1>a
<1>3. stream = a \o c /\ Len(a) = n
  <2>1. 1 \in 1..(Len(stream) + 1) /\ n \in (1 - 1)..Len(stream)
          /\ Len(stream) \in n..Len(stream)
    BY <1>2
  <2>2. a \o c = SubSeq(stream, 1, Len(stream))
    BY <1>2, <2>1, ConcatAdjacentSubSeq
  <2> QED BY <1>2, <2>2, SubSeqFull
<1>4. Flight' = Flight
  <2>1. /\ Flight = (assembled \o buffer) \o (a \o c)
        /\ Flight' = (assembled \o (buffer \o a)) \o c
    BY <1>1, <1>3 DEF Flight, InBuffer, Read
  <2>2. assembled \o buffer \in Seq(Bytes)
    BY <1>2
  <2>3. (assembled \o buffer) \o (a \o c) = ((assembled \o buffer) \o a) \o c
    BY <2>2, ConcatBytes
  <2>4. (assembled \o buffer) \o a = assembled \o (buffer \o a)
    <3>1. assembled \in Seq(Bytes) /\ buffer \in Seq(Bytes) /\ a \in Seq(Bytes)
      BY <1>2
    <3> QED BY <3>1, ConcatBytes, ZenonT(30)
  <2> QED BY <2>1, <2>3, <2>4
<1>5. InOrder'
  BY <1>4, WriterQuiet, OrderKept, Sequences DEF Read
<1>6. Complete'
  BY <1>4, WriterQuiet, EndKept DEF Read, writerVars
<1>7. Writing'
  BY DEF Writing, Read, writerVars
<1>8. Wanted \in Nat /\ Wanted' = Wanted
  BY PieceSize DEF Read, Wanted
<1>9. Len(buffer') <= Wanted
  <2>1. Len(buffer') = Len(buffer) + n
    BY <1>1, <1>2, <1>3
  <2>2. n <= Wanted - Len(buffer)
    BY <1>1 DEF Remaining
  <2> QED BY <1>2, <1>8, <2>1, <2>2
<1>10. Reading'
  BY <1>8, <1>9 DEF Reading, Read
<1> QED BY <1>5, <1>6, <1>7, <1>10

\* What readAll and the ones before it have read of the packet, when it returns.
LEMMA Assembled ==
    ASSUME StreamInv, rpc = "loop", Len(buffer) >= Wanted,
           NEW bytes, bytes = assembled \o buffer
    PROVE  /\ bytes \in Seq(Bytes) /\ bytes # <<>> /\ bytes[1] \in Bytes
           /\ Flight = bytes \o stream
           /\ piece \in 1..Len(bytes[1].shape)
           /\ Len(bytes) = UpTo(bytes[1].shape)[piece]
<1> USE DEF StreamInv
<1>1. /\ assembled \in Seq(Bytes) /\ buffer \in Seq(Bytes)
      /\ Len(assembled) \in Nat /\ Len(buffer) \in Nat
  BY DEF StreamTypeOK
<1>2. Wanted \in Nat \ {0} /\ Len(buffer) = Wanted
  BY <1>1, PieceSize DEF Reading
<1>3. /\ bytes \in Seq(Bytes) /\ bytes # <<>> /\ bytes[1] \in Bytes
      /\ Len(bytes) = Len(assembled) + Wanted
  <2>1. bytes \in Seq(Bytes) /\ Len(bytes) = Len(assembled) + Len(buffer)
    BY <1>1
  <2>2. Len(bytes) > 0
    BY <1>1, <1>2, <2>1
  <2> QED BY <1>2, <2>1, <2>2
<1>4. Flight = bytes \o stream
  BY DEF Flight, InBuffer
<1>5. CASE assembled = <<>>
  <2> PICK s \in Shapes : s = bytes[1].shape
    BY <1>3 DEF Bytes
  <2>1. piece = 1 /\ Wanted = s[1] /\ Len(bytes) = s[1]
    <3>1. piece = 1 /\ Len(assembled) = 0
      BY <1>5 DEF Reading
    <3> QED BY <1>2, <1>3, <3>1, ShapeSizes DEF Wanted
  <2>2. piece \in 1..Len(s) /\ UpTo(s)[piece] = s[1]
    BY <2>1, ShapeSizes
  <2> QED BY <1>3, <1>4, <2>1, <2>2
<1>6. CASE assembled # <<>>
  <2>1. bytes[1] = assembled[1]
    BY <1>1, <1>6
  <2> QED BY <1>3, <1>4, <1>6, <2>1, PieceSize
<1> QED BY <1>5, <1>6


\* The return of the last readAll completes the next packet that was sent.
LEMMA LastRead ==
    ASSUME StreamInv, rpc = "loop", Len(buffer) >= Wanted,
           NEW bytes, bytes = assembled \o buffer, piece = Len(bytes[1].shape)
    PROVE  /\ Len(read) < Len(Sent) /\ bytes = Sent[Len(read) + 1]
           /\ bytes[Len(bytes)] =
                 [packet |-> Len(read) + 1, index |-> Len(bytes), shape |-> bytes[1].shape]
           /\ Len(bytes) = Total(bytes[1].shape)
<1> USE DEF StreamInv
<1>1. /\ bytes \in Seq(Bytes) /\ bytes # <<>> /\ bytes[1] \in Bytes
      /\ Flight = bytes \o stream /\ stream \in Seq(Bytes)
      /\ Len(bytes) = Total(bytes[1].shape)
  BY Assembled DEF StreamTypeOK, Total
<1>2. Flight \in Seq(Bytes) /\ Len(Sent) \in Nat /\ Len(read) \in Nat
        /\ DOMAIN Sent = 1..Len(Sent)
  BY Sequences
<1> PICK f \in Seq(Bytes) : f = Flight
  BY <1>2
<1> PICK t \in Nat \ {0} : t = Len(bytes)
  BY <1>1
<1> PICK s \in Shapes : s = bytes[1].shape
  BY <1>1 DEF Bytes
<1> PICK p \in Nat \ {0} : p = Len(read) + 1
  BY <1>2
<1>3. /\ f # <<>> /\ t \in 1..Len(f) /\ t = Total(s) /\ 1 \in 1..t /\ t \in 1..t
      /\ \A k \in 1..t : k \in 1..Len(f) /\ f[k] = bytes[k]
  <2>1. Len(f) = t + Len(stream) /\ Len(stream) \in Nat
    BY <1>1, SMTT(30)
  <2>2. \A k \in 1..Len(f) : f[k] = IF k <= t THEN bytes[k] ELSE stream[k - t]
    <3>1. bytes \in Seq(Bytes) /\ stream \in Seq(Bytes) /\ f = bytes \o stream
      BY <1>1
    <3>2. \A k \in 1..(Len(bytes) + Len(stream)) :
             (bytes \o stream)[k] =
                 IF k <= Len(bytes) THEN bytes[k] ELSE stream[k - Len(bytes)]
      BY <3>1, ConcatElements, Zenon
    <3> QED BY <2>1, <3>1, <3>2
  <2>3. ASSUME NEW k \in 1..t PROVE k \in 1..Len(f) /\ k <= t
    BY <2>1
  <2>4. 1 \in 1..t /\ t \in 1..t
    OBVIOUS
  <2>5. f # <<>>
    <3>1. Len(f) > 0
      BY <2>1
    <3> QED BY <3>1
  <2> QED BY <1>1, <2>2, <2>3, <2>4, <2>5
<1>4. f[1].packet = p /\ f[1].index = 1 /\ f[1].shape = s /\ Runs(f)
  <2>1. f[1] = bytes[1]
    BY <1>3
  <2>2. f[1].packet = Len(read) + 1 /\ f[1].index = 1 /\ Runs(f)
    BY <1>3 DEF InOrder
  <2> QED BY <2>1, <2>2
<1>5. ASSUME NEW k \in 1..t
      PROVE  bytes[k] = [packet |-> p, index |-> k, shape |-> s]
  <2>1. k \in 1..Len(f) /\ k <= Total(f[1].shape) /\ f[k] = bytes[k]
    <3>1. k \in 1..Len(f) /\ f[k] = bytes[k]
      BY <1>3
    <3>2. k <= t
      OBVIOUS
    <3> QED BY <1>3, <1>4, <3>1, <3>2
  <2>2. f[k] = [packet |-> f[1].packet, index |-> k, shape |-> f[1].shape]
    BY <1>3, <1>4, <2>1, RunsBegin
  <2> QED BY <1>4, <2>1, <2>2
<1>6. bytes = PacketBytes(p, s)
  <2>1. /\ PacketBytes(p, s) \in Seq(Bytes) /\ Len(PacketBytes(p, s)) = t
        /\ \A k \in 1..t : PacketBytes(p, s)[k] = [packet |-> p, index |-> k, shape |-> s]
    <3>1. p \in Nat
      OBVIOUS
    <3>2. /\ PacketBytes(p, s) \in Seq(Bytes)
          /\ Len(PacketBytes(p, s)) = Total(s)
          /\ \A k \in 1..Total(s) :
                PacketBytes(p, s)[k] = [packet |-> p, index |-> k, shape |-> s]
      BY <3>1, PacketShape, SMTT(30)
    <3> QED BY <1>3, <3>2
  <2>2. \A k \in 1..Len(bytes) : bytes[k] = PacketBytes(p, s)[k]
    BY <1>5, <2>1
  <2> QED BY <1>1, <2>1, <2>2, SeqEqual, ZenonT(30)
<1> PICK b : b = f[t]
  OBVIOUS
<1>7. b = bytes[t] /\ b = [packet |-> p, index |-> t, shape |-> s]
  BY <1>3, <1>5
<1>8. HandedOver(b)
  <2>1. t \in DOMAIN f
    <3>1. DOMAIN f = 1..Len(f)
      OBVIOUS
    <3> QED BY <1>3, <3>1
  <2> QED BY <2>1 DEF InOrder
<1>9. p \in DOMAIN Sent /\ Sent[p] = PacketBytes(p, s)
  <2> SUFFICES ASSUME /\ packet = PacketBytes(p, s)
                      /\ t <= totalBytesWritten /\ totalBytesWritten < Len(packet)
               PROVE  FALSE
    BY <1>7, <1>8 DEF HandedOver
  <2>1. Len(packet) = t /\ totalBytesWritten \in Nat
    BY <1>3, PacketShape DEF StreamTypeOK
  <2> QED BY <2>1
<1>10. Len(read) < Len(Sent)
  BY <1>2, <1>9
<1> QED BY <1>1, <1>6, <1>7, <1>9, <1>10

\* A readAll that returns has a part of the packet at the head of the bytes in
\* flight, and either knows the size of the next part or has the whole packet.
LEMMA ReadReturnsKeeps ==
    ASSUME StreamInv, StreamTypeOK', ReadReturns
    PROVE  StreamInv'
<1> USE DEF StreamInv
<1> PICK bytes : bytes = assembled \o buffer
  OBVIOUS
<1>1. /\ bytes \in Seq(Bytes) /\ bytes # <<>> /\ bytes[1] \in Bytes
      /\ Flight = bytes \o stream
      /\ piece \in 1..Len(bytes[1].shape)
      /\ Len(bytes) = UpTo(bytes[1].shape)[piece]
  BY Assembled DEF ReadReturns
<1>2. /\ stream \in Seq(Bytes) /\ stream' = stream /\ rpc' = "idle" /\ link' = link
      /\ Len(stream) \in Nat
  BY DEF StreamTypeOK, ReadReturns
<1>3. /\ UNCHANGED writerVars /\ Sent' = Sent /\ (Partial <=> Partial')
      /\ \A b : HandedOver(b) => HandedOver(b)'
  BY WriterQuiet DEF ReadReturns
<1>4. Writing'
  BY <1>3 DEF Writing, writerVars, ReadReturns
<1>a. \/ /\ piece < Len(bytes[1].shape)
         /\ piece' = piece + 1 /\ assembled' = bytes /\ read' = read
      \/ /\ piece = Len(bytes[1].shape)
         /\ piece' = 1 /\ assembled' = <<>> /\ read' = Append(read, bytes)
  BY DEF ReadReturns
<1>5. CASE /\ piece < Len(bytes[1].shape)
           /\ piece' = piece + 1 /\ assembled' = bytes /\ read' = read
  <2>1. piece' = piece + 1 /\ assembled' = bytes /\ read' = read
    BY <1>5
  <2>2. Flight' = Flight
    <3>1. Flight' = (bytes \o <<>>) \o stream
      BY <1>2, <2>1 DEF Flight, InBuffer
    <3> QED BY <1>1, <3>1, ConcatEmptySeq
  <2>3. InOrder'
    BY <1>3, <2>1, <2>2, OrderKept, Sequences
  <2>4. Complete'
    BY <1>2, <1>3, <2>1, <2>2, EndKept DEF writerVars
  <2>5. Reading'
    <3> PICK s \in Shapes : s = bytes[1].shape
      BY <1>1 DEF Bytes
    <3>1. /\ piece + 1 # 1 /\ piece + 1 <= Len(s) /\ (piece + 1) - 1 = piece
          /\ Len(bytes) = UpTo(s)[piece]
      BY <1>1, <1>5, ShapeSizes, SMTT(30)
    <3> QED BY <1>1, <1>2, <2>1, <3>1 DEF Reading
  <2> QED BY <1>4, <2>3, <2>4, <2>5
<1>6. CASE /\ piece = Len(bytes[1].shape)
           /\ piece' = 1 /\ assembled' = <<>> /\ read' = Append(read, bytes)
  <2>1. piece' = 1 /\ assembled' = <<>> /\ read' = Append(read, bytes)
    BY <1>6
  <2>2. /\ Len(read) < Len(Sent) /\ bytes = Sent[Len(read) + 1]
        /\ bytes[Len(bytes)] =
              [packet |-> Len(read) + 1, index |-> Len(bytes), shape |-> bytes[1].shape]
        /\ Len(bytes) = Total(bytes[1].shape)
    BY <1>6, LastRead DEF ReadReturns
  <2>3. Flight' = stream
    <3>1. Flight' = (<<>> \o <<>>) \o stream
      BY <1>2, <2>1 DEF Flight, InBuffer
    <3> QED BY <1>2, <3>1, ConcatEmptySeq
  <2>4. /\ Flight \in Seq(Bytes) /\ Len(Sent) \in Nat /\ Len(read) \in Nat
        /\ DOMAIN Sent = 1..Len(Sent) /\ DOMAIN read = 1..Len(read)
        /\ DOMAIN Flight = 1..Len(Flight) /\ Len(Flight) \in Nat
        /\ read \in Seq(Seq(Bytes)) /\ bytes \in Seq(Bytes)
    BY <1>1, Sequences DEF StreamTypeOK
  <2> PICK f \in Seq(Bytes) : f = Flight
    BY <2>4
  <2> PICK t \in Nat \ {0} : t = Len(bytes)
    BY <1>1
  <2>5. /\ Len(f) = t + Len(stream) /\ f[t] = bytes[t] /\ t \in DOMAIN f
        /\ \A i \in 1..Len(stream) : stream[i] = f[i + t] /\ i + t \in DOMAIN f
    <3>1. Len(f) = t + Len(stream) /\ DOMAIN f = 1..Len(f)
      BY <1>1, <1>2
    <3>2. \A i \in 1..Len(f) : f[i] = IF i <= t THEN bytes[i] ELSE stream[i - t]
      <4>1. bytes \in Seq(Bytes) /\ stream \in Seq(Bytes) /\ f = bytes \o stream
        BY <1>1, <1>2
      <4>2. \A i \in 1..(Len(bytes) + Len(stream)) :
               (bytes \o stream)[i] =
                   IF i <= Len(bytes) THEN bytes[i] ELSE stream[i - Len(bytes)]
        BY <4>1, ConcatElements, Zenon
      <4> QED BY <3>1, <4>1, <4>2
    <3>3. t \in 1..Len(f) /\ t <= t
      BY <1>2, <3>1
    <3>4. ASSUME NEW i \in 1..Len(stream)
          PROVE  stream[i] = f[i + t] /\ i + t \in DOMAIN f
      <4>1. i + t \in 1..Len(f) /\ ~(i + t <= t) /\ (i + t) - t = i
        BY <1>2, <3>1
      <4> QED BY <3>1, <3>2, <4>1
    <3> QED BY <3>1, <3>2, <3>3, <3>4
  <2>6. /\ Len(read') = Len(read) + 1
        /\ \A i \in DOMAIN read' : read'[i] = Sent'[i]
    <3>1. Len(read') = Len(read) + 1 /\ DOMAIN read' = 1..(Len(read) + 1)
      BY <2>1, <2>4
    <3>2. ASSUME NEW i \in DOMAIN read' PROVE read'[i] = Sent[i]
      <4>1. CASE i = Len(read) + 1
        BY <2>1, <2>2, <2>4, <4>1
      <4>2. CASE i # Len(read) + 1
        <5>1. i \in 1..Len(read)
          BY <2>4, <3>1, <4>2
        <5>2. read'[i] = read[i]
          BY <2>1, <2>4, <5>1
        <5> QED BY <2>4, <5>1, <5>2 DEF InOrder
      <4> QED BY <4>1, <4>2
    <3> QED BY <1>3, <3>1, <3>2
  <2>7. f[t].index = Total(f[t].shape) /\ f[t].packet = Len(read) + 1
    BY <2>2, <2>5
  <2>8. stream # <<>> =>
            stream[1].packet = (Len(read) + 1) + 1 /\ stream[1].index = 1
    <3> SUFFICES ASSUME stream # <<>>
                 PROVE  stream[1].packet = (Len(read) + 1) + 1
                          /\ stream[1].index = 1
      OBVIOUS
    <3>1. 1 \in 1..Len(stream) /\ t + 1 \in DOMAIN f /\ stream[1] = f[t + 1]
      BY <1>2, <2>5
    <3>2. ~(f[t].index < Total(f[t].shape))
      <4>1. f[t].index \in Nat
        <5>1. f[t] \in Bytes
          BY <2>5
        <5> QED BY <5>1 DEF Bytes
      <4> QED BY <2>7, <4>1
    <3> QED BY <2>5, <2>7, <3>1, <3>2, ZenonT(30) DEF InOrder, Runs
  <2>9. Runs(stream)
    BY <1>2, <2>5, RunsRest DEF InOrder
  <2>10. \A i \in DOMAIN stream : HandedOver(stream[i])'
    <3>1. ASSUME NEW i \in 1..Len(stream) PROVE HandedOver(stream[i])
      BY <2>5 DEF InOrder
    <3>2. DOMAIN stream = 1..Len(stream)
      BY <1>2
    <3> QED BY <1>2, <1>3, <3>1, <3>2
  <2>11. InOrder'
    <3>1. Len(read') <= Len(Sent')
      BY <1>3, <2>2, <2>4, <2>6
    <3>2. Flight' # <<>> => Flight'[1].packet = Len(read') + 1
            /\ Flight'[1].index = 1
      BY <2>3, <2>6, <2>8
    <3>3. Runs(Flight') /\ (\A i \in DOMAIN Flight : HandedOver(Flight[i]))'
      <4>1. (\A i \in DOMAIN stream : HandedOver(stream[i]))'
        BY <1>2, <2>10
      <4> QED BY <1>2, <2>3, <2>9, <4>1
    <3> QED BY <2>6, <3>1, <3>2, <3>3 DEF InOrder
  <2>12. Complete'
    <3> SUFFICES ASSUME link # "down" PROVE Complete'
      BY <1>2 DEF Complete
    <3>1. IF Partial
          THEN /\ f[Len(f)].packet = Len(Sent) + 1
               /\ f[Len(f)].index = totalBytesWritten
          ELSE /\ f[Len(f)].packet = Len(Sent)
               /\ f[Len(f)].index = Total(f[Len(f)].shape)
      <4>1. f # <<>>
        BY <2>5
      <4> QED BY <4>1 DEF Complete
    <3>2. CASE stream = <<>>
      <4>1. Len(f) = t
        BY <2>5, <3>2
      <4>2. ~Partial /\ Len(read) + 1 = Len(Sent)
        <5>1. Len(read) + 1 # Len(Sent) + 1
          BY <2>2, <2>4
        <5> QED BY <2>7, <3>1, <4>1, <5>1
      <4>3. Flight' = <<>> /\ Len(read') = Len(Sent') /\ ~Partial'
        BY <1>3, <2>3, <2>6, <3>2, <4>2
      <4> QED BY <4>3 DEF Complete
    <3>3. CASE stream # <<>>
      <4>1. stream[Len(stream)] = f[Len(f)]
        <5>1. Len(stream) \in 1..Len(stream) /\ Len(f) = Len(stream) + t
          BY <1>2, <2>5, <3>3
        <5> QED BY <2>5, <5>1
      <4> QED BY <1>2, <1>3, <2>3, <3>1, <3>3, <4>1 DEF Complete, writerVars
    <3> QED BY <3>2, <3>3
  <2>13. Reading'
    BY <1>2, <2>1 DEF Reading
  <2> QED BY <1>4, <2>11, <2>12, <2>13
<1> QED BY <1>a, <1>5, <1>6


\* A call of writeAll starts the packet after the last one; no byte moves yet.
LEMMA WriteAllKeeps ==
    ASSUME StreamInv, StreamTypeOK', WriteAll
    PROVE  StreamInv'
<1> USE DEF StreamInv
<1>1. PICK s \in Shapes : packet' = PacketBytes(Len(written) + 1, s)
  BY DEF WriteAll
<1>2. Len(packet') \in Nat \ {0}
  <2>1. Len(written) + 1 \in Nat
    BY DEF StreamTypeOK
  <2>2. Len(packet') = Total(s)
    BY <1>1, <2>1, PacketShape
  <2> QED BY <2>2, ShapeSizes
<1>3. wpc = "idle" /\ wpc' = "loop" /\ totalBytesWritten' = 0
  BY DEF WriteAll
<1>4. Sent' = Sent /\ Sent = written /\ ~Partial /\ ~Partial'
  BY <1>2, <1>3 DEF Sent, Partial, WriteAll
<1>5. Flight' = Flight
  BY DEF Flight, InBuffer, WriteAll, readerVars
<1>6. \A b : HandedOver(b) => HandedOver(b)'
  BY <1>3, <1>4 DEF HandedOver
<1>7. InOrder'
  BY <1>4, <1>5, <1>6, OrderKept, Sequences DEF WriteAll, readerVars
<1>8. Complete'
  BY <1>4, <1>5, EndKept DEF WriteAll, readerVars
<1>9. Writing'
  BY <1>1, <1>2, <1>3 DEF Writing, WriteAll
<1>10. Reading'
  BY DEF Reading, Wanted, WriteAll, readerVars
<1> QED BY <1>7, <1>8, <1>9, <1>10

\* A send() that fails leaves the packet unfinished, at the end of the bytes in
\* flight.
LEMMA WriteFailsKeeps ==
    ASSUME StreamInv, StreamTypeOK', WriteFails
    PROVE  StreamInv'
<1> USE DEF StreamInv
<1>1. /\ wpc = "loop" /\ wpc' = "failed" /\ totalBytesWritten < Len(packet)
      /\ totalBytesWritten \in Nat /\ Len(packet) \in Nat
      /\ UNCHANGED <<link, packet, totalBytesWritten, written>> /\ link = "down"
  BY DEF WriteFails, AllBytesWritten, StreamTypeOK
<1>2. Sent' = Sent /\ (Partial <=> Partial')
  BY <1>1, SentIsWritten DEF Sent, Partial
<1>3. Flight' = Flight
  BY DEF Flight, InBuffer, WriteFails, readerVars
<1>4. \A b : HandedOver(b) => HandedOver(b)'
  BY <1>1, <1>2 DEF HandedOver
<1>5. InOrder'
  BY <1>2, <1>3, <1>4, OrderKept, Sequences DEF WriteFails, readerVars
<1>6. Complete'
  BY <1>1, <1>2, <1>3, EndKept DEF WriteFails, readerVars
<1>7. Writing'
  BY <1>1 DEF Writing
<1>8. Reading'
  BY DEF Reading, Wanted, WriteFails, readerVars
<1> QED BY <1>5, <1>6, <1>7, <1>8

\* A writeAll that returns has sent all bytes of its packet.
LEMMA WriteReturnsKeeps ==
    ASSUME StreamInv, StreamTypeOK', WriteReturns
    PROVE  StreamInv'
<1> USE DEF StreamInv
<1>1. /\ wpc = "loop" /\ wpc' = "idle" /\ totalBytesWritten = Len(packet)
      /\ written' = Append(written, packet)
      /\ totalBytesWritten \in Nat /\ Len(packet) \in Nat
      /\ UNCHANGED <<link, packet, totalBytesWritten, read>>
  BY DEF WriteReturns, AllBytesWritten, StreamTypeOK, Writing, readerVars
<1>2. Sent' = Sent /\ ~Partial /\ ~Partial'
  BY <1>1 DEF Sent, Partial
<1>3. Flight' = Flight
  BY DEF Flight, InBuffer, WriteReturns, readerVars
<1>4. \A b : HandedOver(b) => HandedOver(b)'
  BY <1>1, <1>2 DEF HandedOver
<1>5. InOrder'
  BY <1>1, <1>2, <1>3, <1>4, OrderKept, Sequences
<1>6. Complete'
  BY <1>1, <1>2, <1>3, EndKept
<1>7. Writing'
  BY <1>1 DEF Writing
<1>8. Reading'
  BY DEF Reading, Wanted, WriteReturns, readerVars
<1> QED BY <1>5, <1>6, <1>7, <1>8

\* send() hands over more of the packet, and with its last byte all of it.
LEMMA WriteSends ==
    ASSUME StreamInv, StreamTypeOK', Write
    PROVE  /\ Writing' /\ Sent = written /\ read' = read
           /\ \/ totalBytesWritten' < Len(packet) /\ Sent' = Sent
              \/ totalBytesWritten' = Len(packet) /\ Sent' = Append(Sent, packet)
           /\ \A b \in Bytes : HandedOver(b) => HandedOver(b)'
<1> USE DEF StreamInv
<1>1. /\ wpc = "loop" /\ wpc' = "loop" /\ totalBytesWritten < Len(packet)
      /\ totalBytesWritten \in Nat /\ Len(packet) \in Nat
      /\ totalBytesWritten' \in Nat
      /\ totalBytesWritten < totalBytesWritten'
      /\ totalBytesWritten' <= Len(packet)
      /\ UNCHANGED <<link, packet, written, read>>
      /\ written \in Seq(Seq(Bytes)) /\ packet \in Seq(Bytes)
  BY DEF Write, AllBytesWritten, StreamTypeOK, readerVars
<1>2. Sent = written
  BY <1>1, SentIsWritten
<1>3. \/ totalBytesWritten' < Len(packet) /\ Sent' = Sent
      \/ totalBytesWritten' = Len(packet) /\ Sent' = Append(Sent, packet)
  BY <1>1, <1>2 DEF Sent
<1>4. Writing'
  BY <1>1 DEF Writing
<1>5. ASSUME NEW b \in Bytes, HandedOver(b) PROVE HandedOver(b)'
  <2>1. CASE totalBytesWritten' < Len(packet) /\ Sent' = Sent
    <3>1. b.index \in Nat
      BY DEF Bytes
    <3> QED BY <1>1, <1>5, <2>1, <3>1 DEF HandedOver
  <2>2. CASE Sent' = Append(Sent, packet)
    <3>1. /\ DOMAIN Sent = 1..Len(Sent) /\ DOMAIN Sent' = 1..(Len(Sent) + 1)
          /\ Len(Sent) \in Nat
          /\ \A i \in DOMAIN Sent : Sent'[i] = Sent[i]
          /\ Sent'[Len(Sent) + 1] = packet
      BY <1>1, <1>2, <2>2
    <3> QED BY <1>5, <3>1 DEF HandedOver
  <2> QED BY <1>3, <2>1, <2>2
<1> QED BY <1>1, <1>2, <1>3, <1>4, <1>5


\* What send() takes goes behind what is in flight.
LEMMA WriteAppends ==
    ASSUME StreamInv, StreamTypeOK', Write
    PROVE  \/ link = "down" /\ Flight' = Flight
           \/ /\ link = "up"
              /\ Len(Flight') = Len(Flight) + (totalBytesWritten' - totalBytesWritten)
              /\ \A i \in 1..Len(Flight) : Flight'[i] = Flight[i]
              /\ \A j \in 1..(totalBytesWritten' - totalBytesWritten) :
                    Flight'[Len(Flight) + j] = packet[totalBytesWritten + j]
<1> USE DEF StreamInv
<1>1. /\ UNCHANGED <<link, assembled, rpc, buffer>> /\ InBuffer' = InBuffer
      /\ assembled \in Seq(Bytes) /\ stream \in Seq(Bytes) /\ packet \in Seq(Bytes)
      /\ totalBytesWritten \in Nat /\ Len(packet) \in Nat /\ InBuffer \in Seq(Bytes)
  BY DEF Write, StreamTypeOK, readerVars, InBuffer
<1>a. assembled \o InBuffer \in Seq(Bytes)
  BY <1>1
<1> PICK a \in Seq(Bytes) : a = assembled \o InBuffer
  BY <1>a
<1>2. Flight = a \o stream /\ Flight' = a \o stream'
  BY <1>1 DEF Flight
<1>3. PICK n \in 1..(Len(packet) - totalBytesWritten) :
          /\ \/ /\ link = "up"
                /\ stream' = stream \o SubSeq(packet, totalBytesWritten + 1,
                                              totalBytesWritten + n)
             \/ link = "down" /\ UNCHANGED stream
          /\ totalBytesWritten' = totalBytesWritten + n
  BY DEF Write
<1>4. CASE link = "down" /\ UNCHANGED stream
  BY <1>2, <1>4
<1>5. CASE /\ link = "up"
           /\ stream' = stream \o SubSeq(packet, totalBytesWritten + 1,
                                         totalBytesWritten + n)
  <2> PICK c : c = SubSeq(packet, totalBytesWritten + 1, totalBytesWritten + n)
    OBVIOUS
  <2>1. /\ n \in Nat /\ totalBytesWritten' - totalBytesWritten = n
        /\ totalBytesWritten + n <= Len(packet)
        /\ totalBytesWritten + 1 \in Nat /\ totalBytesWritten + n \in Nat
    BY <1>1, <1>3
  <2>2. c \in Seq(Bytes) /\ Len(c) = n
    BY <1>1, <2>1
  <2>3. \A j \in 1..n : c[j] = packet[totalBytesWritten + j]
    BY <1>1, <2>1
  <2>4. Flight' = Flight \o c /\ Flight \in Seq(Bytes)
    <3>1. Flight' = a \o (stream \o c)
      BY <1>2, <1>5
    <3>2. (a \o stream) \o c = a \o (stream \o c)
      <4>1. stream \in Seq(Bytes) /\ c \in Seq(Bytes)
        BY <1>1, <2>2
      <4> QED BY <4>1, ConcatBytes, ZenonT(30)
    <3>3. a \o stream \in Seq(Bytes)
      BY <1>1
    <3> QED BY <1>2, <3>1, <3>2, <3>3
  <2> PICK f \in Seq(Bytes) : f = Flight
    BY <2>4
  <2>5. /\ Len(f \o c) = Len(f) + n
        /\ \A i \in 1..Len(f) : (f \o c)[i] = f[i]
        /\ \A j \in 1..n : (f \o c)[Len(f) + j] = c[j]
    BY <2>1, <2>2, SMTT(30)
  <2> QED BY <1>5, <2>1, <2>3, <2>4, <2>5
<1> QED BY <1>3, <1>4, <1>5

\* One send() appends the next bytes of the packet to the bytes in flight.
LEMMA WriteKeeps ==
    ASSUME StreamInv, StreamTypeOK', Write
    PROVE  StreamInv'
<1> USE DEF StreamInv
<1>1. /\ wpc = "loop" /\ wpc' = "loop" /\ totalBytesWritten < Len(packet)
      /\ totalBytesWritten \in Nat /\ Len(packet) \in Nat
      /\ totalBytesWritten' \in Nat /\ totalBytesWritten < totalBytesWritten'
      /\ UNCHANGED <<link, packet, written>>
      /\ written \in Seq(Seq(Bytes)) /\ packet \in Seq(Bytes)
      /\ Sent = written /\ Sent \in Seq(Seq(Bytes)) /\ Sent' \in Seq(Seq(Bytes))
  BY SentIsWritten, Sequences DEF Write, AllBytesWritten, StreamTypeOK, Sent
<1>2. /\ Writing' /\ read' = read
      /\ \/ totalBytesWritten' < Len(packet) /\ Sent' = Sent
         \/ totalBytesWritten' = Len(packet) /\ Sent' = Append(Sent, packet)
      /\ \A b \in Bytes : HandedOver(b) => HandedOver(b)'
  BY WriteSends
<1>3. /\ Len(Sent) \in Nat /\ Len(Sent) <= Len(Sent')
      /\ \A i \in 1..Len(Sent) : Sent'[i] = Sent[i]
  <2>1. Len(Sent) \in Nat
    BY <1>1
  <2>2. CASE Sent' = Sent
    BY <2>1, <2>2
  <2>3. CASE Sent' = Append(Sent, packet)
    BY <1>1, <2>1, <2>3
  <2> QED BY <1>2, <2>2, <2>3
<1>4. Reading'
  BY DEF Reading, Wanted, Write, readerVars
<1>5. CASE link = "down" /\ Flight' = Flight
  <2>1. InOrder'
    BY <1>2, <1>3, <1>5, OrderKept
  <2>2. Complete'
    BY <1>1, <1>5 DEF Complete
  <2> QED BY <1>2, <1>4, <2>1, <2>2
<1>6. CASE /\ link = "up"
           /\ Len(Flight') = Len(Flight) + (totalBytesWritten' - totalBytesWritten)
           /\ \A i \in 1..Len(Flight) : Flight'[i] = Flight[i]
           /\ \A j \in 1..(totalBytesWritten' - totalBytesWritten) :
                 Flight'[Len(Flight) + j] = packet[totalBytesWritten + j]
  <2>1. /\ Flight \in Seq(Bytes) /\ Flight' \in Seq(Bytes) /\ Len(read) \in Nat
        /\ DOMAIN read = 1..Len(read)
    BY Sequences DEF Flight, InBuffer, StreamTypeOK
  <2> PICK f \in Seq(Bytes) : f = Flight
    BY <2>1
  <2> PICK g \in Seq(Bytes) : g = Flight'
    BY <2>1
  <2> PICK l \in Nat : l = Len(f)
    OBVIOUS
  <2> PICK c \in Nat : c = totalBytesWritten
    BY <1>1
  <2>a. /\ totalBytesWritten' - totalBytesWritten \in Nat \ {0}
        /\ totalBytesWritten' = totalBytesWritten
                                  + (totalBytesWritten' - totalBytesWritten)
    BY <1>1, Difference, Zenon
  <2> PICK n \in Nat \ {0} : n = totalBytesWritten' - totalBytesWritten
    BY <2>a
  <2> PICK p \in Nat \ {0} : p = Len(Sent) + 1
    BY <1>3
  <2>2. PICK s \in Shapes : packet = PacketBytes(p, s)
    BY <1>1 DEF Writing
  <2> PICK t \in Nat \ {0} : t = Total(s)
    BY ShapeSizes
  <2>3. /\ Len(packet) = t
        /\ \A i \in 1..t : packet[i] = [packet |-> p, index |-> i, shape |-> s]
    BY <2>2, PacketShape
  <2>4. totalBytesWritten' = c + n /\ c + n <= t
    <3>1. totalBytesWritten' = c + n
      BY <2>a
    <3>2. totalBytesWritten' <= t
      BY <1>1, <1>2, <2>3
    <3> QED BY <3>1, <3>2
  <2>5. /\ Len(g) = l + n /\ DOMAIN f = 1..l /\ DOMAIN g = 1..(l + n)
        /\ \A i \in 1..l : g[i] = f[i]
        /\ \A j \in 1..n : g[l + j] = [packet |-> p, index |-> c + j, shape |-> s]
    <3>1. Len(g) = l + n /\ \A i \in 1..l : g[i] = f[i]
      BY <1>6
    <3>2. ASSUME NEW j \in 1..n
          PROVE  g[l + j] = [packet |-> p, index |-> c + j, shape |-> s]
      <4>1. c + j \in 1..t
        <5>1. n \in Nat /\ t \in Nat
          OBVIOUS
        <5> QED BY <2>4, <5>1, Within
      <4>2. g[l + j] = packet[c + j]
        BY <1>6
      <4> QED BY <2>3, <4>1, <4>2
    <3>3. DOMAIN f = 1..l /\ DOMAIN g = 1..Len(g)
      OBVIOUS
    <3> QED BY <3>1, <3>2, <3>3
  <2>6. Partial <=> c > 0
    BY <1>1 DEF Partial
  <2>7. f # <<>> => l \in 1..l /\ f[l] \in Bytes /\ HandedOver(f[l])
    BY <2>5, SMTT(30) DEF InOrder
  <2>8. f # <<>> => \/ c > 0 /\ f[l] = [packet |-> p, index |-> c, shape |-> s]
                    \/ c = 0 /\ f[l].packet + 1 = p
                         /\ f[l].index = Total(f[l].shape)
    <3> SUFFICES ASSUME f # <<>>
                 PROVE  \/ c > 0 /\ f[l] = [packet |-> p, index |-> c, shape |-> s]
                        \/ /\ c = 0 /\ f[l].packet + 1 = p
                           /\ f[l].index = Total(f[l].shape)
      OBVIOUS
    <3>1. CASE c = 0
      <4>1. ~Partial /\ link # "down"
        BY <1>6, <2>6, <3>1
      <4>2. f[l].packet = Len(Sent) /\ f[l].index = Total(f[l].shape)
        BY <4>1 DEF Complete
      <4> QED BY <3>1, <4>2
    <3>2. CASE c > 0
      <4>1. f[l].packet = p /\ f[l].index = c
        BY <1>6, <2>6, <3>2 DEF Complete
      <4> PICK b \in Bytes : b = f[l]
        BY <2>7
      <4>2. packet = PacketBytes(p, b.shape)
        <5>1. p \notin DOMAIN Sent
          BY <1>1, <1>3
        <5> QED BY <2>7, <4>1, <5>1 DEF HandedOver
      <4>3. b.shape = s
        <5>1. b.shape \in Shapes /\ Total(b.shape) \in Nat \ {0}
          BY ShapeSizes DEF Bytes
        <5>2. packet[1] = [packet |-> p, index |-> 1, shape |-> b.shape]
          BY <4>2, <5>1, PacketShape
        <5>3. packet[1] = [packet |-> p, index |-> 1, shape |-> s]
          BY <2>3
        <5>4. [packet |-> p, index |-> 1, shape |-> b.shape].shape
                = [packet |-> p, index |-> 1, shape |-> s].shape
          BY <5>2, <5>3
        <5> QED BY <5>4
      <4>4. b = [packet |-> b.packet, index |-> b.index, shape |-> b.shape]
        BY DEF Bytes
      <4> QED BY <3>2, <4>1, <4>3, <4>4
    <3> QED BY <3>1, <3>2
  <2>9. Runs(g)
    <3>1. Runs(f) /\ p \in Nat
      BY DEF InOrder
    <3>2. c + n <= Total(s) /\ Len(g) = Len(f) + n
      BY <2>4, <2>5
    <3>3. /\ \A i \in 1..Len(f) : g[i] = f[i]
          /\ \A j \in 1..n :
                g[Len(f) + j] = [packet |-> p, index |-> c + j, shape |-> s]
      BY <2>5
    <3>4. f # <<>> => 
             \/ c > 0 /\ f[Len(f)] = [packet |-> p, index |-> c, shape |-> s]
             \/ /\ c = 0 /\ f[Len(f)].packet + 1 = p
                /\ f[Len(f)].index = Total(f[Len(f)].shape)
      BY <2>8
    <3> QED BY <3>1, <3>2, <3>3, <3>4, RunsExtended, ZenonT(30)
  <2>10. g # <<>> /\ g[1].packet = Len(read) + 1 /\ g[1].index = 1
    <3>1. g # <<>>
      BY <2>5
    <3>2. CASE f # <<>>
      <4>1. 1 \in 1..l
        BY <3>2
      <4> QED BY <2>5, <3>1, <3>2, <4>1 DEF InOrder
    <3>3. CASE f = <<>>
      <4>1. l = 0 /\ 1 \in 1..n
        BY <3>3
      <4>2. g[1] = [packet |-> p, index |-> c + 1, shape |-> s]
        BY <2>5, <4>1
      <4>3. c = 0 /\ p = Len(read) + 1
        BY <1>6, <2>6, <3>3 DEF Complete
      <4> QED BY <3>1, <4>2, <4>3
    <3> QED BY <3>2, <3>3
  <2>11. ASSUME NEW i \in DOMAIN g PROVE HandedOver(g[i])'
    <3>1. CASE i <= l
      <4>1. i \in 1..l /\ f[i] \in Bytes
        BY <2>5, <3>1
      <4>2. HandedOver(f[i])
        BY <2>5, <4>1 DEF InOrder
      <4> QED BY <1>2, <2>5, <4>1, <4>2
    <3>2. CASE i > l
      <4>1. i - l \in 1..n /\ l + (i - l) = i
        BY <2>5, <3>2
      <4>2. g[i] = [packet |-> p, index |-> c + (i - l), shape |-> s]
        BY <2>5, <4>1
      <4>3. CASE totalBytesWritten' < Len(packet) /\ Sent' = Sent
        BY <1>1, <2>2, <2>4, <4>1, <4>2, <4>3 DEF HandedOver
      <4>4. CASE totalBytesWritten' = Len(packet) /\ Sent' = Append(Sent, packet)
        <5>1. p \in DOMAIN Sent' /\ Sent'[p] = packet
          BY <1>1, <4>4
        <5> QED BY <2>2, <4>2, <5>1 DEF HandedOver
      <4> QED BY <1>2, <4>3, <4>4
    <3> QED BY <2>5, <3>1, <3>2
  <2>12. /\ Len(read) <= Len(Sent')
         /\ \A i \in DOMAIN read : read[i] = Sent'[i]
    <3>1. Len(Sent') \in Nat
      BY <1>1
    <3>2. Len(read) <= Len(Sent) /\ \A i \in DOMAIN read : read[i] = Sent[i]
      BY DEF InOrder
    <3>3. ASSUME NEW i \in DOMAIN read PROVE i \in 1..Len(Sent)
      BY <1>3, <2>1, <3>2
    <3> QED BY <1>3, <2>1, <3>1, <3>2, <3>3
  <2>13. InOrder'
    BY <1>2, <2>9, <2>10, <2>11, <2>12 DEF InOrder
  <2>14. Complete'
    <3>1. l + n \in DOMAIN g
            /\ g[Len(g)] = [packet |-> p, index |-> c + n, shape |-> s]
      <4>1. n \in 1..n /\ l + n \in 1..(l + n)
        OBVIOUS
      <4> QED BY <2>5, <4>1
    <3>2. CASE totalBytesWritten' < Len(packet) /\ Sent' = Sent
      <4>1. Partial'
        BY <1>1, <3>2 DEF Partial
      <4> QED BY <2>4, <2>10, <3>1, <3>2, <4>1 DEF Complete
    <3>3. CASE totalBytesWritten' = Len(packet) /\ Sent' = Append(Sent, packet)
      <4>1. ~Partial'
        BY <1>1, <3>3 DEF Partial
      <4>2. Len(Sent') = p /\ c + n = t
        BY <1>1, <2>3, <2>4, <3>3
      <4> QED BY <2>10, <3>1, <4>1, <4>2 DEF Complete
    <3> QED BY <1>2, <3>2, <3>3
  <2> QED BY <1>2, <1>4, <2>13, <2>14
<1> QED BY <1>5, <1>6, WriteAppends


-----------------------------------------------------------------------------
(***************************************************************************)
(* The theorems.                                                           *)
(***************************************************************************)
\* Initially nothing was handed over.
LEMMA InitStreamInv ==
    ASSUME Init
    PROVE  StreamInv
<1> USE DEF Init
<1>1. Flight = <<>> /\ Sent = <<>> /\ ~Partial
  <2>1. (<<>> \o <<>>) \o <<>> = <<>>
    OBVIOUS
  <2> QED BY <2>1 DEF Flight, InBuffer, Sent, Partial
<1>2. Writing /\ Reading
  BY DEF Writing, Reading
<1>3. InOrder
  BY <1>1 DEF InOrder, Runs
<1>4. Complete
  BY <1>1 DEF Complete
<1> QED BY <1>2, <1>3, <1>4, TypesInit DEF StreamInv

\* Every step keeps the invariant.
LEMMA NextStreamInv ==
    ASSUME StreamInv, [Next]_vars
    PROVE  StreamInv'
<1>1. StreamTypeOK'
  BY TypesNext DEF StreamInv
<1>2. CASE UNCHANGED vars
  <2>1. /\ Flight' = Flight /\ Sent' = Sent /\ (Partial <=> Partial')
        /\ \A b : HandedOver(b) => HandedOver(b)'
    BY <1>2, WriterQuiet DEF vars, writerVars, readerVars, Flight, InBuffer
  <2>2. InOrder'
    BY <1>1, <1>2, <2>1, OrderKept, Sequences DEF StreamInv, vars, readerVars
  <2>3. Complete'
    BY <1>2, <2>1, EndKept DEF StreamInv, vars, writerVars, readerVars
  <2>4. Writing' /\ Reading'
    BY <1>2 DEF StreamInv, Writing, Reading, Wanted, vars, writerVars, readerVars
  <2> QED BY <1>1, <2>2, <2>3, <2>4 DEF StreamInv
<1> QED
  BY <1>1, <1>2, WriteAllKeeps, WriteKeeps, WriteFailsKeeps, WriteReturnsKeeps,
     ReadAllKeeps, ReadKeeps, ReadFailsKeeps, ReadReturnsKeeps, CloseKeeps, ResetKeeps
  DEF Next, WriterStep, ReaderStep

\* Whatever send() and recv() transfer at a time, the bytes that were handed over
\* and not yet read as packets are the next packets, in order, each whole unless
\* writeAll is at it or the connection was reset.
THEOREM StreamInvariance == Spec => []StreamInv
<1>1. Init => StreamInv
  BY InitStreamInv
<1>2. StreamInv /\ [Next]_vars => StreamInv'
  BY NextStreamInv
<1> QED BY <1>1, <1>2, PTL DEF Spec

\* At the end of the stream that was closed, everything that was sent was read.
LEMMA EndOfStream ==
    ASSUME StreamInv, rpc = "loop", Len(buffer) < Wanted, link = "closed",
           stream = <<>>
    PROVE  read = Sent
<1> USE DEF StreamInv
<1>1. /\ assembled \in Seq(Bytes) /\ buffer \in Seq(Bytes)
      /\ Len(assembled) \in Nat /\ Len(buffer) \in Nat
  BY DEF StreamTypeOK
<1>2. ~Partial
  BY DEF StreamTypeOK, Writing, Partial
<1> PICK f \in Seq(Bytes) : f = Flight
  BY Sequences
<1>3. f = assembled \o buffer
  <2>1. f = (assembled \o buffer) \o <<>> /\ assembled \o buffer \in Seq(Bytes)
    BY <1>1 DEF Flight, InBuffer
  <2> QED BY <2>1, ConcatEmptySeq
<1>4. f = <<>>
  <2> SUFFICES ASSUME f # <<>> PROVE FALSE
    OBVIOUS
  <2> PICK l \in Nat \ {0} : l = Len(f)
    <3>1. Len(f) \in Nat \ {0}
      OBVIOUS
    <3> QED BY <3>1
  <2>1. f[1] \in Bytes /\ 1 \in 1..l /\ l \in 1..l
    OBVIOUS
  <2> PICK s \in Shapes : s = f[1].shape
    BY <2>1 DEF Bytes
  <2> PICK t \in Nat \ {0} : t = Total(s)
    BY ShapeSizes
  <2>2. l < t
    <3>1. l = Len(assembled) + Len(buffer)
      BY <1>1, <1>3
    <3>2. CASE assembled = <<>>
      <4>1. Wanted = s[1] /\ Len(assembled) = 0
        BY <3>2, ShapeSizes DEF Reading, Wanted
      <4>2. s[1] \in Nat /\ s[1] <= t
        <5>1. UpTo(s)[1] \in Nat /\ UpTo(s)[1] <= t
          <6>1. 1 \in 0..Len(s)
            <7>1. Len(s) \in Nat \ {0}
              BY ShapeSizes
            <7> QED BY <7>1
          <6> QED BY <6>1, ShapeSizes
        <5> QED BY <5>1, ShapeSizes
      <4> QED BY <1>1, <3>1, <4>1, <4>2
    <3>3. CASE assembled # <<>>
      <4>1. f[1] = assembled[1]
        BY <1>1, <1>3, <3>3
      <4>2. piece \in 1..Len(s) /\ Len(assembled) + Wanted = UpTo(s)[piece]
              /\ Wanted \in Nat
        BY <3>3, <4>1, PieceSize
      <4>3. UpTo(s)[piece] \in Nat /\ UpTo(s)[piece] <= t
        <5>1. piece \in 0..Len(s)
          <6>1. Len(s) \in Nat
            BY ShapeSizes
          <6> QED BY <4>2, <6>1
        <5> QED BY <5>1, ShapeSizes
      <4> QED BY <1>1, <3>1, <4>2, <4>3
    <3> QED BY <3>2, <3>3
  <2>3. Runs(f) /\ f[1].index = 1
    BY DEF InOrder
  <2>4. f[l] = [packet |-> f[1].packet, index |-> l, shape |-> s]
    <3>1. l \in 1..Len(f) /\ l <= Total(f[1].shape)
      BY <2>1, <2>2
    <3> QED BY <2>3, <3>1, RunsBegin
  <2>5. f[l].index = Total(f[l].shape)
    BY <1>2 DEF Complete
  <2> QED BY <2>2, <2>4, <2>5
<1>5. Len(read) = Len(Sent)
  BY <1>4 DEF Complete
<1>6. \A i \in 1..Len(read) : read[i] = Sent[i]
  BY Sequences DEF InOrder
<1>7. read \in Seq(Seq(Bytes)) /\ Sent \in Seq(Seq(Bytes))
  BY Sequences DEF StreamTypeOK
<1> QED BY <1>5, <1>6, <1>7, SeqEqual


-----------------------------------------------------------------------------
(***************************************************************************)
(* StreamIO implements PacketPipe: a packet is sent by the send() that     *)
(* takes its last byte, and received by the return of its last readAll;    *)
(* the other steps of the loops are invisible.                             *)
(***************************************************************************)
\* The send() of a packet's last byte sends it; the ones before are not seen.
LEMMA WriteRefines ==
    ASSUME StreamInv, StreamInv', Write
    PROVE  [Pipe!Next]_Pipe!vars
<1>1. /\ read' = read /\ Sent = written
      /\ \/ totalBytesWritten' < Len(packet) /\ Sent' = Sent
         \/ totalBytesWritten' = Len(packet) /\ Sent' = Append(Sent, packet)
  BY WriteSends DEF StreamInv
<1>2. wpc = "loop" /\ wpc' = wpc /\ rpc' = rpc /\ link' = link
  BY DEF Write, readerVars
<1>3. CASE Sent' = Sent
  BY <1>1, <1>2, <1>3 DEF Pipe!vars
<1>4. CASE Sent' = Append(Sent, packet)
  <2>1. link # "closed"
    BY <1>2 DEF StreamInv, Writing
  <2>2. packet \in {PacketBytes(n, s) : n \in 1..MaxPackets, s \in Shapes}
    <3>1. Len(written) < MaxPackets /\ Len(written) \in Nat /\ MaxPackets \in Nat
      BY <1>2, CapacityAssumption DEF StreamInv, Writing, StreamTypeOK
    <3>2. Len(written) + 1 \in 1..MaxPackets
      BY <3>1
    <3> QED BY <1>2, <3>2 DEF StreamInv, Writing
  <2>3. Pipe!Write
    BY <1>1, <1>2, <1>4, <2>1, <2>2 DEF Pipe!Write
  <2> QED BY <2>3 DEF Pipe!Next
<1> QED BY <1>1, <1>3, <1>4

\* The return of a packet's last readAll receives it.
LEMMA ReadReturnsRefines ==
    ASSUME StreamInv, ReadReturns
    PROVE  [Pipe!Next]_Pipe!vars
<1>1. /\ Sent' = Sent /\ wpc' = wpc /\ link' = link
      /\ rpc = "loop" /\ rpc' = "idle"
  BY WriterQuiet DEF ReadReturns, writerVars
<1> PICK bytes : bytes = assembled \o buffer
  OBVIOUS
<1>2. \/ read' = read
      \/ piece = Len(bytes[1].shape) /\ read' = Append(read, bytes)
  BY DEF ReadReturns
<1>3. CASE read' = read
  BY <1>1, <1>3 DEF Pipe!vars
<1>4. CASE piece = Len(bytes[1].shape) /\ read' = Append(read, bytes)
  <2>1. Len(read) < Len(Sent) /\ bytes = Sent[Len(read) + 1]
    BY <1>1, <1>4, LastRead DEF ReadReturns
  <2>2. Pipe!Read
    BY <1>1, <1>4, <2>1 DEF Pipe!Read
  <2> QED BY <2>2 DEF Pipe!Next
<1> QED BY <1>2, <1>3, <1>4

\* readAll fails only after a reset, or with everything read.
LEMMA ReadFailsRefines ==
    ASSUME StreamInv, ReadFails
    PROVE  [Pipe!Next]_Pipe!vars
<1>1. /\ Sent' = Sent /\ wpc' = wpc /\ link' = link /\ read' = read
      /\ rpc = "loop" /\ rpc' = "failed"
  BY WriterQuiet DEF ReadFails, writerVars
<1>2. link = "down" \/ (link = "closed" /\ read = Sent)
  BY EndOfStream DEF ReadFails
<1>3. Pipe!ReadFails
  BY <1>1, <1>2 DEF Pipe!ReadFails
<1> QED BY <1>3 DEF Pipe!Next

\* Every step of the loops is a step of the pipe, or none.
LEMMA NextRefines ==
    ASSUME StreamInv, StreamInv', [Next]_vars
    PROVE  [Pipe!Next]_Pipe!vars
<1>1. CASE WriteAll
  <2>1. wpc = "idle" /\ wpc' = "loop" /\ UNCHANGED <<written, rpc, read, link>>
    BY <1>1 DEF WriteAll, readerVars
  <2>2. totalBytesWritten' = 0 /\ Len(packet') # 0
    <3>1. PICK s \in Shapes : packet' = PacketBytes(Len(written) + 1, s)
      BY <1>1 DEF WriteAll
    <3>2. Len(written) + 1 \in Nat
      BY DEF StreamInv, StreamTypeOK
    <3>3. Len(packet') = Total(s)
      BY <3>1, <3>2, PacketShape
    <3> QED BY <1>1, <3>3, ShapeSizes DEF WriteAll
  <2>3. Sent' = Sent
    BY <2>1, <2>2 DEF Sent
  <2> QED BY <2>1, <2>3 DEF Pipe!vars
<1>2. CASE Write
  BY <1>2, WriteRefines
<1>3. CASE WriteFails
  <2>1. /\ wpc = "loop" /\ wpc' = "failed" /\ UNCHANGED <<written, rpc, read, link>>
        /\ link = "down"
    BY <1>3 DEF WriteFails, readerVars
  <2>2. Sent = written /\ Sent' = written
    <3>1. totalBytesWritten < Len(packet)
      BY <1>3 DEF WriteFails, AllBytesWritten, StreamInv, StreamTypeOK
    <3>2. Sent = written
      BY <3>1, SentIsWritten DEF StreamInv
    <3> QED BY <2>1, <3>2 DEF Sent
  <2>3. Pipe!WriteFails
    BY <2>1, <2>2 DEF Pipe!WriteFails
  <2> QED BY <2>3 DEF Pipe!Next
<1>4. CASE WriteReturns
  <2>1. /\ wpc = "loop" /\ wpc' = "idle" /\ UNCHANGED <<rpc, read, link>>
        /\ written' = Append(written, packet) /\ totalBytesWritten = Len(packet)
    BY <1>4 DEF WriteReturns, AllBytesWritten, StreamInv, StreamTypeOK, Writing,
                readerVars
  <2>2. Sent' = Sent
    BY <2>1 DEF Sent
  <2> QED BY <2>1, <2>2 DEF Pipe!vars
<1>5. CASE ReadAll \/ Read
  <2>1. Sent' = Sent
    BY <1>5, WriterQuiet DEF ReadAll, Read
  <2>2. /\ wpc' = wpc /\ read' = read /\ link' = link
        /\ rpc \in {"idle", "loop"} /\ rpc' = "loop"
    BY <1>5 DEF ReadAll, Read, writerVars
  <2> QED BY <2>1, <2>2 DEF Pipe!vars
<1>6. CASE ReadFails
  BY <1>6, ReadFailsRefines
<1>7. CASE ReadReturns
  BY <1>7, ReadReturnsRefines
<1>8. CASE Close \/ Reset
  <2>1. /\ Sent' = Sent /\ wpc' = wpc /\ rpc' = rpc /\ read' = read
        /\ link = "up" /\ link' \in {"closed", "down"}
    BY <1>8, WriterQuiet DEF Close, Reset, writerVars, readerVars
  <2>2. Pipe!LinkEnds
    BY <2>1 DEF Pipe!LinkEnds
  <2> QED BY <2>2 DEF Pipe!Next
<1>9. CASE UNCHANGED vars
  <2>1. Sent' = Sent /\ UNCHANGED <<wpc, rpc, read, link>>
    BY <1>9, WriterQuiet DEF vars, writerVars, readerVars
  <2> QED BY <2>1 DEF Pipe!vars
<1> QED
  BY <1>1, <1>2, <1>3, <1>4, <1>5, <1>6, <1>7, <1>8, <1>9
  DEF Next, WriterStep, ReaderStep

\* The loops of writeAll and readAll hand packets over whole and in order, for
\* packets of any shapes and however the bytes are split on the way.
THEOREM StreamRefinement == Spec => ImplementsPacketPipe
<1>1. Init => Pipe!Init
  BY DEF Init, Pipe!Init, Sent
<1>2. StreamInv /\ StreamInv' /\ [Next]_vars => [Pipe!Next]_Pipe!vars
  BY NextRefines
<1> QED BY <1>1, <1>2, StreamInvariance, PTL DEF Spec, Pipe!Spec,
           ImplementsPacketPipe


=============================================================================
