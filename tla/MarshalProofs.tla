----------------------------- MODULE MarshalProofs -----------------------------
(***************************************************************************)
(* The data of a call of any signature: what the client writes arrives,    *)
(* what the function returns comes back, and nothing is left behind.       *)
(***************************************************************************)
EXTENDS Marshal, FiniteSetTheorems, SequenceTheorems, WellFoundedInduction, TLAPS

(***************************************************************************)
(* The operators.                                                          *)
(***************************************************************************)
\* A nonempty set of natural numbers has a least element.
LEMMA LeastNumber ==
    ASSUME NEW T, T \subseteq Nat, T # {}
    PROVE  \E m \in T : \A k \in T : m <= k
<1> DEFINE R == OpToRel(<, Nat)
<1>1. IsWellFoundedOn(R, Nat)
  BY NatLessThanWellFounded
<1>2. \A x, y \in Nat : x < y => <<x, y>> \in R
  BY DEF OpToRel
<1> HIDE DEF R
<1>3. PICK m \in T : \A k \in T : ~(<<k, m>> \in R)
  BY <1>1, WFMin
<1>4. ASSUME NEW k \in T PROVE m <= k
  <2>1. k \in Nat /\ m \in Nat /\ ~(k < m)
    BY <1>2, <1>3
  <2> QED BY <2>1
<1> QED BY <1>4

\* The signature of a call.
LEMMA Signature ==
    ASSUME MarshalTypeOK
    PROVE  /\ sig \in Seq(ArgumentShapes)
           /\ Len(sig) \in Nat /\ DOMAIN sig = 1..Len(sig)
           /\ \A i \in DOMAIN sig : i \in Nat /\ sig[i] \in ArgumentShapes
           /\ \A i, j \in DOMAIN sig : IsCustom(i) /\ IsCustom(j) => i = j
<1>1. sig \in Signatures
  BY DEF MarshalTypeOK
<1>2. sig \in Seq(ArgumentShapes)
  BY <1>1, SignaturesAssumption
<1>3. \A i, j \in DOMAIN sig : IsCustom(i) /\ IsCustom(j) => i = j
  BY <1>1, SignaturesAssumption DEF IsCustom
<1>4. PICK s \in Seq(ArgumentShapes) : s = sig
  BY <1>2
<1>5. /\ Len(s) \in Nat /\ DOMAIN s = 1..Len(s)
      /\ \A i \in DOMAIN s : i \in Nat /\ s[i] \in ArgumentShapes
  OBVIOUS
<1> QED BY <1>2, <1>3, <1>4, <1>5

\* The server reads as many arguments as there are: the byte holds their number.
LEMMA ArgumentsCounted ==
    ASSUME MarshalTypeOK
    PROVE  NumArgs = Len(sig) /\ Len(sig) <= 254
<1>1. sig \in Signatures
  BY DEF MarshalTypeOK
<1>2. Len(sig) <= 254 /\ Len(sig) \in Nat
  BY <1>1, Signature, SignaturesAssumption
<1>3. \A n \in Nat : n <= 254 => n % 256 = n
  OBVIOUS
<1> QED BY <1>2, <1>3 DEF NumArgs

\* Packets of arguments, as written and as read.
LEMMA ArgumentTypes ==
    ASSUME MarshalTypeOK
    PROVE  /\ \A i \in DOMAIN sig : ArgumentPacket(i) \in Arguments
           /\ \A p \in Arguments : Decode(p) \in Arguments
<1>1. ASSUME NEW i \in DOMAIN sig PROVE ArgumentPacket(i) \in Arguments
  <2>1. i \in Nat /\ sig[i] \in ArgumentShapes
    BY Signature
  <2>2. In(i) \in Tokens /\ Nothing \in Tokens
    BY <2>1 DEF In, Nothing, Tokens
  <2> QED BY <2>1, <2>2 DEF ArgumentPacket, Arguments, ArgumentShapes, BlobSize
<1>2. ASSUME NEW p \in Arguments PROVE Decode(p) \in Arguments
  BY <1>2 DEF Decode, Arguments
<1> QED BY <1>1, <1>2

\* What is owed is finite, and so is the part of it that is not written.
LEMMA OwedFinite ==
    ASSUME MarshalTypeOK
    PROVE  /\ IsFiniteSet(Owed) /\ Cardinality(Owed) \in Nat
           /\ IsFiniteSet(Unwritten) /\ Cardinality(Unwritten) \in Nat
           /\ Owed \subseteq 0..Len(sig) /\ Unwritten \subseteq Owed
<1>1. Owed \subseteq 0..Len(sig) /\ Unwritten \subseteq Owed
  BY Signature DEF Owed, Unwritten
<1>2. IsFiniteSet(0..Len(sig))
  BY Signature, FS_Interval
<1>3. IsFiniteSet(Owed)
  BY <1>1, <1>2, FS_Subset
<1>4. IsFiniteSet(Unwritten)
  BY <1>1, <1>3, FS_Subset
<1> QED BY <1>1, <1>3, <1>4, FS_CardinalityType

\* The number in the header counts what is owed.
LEMMA HeaderCounts ==
    ASSUME MarshalTypeOK, Computed, srv # "read"
    PROVE  NumReturnArgs = Cardinality(Owed)
<1> DEFINE A == {i \in DOMAIN sig : IsReturn(i) \/ IsCustom(i)}
<1>1. DOMAIN args = DOMAIN sig
  <2>1. Len(args) = Len(sig) /\ args \in Seq(Arguments)
    BY DEF Computed, MarshalTypeOK
  <2>2. DOMAIN args = 1..Len(args)
    BY <2>1
  <2> QED BY <2>1, <2>2, Signature
<1>2. {i \in DOMAIN args : args[i].kind \in Counted} = A
  BY <1>1 DEF Computed, Counted, IsReturn, IsCustom
<1>3. A \subseteq Owed /\ 0 \notin A
  BY Signature DEF Owed
<1>4. IsFiniteSet(A)
  BY <1>3, OwedFinite, FS_Subset
<1>5. Owed = IF nonVoid THEN A \cup {0} ELSE A
  BY DEF Owed
<1>6. Cardinality(A \cup {0}) = Cardinality(A) + 1 /\ Cardinality(A) \in Nat
  BY <1>3, <1>4, FS_AddElement, FS_CardinalityType
<1>7. Cardinality(A) <= 254
  <2>1. A \subseteq 1..Len(sig)
    BY Signature
  <2>2. IsFiniteSet(1..Len(sig)) /\ Cardinality(1..Len(sig)) = Len(sig)
    <3>1. PICK n \in Nat : n = Len(sig)
      BY Signature
    <3>2. 1 \in Int /\ n \in Int /\ (IF 1 > n THEN 0 ELSE n - 1 + 1) = n
      BY <3>1
    <3>3. IsFiniteSet(1..n) /\ Cardinality(1..n) = IF 1 > n THEN 0 ELSE n - 1 + 1
      BY <3>2, FS_Interval
    <3> QED BY <3>1, <3>2, <3>3
  <2> HIDE DEF A
  <2>3. Cardinality(A) <= Cardinality(1..Len(sig))
    BY <2>1, <2>2, FS_Subset
  <2> QED BY <1>6, <2>2, <2>3, ArgumentsCounted, Signature
<1> HIDE DEF A
<1>8. NumReturnArgs = (Cardinality(A) + IF nonVoid THEN 1 ELSE 0) % 256
  BY <1>2 DEF NumReturnArgs
<1>9. \A n \in Nat : n <= 254 => n % 256 = n /\ (n + 1) % 256 = n + 1
  OBVIOUS
<1>10. CASE nonVoid
  <2>1. NumReturnArgs = (Cardinality(A) + 1) % 256
    BY <1>8, <1>10
  <2> QED BY <1>5, <1>6, <1>7, <1>9, <1>10, <2>1
<1>11. CASE ~nonVoid
  <2>1. NumReturnArgs = Cardinality(A) % 256
    BY <1>6, <1>8, <1>11
  <2> QED BY <1>5, <1>6, <1>7, <1>9, <1>11, <2>1
<1> QED BY <1>10, <1>11

\* The client's search finds a return argument when there is one.
LEMMA NextReturnFinds ==
    ASSUME MarshalTypeOK, argIndex # 1 => argIndex \in DOMAIN sig /\ IsReturn(argIndex),
           NEW i \in DOMAIN sig, IsReturn(i)
    PROVE  NextReturn(argIndex) \in DOMAIN sig /\ IsReturn(NextReturn(argIndex))
<1> DEFINE found == {j \in argIndex..Len(sig) : IsReturn(j)}
<1>1. argIndex \in Nat /\ argIndex >= 1 /\ Len(sig) \in Nat /\ DOMAIN sig = 1..Len(sig)
  BY Signature DEF MarshalTypeOK
<1>2. found # {} /\ found \subseteq DOMAIN sig /\ found \subseteq Nat
  BY <1>1
<1>3. \E m \in found : \A k \in found : m <= k
  BY <1>2, LeastNumber
<1>4. NextReturn(argIndex) \in found
  <2>1. NextReturn(argIndex) = CHOOSE m \in found : \A k \in found : m <= k
    BY <1>2 DEF NextReturn
  <2> HIDE DEF found
  <2> QED BY <1>3, <2>1
<1> QED BY <1>2, <1>4

-----------------------------------------------------------------------------
(***************************************************************************)
(* The client writes, the server reads.                                    *)
(***************************************************************************)
\* What a step leaves alone that touches neither arguments nor results.
LEMMA ResultsKept ==
    ASSUME MarshalInv,
           UNCHANGED <<sig, nonVoid, wait, srv, index, s2c, expected, argIndex,
                       memory, overrun>>,
           \/ cli' = cli /\ (cli \in {"header", "results", "returned"} => cursor' = cursor)
           \/ /\ cli = "send"
              /\ \/ cli' = "crashed"
                 \/ cli' = "header" /\ wait /\ cursor' = 0
                 \/ cli' = "returned" /\ ~wait
    PROVE  HeaderFirst' /\ ResultsAddUp' /\ ResultsInPlace'
<1>1. /\ HeaderFirst /\ ResultsAddUp /\ ResultsInPlace
      /\ cli \in {"send", "crashed", "header", "results", "returned"}
  BY DEF MarshalInv, MarshalTypeOK
<1>2. Owed' = Owed /\ Unwritten' = Unwritten
  BY DEF Owed, Unwritten, IsReturn, IsCustom
<1>4. HeaderFirst'
  <2>1. \A k, i : ResultOf(s2c[k], i)' <=> ResultOf(s2c[k], i)
    BY DEF ResultOf, IsReturn
  <2>2. \A k \in DOMAIN s2c' : k # 1 \/ cli' \in {"results", "returned"} =>
           \E i \in Owed' : ResultOf(s2c[k], i)'
    <3>1. CASE wait
      <4>1. cli' \in {"results", "returned"} => cli \in {"results", "returned"}
        BY <1>1, <3>1
      <4> QED BY <1>1, <1>2, <2>1, <4>1 DEF HeaderFirst
    <3>2. CASE ~wait
      <4>1. s2c' = <<>>
        BY <1>1, <3>2 DEF HeaderFirst
      <4> QED BY <4>1
    <3> QED BY <3>1, <3>2
  <2>3. wait' /\ srv' \notin {"read", "header"} /\ cli' \notin {"results", "returned"} =>
           s2c' # <<>> /\ s2c'[1] = [kind |-> "header", count |-> Cardinality(Owed')]
    BY <1>1, <1>2 DEF HeaderFirst
  <2>4. /\ ~wait' => s2c' = <<>> /\ srv' \in {"read", "done"} /\ cli' \notin {"header", "results"}
        /\ nonVoid' \/ (\E i \in DOMAIN sig' : IsReturn(i)') => wait'
        /\ srv' = "value" => nonVoid' /\ index' = 1
        /\ srv' \in {"read", "header"} =>
              s2c' = <<>> /\ (wait' => cli' \in {"send", "crashed", "header"})
    BY <1>1 DEF HeaderFirst, IsReturn
  <2> QED BY <2>2, <2>3, <2>4 DEF HeaderFirst
<1>5. ResultsAddUp'
  BY <1>1, <1>2 DEF ResultsAddUp, HeaderFirst
<1>6. ResultsInPlace'
  BY <1>1, <1>2 DEF ResultsInPlace, OneReturn, ResultOf, IsReturn
<1> QED BY <1>4, <1>5, <1>6

\* MarshalInv after a step, but for the types.
Kept ==
    /\ ArgumentsInOrder' /\ Computed'
    /\ HeaderFirst' /\ ResultsAddUp' /\ ResultsInPlace'

\* A written argument goes behind those under way.
LEMMA WriteArgumentKeeps ==
    ASSUME MarshalInv, WriteArgument PROVE Kept
<1>1. /\ UNCHANGED <<sig, nonVoid, wait, srv, args, index, s2c, expected, argIndex,
                     memory, overrun>>
      /\ cli = "send" /\ cursor < Len(sig)
  BY DEF WriteArgument, callVars, serverVars
<1>2. \/ cli' = "crashed" /\ cursor' = cursor /\ c2s' = c2s
      \/ /\ cli' = "send" /\ cursor' = cursor + 1
         /\ c2s' = Append(c2s, ArgumentPacket(cursor + 1))
  BY <1>1 DEF WriteArgument
<1>3. MarshalTypeOK /\ ArgumentsInOrder /\ Computed
  BY DEF MarshalInv
<1>4. /\ cursor \in Nat /\ Len(sig) \in Nat
      /\ args \in Seq(Arguments) /\ c2s \in Seq(Arguments)
  BY <1>3, Signature DEF MarshalTypeOK
<1>5. HeaderFirst' /\ ResultsAddUp' /\ ResultsInPlace'
  BY <1>1, <1>2, ResultsKept
<1>6. Computed'
  BY <1>1, <1>3 DEF Computed, IsReturn, IsCustom
<1>7. \A i : ArgumentPacket(i)' = ArgumentPacket(i)
  BY <1>1 DEF ArgumentPacket, BlobSize, IsReturn, In
<1>8. CASE cli' = "crashed" /\ cursor' = cursor /\ c2s' = c2s
  <2>1. \A i \in DOMAIN args : Decode(ArgumentPacket(i))' = Decode(ArgumentPacket(i))
    BY <1>7 DEF Decode
  <2>2. ArgumentsInOrder'
    BY <1>1, <1>3, <1>7, <1>8, <2>1 DEF ArgumentsInOrder
  <2> QED BY <1>5, <1>6, <2>2 DEF Kept
<1>9. CASE /\ cli' = "send" /\ cursor' = cursor + 1
           /\ c2s' = Append(c2s, ArgumentPacket(cursor + 1))
  <2>1. PICK n \in Nat, m \in Nat : n = Len(args) /\ m = Len(c2s)
    BY <1>4
  <2>2. n + m = cursor
    BY <1>1, <1>3, <2>1 DEF ArgumentsInOrder
  <2>3. /\ Len(c2s') = m + 1 /\ DOMAIN c2s' = 1..(m + 1)
        /\ c2s'[m + 1] = ArgumentPacket(cursor + 1)
        /\ \A i \in 1..m : c2s'[i] = c2s[i]
        /\ DOMAIN c2s = 1..m
    BY <1>4, <1>9, <2>1
  <2>4. ASSUME NEW i \in DOMAIN c2s' PROVE c2s'[i] = ArgumentPacket(n + i)
    <3>1. CASE i = m + 1
      <4>1. n + i = cursor + 1
        BY <2>2, <3>1
      <4> QED BY <2>3, <3>1, <4>1
    <3>2. CASE i # m + 1
      <4>1. i \in 1..m
        BY <2>3, <3>2
      <4> QED BY <1>3, <2>1, <2>3, <4>1 DEF ArgumentsInOrder
    <3> QED BY <3>1, <3>2
  <2>5. \A i \in DOMAIN args : Decode(ArgumentPacket(i))' = Decode(ArgumentPacket(i))
    BY <1>7 DEF Decode
  <2>6. n + (m + 1) = cursor' /\ cursor' <= Len(sig)
    BY <1>1, <1>4, <1>9, <2>2
  <2>7. ArgumentsInOrder'
    BY <1>1, <1>3, <1>7, <1>9, <2>1, <2>3, <2>4, <2>5, <2>6 DEF ArgumentsInOrder
  <2> QED BY <1>5, <1>6, <2>7 DEF Kept
<1> QED BY <1>2, <1>8, <1>9

\* All arguments are the arguments of the signature.
LEMMA AllArgumentsWrittenKeeps ==
    ASSUME MarshalInv, AllArgumentsWritten PROVE Kept
<1>1. /\ UNCHANGED <<sig, nonVoid, wait, srv, args, index, c2s, s2c, expected,
                     argIndex, memory, overrun>>
      /\ cli = "send" /\ cursor = Len(sig) /\ cursor' = 0
      /\ cli' = IF wait THEN "header" ELSE "returned"
  BY DEF AllArgumentsWritten, callVars, serverVars
<1>2. MarshalTypeOK /\ ArgumentsInOrder /\ Computed
  BY DEF MarshalInv
<1>3. HeaderFirst' /\ ResultsAddUp' /\ ResultsInPlace'
  BY <1>1, ResultsKept
<1>4. Computed'
  BY <1>1, <1>2 DEF Computed, IsReturn, IsCustom
<1>5. \A i : ArgumentPacket(i)' = ArgumentPacket(i)
  BY <1>1 DEF ArgumentPacket, BlobSize, IsReturn, In
<1>6. \A i : Decode(ArgumentPacket(i))' = Decode(ArgumentPacket(i))
  BY <1>5 DEF Decode
<1>7. ArgumentsInOrder'
  BY <1>1, <1>2, <1>5, <1>6 DEF ArgumentsInOrder
<1> QED BY <1>3, <1>4, <1>7 DEF Kept

\* The server decodes the first argument under way, which is its next one.
LEMMA ReadArgumentKeeps ==
    ASSUME MarshalInv, ReadArgument PROVE Kept
<1>1. /\ UNCHANGED <<sig, nonVoid, wait, srv, index, s2c, expected, argIndex, memory,
                     overrun, cli, cursor>>
      /\ srv = "read" /\ c2s # <<>>
      /\ args' = Append(args, Decode(c2s[1])) /\ c2s' = Tail(c2s)
  BY DEF ReadArgument, callVars, clientVars
<1>2. MarshalTypeOK /\ ArgumentsInOrder
  BY DEF MarshalInv
<1>3. /\ cursor \in Nat /\ Len(sig) \in Nat
      /\ args \in Seq(Arguments) /\ c2s \in Seq(Arguments)
  BY <1>2, Signature DEF MarshalTypeOK
<1>4. HeaderFirst' /\ ResultsAddUp' /\ ResultsInPlace'
  BY <1>1, ResultsKept
<1>5. Computed'
  BY <1>1 DEF Computed
<1>6. \A i : ArgumentPacket(i)' = ArgumentPacket(i)
  BY <1>1 DEF ArgumentPacket, BlobSize, IsReturn, In
<1>7. \A i : Decode(ArgumentPacket(i))' = Decode(ArgumentPacket(i))
  BY <1>6 DEF Decode
<1>8. PICK n \in Nat, m \in Nat : n = Len(args) /\ m = Len(c2s)
  BY <1>3
<1>9. /\ Len(args') = n + 1 /\ DOMAIN args' = 1..(n + 1)
      /\ args'[n + 1] = Decode(c2s[1])
      /\ \A i \in 1..n : args'[i] = args[i] /\ i \in DOMAIN args
      /\ m >= 1 /\ Len(c2s') = m - 1 /\ DOMAIN c2s' = 1..(m - 1)
      /\ \A i \in 1..(m - 1) : c2s'[i] = c2s[i + 1]
      /\ DOMAIN c2s = 1..m
  <2>1. Decode(c2s[1]) \in Arguments
    <3>1. c2s[1] \in Arguments
      BY <1>1, <1>3
    <3> QED BY <1>2, <3>1, ArgumentTypes
  <2> QED BY <1>1, <1>3, <1>8, <2>1
<1>10. c2s[1] = ArgumentPacket(n + 1)
  <2>1. 1 \in DOMAIN c2s
    BY <1>9
  <2> QED BY <1>2, <1>8, <2>1 DEF ArgumentsInOrder
<1>11. ASSUME NEW i \in DOMAIN args' PROVE args'[i] = Decode(ArgumentPacket(i))
  <2>1. CASE i = n + 1
    BY <1>9, <1>10, <2>1
  <2>2. CASE i # n + 1
    <3>1. i \in 1..n
      BY <1>9, <2>2
    <3> QED BY <1>1, <1>2, <1>9, <3>1 DEF ArgumentsInOrder
  <2> QED BY <2>1, <2>2
<1>12. ASSUME NEW i \in DOMAIN c2s' PROVE c2s'[i] = ArgumentPacket((n + 1) + i)
  <2> PICK j \in 1..(m - 1) : j = i
    BY <1>9
  <2>1. i \in Nat /\ i + 1 \in DOMAIN c2s /\ n + (i + 1) = (n + 1) + i
    <3>1. \A k \in 1..(m - 1) :
            k \in Nat /\ k + 1 \in 1..m /\ n + (k + 1) = (n + 1) + k
      OBVIOUS
    <3> QED BY <1>9, <3>1
  <2>3. c2s'[i] = c2s[i + 1]
    BY <1>9
  <2>2. c2s[i + 1] = ArgumentPacket(n + (i + 1))
    BY <1>2, <1>8, <2>1 DEF ArgumentsInOrder
  <2> QED BY <2>1, <2>2, <2>3
<1>13. (n + 1) + (m - 1) = n + m
  OBVIOUS
<1>14. ArgumentsInOrder'
  BY <1>1, <1>2, <1>6, <1>7, <1>8, <1>9, <1>11, <1>12, <1>13 DEF ArgumentsInOrder
<1> QED BY <1>4, <1>5, <1>14 DEF Kept

-----------------------------------------------------------------------------
(***************************************************************************)
(* The server answers.                                                     *)
(***************************************************************************)
\* The server answers with the arguments as the function has left them.
LEMMA ArgumentsKept ==
    ASSUME MarshalInv, srv # "read", srv' # "read",
           UNCHANGED <<sig, cli, cursor, args, c2s>>
    PROVE  ArgumentsInOrder' /\ Computed'
<1>1. ArgumentsInOrder /\ Computed
  BY DEF MarshalInv
<1>2. \A i : ArgumentPacket(i)' = ArgumentPacket(i)
  BY DEF ArgumentPacket, BlobSize, IsReturn, In
<1>3. ArgumentsInOrder'
  BY <1>1, <1>2 DEF ArgumentsInOrder
<1>4. Computed'
  BY <1>1 DEF Computed, IsReturn, IsCustom
<1> QED BY <1>3, <1>4

\* The server answers only a call that waits, and while its loops run the client
\* has been sent the header.
LEMMA Answering ==
    ASSUME MarshalInv, srv \in {"value", "returns", "customs"}
    PROVE  /\ wait /\ args \in Seq(Arguments)
           /\ DOMAIN args = DOMAIN sig /\ Len(args) = Len(sig)
           /\ \A i \in DOMAIN sig :
                 /\ args[i] \in Arguments
                 /\ args[i].kind = "return" <=> IsReturn(i)
                 /\ args[i].kind = "custom" <=> IsCustom(i)
<1>1. MarshalTypeOK /\ Computed /\ HeaderFirst
  BY DEF MarshalInv
<1>2. wait /\ args \in Seq(Arguments) /\ Len(args) = Len(sig)
  BY <1>1 DEF HeaderFirst, Computed, MarshalTypeOK
<1>3. DOMAIN args = 1..Len(args)
  BY <1>2
<1>4. DOMAIN args = DOMAIN sig
  BY <1>1, <1>2, <1>3, Signature
<1>5. \A i \in DOMAIN args : args[i] \in Arguments
  BY <1>2
<1> QED BY <1>1, <1>2, <1>4, <1>5 DEF Computed, IsReturn, IsCustom

\* A result is written: it is under way and no more unwritten.
LEMMA ResultWritten ==
    ASSUME MarshalInv, srv \in {"value", "returns", "customs"},
           NEW i \in Unwritten, NEW p, ResultOf(p, i),
           s2c' = Append(s2c, p), Unwritten' = Unwritten \ {i},
           UNCHANGED <<sig, nonVoid, wait, cli, cursor, expected, argIndex, memory,
                       overrun>>,
           srv' \in {"returns", "customs"}
    PROVE  HeaderFirst' /\ ResultsAddUp' /\ ResultsInPlace'
<1>1. MarshalTypeOK /\ HeaderFirst /\ ResultsAddUp /\ ResultsInPlace /\ wait
  BY Answering DEF MarshalInv
<1>2. s2c \in Seq(Headers \cup Results) /\ p \in Headers \cup Results
  BY <1>1 DEF MarshalTypeOK, ResultOf
<1>3. PICK m \in Nat : m = Len(s2c)
  BY <1>2
<1>4. /\ Len(s2c') = m + 1 /\ DOMAIN s2c' = 1..(m + 1) /\ s2c'[m + 1] = p
      /\ \A k \in 1..m : s2c'[k] = s2c[k]
      /\ DOMAIN s2c = 1..m /\ (m = 0 <=> s2c = <<>>)
      /\ m + 1 \in 1..(m + 1) /\ 1..m \subseteq 1..(m + 1) /\ s2c' # <<>>
  BY <1>2, <1>3
<1>5. Owed' = Owed /\ i \in Owed
  BY OwedFinite, <1>1 DEF Owed, IsReturn, IsCustom
<1>6. PICK w \in Nat, o \in Nat : w = Cardinality(Unwritten) /\ o = Cardinality(Owed)
  BY <1>1, OwedFinite
<1>7. Cardinality(Unwritten') = w - 1
  <2>1. Cardinality(Unwritten \ {i}) = Cardinality(Unwritten) - 1
    BY <1>1, OwedFinite, FS_RemoveElement
  <2> QED BY <1>6, <2>1
<1>8. ASSUME NEW k \in 1..m PROVE \A j : ResultOf(s2c[k], j)' <=> ResultOf(s2c[k], j)
  <2>1. s2c'[k] = s2c[k]
    BY <1>4
  <2> QED BY <2>1 DEF ResultOf, IsReturn
<1>9. ResultOf(s2c[m + 1], i)'
  BY <1>4 DEF ResultOf, IsReturn
<1>10. HeaderFirst'
  <2>1. cli \notin {"results", "returned"} =>
           s2c' # <<>> /\ s2c'[1] = [kind |-> "header", count |-> Cardinality(Owed)]
    <3> SUFFICES ASSUME cli \notin {"results", "returned"}
                 PROVE  s2c'[1] = [kind |-> "header", count |-> Cardinality(Owed)]
      BY <1>4
    <3>1. m # 0 /\ s2c[1] = [kind |-> "header", count |-> Cardinality(Owed)]
      BY <1>1, <1>4 DEF HeaderFirst
    <3>2. 1 \in 1..m
      BY <3>1
    <3> QED BY <1>4, <3>1, <3>2
  <2>2. ASSUME NEW k \in 1..(m + 1), k # 1 \/ cli \in {"results", "returned"}
        PROVE  \E j \in Owed : ResultOf(s2c[k], j)'
    <3>1. CASE k = m + 1
      BY <1>5, <1>9, <3>1
    <3>2. CASE k # m + 1
      <4>1. k \in 1..m
        BY <3>2
      <4>2. PICK j \in Owed : ResultOf(s2c[k], j)
        BY <1>1, <1>4, <2>2, <4>1 DEF HeaderFirst
      <4> QED BY <1>8, <4>1, <4>2
    <3> QED BY <3>1, <3>2
  <2> QED BY <1>1, <1>4, <1>5, <2>1, <2>2 DEF HeaderFirst, IsReturn
<1>11. ResultsAddUp'
  <2>1. CASE cli \notin {"results", "returned"}
    <3>1. m + w = o + 1
      BY <1>1, <1>3, <1>6, <2>1 DEF ResultsAddUp
    <3>2. (m + 1) + (w - 1) = o + 1
      BY <3>1
    <3> QED BY <1>1, <1>4, <1>5, <1>6, <1>7, <2>1, <3>2 DEF ResultsAddUp
  <2>2. CASE cli \in {"results", "returned"}
    <3>1. expected = o /\ cursor + m + w = expected
      BY <1>1, <1>3, <1>6, <2>2 DEF ResultsAddUp
    <3>2. cursor \in Nat
      BY <1>1 DEF MarshalTypeOK
    <3>3. cursor + (m + 1) + (w - 1) = cursor + m + w
      BY <3>2
    <3> QED BY <1>1, <1>4, <1>5, <1>6, <1>7, <2>2, <3>1, <3>3 DEF ResultsAddUp
  <2> QED BY <2>1, <2>2
<1>12. ResultsInPlace'
  <2>1. ASSUME OneReturn, NEW j \in Owed
        PROVE  \/ j \in Unwritten'
               \/ \E k \in DOMAIN s2c' : ResultOf(s2c[k], j)'
               \/ memory[j] = Out(j)
    <3>1. CASE j = i
      BY <1>4, <1>9, <3>1
    <3>2. CASE j # i /\ j \in Unwritten
      BY <3>2
    <3>3. CASE \E k \in DOMAIN s2c : ResultOf(s2c[k], j)
      BY <1>4, <1>8, <3>3
    <3> QED BY <1>1, <2>1, <3>1, <3>2, <3>3 DEF ResultsInPlace
  <2>2. OneReturn' <=> OneReturn
    BY DEF OneReturn, IsReturn
  <2> QED BY <1>1, <1>5, <2>1, <2>2 DEF ResultsInPlace, IsReturn
<1> QED BY <1>10, <1>11, <1>12

\* A step that writes nothing leaves the same unwritten.
LEMMA NothingWritten ==
    ASSUME MarshalInv, srv \in {"value", "returns", "customs"},
           Unwritten' = Unwritten, srv' \in {"returns", "customs", "done"},
           UNCHANGED <<sig, nonVoid, wait, cli, cursor, s2c, expected, argIndex,
                       memory, overrun>>
    PROVE  HeaderFirst' /\ ResultsAddUp' /\ ResultsInPlace'
<1>1. HeaderFirst /\ ResultsAddUp /\ ResultsInPlace /\ wait
  BY Answering DEF MarshalInv
<1>2. Owed' = Owed
  BY DEF Owed, IsReturn, IsCustom
<1>3. \A k, j : ResultOf(s2c[k], j)' <=> ResultOf(s2c[k], j)
  BY DEF ResultOf, IsReturn
<1>4. HeaderFirst'
  BY <1>1, <1>2, <1>3 DEF HeaderFirst, IsReturn
<1>5. ResultsAddUp'
  BY <1>1, <1>2 DEF ResultsAddUp
<1>6. ResultsInPlace'
  BY <1>1, <1>2, <1>3 DEF ResultsInPlace, OneReturn, IsReturn
<1> QED BY <1>4, <1>5, <1>6

\* The function stores into the arguments that are sent back, and leaves their
\* kinds and the sizes of the return arguments.
LEMMA RunFunctionKeeps ==
    ASSUME MarshalInv, RunFunction PROVE Kept
<1>1. PICK size \in CustomSizes :
        args' = [i \in DOMAIN args |->
                    CASE args[i].kind = "return" -> [args[i] EXCEPT !.data = Out(i)]
                      [] args[i].kind = "custom" -> CustomResult(args[i], i, size)
                      [] OTHER -> args[i]]
  BY DEF RunFunction
<1>2. /\ UNCHANGED <<sig, nonVoid, wait, cli, cursor, expected, argIndex, memory,
                     overrun, index, c2s, s2c>>
      /\ srv = "read" /\ Len(args) = Len(sig)
      /\ srv' = IF wait THEN "header" ELSE "done"
  BY ArgumentsCounted DEF MarshalInv, RunFunction, callVars, clientVars
<1>3. /\ MarshalTypeOK /\ ArgumentsInOrder
      /\ HeaderFirst /\ ResultsAddUp /\ ResultsInPlace
  BY DEF MarshalInv
<1>4. args \in Seq(Arguments) /\ Len(sig) \in Nat
  BY <1>3, Signature DEF MarshalTypeOK
<1>5. DOMAIN args = DOMAIN sig /\ DOMAIN args' = DOMAIN sig /\ Len(args') = Len(sig)
  <2>1. DOMAIN args = 1..Len(sig)
    BY <1>2, <1>4
  <2>2. DOMAIN args' = 1..Len(sig)
    BY <1>1, <2>1
  <2>3. args' = [i \in 1..Len(sig) |-> args'[i]]
    BY <1>1, <2>1
  <2>4. Len(args') = Len(sig)
    BY <1>4, <2>2, <2>3
  <2> QED BY <1>3, <2>1, <2>2, <2>4, Signature
<1>6. ASSUME NEW i \in DOMAIN sig
      PROVE  /\ args'[i].kind = sig[i].kind
             /\ IsReturn(i) => args'[i].size = sig[i].size /\ args'[i].data = Out(i)
             /\ IsCustom(i) => args'[i].data = Out(i)
  <2> PICK a \in Arguments : a = args[i]
    BY <1>4, <1>5
  <2>1. a.kind = sig[i].kind /\ (IsReturn(i) => a.size = sig[i].size)
    <3>1. a = Decode(ArgumentPacket(i))
      BY <1>2, <1>3, <1>5 DEF ArgumentsInOrder
    <3> QED BY <3>1 DEF Decode, ArgumentPacket, IsReturn
  <2>2. args'[i] = CASE a.kind = "return" -> [a EXCEPT !.data = Out(i)]
                     [] a.kind = "custom" -> CustomResult(a, i, size)
                     [] OTHER -> a
    BY <1>1, <1>5
  <2> QED BY <2>1, <2>2 DEF CustomResult, IsReturn, IsCustom, Arguments
<1>7. Computed'
  BY <1>2, <1>5, <1>6 DEF Computed, IsReturn, IsCustom
<1>8. ArgumentsInOrder'
  <2>1. \A i : ArgumentPacket(i)' = ArgumentPacket(i)
    BY <1>2 DEF ArgumentPacket, BlobSize, IsReturn, In
  <2> QED BY <1>2, <1>3, <1>5, <2>1 DEF ArgumentsInOrder
<1>9. Owed' = Owed /\ Unwritten = Owed /\ (wait => Unwritten' = Owed)
  BY <1>2 DEF Owed, Unwritten, IsReturn, IsCustom
<1>10. \A k, j : ResultOf(s2c[k], j)' <=> ResultOf(s2c[k], j)
  BY <1>2 DEF ResultOf, IsReturn
<1>11. HeaderFirst'
  BY <1>2, <1>3, <1>9, <1>10 DEF HeaderFirst, IsReturn
<1>12. ResultsAddUp'
  BY <1>2, <1>3 DEF ResultsAddUp, HeaderFirst
<1>13. ResultsInPlace'
  BY <1>2, <1>3, <1>9 DEF ResultsInPlace, OneReturn, IsReturn
<1> QED BY <1>7, <1>8, <1>11, <1>12, <1>13 DEF Kept

\* The header goes first, and announces everything that is owed.
LEMMA WriteHeaderKeeps ==
    ASSUME MarshalInv, WriteHeader PROVE Kept
<1>1. /\ UNCHANGED <<sig, nonVoid, wait, cli, cursor, expected, argIndex, memory,
                     overrun, args, c2s>>
      /\ srv = "header" /\ srv' = IF nonVoid THEN "value" ELSE "returns"
      /\ s2c' = Append(s2c, [kind |-> "header", count |-> NumReturnArgs])
      /\ index' = 1
  BY DEF WriteHeader, callVars, clientVars
<1>2. /\ MarshalTypeOK /\ Computed
      /\ HeaderFirst /\ ResultsAddUp /\ ResultsInPlace
  BY DEF MarshalInv
<1>3. s2c = <<>> /\ wait /\ cli \in {"send", "crashed", "header"}
  BY <1>1, <1>2 DEF HeaderFirst
<1>4. s2c' = <<[kind |-> "header", count |-> Cardinality(Owed)]>>
  BY <1>1, <1>2, <1>3, HeaderCounts
<1>5. ArgumentsInOrder' /\ Computed'
  BY <1>1, ArgumentsKept
<1>6. Owed' = Owed /\ Unwritten' = Owed
  <2>1. Owed' = Owed
    BY <1>1 DEF Owed, IsReturn, IsCustom
  <2>2. ASSUME NEW i \in Owed
        PROVE  \/ srv' = "value"
               \/ i # 0 /\ (IsReturn(i) \/ IsCustom(i)) /\ 1 <= i
    <3>1. CASE nonVoid
      BY <1>1, <3>1
    <3>2. CASE ~nonVoid
      BY <1>2, <3>2, Signature DEF Owed
    <3> QED BY <3>1, <3>2
  <2> QED BY <1>1, <2>1, <2>2 DEF Unwritten, IsReturn, IsCustom
<1>7. Len(s2c') = 1 /\ DOMAIN s2c' = {1} /\ s2c' # <<>>
      /\ s2c'[1] = [kind |-> "header", count |-> Cardinality(Owed)]
  BY <1>4
<1>8. HeaderFirst'
  BY <1>1, <1>2, <1>3, <1>6, <1>7 DEF HeaderFirst, IsReturn
<1>9. ResultsAddUp'
  <2>1. 1 + Cardinality(Owed) = Cardinality(Owed) + 1
    BY <1>2, OwedFinite
  <2> QED BY <1>1, <1>2, <1>3, <1>6, <1>7, <2>1 DEF ResultsAddUp
<1>10. ResultsInPlace'
  BY <1>1, <1>2, <1>6 DEF ResultsInPlace, OneReturn, IsReturn
<1> QED BY <1>5, <1>8, <1>9, <1>10 DEF Kept

\* The return value goes before the arguments.
LEMMA WriteReturnValueKeeps ==
    ASSUME MarshalInv, WriteReturnValue PROVE Kept
<1> DEFINE p == [kind |-> "primitive", size |-> 8, data |-> Out(0)]
<1>1. /\ UNCHANGED <<sig, nonVoid, wait, cli, cursor, expected, argIndex, memory,
                     overrun, args, index, c2s>>
      /\ srv = "value" /\ srv' = "returns" /\ s2c' = Append(s2c, p)
  BY DEF WriteReturnValue, callVars, clientVars
<1>2. MarshalTypeOK /\ HeaderFirst
  BY DEF MarshalInv
<1>3. 0 \in Owed /\ Unwritten = Owed
  BY <1>1, <1>2 DEF HeaderFirst, Owed, Unwritten
<1>4. index = 1
  BY <1>1, <1>2 DEF HeaderFirst
<1>5. Unwritten' = Unwritten \ {0}
  <2>1. Owed' = Owed
    BY <1>1 DEF Owed, IsReturn, IsCustom
  <2>2. \A i \in Owed \ {0} : i \in Nat /\ 1 <= i /\ (IsReturn(i) \/ IsCustom(i))
    BY <1>2, Signature DEF Owed
  <2>3. ASSUME NEW i \in Owed
        PROVE  i \in Unwritten' <=> i # 0
    BY <1>1, <1>4, <2>1, <2>2 DEF Unwritten, IsReturn, IsCustom
  <2>4. Unwritten' \subseteq Owed
    BY <2>1 DEF Unwritten
  <2> QED BY <1>3, <2>3, <2>4
<1>6. ResultOf(p, 0)
  BY DEF ResultOf, Results, Kinds, Out, Tokens
<1> HIDE DEF p
<1>7. HeaderFirst' /\ ResultsAddUp' /\ ResultsInPlace'
  <2>1. 0 \in Unwritten
    BY <1>3
  <2> QED BY <1>1, <1>5, <1>6, <2>1, ResultWritten
<1>8. ArgumentsInOrder' /\ Computed'
  BY <1>1, ArgumentsKept
<1> QED BY <1>7, <1>8 DEF Kept

\* The loop over the return arguments.
LEMMA WriteReturnsKeeps ==
    ASSUME MarshalInv, WriteReturns PROVE Kept
<1>1. /\ UNCHANGED <<sig, nonVoid, wait, cli, cursor, expected, argIndex, memory,
                     overrun, args, c2s>>
      /\ srv = "returns"
  BY DEF WriteReturns, WriteResults, callVars, clientVars
<1>2. MarshalTypeOK /\ Computed
  BY DEF MarshalInv
<1>3. /\ index \in Nat /\ index # 0 /\ args \in Seq(Arguments)
      /\ DOMAIN args = DOMAIN sig /\ DOMAIN sig = 1..Len(sig)
      /\ Len(args) = Len(sig) /\ Len(sig) \in Nat
      /\ \A i \in DOMAIN sig : args[i] \in Arguments
      /\ \A i \in DOMAIN sig : args[i].kind = "return" <=> IsReturn(i)
  BY <1>1, <1>2, Answering, Signature DEF MarshalTypeOK
<1>4. Owed' = Owed /\ Owed \subseteq 0..Len(sig)
  BY <1>1, <1>2, OwedFinite DEF Owed, IsReturn, IsCustom
<1>5. Unwritten = {i \in Owed : i # 0 /\ (IsCustom(i) \/ (IsReturn(i) /\ index <= i))}
  BY <1>1 DEF Unwritten
<1>6. CASE /\ index <= Len(args) /\ args[index].kind = "return"
           /\ s2c' = Append(s2c, [kind |-> "return", size |-> args[index].size,
                                  data |-> args[index].data])
           /\ index' = index + 1 /\ srv' = srv
  <2> PICK x \in DOMAIN sig : x = index
    BY <1>3, <1>6
  <2> DEFINE p == [kind |-> "return", size |-> args[x].size, data |-> args[x].data]
  <2>1. IsReturn(x) /\ ~IsCustom(x) /\ x \in Owed /\ x # 0 /\ x \in Nat
    BY <1>3, <1>6 DEF IsReturn, IsCustom, Owed
  <2>2. x \in Unwritten
    BY <1>5, <2>1
  <2>3. ResultOf(p, x)
    <3>1. /\ args[x].data = Out(x) /\ args[x].size = sig[x].size
          /\ sig[x].kind = "return" /\ args[x] \in Arguments
      BY <1>1, <1>2, <1>3, <2>1 DEF Computed, IsReturn
    <3> QED BY <2>1, <3>1 DEF ResultOf, Results, Arguments, Kinds
  <2>4. Unwritten' = Unwritten \ {x}
    <3>1. Unwritten' = {i \in Owed : i # 0 /\ (IsCustom(i) \/ (IsReturn(i) /\ x + 1 <= i))}
      BY <1>1, <1>4, <1>6 DEF Unwritten, IsReturn, IsCustom
    <3>2. \A i \in Owed : x + 1 <= i <=> x <= i /\ i # x
      BY <1>3, <1>4, <2>1
    <3> QED BY <1>5, <2>1, <3>1, <3>2
  <2>5. s2c' = Append(s2c, p)
    BY <1>6
  <2> HIDE DEF p
  <2>6. HeaderFirst' /\ ResultsAddUp' /\ ResultsInPlace'
    BY <1>1, <1>6, <2>2, <2>3, <2>4, <2>5, ResultWritten
  <2>7. ArgumentsInOrder' /\ Computed'
    BY <1>1, <1>6, ArgumentsKept
  <2> QED BY <2>6, <2>7 DEF Kept
<1>7. CASE /\ index <= Len(args) /\ args[index].kind # "return"
           /\ index' = index + 1 /\ UNCHANGED <<srv, s2c>>
  <2> PICK x \in DOMAIN sig : x = index
    BY <1>3, <1>7
  <2>1. ~IsReturn(x) /\ x \in Nat
    BY <1>3, <1>7
  <2>2. Unwritten' = Unwritten
    <3>1. Unwritten' = {i \in Owed : i # 0 /\ (IsCustom(i) \/ (IsReturn(i) /\ x + 1 <= i))}
      BY <1>1, <1>4, <1>7 DEF Unwritten, IsReturn, IsCustom
    <3>2. \A i \in Owed : x + 1 <= i <=> x <= i /\ i # x
      BY <1>3, <1>4, <2>1
    <3> QED BY <1>5, <2>1, <3>1, <3>2
  <2>3. HeaderFirst' /\ ResultsAddUp' /\ ResultsInPlace'
    BY <1>1, <1>7, <2>2, NothingWritten
  <2>4. ArgumentsInOrder' /\ Computed'
    BY <1>1, <1>7, ArgumentsKept
  <2> QED BY <2>3, <2>4 DEF Kept
<1>8. CASE index > Len(args) /\ srv' = "customs" /\ index' = 1 /\ s2c' = s2c
  <2>1. Unwritten' = Unwritten
    <3>1. Unwritten' = {i \in Owed : i # 0 /\ IsCustom(i) /\ 1 <= i}
      BY <1>1, <1>4, <1>8 DEF Unwritten, IsReturn, IsCustom
    <3>2. \A i \in Owed : i # 0 => 1 <= i /\ ~(index <= i)
      BY <1>3, <1>4, <1>8
    <3> QED BY <1>5, <3>1, <3>2
  <2>2. HeaderFirst' /\ ResultsAddUp' /\ ResultsInPlace'
    BY <1>1, <1>8, <2>1, NothingWritten
  <2>3. ArgumentsInOrder' /\ Computed'
    BY <1>1, <1>8, ArgumentsKept
  <2> QED BY <2>2, <2>3 DEF Kept
<1> QED BY <1>6, <1>7, <1>8 DEF WriteReturns, WriteResults

\* The loop over the custom argument.
LEMMA WriteCustomKeeps ==
    ASSUME MarshalInv, WriteCustom PROVE Kept
<1>1. /\ UNCHANGED <<sig, nonVoid, wait, cli, cursor, expected, argIndex, memory,
                     overrun, args, c2s>>
      /\ srv = "customs"
  BY DEF WriteCustom, WriteResults, callVars, clientVars
<1>2. MarshalTypeOK /\ Computed
  BY DEF MarshalInv
<1>3. /\ index \in Nat /\ index # 0 /\ args \in Seq(Arguments)
      /\ DOMAIN args = DOMAIN sig /\ DOMAIN sig = 1..Len(sig)
      /\ Len(args) = Len(sig) /\ Len(sig) \in Nat
      /\ \A i \in DOMAIN sig : args[i] \in Arguments
      /\ \A i \in DOMAIN sig : args[i].kind = "custom" <=> IsCustom(i)
  BY <1>1, <1>2, Answering, Signature DEF MarshalTypeOK
<1>4. Owed' = Owed /\ Owed \subseteq 0..Len(sig)
  BY <1>1, <1>2, OwedFinite DEF Owed, IsReturn, IsCustom
<1>5. Unwritten = {i \in Owed : i # 0 /\ IsCustom(i) /\ index <= i}
  BY <1>1 DEF Unwritten
<1>6. CASE /\ index <= Len(args) /\ args[index].kind = "custom"
           /\ s2c' = Append(s2c, [kind |-> "custom", size |-> args[index].size,
                                  data |-> args[index].data])
           /\ index' = index + 1 /\ srv' = srv
  <2> PICK x \in DOMAIN sig : x = index
    BY <1>3, <1>6
  <2> DEFINE p == [kind |-> "custom", size |-> args[x].size, data |-> args[x].data]
  <2>1. IsCustom(x) /\ ~IsReturn(x) /\ x \in Owed /\ x # 0 /\ x \in Nat
    BY <1>3, <1>6 DEF IsReturn, IsCustom, Owed
  <2>2. x \in Unwritten
    BY <1>5, <2>1
  <2>3. ResultOf(p, x)
    <3>1. args[x].data = Out(x) /\ sig[x].kind = "custom" /\ args[x] \in Arguments
      BY <1>1, <1>2, <1>3, <2>1 DEF Computed, IsCustom
    <3> QED BY <2>1, <3>1 DEF ResultOf, Results, Arguments, Kinds
  <2>4. Unwritten' = Unwritten \ {x}
    <3>1. Unwritten' = {i \in Owed : i # 0 /\ IsCustom(i) /\ x + 1 <= i}
      BY <1>1, <1>4, <1>6 DEF Unwritten, IsReturn, IsCustom
    <3>2. \A i \in Owed : x + 1 <= i <=> x <= i /\ i # x
      BY <1>3, <1>4, <2>1
    <3> QED BY <1>5, <2>1, <3>1, <3>2
  <2>5. s2c' = Append(s2c, p)
    BY <1>6
  <2> HIDE DEF p
  <2>6. HeaderFirst' /\ ResultsAddUp' /\ ResultsInPlace'
    BY <1>1, <1>6, <2>2, <2>3, <2>4, <2>5, ResultWritten
  <2>7. ArgumentsInOrder' /\ Computed'
    BY <1>1, <1>6, ArgumentsKept
  <2> QED BY <2>6, <2>7 DEF Kept
<1>7. CASE /\ index <= Len(args) /\ args[index].kind # "custom"
           /\ index' = index + 1 /\ UNCHANGED <<srv, s2c>>
  <2> PICK x \in DOMAIN sig : x = index
    BY <1>3, <1>7
  <2>1. ~IsCustom(x) /\ x \in Nat
    BY <1>3, <1>7
  <2>2. Unwritten' = Unwritten
    <3>1. Unwritten' = {i \in Owed : i # 0 /\ IsCustom(i) /\ x + 1 <= i}
      BY <1>1, <1>4, <1>7 DEF Unwritten, IsReturn, IsCustom
    <3>2. \A i \in Owed : x + 1 <= i <=> x <= i /\ i # x
      BY <1>3, <1>4, <2>1
    <3> QED BY <1>5, <2>1, <3>1, <3>2
  <2>3. HeaderFirst' /\ ResultsAddUp' /\ ResultsInPlace'
    BY <1>1, <1>7, <2>2, NothingWritten
  <2>4. ArgumentsInOrder' /\ Computed'
    BY <1>1, <1>7, ArgumentsKept
  <2> QED BY <2>3, <2>4 DEF Kept
<1>8. CASE index > Len(args) /\ srv' = "done" /\ index' = 1 /\ s2c' = s2c
  <2>1. Unwritten' = Unwritten
    <3>1. Unwritten' = {}
      BY <1>1, <1>8 DEF Unwritten
    <3>2. \A i \in Owed : ~(index <= i)
      BY <1>3, <1>4, <1>8
    <3> QED BY <1>5, <3>1, <3>2
  <2>2. HeaderFirst' /\ ResultsAddUp' /\ ResultsInPlace'
    BY <1>1, <1>8, <2>1, NothingWritten
  <2>3. ArgumentsInOrder' /\ Computed'
    BY <1>1, <1>8, ArgumentsKept
  <2> QED BY <2>2, <2>3 DEF Kept
<1> QED BY <1>6, <1>7, <1>8 DEF WriteCustom, WriteResults

-----------------------------------------------------------------------------
(***************************************************************************)
(* The client reads the results.                                           *)
(***************************************************************************)
\* The client's steps that read leave the arguments alone.
LEMMA ArgumentsRead ==
    ASSUME MarshalInv, cli \in {"header", "results"}, cli' \in {"results", "returned"},
           UNCHANGED <<sig, srv, args, c2s>>
    PROVE  ArgumentsInOrder' /\ Computed'
<1>1. ArgumentsInOrder /\ Computed
  BY DEF MarshalInv
<1>2. \A i : ArgumentPacket(i)' = ArgumentPacket(i)
  BY DEF ArgumentPacket, BlobSize, IsReturn, In
<1>3. \A i : Decode(ArgumentPacket(i))' = Decode(ArgumentPacket(i))
  BY <1>2 DEF Decode
<1>4. ArgumentsInOrder'
  BY <1>1, <1>2, <1>3 DEF ArgumentsInOrder
<1>5. Computed'
  BY <1>1 DEF Computed, IsReturn, IsCustom
<1> QED BY <1>4, <1>5

\* The first packet of a response is its header; the others are results.
LEMMA ReadHeaderKeeps ==
    ASSUME MarshalInv, ReadHeader PROVE Kept
<1>1. /\ UNCHANGED <<sig, nonVoid, wait, srv, args, index, c2s, cursor, argIndex,
                     memory, overrun>>
      /\ cli = "header" /\ cli' = "results"
      /\ s2c # <<>> /\ s2c' = Tail(s2c) /\ expected' = s2c[1].count
  BY DEF ReadHeader, callVars, serverVars
<1>2. /\ MarshalTypeOK
      /\ HeaderFirst /\ ResultsAddUp /\ ResultsInPlace
  BY DEF MarshalInv
<1>3. wait /\ srv \notin {"read", "header"} /\ cursor = 0
  BY <1>1, <1>2 DEF HeaderFirst, ResultsAddUp
<1>4. s2c[1] = [kind |-> "header", count |-> Cardinality(Owed)]
  BY <1>1, <1>2, <1>3 DEF HeaderFirst
<1>5. expected' = Cardinality(Owed)
  BY <1>1, <1>4
<1>6. s2c \in Seq(Headers \cup Results)
  BY <1>2 DEF MarshalTypeOK
<1>7. PICK m \in Nat : m = Len(s2c)
  BY <1>6
<1>8. /\ m >= 1 /\ Len(s2c') = m - 1 /\ DOMAIN s2c' = 1..(m - 1) /\ DOMAIN s2c = 1..m
      /\ \A k \in 1..(m - 1) : s2c'[k] = s2c[k + 1]
  BY <1>1, <1>6, <1>7
<1>9. \A k \in 1..(m - 1) : k \in Nat /\ k + 1 \in 1..m /\ k + 1 # 1
  OBVIOUS
<1>10. \A k \in 2..m : k - 1 \in 1..(m - 1) /\ (k - 1) + 1 = k
  OBVIOUS
<1>11. Owed' = Owed /\ Unwritten' = Unwritten
  BY <1>1 DEF Owed, Unwritten, IsReturn, IsCustom
<1>12. ASSUME NEW k \in 1..(m - 1)
       PROVE  \A i : ResultOf(s2c[k], i)' <=> ResultOf(s2c[k + 1], i)
  <2>1. s2c'[k] = s2c[k + 1]
    BY <1>8
  <2> QED BY <1>1, <2>1 DEF ResultOf, IsReturn
<1>13. HeaderFirst'
  <2>1. ASSUME NEW k \in DOMAIN s2c' PROVE \E i \in Owed' : ResultOf(s2c[k], i)'
    <3>1. k \in 1..(m - 1)
      BY <1>8
    <3>2. PICK i \in Owed : ResultOf(s2c[k + 1], i)
      BY <1>2, <1>8, <1>9, <3>1 DEF HeaderFirst
    <3> QED BY <1>11, <1>12, <3>1, <3>2
  <2> QED BY <1>1, <1>2, <1>3, <2>1 DEF HeaderFirst
<1>14. ResultsAddUp'
  <2>1. PICK w \in Nat, o \in Nat : w = Cardinality(Unwritten) /\ o = Cardinality(Owed)
    BY <1>2, OwedFinite
  <2>2. m + w = o + 1
    BY <1>1, <1>2, <1>3, <1>7, <2>1 DEF ResultsAddUp
  <2>3. 0 + (m - 1) + w = o
    BY <2>2
  <2> QED BY <1>1, <1>3, <1>5, <1>8, <1>11, <2>1, <2>3 DEF ResultsAddUp
<1>15. ResultsInPlace'
  <2>1. OneReturn' <=> OneReturn
    BY <1>1 DEF OneReturn, IsReturn
  <2>2. ASSUME OneReturn, NEW i \in Owed
        PROVE  \/ i \in Unwritten'
               \/ \E k \in DOMAIN s2c' : ResultOf(s2c[k], i)'
               \/ memory'[i] = Out(i)
    <3>1. CASE \E k \in DOMAIN s2c : ResultOf(s2c[k], i)
      <4>1. PICK k \in 1..m : ResultOf(s2c[k], i)
        BY <1>8, <3>1
      <4>2. k # 1
        BY <1>4, <4>1 DEF ResultOf, Results, Kinds
      <4>3. PICK j \in 1..(m - 1) : j = k - 1 /\ j + 1 = k
        BY <1>10, <4>2
      <4> QED BY <1>8, <1>12, <4>1, <4>3
    <3> QED BY <1>1, <1>2, <1>3, <1>11, <2>2, <3>1 DEF ResultsInPlace
  <2> QED BY <1>1, <1>2, <1>11, <2>1, <2>2 DEF ResultsInPlace, IsReturn
<1>16. ArgumentsInOrder' /\ Computed'
  BY <1>1, ArgumentsRead
<1> QED BY <1>13, <1>14, <1>15, <1>16 DEF Kept

\* With one return argument a result is stored where it belongs, and fits.
LEMMA ResultStored ==
    ASSUME MarshalTypeOK, ResultsInPlace, OneReturn,
           NEW p, NEW i \in Owed, ResultOf(p, i),
           StoreValue(p) \/ StoreReturn(p) \/ StoreCustom(p)
    PROVE  memory' = [memory EXCEPT ![i] = Out(i)] /\ overrun' = overrun
<1>1. p.data = Out(i) /\ i \in 0..Len(sig)
  BY OwedFinite DEF ResultOf
<1>2. CASE StoreValue(p)
  <2>1. p.kind = "primitive"
    BY <1>2 DEF StoreValue
  <2>2. i = 0
    BY <2>1, Signature DEF ResultOf, Owed, IsReturn, IsCustom
  <2> QED BY <1>1, <1>2, <2>2 DEF StoreValue
<1>3. CASE StoreReturn(p)
  <2>1. p.kind = "return"
    BY <1>3 DEF StoreReturn
  <2>2. i # 0 /\ i \in DOMAIN sig /\ IsReturn(i)
    BY <2>1, Signature DEF ResultOf, Owed, IsReturn
  <2>3. NextReturn(argIndex) \in DOMAIN sig /\ IsReturn(NextReturn(argIndex))
    BY <2>2, NextReturnFinds DEF ResultsInPlace
  <2>4. argIndex' = i
    BY <1>3, <2>2, <2>3 DEF StoreReturn, OneReturn
  <2>5. p.size = sig[i].size /\ sig[i].size \in Nat
    BY <2>2, Signature DEF ResultOf, ArgumentShapes
  <2>6. overrun' = overrun
    BY <1>3, <2>4, <2>5 DEF StoreReturn, MarshalTypeOK
  <2> QED BY <1>1, <1>3, <2>4, <2>6 DEF StoreReturn
<1>4. CASE StoreCustom(p)
  <2>1. p.kind = "custom"
    BY <1>4 DEF StoreCustom
  <2>2. i \in DOMAIN sig /\ IsCustom(i)
    BY <2>1, Signature DEF ResultOf, Owed, IsCustom, IsReturn
  <2>3. PICK j \in DOMAIN sig :
          /\ IsCustom(j)
          /\ sizes' = [sizes EXCEPT ![j] = Reallocated(sizes[j], p.size)]
          /\ memory' = [memory EXCEPT ![j] = p.data]
          /\ overrun' = (overrun \/ p.size > sizes'[j])
    BY <1>4 DEF StoreCustom
  <2>4. j = i
    BY <2>2, <2>3, Signature
  <2>5. p.size \in Nat /\ sizes \in [DOMAIN sig -> Nat]
    BY DEF ResultOf, Results, MarshalTypeOK
  <2>6. sizes'[j] = Reallocated(sizes[j], p.size) /\ sizes[j] \in Nat
    BY <2>3, <2>5
  <2>7. ~(p.size > sizes'[j])
    BY <2>5, <2>6 DEF Reallocated
  <2>8. overrun' = overrun
    BY <2>3, <2>7 DEF MarshalTypeOK
  <2> QED BY <1>1, <2>3, <2>4, <2>8
<1> QED BY <1>2, <1>3, <1>4

\* A result that is read is one that was owed, and is no more under way.
LEMMA ReadResultKeeps ==
    ASSUME MarshalInv, ReadResult PROVE Kept
<1>1. /\ UNCHANGED <<sig, nonVoid, wait, srv, args, index, c2s, cli, expected>>
      /\ cli = "results" /\ cursor < expected /\ cursor' = cursor + 1
      /\ s2c # <<>> /\ s2c' = Tail(s2c)
      /\ StoreValue(s2c[1]) \/ StoreReturn(s2c[1]) \/ StoreCustom(s2c[1])
  BY DEF ReadResult, callVars, serverVars
<1>2. /\ MarshalTypeOK
      /\ HeaderFirst /\ ResultsAddUp /\ ResultsInPlace
  BY DEF MarshalInv
<1>3. wait /\ srv \notin {"read", "header"}
  BY <1>1, <1>2 DEF HeaderFirst
<1>4. s2c \in Seq(Headers \cup Results) /\ cursor \in Nat /\ expected \in Nat
  BY <1>2 DEF MarshalTypeOK
<1>5. PICK m \in Nat : m = Len(s2c)
  BY <1>4
<1>6. /\ m >= 1 /\ Len(s2c') = m - 1 /\ DOMAIN s2c' = 1..(m - 1) /\ DOMAIN s2c = 1..m
      /\ \A k \in 1..(m - 1) : s2c'[k] = s2c[k + 1]
      /\ 1 \in 1..m
  BY <1>1, <1>4, <1>5
<1>7. \A k \in 1..(m - 1) : k \in Nat /\ k + 1 \in 1..m
  OBVIOUS
<1>8. \A k \in 2..m : k - 1 \in 1..(m - 1) /\ (k - 1) + 1 = k
  OBVIOUS
<1>9. Owed' = Owed /\ Unwritten' = Unwritten
  BY <1>1 DEF Owed, Unwritten, IsReturn, IsCustom
<1>10. ASSUME NEW k \in 1..(m - 1)
       PROVE  \A i : ResultOf(s2c[k], i)' <=> ResultOf(s2c[k + 1], i)
  <2>1. s2c'[k] = s2c[k + 1]
    BY <1>6
  <2> QED BY <1>1, <2>1 DEF ResultOf, IsReturn
<1>11. PICK r \in Owed : ResultOf(s2c[1], r)
  BY <1>1, <1>2, <1>6 DEF HeaderFirst
<1>12. HeaderFirst'
  <2>1. ASSUME NEW k \in DOMAIN s2c' PROVE \E i \in Owed' : ResultOf(s2c[k], i)'
    <3>1. k \in 1..(m - 1)
      BY <1>6
    <3>2. PICK i \in Owed : ResultOf(s2c[k + 1], i)
      BY <1>1, <1>2, <1>6, <1>7, <3>1 DEF HeaderFirst
    <3> QED BY <1>9, <1>10, <3>1, <3>2
  <2> QED BY <1>1, <1>2, <1>3, <2>1 DEF HeaderFirst
<1>13. ResultsAddUp'
  <2>1. PICK w \in Nat, o \in Nat : w = Cardinality(Unwritten) /\ o = Cardinality(Owed)
    BY <1>2, OwedFinite
  <2>2. expected = o /\ cursor + m + w = expected
    BY <1>1, <1>2, <1>3, <1>5, <2>1 DEF ResultsAddUp
  <2>3. (cursor + 1) + (m - 1) + w = expected
    BY <1>4, <2>2
  <2> QED BY <1>1, <1>3, <1>6, <1>9, <2>1, <2>2, <2>3 DEF ResultsAddUp
<1>14. argIndex' # 1 => argIndex' \in DOMAIN sig /\ IsReturn(argIndex')
  <2>1. CASE StoreReturn(s2c[1])
    <3>1. s2c[1].kind = "return" /\ argIndex' = NextReturn(argIndex)
      BY <2>1 DEF StoreReturn
    <3>2. r \in DOMAIN sig /\ IsReturn(r)
      BY <1>2, <1>11, <3>1, Signature DEF ResultOf, Owed, IsReturn
    <3> QED BY <1>2, <3>1, <3>2, NextReturnFinds DEF ResultsInPlace
  <2>2. CASE argIndex' = argIndex
    BY <1>2, <2>2 DEF ResultsInPlace
  <2> QED BY <1>1, <2>1, <2>2 DEF StoreValue, StoreCustom
<1>15. ResultsInPlace'
  <2>1. OneReturn' <=> OneReturn
    BY <1>1 DEF OneReturn, IsReturn
  <2>2. ASSUME OneReturn
        PROVE  /\ ~overrun'
               /\ \A i \in 0..Len(sig) :
                     memory'[i] # Nothing => i \in Owed /\ memory'[i] = Out(i)
               /\ \A i \in Owed :
                     \/ i \in Unwritten
                     \/ \E k \in DOMAIN s2c' : ResultOf(s2c[k], i)'
                     \/ memory'[i] = Out(i)
    <3>1. memory' = [memory EXCEPT ![r] = Out(r)] /\ overrun' = overrun
      BY <1>1, <1>2, <1>11, <2>2, ResultStored
    <3>2. /\ memory'[r] = Out(r)
          /\ \A i \in (0..Len(sig)) \ {r} : memory'[i] = memory[i]
          /\ Owed \subseteq 0..Len(sig)
      BY <1>2, <3>1, OwedFinite DEF MarshalTypeOK
    <3>3. ~overrun /\ \A i \in 0..Len(sig) :
             memory[i] # Nothing => i \in Owed /\ memory[i] = Out(i)
      BY <1>2, <2>2 DEF ResultsInPlace
    <3>4. ASSUME NEW i \in 0..Len(sig), memory'[i] # Nothing
          PROVE  i \in Owed /\ memory'[i] = Out(i)
      BY <1>11, <3>2, <3>3, <3>4
    <3>5. ASSUME NEW i \in Owed, i \notin Unwritten, memory'[i] # Out(i)
          PROVE  \E k \in DOMAIN s2c' : ResultOf(s2c[k], i)'
      <4>1. i # r /\ memory[i] # Out(i)
        BY <3>2, <3>5
      <4>2. PICK k \in 1..m : ResultOf(s2c[k], i)
        BY <1>2, <1>3, <1>6, <2>2, <3>5, <4>1 DEF ResultsInPlace
      <4>3. k # 1
        <5>1. Out(i) # Out(r)
          BY <4>1 DEF Out
        <5> QED BY <1>11, <4>2, <5>1 DEF ResultOf
      <4>4. PICK j \in 1..(m - 1) : j = k - 1 /\ j + 1 = k
        BY <1>8, <4>3
      <4> QED BY <1>6, <1>10, <4>2, <4>4
    <3> QED BY <3>1, <3>3, <3>4, <3>5
  <2> QED BY <1>1, <1>9, <1>14, <2>1, <2>2 DEF ResultsInPlace, IsReturn
<1>16. ArgumentsInOrder' /\ Computed'
  BY <1>1, ArgumentsRead
<1> QED BY <1>12, <1>13, <1>15, <1>16 DEF Kept

\* A call returns when it has read as many results as it was told.
LEMMA AllResultsReadKeeps ==
    ASSUME MarshalInv, AllResultsRead PROVE Kept
<1>1. /\ UNCHANGED <<sig, nonVoid, wait, srv, args, index, c2s, s2c, cursor, expected,
                     argIndex, memory, overrun>>
      /\ cli = "results" /\ cli' = "returned" /\ cursor = expected
  BY DEF AllResultsRead, callVars, serverVars
<1>2. HeaderFirst /\ ResultsAddUp /\ ResultsInPlace
  BY DEF MarshalInv
<1>3. wait /\ srv \notin {"read", "header"}
  BY <1>1, <1>2 DEF HeaderFirst
<1>4. Owed' = Owed /\ Unwritten' = Unwritten
  BY <1>1 DEF Owed, Unwritten, IsReturn, IsCustom
<1>5. \A k, i : ResultOf(s2c[k], i)' <=> ResultOf(s2c[k], i)
  BY <1>1 DEF ResultOf, IsReturn
<1>6. HeaderFirst'
  BY <1>1, <1>2, <1>3, <1>4, <1>5 DEF HeaderFirst, IsReturn
<1>7. ResultsAddUp'
  BY <1>1, <1>2, <1>3, <1>4 DEF ResultsAddUp
<1>8. ResultsInPlace'
  BY <1>1, <1>2, <1>4, <1>5 DEF ResultsInPlace, OneReturn, IsReturn
<1>9. ArgumentsInOrder' /\ Computed'
  BY <1>1, ArgumentsRead
<1> QED BY <1>6, <1>7, <1>8, <1>9 DEF Kept

-----------------------------------------------------------------------------
(***************************************************************************)
(* The theorems.                                                           *)
(***************************************************************************)
\* A step keeps the types.
LEMMA TypesNext ==
    ASSUME MarshalInv, [Next]_vars PROVE MarshalTypeOK'
<1>1. MarshalTypeOK /\ ResultsInPlace /\ HeaderFirst
  BY DEF MarshalInv
<1> USE DEF MarshalTypeOK
<1>2. CASE UNCHANGED vars
  BY <1>1, <1>2 DEF vars, callVars, clientVars, serverVars
<1>3. CASE WriteArgument
  <2>1. \/ UNCHANGED <<cursor, c2s>>
        \/ /\ cursor' = cursor + 1 /\ cursor + 1 \in DOMAIN sig
           /\ c2s' = Append(c2s, ArgumentPacket(cursor + 1))
    BY <1>1, <1>3, Signature DEF WriteArgument
  <2>2. cursor' \in Nat
    BY <1>1, <2>1
  <2>3. c2s' \in Seq(Arguments)
    <3>1. CASE c2s' = c2s
      BY <1>1, <3>1
    <3>2. CASE cursor + 1 \in DOMAIN sig /\ c2s' = Append(c2s, ArgumentPacket(cursor + 1))
      <4>1. PICK p \in Arguments : p = ArgumentPacket(cursor + 1)
        BY <1>1, <3>2, ArgumentTypes
      <4> QED BY <1>1, <3>2, <4>1
    <3> QED BY <2>1, <3>1, <3>2
  <2>4. cli' \in {"send", "crashed"}
    BY <1>3 DEF WriteArgument
  <2> QED BY <1>1, <1>3, <2>2, <2>3, <2>4 DEF WriteArgument, callVars, serverVars
<1>4. CASE AllArgumentsWritten
  BY <1>1, <1>4 DEF AllArgumentsWritten, callVars, serverVars
<1>5. CASE ReadArgument
  <2>1. c2s # <<>> /\ args' = Append(args, Decode(c2s[1])) /\ c2s' = Tail(c2s)
    BY <1>5 DEF ReadArgument
  <2>2. c2s[1] \in Arguments
    BY <1>1, <2>1
  <2>3. PICK a \in Arguments : a = Decode(c2s[1])
    BY <1>1, <2>2, ArgumentTypes
  <2>4. args' \in Seq(Arguments) /\ c2s' \in Seq(Arguments)
    BY <1>1, <2>1, <2>3
  <2> QED BY <1>1, <1>5, <2>4 DEF ReadArgument, callVars, clientVars
<1>6. CASE RunFunction
  <2>1. PICK size \in CustomSizes :
          args' = [i \in DOMAIN args |->
                      CASE args[i].kind = "return" -> [args[i] EXCEPT !.data = Out(i)]
                        [] args[i].kind = "custom" -> CustomResult(args[i], i, size)
                        [] OTHER -> args[i]]
    BY <1>6 DEF RunFunction
  <2>2. PICK n \in Nat : n = Len(args) /\ DOMAIN args = 1..n
    BY <1>1
  <2>3. ASSUME NEW i \in 1..n PROVE args'[i] \in Arguments
    <3>1. PICK a \in Arguments : a = args[i]
      BY <1>1, <2>2
    <3>2. args'[i] = CASE a.kind = "return" -> [a EXCEPT !.data = Out(i)]
                       [] a.kind = "custom" -> CustomResult(a, i, size)
                       [] OTHER -> a
      BY <2>1, <2>2, <3>1
    <3>3. Out(i) \in Tokens /\ size \in Nat
      BY SizesAssumption DEF Out, Tokens
    <3> QED BY <3>2, <3>3 DEF CustomResult, Arguments
  <2>4. args' = [i \in 1..n |-> args'[i]]
    BY <2>1, <2>2
  <2>5. args' \in Seq(Arguments)
    BY <2>3, <2>4
  <2>6. srv' \in {"header", "done"}
    BY <1>6 DEF RunFunction
  <2> QED BY <1>1, <1>6, <2>5, <2>6 DEF RunFunction, callVars, clientVars
<1>7. CASE WriteHeader
  <2>1. srv # "read" /\ Computed
    BY <1>7 DEF MarshalInv, WriteHeader
  <2>2. NumReturnArgs \in Nat
    BY <1>1, <2>1, HeaderCounts, OwedFinite
  <2>3. [kind |-> "header", count |-> NumReturnArgs] \in Headers \cup Results
    BY <2>2 DEF Headers
  <2>4. s2c' \in Seq(Headers \cup Results)
    BY <1>1, <1>7, <2>3 DEF WriteHeader
  <2> QED BY <1>1, <1>7, <2>4 DEF WriteHeader, callVars, clientVars
<1>8. CASE WriteReturnValue
  <2>1. [kind |-> "primitive", size |-> 8, data |-> Out(0)] \in Headers \cup Results
    BY DEF Results, Kinds, Out, Tokens
  <2>2. s2c' \in Seq(Headers \cup Results)
    BY <1>1, <1>8, <2>1 DEF WriteReturnValue
  <2> QED BY <1>1, <1>8, <2>2 DEF WriteReturnValue, callVars, clientVars
<1>9. ASSUME NEW kind \in Kinds, NEW next \in {"customs", "done"}, WriteResults(kind, next)
      PROVE  MarshalTypeOK'
  <2>1. UNCHANGED <<sig, nonVoid, wait, cli, cursor, expected, argIndex, memory, sizes,
                    overrun, args, c2s>>
    BY <1>9 DEF WriteResults, callVars, clientVars
  <2>2. index' \in Nat \ {0} /\ (srv' = srv \/ srv' = next)
    BY <1>1, <1>9 DEF WriteResults
  <2>3. s2c' \in Seq(Headers \cup Results)
    <3>1. CASE s2c' = s2c
      BY <1>1, <3>1
    <3>2. CASE /\ index <= Len(args)
               /\ s2c' = Append(s2c, [kind |-> kind, size |-> args[index].size,
                                      data |-> args[index].data])
      <4>1. PICK a \in Arguments : a = args[index]
        BY <1>1, <3>2
      <4>2. [kind |-> kind, size |-> a.size, data |-> a.data] \in Headers \cup Results
        BY DEF Arguments, Results
      <4> QED BY <1>1, <3>2, <4>1, <4>2
    <3> QED BY <1>9, <3>1, <3>2 DEF WriteResults
  <2> QED BY <1>1, <2>1, <2>2, <2>3
<1>10. CASE ReadHeader
  <2>1. s2c # <<>> /\ s2c' = Tail(s2c) /\ expected' = s2c[1].count
    BY <1>10 DEF ReadHeader
  <2>2. wait /\ srv \notin {"read", "header"} /\ cli \notin {"results", "returned"}
    BY <1>1, <1>10 DEF ReadHeader, HeaderFirst
  <2>3. s2c[1] = [kind |-> "header", count |-> Cardinality(Owed)]
    BY <1>1, <2>2 DEF HeaderFirst
  <2>4. expected' \in Nat
    BY <1>1, <2>1, <2>3, OwedFinite
  <2>5. s2c' \in Seq(Headers \cup Results)
    BY <1>1, <2>1
  <2> QED BY <1>1, <1>10, <2>4, <2>5 DEF ReadHeader, callVars, serverVars
<1>11. CASE ReadResult
  <2>1. /\ s2c # <<>> /\ s2c' = Tail(s2c) /\ cursor' = cursor + 1 /\ cli = "results"
        /\ StoreValue(s2c[1]) \/ StoreReturn(s2c[1]) \/ StoreCustom(s2c[1])
    BY <1>11 DEF ReadResult
  <2>2. s2c' \in Seq(Headers \cup Results)
    BY <1>1, <2>1
  <2>3. PICK r \in Owed : ResultOf(s2c[1], r)
    <3>1. 1 \in DOMAIN s2c
      BY <1>1, <2>1
    <3> QED BY <1>1, <2>1, <3>1 DEF HeaderFirst
  <2>4. PICK p \in Results : p = s2c[1]
    BY <2>3 DEF ResultOf
  <2>5. p.data \in Tokens /\ p.size \in Nat
    BY DEF Results
  <2>6. CASE StoreValue(p)
    <3>1. memory' \in [0..Len(sig) -> Tokens] /\ UNCHANGED <<argIndex, sizes, overrun>>
      BY <1>1, <2>5, <2>6 DEF StoreValue
    <3> QED BY <1>1, <1>11, <2>1, <2>2, <3>1 DEF ReadResult, callVars, serverVars
  <2>7. CASE StoreReturn(p)
    <3>1. r \in DOMAIN sig /\ IsReturn(r)
      BY <1>1, <2>3, <2>4, <2>7, Signature DEF StoreReturn, ResultOf, Owed, IsReturn
    <3>2. NextReturn(argIndex) \in DOMAIN sig
      BY <1>1, <3>1, NextReturnFinds DEF ResultsInPlace
    <3>3. argIndex' \in Nat /\ argIndex' \in DOMAIN sig
      BY <1>1, <2>7, <3>2, Signature DEF StoreReturn
    <3>4. memory' \in [0..Len(sig) -> Tokens]
      BY <1>1, <2>5, <2>7 DEF StoreReturn
    <3>5. overrun' \in BOOLEAN /\ sizes' = sizes
      BY <2>7 DEF StoreReturn
    <3> QED BY <1>1, <1>11, <2>1, <2>2, <3>3, <3>4, <3>5
            DEF ReadResult, callVars, serverVars
  <2>8. CASE StoreCustom(p)
    <3>1. PICK j \in DOMAIN sig :
            /\ sizes' = [sizes EXCEPT ![j] = Reallocated(sizes[j], p.size)]
            /\ memory' = [memory EXCEPT ![j] = p.data]
            /\ overrun' = (overrun \/ p.size > sizes'[j])
      BY <2>8 DEF StoreCustom
    <3>2. sizes[j] \in Nat
      BY <1>1
    <3>3. Reallocated(sizes[j], p.size) \in Nat
      BY <2>5, <3>2 DEF Reallocated
    <3>4. sizes' \in [DOMAIN sig -> Nat]
      BY <1>1, <3>1, <3>3
    <3>5. memory' \in [0..Len(sig) -> Tokens]
      BY <1>1, <2>5, <3>1
    <3>6. overrun' \in BOOLEAN /\ argIndex' = argIndex
      BY <2>8, <3>1 DEF StoreCustom
    <3> QED BY <1>1, <1>11, <2>1, <2>2, <3>4, <3>5, <3>6
            DEF ReadResult, callVars, serverVars
  <2> QED BY <2>1, <2>4, <2>6, <2>7, <2>8
<1>12. CASE AllResultsRead
  BY <1>1, <1>12 DEF AllResultsRead, callVars, serverVars
<1> QED
  <2> HIDE DEF MarshalTypeOK
  <2> QED BY <1>2, <1>3, <1>4, <1>5, <1>6, <1>7, <1>8, <1>9, <1>10, <1>11, <1>12
          DEF Next, WriteReturns, WriteCustom, Kinds, Terminated

\* When nothing changes, nothing is lost.
LEMMA StutterKeeps ==
    ASSUME MarshalInv, UNCHANGED vars PROVE Kept
<1>1. UNCHANGED <<sig, nonVoid, wait, srv, index, s2c, expected, argIndex, memory,
                  overrun, cli, cursor, args, c2s>>
  BY DEF vars, callVars, clientVars, serverVars
<1>2. ArgumentsInOrder /\ Computed
  BY DEF MarshalInv
<1>3. \A i : ArgumentPacket(i)' = ArgumentPacket(i)
  BY <1>1 DEF ArgumentPacket, BlobSize, IsReturn, In
<1>4. \A i : Decode(ArgumentPacket(i))' = Decode(ArgumentPacket(i))
  BY <1>3 DEF Decode
<1>5. ArgumentsInOrder'
  BY <1>1, <1>2, <1>3, <1>4 DEF ArgumentsInOrder
<1>6. Computed'
  BY <1>1, <1>2 DEF Computed, IsReturn, IsCustom
<1>7. HeaderFirst' /\ ResultsAddUp' /\ ResultsInPlace'
  BY <1>1, ResultsKept
<1> QED BY <1>5, <1>6, <1>7 DEF Kept

\* Before the call nothing is under way, and everything is owed.
LEMMA InitMarshal == Init => MarshalInv
<1> SUFFICES ASSUME Init PROVE MarshalInv
  OBVIOUS
<1>1. wait \in BOOLEAN /\ (nonVoid \/ (\E i \in DOMAIN sig : IsReturn(i)) => wait)
  BY DEF Init, Waits, IsReturn
<1>2. sig \in Seq(ArgumentShapes)
  BY SignaturesAssumption DEF Init
<1>3. PICK s \in Seq(ArgumentShapes) : s = sig
  BY <1>2
<1>4. Len(s) \in Nat /\ DOMAIN s = 1..Len(s) /\ \A i \in DOMAIN s : s[i].size \in Nat
  <2>1. \A i \in DOMAIN s : s[i] \in ArgumentShapes
    OBVIOUS
  <2> QED BY <2>1 DEF ArgumentShapes
<1>5. MarshalTypeOK
  <2>1. sizes \in [DOMAIN sig -> Nat] /\ memory \in [0..Len(sig) -> Tokens]
    BY <1>3, <1>4 DEF Init, Nothing, Tokens
  <2> QED BY <1>1, <2>1, SMTT(30) DEF MarshalTypeOK, Init
<1>6. ArgumentsInOrder /\ Computed
  BY <1>3, <1>4 DEF Init, ArgumentsInOrder, Computed
<1>7. HeaderFirst /\ ResultsAddUp
  BY <1>1 DEF Init, HeaderFirst, ResultsAddUp
<1>8. ResultsInPlace
  BY DEF Init, ResultsInPlace, Unwritten
<1> QED BY <1>5, <1>6, <1>7, <1>8 DEF MarshalInv

\* Every step keeps the invariant.
LEMMA NextMarshal == MarshalInv /\ [Next]_vars => MarshalInv'
<1> SUFFICES ASSUME MarshalInv, [Next]_vars PROVE MarshalInv'
  OBVIOUS
<1>1. MarshalTypeOK'
  BY TypesNext
<1>2. Kept
  BY WriteArgumentKeeps, AllArgumentsWrittenKeeps, ReadArgumentKeeps, RunFunctionKeeps,
     WriteHeaderKeeps, WriteReturnValueKeeps, WriteReturnsKeeps, WriteCustomKeeps,
     ReadHeaderKeeps, ReadResultKeeps, AllResultsReadKeeps, StutterKeeps
  DEF Next, Terminated
<1> QED BY <1>1, <1>2 DEF MarshalInv, Kept

\* For calls of every signature, with arguments of any number and size, the state
\* of the call is as MarshalInv says.
THEOREM MarshalInvariance == Spec => []MarshalInv
BY InitMarshal, NextMarshal, PTL DEF Spec

\* The GL function is called with what the caller passed.
THEOREM ArgumentsAlwaysArrive == Spec => []ArgumentsArrive
<1>1. MarshalInv => ArgumentsArrive
  <2> SUFFICES ASSUME MarshalInv, srv = "read", Len(args) = Len(sig), NEW i \in DOMAIN sig
               PROVE  args[i] = [kind |-> sig[i].kind, size |-> sig[i].size,
                                 pad |-> IF sig[i].kind = "primitive" THEN "zero" ELSE "none",
                                 data |-> IF IsReturn(i) THEN Nothing ELSE In(i)]
    BY DEF ArgumentsArrive
  <2>1. MarshalTypeOK /\ ArgumentsInOrder
    BY DEF MarshalInv
  <2>2. i \in DOMAIN args
    <3>1. args \in Seq(Arguments)
      BY <2>1 DEF MarshalTypeOK
    <3>2. DOMAIN args = 1..Len(args)
      BY <3>1
    <3> QED BY <2>1, <3>2, Signature
  <2>3. args[i] = Decode(ArgumentPacket(i))
    BY <2>1, <2>2 DEF ArgumentsInOrder
  <2> QED BY <2>3 DEF Decode, ArgumentPacket, BlobSize
<1> QED BY <1>1, MarshalInvariance, PTL

\* When a call that waited returns, nothing is owed any more.
LEMMA NothingOwed ==
    ASSUME MarshalInv, wait, cli = "returned"
    PROVE  s2c = <<>> /\ Unwritten = {}
<1>1. MarshalTypeOK /\ ResultsAddUp
  BY DEF MarshalInv
<1>2. PICK w \in Nat : w = Cardinality(Unwritten)
  BY <1>1, OwedFinite
<1>3. s2c \in Seq(Headers \cup Results) /\ cursor \in Nat
  BY <1>1 DEF MarshalTypeOK
<1>4. PICK m \in Nat : m = Len(s2c)
  BY <1>3
<1>5. cursor + m + w = expected /\ cursor = expected
  BY <1>1, <1>2, <1>4 DEF ResultsAddUp
<1>6. m = 0 /\ w = 0
  BY <1>3, <1>5
<1>7. s2c = <<>>
  BY <1>3, <1>4, <1>6, EmptySeq
<1>8. Unwritten = {}
  BY <1>1, <1>2, <1>6, OwedFinite, FS_EmptySet
<1> QED BY <1>7, <1>8

\* With one return argument, the return value, that argument and the custom one
\* are where the caller looks for them when the call returns.
THEOREM ResultsAlwaysArrive == Spec => []ResultsArrive
<1>1. MarshalInv => ResultsArrive
  <2> SUFFICES ASSUME MarshalInv, cli = "returned", wait, OneReturn PROVE Delivered
    BY DEF ResultsArrive
  <2>1. MarshalTypeOK /\ ResultsInPlace /\ s2c = <<>> /\ Unwritten = {}
    BY NothingOwed DEF MarshalInv
  <2>2. \A i \in Owed : memory[i] = Out(i)
    BY <2>1 DEF ResultsInPlace
  <2>3. \A i \in 0..Len(sig) : memory[i] # Nothing => i \in Owed
    BY <2>1 DEF ResultsInPlace
  <2>4. Len(sig) \in Nat /\ DOMAIN sig = 1..Len(sig)
    BY <2>1, Signature
  <2>5. memory[0] = IF nonVoid THEN Out(0) ELSE Nothing
    <3>1. 0 \in Owed <=> nonVoid
      BY <2>4 DEF Owed
    <3> QED BY <2>2, <2>3, <2>4, <3>1
  <2>6. ASSUME NEW i \in DOMAIN sig
        PROVE  memory[i] = IF IsReturn(i) \/ IsCustom(i) THEN Out(i) ELSE Nothing
    <3>1. i \in 0..Len(sig) /\ (i \in Owed <=> IsReturn(i) \/ IsCustom(i))
      BY <2>4 DEF Owed
    <3> QED BY <2>2, <2>3, <3>1
  <2> QED BY <2>5, <2>6 DEF Delivered
<1> QED BY <1>1, MarshalInvariance, PTL

\* With one return argument no result is copied beyond a buffer.
THEOREM CopiesAlwaysFit == Spec => []CopiesFit
<1>1. MarshalInv => CopiesFit
  BY DEF MarshalInv, ResultsInPlace, CopiesFit
<1> QED BY <1>1, MarshalInvariance, PTL

\* A call leaves nothing on its connection for the next one to read.
THEOREM NothingStays == Spec => []NothingLeftOver
<1>1. MarshalInv => NothingLeftOver
  <2> SUFFICES ASSUME MarshalInv, cli = "returned", srv = "done"
               PROVE  c2s = <<>> /\ s2c = <<>>
    BY DEF NothingLeftOver
  <2>1. MarshalTypeOK /\ ArgumentsInOrder /\ Computed /\ HeaderFirst
    BY DEF MarshalInv
  <2>2. s2c = <<>>
    BY <2>1, NothingOwed DEF HeaderFirst
  <2>3. c2s = <<>>
    <3>1. c2s \in Seq(Arguments) /\ Len(sig) \in Nat
      BY <2>1, Signature DEF MarshalTypeOK
    <3>2. PICK m \in Nat : m = Len(c2s)
      BY <3>1
    <3>3. Len(sig) + m = Len(sig)
      BY <2>1, <3>2 DEF ArgumentsInOrder, Computed
    <3>4. m = 0
      BY <3>1, <3>3
    <3> QED BY <3>1, <3>2, <3>4, EmptySeq
  <2> QED BY <2>2, <2>3
<1> QED BY <1>1, MarshalInvariance, PTL

=============================================================================
