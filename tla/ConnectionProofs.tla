--------------------------- MODULE ConnectionProofs ---------------------------
(***************************************************************************)
(* The theorems of Codec, ClientConnection and HistoryStore, for every     *)
(* width and limit, every queue and every stream of the service:           *)
(*                                                                         *)
(*   - encoding and decoding are each other's inverse, by induction over   *)
(*     the digits of an integer;                                           *)
(*   - what next_event returns is the service's stream, and the history is *)
(*     the conversation it shows;                                          *)
(*   - what was appended before a write was cut short stays in the         *)
(*     transcript, record by record; until then nothing else is in it, and *)
(*     what the index calls complete is the whole conversation, as long as *)
(*     callers do not overlap with the client.                             *)
(***************************************************************************)
EXTENDS MCClientConnection, HistoryStore, TLAPS, WellFoundedInduction,
        SequenceTheorems, FiniteSetTheorems

------------------------------------------------------------------------------
(* Recursive functions. *)

LEMMA Induction ==
    ASSUME NEW T, 0 \in T, \A n \in Nat : n \in T => n + 1 \in T
    PROVE  Nat \subseteq T
<1> DEFINE R == OpToRel(<, Nat)
           Missing == Nat \ T
<1>1. IsWellFoundedOn(R, Nat)
  BY NatLessThanWellFounded
<1>2. ASSUME Missing # {} PROVE FALSE
  <2>1. \E n \in Missing : \A m \in Missing : <<m, n>> \notin R
    <3> HIDE DEF R
    <3>1. Missing \subseteq Nat
      OBVIOUS
    <3> QED
      BY <1>1, <1>2, <3>1, WFMin
  <2>2. PICK n \in Missing : \A m \in Missing : <<m, n>> \notin R
    BY <2>1
  <2>3. \A m \in Nat : m < n => <<m, n>> \in R
    BY DEF OpToRel
  <2>4. n # 0 /\ n - 1 \in Nat /\ n - 1 < n
    OBVIOUS
  <2>5. n - 1 \in T
    BY <2>2, <2>3, <2>4
  <2> QED
    BY <2>4, <2>5
<1> QED
  BY <1>2

\* f is computed from a start, by a step a place.
Computed(f, N, start, step) ==
    f[0] = start /\ \A n \in 1 .. N : f[n] = step[n][f[n - 1]]

\* The function that a start and a step define on 0 .. N exists.
LEMMA Recursion ==
    ASSUME NEW N \in Nat, NEW S, NEW start \in S,
           NEW step \in [1 .. N -> [S -> S]]
    PROVE  \E f \in [0 .. N -> S] : Computed(f, N, start, step)
<1> DEFINE Reached == {k \in Nat : k <= N => \E f \in [0 .. N -> S] :
                                                Computed(f, k, start, step)}
<1>1. 0 \in Reached
  <2>1. [n \in 0 .. N |-> start] \in [0 .. N -> S]
    OBVIOUS
  <2>2. Computed([n \in 0 .. N |-> start], 0, start, step)
    BY DEF Computed
  <2> QED
    BY <2>1, <2>2
<1>2. ASSUME NEW k \in Nat, k \in Reached PROVE k + 1 \in Reached
  <2> SUFFICES ASSUME k + 1 <= N PROVE \E g \in [0 .. N -> S] : Computed(g, k + 1, start, step)
    OBVIOUS
  <2>1. PICK f \in [0 .. N -> S] : Computed(f, k, start, step)
    BY <1>2
  <2> DEFINE new == step[k + 1][f[k]]
             g == [f EXCEPT ![k + 1] = new]
  <2>2. f[k] \in S /\ step[k + 1] \in [S -> S]
    OBVIOUS
  <2>3. new \in S
    BY <2>2
  <2>4. g \in [0 .. N -> S] /\ g[k + 1] = new /\ \A n \in 0 .. k : g[n] = f[n]
    <3> HIDE DEF new
    <3> QED
      BY <2>3
  <2>5. Computed(g, k + 1, start, step)
    <3> HIDE DEF g
    <3>1. ASSUME NEW n \in 1 .. k + 1 PROVE g[n] = step[n][g[n - 1]]
      <4>1. CASE n = k + 1
        <5>1. n - 1 = k /\ k \in 0 .. k
          BY <4>1
        <5> QED
          BY <2>4, <4>1, <5>1
      <4>2. CASE n \in 1 .. k
        <5>1. n \in 0 .. k /\ n - 1 \in 0 .. k
          BY <4>2
        <5> QED
          BY <2>1, <2>4, <4>2, <5>1 DEF Computed
      <4> QED
        BY <4>1, <4>2
    <3> QED
      BY <2>1, <2>4, <3>1 DEF Computed
  <2> QED
    BY <2>4, <2>5
<1>3. N \in Reached
  <2> HIDE DEF Reached
  <2> QED
    BY <1>1, <1>2, Induction
<1> QED
  BY <1>3

LEMMA ShiftedIs ==
    ASSUME NEW value \in Nat, NEW width \in Nat
    PROVE  /\ Shifted(value, width)[0] = value
           /\ \A n \in 0 .. width : Shifted(value, width)[n] \in Nat
           /\ \A n \in 1 .. width :
                Shifted(value, width)[n] = Shifted(value, width)[n - 1] \div 256
<1> DEFINE step == [n \in 1 .. width |-> [v \in Nat |-> v \div 256]]
           Is(f) == f = [n \in 0 .. width |->
                           IF n = 0 THEN value ELSE f[n - 1] \div 256]
           g == Shifted(value, width)
<1>1. step \in [1 .. width -> [Nat -> Nat]]
  OBVIOUS
<1>2. \A n \in 1 .. width, v \in Nat : step[n][v] = v \div 256
  OBVIOUS
<1> HIDE DEF step
<1>3. PICK f \in [0 .. width -> Nat] : Computed(f, width, value, step)
  BY <1>1, Recursion
<1>4. Is(f)
  <2>1. ASSUME NEW n \in 1 .. width PROVE f[n] = f[n - 1] \div 256
    <3>1. f[n - 1] \in Nat
      OBVIOUS
    <3>2. f[n] = step[n][f[n - 1]]
      BY <1>3 DEF Computed
    <3> QED
      BY <1>2, <3>1, <3>2, Zenon
  <2>2. \A n \in 0 .. width : n = 0 \/ n \in 1 .. width
    OBVIOUS
  <2> QED
    BY <1>3, <2>1, <2>2 DEF Computed
<1>5. g = CHOOSE h : Is(h)
  BY DEF Shifted
<1>6. Is(g)
  <2> HIDE DEF Is, g
  <2> QED
    BY <1>4, <1>5
<1> HIDE DEF g
<1>7. g[0] = value /\ \A n \in 1 .. width : g[n] = g[n - 1] \div 256
  <2>1. 0 \in 0 .. width /\ \A n \in 1 .. width : n \in 0 .. width /\ n # 0
    OBVIOUS
  <2> QED
    BY <1>6, <2>1
<1>8. \A n \in 0 .. width : g[n] \in Nat
  <2> DEFINE T == {n \in Nat : n <= width => g[n] \in Nat}
  <2> HIDE DEF Is
  <2>1. 0 \in T
    BY <1>7
  <2>2. ASSUME NEW n \in Nat, n \in T PROVE n + 1 \in T
    <3> SUFFICES ASSUME n + 1 <= width PROVE g[n + 1] \in Nat
      OBVIOUS
    <3>1. n + 1 \in 1 .. width /\ (n + 1) - 1 = n /\ g[n] \in Nat
      BY <2>2
    <3> QED
      BY <1>7, <3>1
  <2>3. Nat \subseteq T
    <3> HIDE DEF T
    <3> QED
      BY <2>1, <2>2, Induction
  <2> QED
    BY <2>3
<1> QED
  BY <1>7, <1>8 DEF g

LEMMA BytesAreNumbers ==
    ASSUME NEW bytes \in Bytes
    PROVE  /\ Len(bytes) \in Nat
           /\ \A n \in 1 .. Len(bytes) : bytes[n] \in 0 .. 255
<1>1. bytes \in Seq(0 .. 255)
  BY DEF Bytes
<1> QED
  BY <1>1, ElementOfSeq, LenProperties

\* read[n] is what the first n of width bytes say.
ReadsBy(read, bytes, width) ==
    /\ ReadInt(bytes) = read[width] /\ read[0] = 0
    /\ \A n \in 0 .. width : read[n] \in Nat
    /\ \A n \in 1 .. width : read[n] = 256 * read[n - 1] + bytes[n]

LEMMA ReadIntIs ==
    ASSUME NEW bytes \in Bytes
    PROVE  \E read : ReadsBy(read, bytes, Len(bytes))
<1> DEFINE width == Len(bytes)
           step == [n \in 1 .. width |-> [v \in Nat |-> 256 * v + bytes[n]]]
           Is(f) == f = [n \in 0 .. width |->
                           IF n = 0 THEN 0 ELSE 256 * f[n - 1] + bytes[n]]
           g == CHOOSE h : Is(h)
<1>1. width \in Nat /\ \A n \in 1 .. width : bytes[n] \in Nat
  <2> HIDE DEF step, Is, g
  <2>1. width \in Nat /\ \A n \in 1 .. width : bytes[n] \in 0 .. 255
    BY BytesAreNumbers, Zenon
  <2> HIDE DEF width
  <2> QED
    BY <2>1
<1>2. ReadInt(bytes) = g[width]
  BY DEF ReadInt
<1> HIDE DEF width
<1>3. step \in [1 .. width -> [Nat -> Nat]]
  BY <1>1
<1>4. \A n \in 1 .. width, v \in Nat : step[n][v] = 256 * v + bytes[n]
  OBVIOUS
<1> HIDE DEF step
<1>5. PICK f \in [0 .. width -> Nat] : Computed(f, width, 0, step)
  BY <1>1, <1>3, Recursion
<1>6. Is(f)
  <2>1. ASSUME NEW n \in 1 .. width PROVE f[n] = 256 * f[n - 1] + bytes[n]
    <3>1. f[n - 1] \in Nat
      BY <1>1
    <3>2. f[n] = step[n][f[n - 1]]
      BY <1>5 DEF Computed
    <3> QED
      BY <1>4, <3>1, <3>2, Zenon
  <2>2. \A n \in 0 .. width : n = 0 \/ n \in 1 .. width
    BY <1>1
  <2> QED
    BY <1>5, <2>1, <2>2 DEF Computed
<1>7. Is(g)
  <2> HIDE DEF Is
  <2> QED
    BY <1>6
<1> HIDE DEF g
<1>8. g[0] = 0 /\ \A n \in 1 .. width : g[n] = 256 * g[n - 1] + bytes[n]
  <2>1. 0 \in 0 .. width /\ \A n \in 1 .. width : n \in 0 .. width /\ n # 0
    BY <1>1
  <2> QED
    BY <1>7, <2>1
<1>9. \A n \in 0 .. width : g[n] \in Nat
  <2> DEFINE T == {n \in Nat : n <= width => g[n] \in Nat}
  <2> HIDE DEF Is
  <2>1. 0 \in T
    BY <1>8
  <2>2. ASSUME NEW n \in Nat, n \in T PROVE n + 1 \in T
    <3> SUFFICES ASSUME n + 1 <= width PROVE g[n + 1] \in Nat
      OBVIOUS
    <3>1. n + 1 \in 1 .. width /\ (n + 1) - 1 = n /\ g[n] \in Nat
      BY <1>1, <2>2
    <3>2. g[n + 1] = 256 * g[n] + bytes[n + 1] /\ bytes[n + 1] \in Nat
      BY <1>1, <1>8, <3>1
    <3> QED
      BY <3>1, <3>2
  <2>3. Nat \subseteq T
    <3> HIDE DEF T
    <3> QED
      BY <2>1, <2>2, Induction
  <2> QED
    BY <1>1, <2>3
<1> QED
  BY <1>2, <1>8, <1>9 DEF width, ReadsBy

LEMMA PutDigit ==
    \A x \in Nat, y \in Nat, v \in Nat :
        y = x \div 256 /\ v = 256 * y + (x % 256) => v = x
OBVIOUS

LEMMA BigEndianBytes ==
    ASSUME NEW value \in Nat, NEW width \in Nat
    PROVE  /\ BigEndian(value, width) \in Bytes
           /\ Len(BigEndian(value, width)) = width
           /\ \A i \in 1 .. width : BigEndian(value, width)[i] =
                                       Shifted(value, width)[width - i] % 256
<1>1. \A i \in 1 .. width : width - i \in 0 .. width
  OBVIOUS
<1>2. \A i \in 1 .. width : Shifted(value, width)[width - i] % 256 \in 0 .. 255
  <2>1. \A x \in Nat : x % 256 \in 0 .. 255
    OBVIOUS
  <2> QED
    BY <1>1, <2>1, ShiftedIs
<1>3. BigEndian(value, width) \in [1 .. width -> 0 .. 255]
  BY <1>2 DEF BigEndian
<1> QED
  BY <1>3 DEF BigEndian, Bytes

\* Reading back what was written, for a value that fits.
LEMMA ReadBigEndian ==
    ASSUME NEW value \in Nat, NEW width \in Nat, Fits(value, width)
    PROVE  ReadInt(BigEndian(value, width)) = value
<1> DEFINE bytes == BigEndian(value, width)
           rest == Shifted(value, width)
<1>1. /\ rest[0] = value /\ rest[width] = 0
      /\ \A n \in 0 .. width : rest[n] \in Nat
      /\ \A n \in 1 .. width : rest[n] = rest[n - 1] \div 256
  BY ShiftedIs DEF Fits
<1>2. /\ bytes \in Bytes /\ Len(bytes) = width
      /\ \A i \in 1 .. width : bytes[i] = rest[width - i] % 256
  BY BigEndianBytes
<1> HIDE DEF bytes, rest
<1>3. PICK read : ReadsBy(read, bytes, width)
  BY <1>2, ReadIntIs
<1>4. Nat \subseteq {n \in Nat : n <= width => read[n] = rest[width - n]}
  <2> DEFINE T == {n \in Nat : n <= width => read[n] = rest[width - n]}
  <2>1. 0 \in T
    BY <1>1, <1>3 DEF ReadsBy
  <2>2. ASSUME NEW n \in Nat, n \in T PROVE n + 1 \in T
    <3> SUFFICES ASSUME n + 1 <= width PROVE read[n + 1] = rest[width - (n + 1)]
      OBVIOUS
    <3> DEFINE k == width - n
    <3>1. n + 1 \in 1 .. width /\ (n + 1) - 1 = n /\ k \in 1 .. width
           /\ k - 1 \in 0 .. width /\ width - (n + 1) = k - 1
      OBVIOUS
    <3>2. read[n] = rest[k]
      BY <2>2
    <3> HIDE DEF k
    <3>3. read[n + 1] = 256 * rest[k] + (rest[k - 1] % 256)
      <4>1. bytes[n + 1] = rest[k - 1] % 256
        BY <1>2, <3>1
      <4> QED
        BY <1>3, <3>1, <3>2, <4>1 DEF ReadsBy
    <3>4. rest[k] = rest[k - 1] \div 256 /\ rest[k - 1] \in Nat
      BY <1>1, <3>1
    <3>5. read[n + 1] = rest[k - 1]
      <4>1. n + 1 \in 0 .. width /\ k \in 0 .. width
        BY <3>1
      <4>2. read[n + 1] \in Nat /\ rest[k] \in Nat
        BY <1>1, <1>3, <4>1 DEF ReadsBy
      <4> QED
        BY <3>3, <3>4, <4>2, PutDigit
    <3> QED
      BY <3>1, <3>5
  <2> HIDE DEF T
  <2>3. Nat \subseteq T
    BY <2>1, <2>2, Induction
  <2> QED
    BY <2>3 DEF T
<1>5. read[width] = rest[0]
  BY <1>4
<1> QED
  BY <1>1, <1>3, <1>5 DEF bytes, ReadsBy

\* Writing what was read gives the bytes back, and what was read fits.
LEMMA WriteReadInt ==
    ASSUME NEW bytes \in Bytes, NEW width \in Nat, Len(bytes) = width
    PROVE  /\ ReadInt(bytes) \in Nat
           /\ Fits(ReadInt(bytes), width)
           /\ BigEndian(ReadInt(bytes), width) = bytes
<1> DEFINE value == ReadInt(bytes)
           rest == Shifted(value, width)
<1>1. \A n \in 1 .. width : bytes[n] \in 0 .. 255
  BY BytesAreNumbers
<1>2. PICK read : ReadsBy(read, bytes, width)
  BY ReadIntIs
<1>3. value \in Nat
  BY <1>2 DEF ReadsBy
<1> HIDE DEF value
<1>4. /\ rest[0] = value
      /\ \A n \in 1 .. width : rest[n] = rest[n - 1] \div 256
  BY <1>3, ShiftedIs
<1> HIDE DEF rest
<1>6. \A n \in 1 .. width : read[n] \div 256 = read[n - 1] /\ read[n] % 256 = bytes[n]
  <2> TAKE n \in 1 .. width
  <2>1. n - 1 \in 0 .. width /\ read[n - 1] \in Nat /\ read[n] \in Nat
    BY <1>2 DEF ReadsBy
  <2>2. read[n] = 256 * read[n - 1] + bytes[n] /\ bytes[n] \in 0 .. 255
    BY <1>1, <1>2 DEF ReadsBy
  <2> DEFINE v == read[n]
             x == read[n - 1]
             b == bytes[n]
  <2>3. x \in Nat /\ b \in 0 .. 255 /\ v \in Nat /\ v = 256 * x + b
    BY <2>1, <2>2
  <2> HIDE DEF v, x, b
  <2>4. v \div 256 = x /\ v % 256 = b
    BY <2>3
  <2> QED
    BY <2>4 DEF v, x, b
<1>7. Nat \subseteq {n \in Nat : n <= width => rest[n] = read[width - n]}
  <2> DEFINE T == {n \in Nat : n <= width => rest[n] = read[width - n]}
  <2>1. 0 \in T
    BY <1>2, <1>4 DEF ReadsBy, value
  <2>2. ASSUME NEW n \in Nat, n \in T PROVE n + 1 \in T
    <3> SUFFICES ASSUME n + 1 <= width PROVE rest[n + 1] = read[width - (n + 1)]
      OBVIOUS
    <3>1. n + 1 \in 1 .. width /\ (n + 1) - 1 = n /\ width - n \in 1 .. width
           /\ width - (n + 1) = (width - n) - 1
      OBVIOUS
    <3>2. rest[n] = read[width - n]
      BY <2>2
    <3>3. rest[n + 1] = rest[n] \div 256
      BY <1>4, <3>1
    <3>4. read[width - n] \div 256 = read[(width - n) - 1]
      BY <1>6, <3>1
    <3> QED
      BY <3>1, <3>2, <3>3, <3>4
  <2> HIDE DEF T
  <2>3. Nat \subseteq T
    BY <2>1, <2>2, Induction
  <2> QED
    BY <2>3 DEF T
<1>8. rest[width] = 0
  BY <1>2, <1>7 DEF ReadsBy
<1>9. \A i \in 1 .. width : rest[width - i] % 256 = bytes[i]
  <2> TAKE i \in 1 .. width
  <2>1. width - i \in Nat /\ width - i <= width /\ width - (width - i) = i
    OBVIOUS
  <2>2. rest[width - i] = read[i]
    BY <1>7, <2>1
  <2> QED
    BY <1>6, <2>2
<1>10. BigEndian(ReadInt(bytes), width) = bytes
  <2>1. bytes \in Seq(0 .. 255)
    BY DEF Bytes
  <2>2. bytes = [i \in 1 .. width |-> bytes[i]]
    BY <2>1, LenProperties
  <2>3. BigEndian(ReadInt(bytes), width) = [i \in 1 .. width |-> rest[width - i] % 256]
    BY DEF BigEndian, rest, value
  <2> QED
    BY <1>9, <2>2, <2>3
<1> QED
  BY <1>3, <1>8, <1>10 DEF Fits, rest, value

------------------------------------------------------------------------------
(* Bytes put together and taken apart. *)

LEMMA BytesEqual ==
    ASSUME NEW s \in Bytes, NEW t \in Bytes, Len(s) = Len(t),
           \A i \in 1 .. Len(s) : s[i] = t[i]
    PROVE  s = t
BY SeqEqual DEF Bytes

LEMMA Joined ==
    ASSUME NEW s \in Bytes, NEW t \in Bytes
    PROVE  /\ s \o t \in Bytes
           /\ Len(s \o t) = Len(s) + Len(t)
           /\ \A i \in 1 .. Len(s) : (s \o t)[i] = s[i]
           /\ \A i \in 1 .. Len(t) : (s \o t)[Len(s) + i] = t[i]
<1>1. s \in Seq(0 .. 255) /\ t \in Seq(0 .. 255)
  BY DEF Bytes
<1>2. Len(s) \in Nat /\ Len(t) \in Nat
  BY <1>1, LenProperties
<1>3. /\ s \o t \in Seq(0 .. 255)
      /\ Len(s \o t) = Len(s) + Len(t)
      /\ \A i \in 1 .. Len(s) + Len(t) :
           (s \o t)[i] = IF i <= Len(s) THEN s[i] ELSE t[i - Len(s)]
  BY <1>1, ConcatProperties
<1>4. \A i \in 1 .. Len(t) : Len(s) + i \in 1 .. Len(s) + Len(t)
                            /\ ~(Len(s) + i <= Len(s)) /\ (Len(s) + i) - Len(s) = i
  BY <1>2
<1>5. \A i \in 1 .. Len(s) : i \in 1 .. Len(s) + Len(t) /\ i <= Len(s)
  BY <1>2
<1> QED
  BY <1>3, <1>4, <1>5 DEF Bytes

LEMMA Part ==
    ASSUME NEW s \in Bytes, NEW m \in Nat \ {0}, NEW n \in 0 .. Len(s), m <= n + 1
    PROVE  /\ SubSeq(s, m, n) \in Bytes
           /\ Len(SubSeq(s, m, n)) = n + 1 - m
           /\ \A i \in 1 .. n + 1 - m : SubSeq(s, m, n)[i] = s[m + i - 1]
<1>1. Len(s) \in Nat /\ \A i \in 1 .. Len(s) : s[i] \in 0 .. 255
  BY BytesAreNumbers
<1>2. \A i \in m .. n : s[i] \in 0 .. 255
  BY <1>1
<1>3. m \in Int /\ n \in Int /\ n - m + 1 = n + 1 - m
       /\ (IF m <= n THEN n - m + 1 ELSE 0) = n + 1 - m
  BY <1>1
<1>4. /\ SubSeq(s, m, n) \in Seq(0 .. 255)
      /\ Len(SubSeq(s, m, n)) = IF m <= n THEN n - m + 1 ELSE 0
      /\ \A i \in 1 .. n - m + 1 : SubSeq(s, m, n)[i] = s[m + i - 1]
  BY <1>2, <1>3, SubSeqProperties
<1> QED
  BY <1>3, <1>4 DEF Bytes

\* What was joined is found again.
LEMMA JoinedParts ==
    ASSUME NEW s \in Bytes, NEW t \in Bytes
    PROVE  /\ SubSeq(s \o t, 1, Len(s)) = s
           /\ SubSeq(s \o t, Len(s) + 1, Len(s \o t)) = t
<1> DEFINE m == Len(s)
           n == Len(s \o t)
<1>1. Len(s) \in Nat /\ Len(t) \in Nat
  BY BytesAreNumbers
<1>2. /\ s \o t \in Bytes /\ Len(s \o t) = Len(s) + Len(t)
      /\ \A i \in 1 .. Len(s) : (s \o t)[i] = s[i]
      /\ \A i \in 1 .. Len(t) : (s \o t)[Len(s) + i] = t[i]
  BY Joined
<1> DEFINE u == s \o t
<1>3. /\ u \in Bytes /\ n = m + Len(t) /\ n = Len(u) /\ m \in Nat /\ n \in Nat
      /\ \A i \in 1 .. m : u[i] = s[i]
      /\ \A i \in 1 .. Len(t) : u[m + i] = t[i]
  BY <1>1, <1>2
<1>0. Len(s) = m
  OBVIOUS
<1> HIDE DEF u, m, n
<1>4. SubSeq(u, 1, m) = s
  <2>1. m \in 0 .. Len(u) /\ 1 \in Nat \ {0} /\ 1 <= m + 1
    BY <1>1, <1>3
  <2>2. /\ SubSeq(u, 1, m) \in Bytes
        /\ Len(SubSeq(u, 1, m)) = m + 1 - 1
        /\ \A i \in 1 .. m + 1 - 1 : SubSeq(u, 1, m)[i] = u[1 + i - 1]
    BY <1>3, <2>1, Part
  <2>3. m + 1 - 1 = m /\ \A i \in 1 .. m : 1 + i - 1 = i
    BY <1>3
  <2>4. \A i \in 1 .. m : SubSeq(u, 1, m)[i] = s[i]
    BY <1>3, <2>2, <2>3
  <2> QED
    BY <1>0, <2>2, <2>3, <2>4, BytesEqual
<1>5. SubSeq(u, m + 1, n) = t
  <2>1. n \in 0 .. Len(u) /\ m + 1 \in Nat \ {0} /\ m + 1 <= n + 1
    BY <1>1, <1>3
  <2>2. /\ SubSeq(u, m + 1, n) \in Bytes
        /\ Len(SubSeq(u, m + 1, n)) = n + 1 - (m + 1)
        /\ \A i \in 1 .. n + 1 - (m + 1) : SubSeq(u, m + 1, n)[i] = u[m + 1 + i - 1]
    BY <1>3, <2>1, Part
  <2>3. n + 1 - (m + 1) = Len(t) /\ \A i \in 1 .. Len(t) : m + 1 + i - 1 = m + i
    BY <1>1, <1>3
  <2>4. \A i \in 1 .. Len(t) : SubSeq(u, m + 1, n)[i] = t[i]
    BY <1>3, <2>2, <2>3
  <2> QED
    BY <2>2, <2>3, <2>4, BytesEqual
<1> QED
  BY <1>4, <1>5 DEF u, m, n

\* Two parts that follow each other make the whole.
LEMMA PartsJoined ==
    ASSUME NEW s \in Bytes, NEW m \in 0 .. Len(s)
    PROVE  SubSeq(s, 1, m) \o SubSeq(s, m + 1, Len(s)) = s
<1>1. Len(s) \in Nat /\ s \in Seq(0 .. 255)
  BY BytesAreNumbers DEF Bytes
<1>2. 1 \in 1 .. Len(s) + 1 /\ m \in (1 - 1) .. Len(s) /\ Len(s) \in m .. Len(s)
  BY <1>1
<1>3. SubSeq(s, 1, m) \o SubSeq(s, m + 1, Len(s)) = SubSeq(s, 1, Len(s))
  BY <1>1, <1>2, ConcatAdjacentSubSeq
<1> QED
  BY <1>1, <1>3, SubSeqFull

LEMMA OneByte ==
    ASSUME NEW b \in 0 .. 255
    PROVE  <<b>> \in Bytes /\ Len(<<b>>) = 1 /\ <<b>>[1] = b
BY DEF Bytes

LEMMA NoBytes == <<>> \in Bytes /\ Len(<<>>) = 0
BY DEF Bytes

LEMMA HeadAndTail ==
    ASSUME NEW b \in 0 .. 255, NEW s \in Bytes
    PROVE  /\ <<b>> \o s \in Bytes /\ <<b>> \o s # <<>>
           /\ Head(<<b>> \o s) = b /\ Tail(<<b>> \o s) = s
<1>1. <<b>> \in Bytes /\ Len(<<b>>) = 1 /\ <<b>>[1] = b
  BY OneByte
<1>2. /\ <<b>> \o s \in Bytes /\ Len(<<b>> \o s) = 1 + Len(s)
      /\ (<<b>> \o s)[1] = b
      /\ \A i \in 1 .. Len(s) : (<<b>> \o s)[1 + i] = s[i]
  BY <1>1, Joined
<1>3. Len(s) \in Nat
  BY BytesAreNumbers
<1>4. <<b>> \o s # <<>>
  BY <1>2, <1>3, NoBytes
<1>5. <<b>> \o s \in Seq(0 .. 255)
  BY <1>2 DEF Bytes
<1>6. Head(<<b>> \o s) = b
  BY <1>2, <1>5
<1>7. /\ Tail(<<b>> \o s) \in Seq(0 .. 255)
      /\ Len(Tail(<<b>> \o s)) = Len(<<b>> \o s) - 1
      /\ \A i \in 1 .. Len(Tail(<<b>> \o s)) :
           Tail(<<b>> \o s)[i] = (<<b>> \o s)[i + 1]
  BY <1>4, <1>5, HeadTailProperties
<1>8. Len(Tail(<<b>> \o s)) = Len(s) /\ \A i \in 1 .. Len(s) : i + 1 = 1 + i
  BY <1>2, <1>3, <1>7
<1>9. Tail(<<b>> \o s) = s
  BY <1>2, <1>7, <1>8, BytesEqual DEF Bytes
<1> QED
  BY <1>2, <1>4, <1>6, <1>9

LEMMA FirstByte ==
    ASSUME NEW bytes \in Bytes, bytes # <<>>
    PROVE  /\ Head(bytes) \in 0 .. 255 /\ Tail(bytes) \in Bytes
           /\ Len(Tail(bytes)) = Len(bytes) - 1
           /\ <<Head(bytes)>> \o Tail(bytes) = bytes
<1>1. bytes \in Seq(0 .. 255) /\ Len(bytes) \in Nat
  BY BytesAreNumbers DEF Bytes
<1>2. /\ Head(bytes) \in 0 .. 255 /\ Tail(bytes) \in Seq(0 .. 255)
      /\ Len(Tail(bytes)) = Len(bytes) - 1
      /\ \A i \in 1 .. Len(Tail(bytes)) : Tail(bytes)[i] = bytes[i + 1]
  BY <1>1, HeadTailProperties
<1>3. Len(bytes) >= 1 /\ Head(bytes) = bytes[1]
  BY <1>1
<1>4. <<Head(bytes)>> \o Tail(bytes) = bytes
  <2> DEFINE b == Head(bytes)
             s == Tail(bytes)
  <2>1. b \in 0 .. 255 /\ s \in Bytes /\ Len(s) = Len(bytes) - 1
        /\ \A i \in 1 .. Len(s) : s[i] = bytes[i + 1]
    BY <1>2 DEF Bytes
  <2>2. b = bytes[1]
    BY <1>3
  <2> HIDE DEF b, s
  <2>3. <<b>> \in Bytes /\ Len(<<b>>) = 1 /\ <<b>>[1] = b
    BY <2>1, OneByte
  <2>4. /\ <<b>> \o s \in Bytes /\ Len(<<b>> \o s) = 1 + Len(s)
        /\ (<<b>> \o s)[1] = b
        /\ \A i \in 1 .. Len(s) : (<<b>> \o s)[1 + i] = s[i]
    BY <2>1, <2>3, Joined
  <2>5. Len(<<b>> \o s) = Len(bytes)
    BY <1>1, <2>1, <2>4
  <2>6. ASSUME NEW i \in 1 .. Len(bytes) PROVE (<<b>> \o s)[i] = bytes[i]
    <3>1. CASE i = 1
      BY <2>2, <2>4, <3>1
    <3>2. CASE i # 1
      <4>1. i - 1 \in 1 .. Len(s) /\ 1 + (i - 1) = i /\ (i - 1) + 1 = i
        BY <1>1, <2>1, <3>2
      <4> QED
        BY <2>1, <2>4, <4>1
    <3> QED
      BY <3>1, <3>2
  <2>7. <<b>> \o s = bytes
    BY <2>4, <2>5, <2>6, BytesEqual
  <2> QED
    BY <2>7 DEF b, s
<1> QED
  BY <1>2, <1>4 DEF Bytes

LEMMA JoinedAlong ==
    ASSUME NEW s \in Bytes, NEW t \in Bytes, NEW u \in Bytes
    PROVE  (s \o t) \o u = s \o (t \o u)
BY ConcatAssociative DEF Bytes

\* A part, a byte and another part.
Consists(u, s, b, t) ==
    /\ s \in Bytes /\ b \in 0 .. 255 /\ t \in Bytes
    /\ u = (s \o <<b>>) \o t

LEMMA ThreeParts ==
    ASSUME NEW u, NEW s, NEW b, NEW t, Consists(u, s, b, t)
    PROVE  /\ u \in Bytes /\ Len(u) = Len(s) + 1 + Len(t)
           /\ SubSeq(u, 1, Len(s)) = s /\ u[Len(s) + 1] = b
           /\ SubSeq(u, Len(s) + 2, Len(u)) = t
<1>0. s \in Bytes /\ b \in 0 .. 255 /\ t \in Bytes /\ u = (s \o <<b>>) \o t
  BY DEF Consists
<1> DEFINE m == Len(s)
<1>1. m \in Nat /\ Len(t) \in Nat
  BY <1>0, BytesAreNumbers
<1>2. <<b>> \in Bytes /\ Len(<<b>>) = 1 /\ <<b>>[1] = b
  BY <1>0, OneByte
<1> DEFINE first == s \o <<b>>
           last == <<b>> \o t
<1>3. /\ first \in Bytes /\ Len(first) = m + 1 /\ first[m + 1] = b
  <2>1. 1 \in 1 .. Len(<<b>>)
    BY <1>2
  <2> QED
    BY <1>0, <1>2, <2>1, Joined
<1>4. last \in Bytes
  BY <1>0, <1>2, Joined
<1>5. u = first \o t /\ u = s \o last
  <2>1. s \in Seq(0 .. 255) /\ <<b>> \in Seq(0 .. 255) /\ t \in Seq(0 .. 255)
    BY <1>0, <1>2 DEF Bytes
  <2>2. (s \o <<b>>) \o t = s \o (<<b>> \o t)
    BY <2>1, ConcatAssociative
  <2> QED
    BY <1>0, <2>2
<1> HIDE DEF first, last, m
<1>6. /\ u \in Bytes /\ Len(u) = m + 1 + Len(t)
      /\ \A i \in 1 .. m + 1 : u[i] = first[i]
  <2>1. /\ first \o t \in Bytes /\ Len(first \o t) = Len(first) + Len(t)
        /\ \A i \in 1 .. Len(first) : (first \o t)[i] = first[i]
    BY <1>0, <1>3, Joined
  <2> QED
    BY <1>3, <1>5, <2>1
<1>7. SubSeq(u, 1, m) = s
  BY <1>0, <1>4, <1>5, JoinedParts DEF m
<1>8. SubSeq(u, (m + 1) + 1, Len(u)) = t
  <2>1. SubSeq(first \o t, Len(first) + 1, Len(first \o t)) = t
    BY <1>0, <1>3, <1>5, JoinedParts
  <2> QED
    BY <1>3, <1>5, <2>1
<1>9. (m + 1) + 1 = m + 2 /\ m + 1 \in 1 .. m + 1
  BY <1>1
<1> QED
  BY <1>3, <1>6, <1>7, <1>8, <1>9 DEF m

LEMMA ThreePartsJoined ==
    ASSUME NEW u \in Bytes, NEW m \in Nat, m + 1 <= Len(u)
    PROVE  /\ SubSeq(u, 1, m) \in Bytes /\ Len(SubSeq(u, 1, m)) = m
           /\ u[m + 1] \in 0 .. 255
           /\ SubSeq(u, m + 2, Len(u)) \in Bytes
           /\ Len(SubSeq(u, m + 2, Len(u))) = Len(u) - m - 1
           /\ u = (SubSeq(u, 1, m) \o <<u[m + 1]>>) \o SubSeq(u, m + 2, Len(u))
<1>1. Len(u) \in Nat /\ u \in Seq(0 .. 255) /\ \A i \in 1 .. Len(u) : u[i] \in 0 .. 255
  BY BytesAreNumbers DEF Bytes
<1>2. m \in 0 .. Len(u) /\ m + 1 \in 0 .. Len(u) /\ m + 1 \in 1 .. Len(u)
  BY <1>1
<1>3. SubSeq(u, 1, m) \in Bytes /\ Len(SubSeq(u, 1, m)) = m
  <2>1. 1 \in Nat \ {0} /\ 1 <= m + 1 /\ m + 1 - 1 = m
    BY SMTT(30)
  <2> QED
    BY <1>2, <2>1, Part
<1>4. SubSeq(u, m + 2, Len(u)) \in Bytes /\ Len(SubSeq(u, m + 2, Len(u))) = Len(u) - m - 1
  <2>1. m + 2 \in Nat \ {0} /\ m + 2 <= Len(u) + 1 /\ Len(u) + 1 - (m + 2) = Len(u) - m - 1
        /\ Len(u) \in 0 .. Len(u)
    BY <1>1
  <2> QED
    BY <2>1, Part
<1>5. SubSeq(u, 1, m) \o <<u[m + 1]>> = SubSeq(u, 1, m + 1)
  <2>1. 1 \in 1 .. Len(u) /\ m + 1 \in 1 .. Len(u) /\ (m + 1) - 1 = m
    BY <1>1, <1>2
  <2>2. SubSeq(u, 1, m + 1) = SubSeq(u, 1, (m + 1) - 1) \o <<u[m + 1]>>
    BY <1>1, <2>1, SubSeqRecursiveSecond
  <2> QED
    BY <2>1, <2>2
<1>6. SubSeq(u, 1, m + 1) \o SubSeq(u, (m + 1) + 1, Len(u)) = u
  BY <1>2, PartsJoined
<1>7. (m + 1) + 1 = m + 2
  OBVIOUS
<1> QED
  BY <1>1, <1>2, <1>3, <1>4, <1>5, <1>6, <1>7

LEMMA WholeIsPart ==
    ASSUME NEW u \in Bytes, NEW n, n = Len(u)
    PROVE  SubSeq(u, 1, n) = u
BY SubSeqFull DEF Bytes

------------------------------------------------------------------------------
(* Opcodes. *)

LEMMA OpcodesDiffer ==
    /\ \A op \in DOMAIN Opcode : Opcode[op] \in 0 .. 255
    /\ \A op1, op2 \in DOMAIN Opcode : Opcode[op1] = Opcode[op2] => op1 = op2
BY DEF Opcode

LEMMA ServerOpcodesDiffer ==
    /\ \A op \in DOMAIN ServerOpcode : ServerOpcode[op] \in 0 .. 255
    /\ \A op1, op2 \in DOMAIN ServerOpcode :
         ServerOpcode[op1] = ServerOpcode[op2] => op1 = op2
BY DEF ServerOpcode

\* A decoder reads an opcode back and looks at what follows it.
LEMMA ServerDecodes ==
    ASSUME NEW op \in DOMAIN ServerOpcode, NEW payload \in Bytes
    PROVE  DecodeServer(<<ServerOpcode[op]>> \o payload) =
             IF Valid(op, payload) THEN Fields(op, payload) ELSE Malformed("Invalid")
<1> DEFINE bytes == <<ServerOpcode[op]>> \o payload
           read == CHOOSE o \in DOMAIN ServerOpcode : ServerOpcode[o] = Head(bytes)
<1>1. bytes # <<>> /\ Head(bytes) = ServerOpcode[op] /\ Tail(bytes) = payload
  BY HeadAndTail, ServerOpcodesDiffer
<1> HIDE DEF bytes
<1>2. read = op
  <2>1. read \in DOMAIN ServerOpcode /\ ServerOpcode[read] = Head(bytes)
    BY <1>1
  <2> QED
    BY <1>1, <2>1, ServerOpcodesDiffer
<1>3. ~ \A o \in DOMAIN ServerOpcode : ServerOpcode[o] # Head(bytes)
  BY <1>1
<1>4. DecodeServer(bytes) = IF Valid(read, Tail(bytes)) THEN Fields(read, Tail(bytes))
                            ELSE Malformed("Invalid")
  BY <1>1, <1>3 DEF DecodeServer
<1> HIDE DEF read
<1> QED
  BY <1>1, <1>2, <1>4 DEF bytes

LEMMA ServerDecoded ==
    ASSUME NEW bytes \in Bytes, IsFrame(DecodeServer(bytes))
    PROVE  \E op \in DOMAIN ServerOpcode, payload \in Bytes :
             /\ bytes = <<ServerOpcode[op]>> \o payload
             /\ Valid(op, payload) /\ DecodeServer(bytes) = Fields(op, payload)
<1>1. \A error : ~IsFrame(Malformed(error))
  BY DEF IsFrame, Malformed
<1>2. bytes # <<>>
  BY <1>1 DEF DecodeServer
<1>3. PICK op \in DOMAIN ServerOpcode : ServerOpcode[op] = Head(bytes)
  BY <1>1, <1>2 DEF DecodeServer
<1>4. Tail(bytes) \in Bytes /\ bytes = <<ServerOpcode[op]>> \o Tail(bytes)
  BY <1>2, <1>3, FirstByte
<1>5. DecodeServer(bytes) = IF Valid(op, Tail(bytes)) THEN Fields(op, Tail(bytes))
                            ELSE Malformed("Invalid")
  BY <1>4, ServerDecodes
<1>6. Valid(op, Tail(bytes))
  BY <1>1, <1>5
<1> QED
  BY <1>4, <1>5, <1>6

------------------------------------------------------------------------------
(* Client frames. *)

LEMMA ClientDecodes ==
    ASSUME NEW op \in DOMAIN Opcode, NEW payload \in Bytes, NEW bytes,
           bytes = <<Opcode[op]>> \o payload
    PROVE  /\ bytes # <<>> /\ Tail(bytes) = payload
           /\ ~ \A o \in DOMAIN Opcode : Opcode[o] # Head(bytes)
           /\ (CHOOSE o \in DOMAIN Opcode : Opcode[o] = Head(bytes)) = op
<1> DEFINE read == CHOOSE o \in DOMAIN Opcode : Opcode[o] = Head(bytes)
<1>1. bytes # <<>> /\ Head(bytes) = Opcode[op] /\ Tail(bytes) = payload
  BY HeadAndTail, OpcodesDiffer
<1>2. read \in DOMAIN Opcode /\ Opcode[read] = Head(bytes)
  BY <1>1
<1>3. read = op
  BY <1>1, <1>2, OpcodesDiffer
<1> QED
  BY <1>1, <1>3

LEMMA ClientOps ==
    DOMAIN Opcode = {"FIND", "CANCEL", "MESSAGE", "LEAVE", "PING", "CLOSE"}
BY DEF Opcode

\* Every client frame that encode_client accepts is what decode_client makes of
\* its bytes.
THEOREM ClientRoundTrip ==
    RoundTrips(ClientFrames, EncodableClient, EncodeClient, DecodeClient)
<1> SUFFICES ASSUME NEW frame \in ClientFrames, EncodableClient(frame)
             PROVE  DecodeClient(EncodeClient(frame)) = frame
  BY DEF RoundTrips
<1> DEFINE bytes == EncodeClient(frame)
<1>1. CASE frame \in [op : {"FIND", "CANCEL", "LEAVE", "CLOSE"}]
  <2> PICK op \in {"FIND", "CANCEL", "LEAVE", "CLOSE"} : frame = [op |-> op]
    BY <1>1
  <2>1. frame.op = op /\ op \in DOMAIN Opcode /\ op # "MESSAGE" /\ op # "PING"
    BY ClientOps
  <2>2. bytes = <<Opcode[op]>> \o <<>>
    BY <2>1 DEF EncodeClient
  <2> HIDE DEF bytes
  <2>3. DecodeClient(bytes) = [op |-> op]
    BY <2>1, <2>2, NoBytes, ClientDecodes DEF DecodeClient
  <2> QED
    BY <2>3 DEF bytes
<1>2. CASE frame \in [op : {"MESSAGE"}, payload : Bytes]
  <2> PICK payload \in Bytes : frame = [op |-> "MESSAGE", payload |-> payload]
    BY <1>2
  <2>1. frame.op = "MESSAGE" /\ frame.payload = payload /\ "MESSAGE" \in DOMAIN Opcode
    BY ClientOps
  <2>2. bytes = <<Opcode["MESSAGE"]>> \o payload
    BY <2>1 DEF EncodeClient
  <2>3. Len(payload) <= MaxMessageSize /\ IsText(payload)
    BY <2>1 DEF EncodableClient
  <2>4. ~(Len(payload) > MaxMessageSize)
    BY <2>3, BytesAreNumbers, CodecAssumption
  <2> HIDE DEF bytes
  <2>5. DecodeClient(bytes) = [op |-> "MESSAGE", payload |-> payload]
    <3>1. /\ bytes # <<>> /\ Tail(bytes) = payload
          /\ ~ \A o \in DOMAIN Opcode : Opcode[o] # Head(bytes)
          /\ (CHOOSE o \in DOMAIN Opcode : Opcode[o] = Head(bytes)) = "MESSAGE"
      BY <2>1, <2>2, ClientDecodes
    <3> QED
      BY <2>3, <2>4, <3>1 DEF DecodeClient
  <2> QED
    BY <2>5 DEF bytes
<1>3. CASE frame \in [op : {"PING"}, value : Values(LongWidth)]
  <2> PICK value \in Values(LongWidth) : frame = [op |-> "PING", value |-> value]
    BY <1>3
  <2>1. frame.op = "PING" /\ frame.value = value /\ "PING" \in DOMAIN Opcode
    BY ClientOps
  <2> DEFINE payload == BigEndian(value, LongWidth)
  <2>2. bytes = <<Opcode["PING"]>> \o payload
    BY <2>1 DEF EncodeClient
  <2>3. value \in Nat /\ Fits(value, LongWidth) /\ LongWidth \in Nat
    BY CodecAssumption DEF Values
  <2>4. payload \in Bytes /\ Len(payload) = LongWidth /\ ReadInt(payload) = value
    BY <2>3, BigEndianBytes, ReadBigEndian
  <2> HIDE DEF bytes, payload
  <2>5. DecodeClient(bytes) = [op |-> "PING", value |-> ReadInt(payload)]
    <3>1. /\ bytes # <<>> /\ Tail(bytes) = payload
          /\ ~ \A o \in DOMAIN Opcode : Opcode[o] # Head(bytes)
          /\ (CHOOSE o \in DOMAIN Opcode : Opcode[o] = Head(bytes)) = "PING"
      BY <2>1, <2>2, <2>4, ClientDecodes
    <3> QED
      BY <2>4, <3>1 DEF DecodeClient
  <2> QED
    BY <2>4, <2>5 DEF bytes
<1> QED
  BY <1>1, <1>2, <1>3 DEF ClientFrames

\* What decode_client accepts is the one encoding of a frame encode_client
\* accepts: nothing cut short, too long or out of range passes.
THEOREM ClientCanonical ==
    /\ IsCanonical(Bytes, EncodableClient, EncodeClient, DecodeClient)
    /\ \A bytes \in Bytes :
         IsFrame(DecodeClient(bytes)) => DecodeClient(bytes) \in ClientFrames
<1> SUFFICES ASSUME NEW bytes \in Bytes, IsFrame(DecodeClient(bytes))
             PROVE  /\ EncodableClient(DecodeClient(bytes))
                    /\ EncodeClient(DecodeClient(bytes)) = bytes
                    /\ DecodeClient(bytes) \in ClientFrames
  BY DEF IsCanonical
<1>1. \A error : ~IsFrame(Malformed(error))
  BY DEF IsFrame, Malformed
<1>2. bytes # <<>>
  BY <1>1 DEF DecodeClient
<1>3. PICK op \in DOMAIN Opcode : Opcode[op] = Head(bytes)
  BY <1>1, <1>2 DEF DecodeClient
<1> DEFINE payload == Tail(bytes)
<1>4. payload \in Bytes /\ bytes = <<Opcode[op]>> \o payload
  BY <1>2, <1>3, FirstByte
<1> HIDE DEF payload
<1>5. /\ bytes # <<>> /\ Tail(bytes) = payload
      /\ ~ \A o \in DOMAIN Opcode : Opcode[o] # Head(bytes)
      /\ (CHOOSE o \in DOMAIN Opcode : Opcode[o] = Head(bytes)) = op
  BY <1>4, ClientDecodes
<1>6. CASE op \in {"FIND", "CANCEL", "LEAVE", "CLOSE"}
  <2>1. payload = <<>> /\ DecodeClient(bytes) = [op |-> op]
    BY <1>1, <1>5, <1>6 DEF DecodeClient
  <2>2. EncodeClient([op |-> op]) = <<Opcode[op]>> \o <<>>
    BY <1>6 DEF EncodeClient
  <2>3. EncodableClient([op |-> op]) /\ [op |-> op] \in ClientFrames
    BY <1>6 DEF EncodableClient, ClientFrames
  <2> QED
    BY <1>4, <2>1, <2>2, <2>3
<1>7. CASE op = "MESSAGE"
  <2>1. /\ ~(Len(payload) > MaxMessageSize) /\ IsText(payload)
        /\ DecodeClient(bytes) = [op |-> op, payload |-> payload]
    <3>1. DecodeClient(bytes) =
            IF Len(payload) > MaxMessageSize THEN Malformed("MessageTooLarge")
            ELSE IF ~IsText(payload) THEN Malformed("InvalidUtf8")
            ELSE [op |-> op, payload |-> payload]
      BY <1>5, <1>7 DEF DecodeClient
    <3> QED
      BY <1>1, <3>1
  <2>2. Len(payload) <= MaxMessageSize
    BY <1>4, <2>1, BytesAreNumbers, CodecAssumption
  <2>3. EncodeClient([op |-> op, payload |-> payload]) = <<Opcode[op]>> \o payload
    BY <1>7 DEF EncodeClient
  <2>4. /\ EncodableClient([op |-> op, payload |-> payload])
        /\ [op |-> op, payload |-> payload] \in ClientFrames
    BY <1>4, <1>7, <2>1, <2>2 DEF EncodableClient, ClientFrames
  <2> QED
    BY <1>4, <2>1, <2>3, <2>4
<1>8. CASE op = "PING"
  <2> DEFINE value == ReadInt(payload)
  <2>1. /\ Len(payload) = LongWidth
        /\ DecodeClient(bytes) = [op |-> op, value |-> value]
    <3>1. DecodeClient(bytes) = IF Len(payload) = LongWidth
                                THEN [op |-> op, value |-> ReadInt(payload)]
                                ELSE Malformed("InvalidLength")
      BY <1>5, <1>8 DEF DecodeClient
    <3> QED
      BY <1>1, <3>1
  <2>2. value \in Values(LongWidth) /\ BigEndian(value, LongWidth) = payload
    BY <1>4, <2>1, WriteReadInt, CodecAssumption DEF Values
  <2> HIDE DEF value
  <2>3. EncodeClient([op |-> op, value |-> value]) = <<Opcode[op]>> \o payload
    BY <1>8, <2>2 DEF EncodeClient
  <2>4. /\ EncodableClient([op |-> op, value |-> value])
        /\ [op |-> op, value |-> value] \in ClientFrames
    BY <1>8, <2>2 DEF EncodableClient, ClientFrames
  <2> QED
    BY <1>4, <2>1, <2>3, <2>4
<1> QED
  BY <1>6, <1>7, <1>8, ClientOps


------------------------------------------------------------------------------
(* Server frames. *)

\* A payload and the frame it stands for.
StandsFor(payload, frame) ==
    /\ payload \in Bytes
    /\ EncodeServer(frame) = <<ServerOpcode[frame.op]>> \o payload
    /\ Valid(frame.op, payload) /\ Fields(frame.op, payload) = frame

LEMMA ServerOps ==
    DOMAIN ServerOpcode = {"READY", "SEARCHING", "MATCHED", "MESSAGE", "PEER_LEFT",
                           "RATE_LIMITED", "SERVER_BUSY", "ERROR", "PONG"}
BY DEF ServerOpcode

LEMMA ShortStringRead ==
    ASSUME NEW text \in Texts, Len(text) <= MaxShortString
    PROVE  /\ ShortString(text) \in Bytes
           /\ Len(ShortString(text)) = Len(text) + 1
           /\ Tail(ShortString(text)) = text
           /\ IsShortString(ShortString(text))
<1>1. text \in Bytes /\ IsText(text) /\ Len(text) \in Nat
  BY BytesAreNumbers DEF Texts
<1>2. Len(text) \in 0 .. 255
  <2>1. \A n \in Nat : n <= MaxShortString => n \in 0 .. 255
    BY DEF MaxShortString
  <2> QED
    BY <1>1, <2>1
<1>3. /\ ShortString(text) \in Bytes /\ ShortString(text) # <<>>
      /\ Head(ShortString(text)) = Len(text) /\ Tail(ShortString(text)) = text
  BY <1>1, <1>2, HeadAndTail DEF ShortString
<1>4. Len(ShortString(text)) = Len(text) + 1
  BY <1>1, <1>3, FirstByte
<1> QED
  BY <1>1, <1>3, <1>4 DEF IsShortString

LEMMA ReadyStands ==
    ASSUME NEW agent \in Texts, Len(agent) <= MaxShortString
    PROVE  StandsFor(ShortString(agent), [op |-> "READY", agent |-> agent])
BY ShortStringRead DEF StandsFor, EncodeServer, Valid, Fields

LEMMA SearchingStands == StandsFor(<<>>, [op |-> "SEARCHING"])
BY NoBytes DEF StandsFor, EncodeServer, Valid, Fields

LEMMA IntStands ==
    ASSUME NEW width \in Nat, NEW value \in Values(width)
    PROVE  /\ BigEndian(value, width) \in Bytes
           /\ Len(BigEndian(value, width)) = width
           /\ ReadInt(BigEndian(value, width)) = value
BY BigEndianBytes, ReadBigEndian DEF Values

LEMMA MatchedStands ==
    ASSUME NEW conversation \in Bytes, Len(conversation) = UuidWidth,
           NEW visibility, visibility \in Visibilities,
           NEW peer \in Texts, Len(peer) <= MaxShortString
    PROVE  \E payload :
             StandsFor(payload, [op |-> "MATCHED", conversation |-> conversation,
                                 peer |-> peer, visibility |-> visibility])
<1> DEFINE name == ShortString(peer)
           first == conversation \o <<visibility>>
           payload == first \o name
           frame == [op |-> "MATCHED", conversation |-> conversation,
                     peer |-> peer, visibility |-> visibility]
<1>1. UuidWidth \in Nat
  BY CodecAssumption
<1>2. visibility \in 0 .. 255
  BY DEF Visibilities
<1>3. /\ name \in Bytes /\ Len(name) = Len(peer) + 1
      /\ IsShortString(name) /\ Len(peer) \in Nat /\ peer \in Bytes
  BY ShortStringRead, BytesAreNumbers DEF Texts
<1>4. Len(peer) \in 0 .. 255
  <2>1. \A n \in Nat : n <= MaxShortString => n \in 0 .. 255
    BY DEF MaxShortString
  <2> QED
    BY <1>3, <2>1
<1>5. first \in Bytes /\ Len(first) = UuidWidth + 1
  BY <1>1, <1>2, OneByte, Joined
<1>6. name = <<Len(peer)>> \o peer
  BY DEF ShortString
<1>7. payload = (first \o <<Len(peer)>>) \o peer
  <2>1. first \in Bytes /\ <<Len(peer)>> \in Bytes /\ peer \in Bytes
    BY <1>3, <1>4, <1>5, OneByte
  <2> HIDE DEF first, name, payload, frame
  <2>2. (first \o <<Len(peer)>>) \o peer = first \o (<<Len(peer)>> \o peer)
    BY <2>1, JoinedAlong
  <2> QED
    BY <1>6, <2>2, SMTT(30) DEF payload
<1> HIDE DEF name
<1>8. /\ payload \in Bytes /\ Len(payload) = UuidWidth + 1 + Len(name)
      /\ SubSeq(payload, 1, UuidWidth) = conversation
      /\ payload[UuidWidth + 1] = visibility
      /\ SubSeq(payload, UuidWidth + 2, Len(payload)) = name
  <2>1. payload = (conversation \o <<visibility>>) \o name
    OBVIOUS
  <2> HIDE DEF payload, first
  <2>2. /\ payload \in Bytes /\ Len(payload) = Len(conversation) + 1 + Len(name)
        /\ SubSeq(payload, 1, Len(conversation)) = conversation
        /\ payload[Len(conversation) + 1] = visibility
        /\ SubSeq(payload, Len(conversation) + 2, Len(payload)) = name
    <3>1. Consists(payload, conversation, visibility, name)
      BY <1>1, <1>2, <1>3, <2>1 DEF Consists
    <3> HIDE DEF frame, name
    <3>2. payload \in Bytes
      BY <3>1, ThreeParts
    <3>3. Len(payload) = Len(conversation) + 1 + Len(name)
      BY <3>1, ThreeParts
    <3>4. SubSeq(payload, 1, Len(conversation)) = conversation
      BY <3>1, ThreeParts
    <3>5. payload[Len(conversation) + 1] = visibility
      BY <3>1, ThreeParts
    <3>6. SubSeq(payload, Len(conversation) + 2, Len(payload)) = name
      BY <3>1, ThreeParts
    <3> QED
      BY <3>2, <3>3, <3>4, <3>5, <3>6
  <2> QED
    BY <1>1, <2>2
<1>9. EncodeServer(frame) = <<ServerOpcode[frame.op]>> \o payload
  BY DEF EncodeServer, name
<1> HIDE DEF first, payload
<1>10. SubSeq(payload, (UuidWidth + 1) + 2, Len(payload)) = peer
  <2>1. SubSeq(payload, Len(first) + 2, Len(payload)) = peer
    <3>1. Consists(payload, first, Len(peer), peer)
      BY <1>3, <1>4, <1>5, <1>7 DEF Consists
    <3> QED
      BY <3>1, ThreeParts, SMTT(30)
  <2> QED
    BY <1>5, <2>1
<1>11. (UuidWidth + 1) + 2 = UuidWidth + 3 /\ Len(payload) >= UuidWidth + 2
  BY <1>1, <1>3, <1>8
<1>12. Valid("MATCHED", payload)
  BY <1>3, <1>8, <1>11 DEF Valid
<1>13. Fields("MATCHED", payload) = frame
  BY <1>8, <1>10, <1>11 DEF Fields
<1>14. StandsFor(payload, frame)
  BY <1>8, <1>9, <1>12, <1>13 DEF StandsFor
<1> QED
  BY <1>14

LEMMA MessageStands ==
    ASSUME NEW seq \in Values(LongWidth), NEW sender, sender \in 0 .. 1,
           NEW text \in Texts, Len(text) <= MaxMessageSize
    PROVE  \E payload :
             StandsFor(payload, [op |-> "MESSAGE", seq |-> seq, sender |-> sender,
                                 payload |-> text])
<1> DEFINE number == BigEndian(seq, LongWidth)
           payload == (number \o <<sender>>) \o text
           frame == [op |-> "MESSAGE", seq |-> seq, sender |-> sender, payload |-> text]
<1>1. LongWidth \in Nat /\ sender \in 0 .. 255 /\ sender <= 1
  BY CodecAssumption
<1>2. number \in Bytes /\ Len(number) = LongWidth /\ ReadInt(number) = seq
  BY <1>1, IntStands
<1>3. text \in Bytes /\ IsText(text) /\ Len(text) \in Nat
  BY BytesAreNumbers DEF Texts
<1>4. EncodeServer(frame) = <<ServerOpcode[frame.op]>> \o payload
  BY DEF EncodeServer
<1>5. payload = (number \o <<sender>>) \o text
  OBVIOUS
<1> HIDE DEF number, payload, frame
<1>6. Consists(payload, number, sender, text)
  BY <1>1, <1>2, <1>3, <1>5 DEF Consists
<1>7. payload \in Bytes /\ Len(payload) = Len(number) + 1 + Len(text)
  BY <1>6, ThreeParts
<1>8. SubSeq(payload, 1, Len(number)) = number
  BY <1>6, ThreeParts
<1>9. payload[Len(number) + 1] = sender
  BY <1>6, ThreeParts
<1>10. SubSeq(payload, Len(number) + 2, Len(payload)) = text
  BY <1>6, ThreeParts
<1>11. Len(payload) > LongWidth /\ Len(payload) - LongWidth - 1 = Len(text)
  BY <1>1, <1>2, <1>3, <1>7
<1>12. Valid("MESSAGE", payload)
  BY <1>1, <1>2, <1>3, <1>9, <1>10, <1>11 DEF Valid
<1>13. Fields("MESSAGE", payload) = frame
  BY <1>2, <1>8, <1>9, <1>10 DEF Fields, frame
<1>14. StandsFor(payload, frame)
  BY <1>4, <1>7, <1>12, <1>13 DEF StandsFor, frame
<1> QED
  BY <1>14 DEF frame

LEMMA PeerLeftStands ==
    ASSUME NEW end \in Values(LongWidth), NEW reason, reason \in EndReasons
    PROVE  \E payload :
             StandsFor(payload, [op |-> "PEER_LEFT", final_seq |-> end,
                                 reason |-> reason])
<1> DEFINE number == BigEndian(end, LongWidth)
           payload == number \o <<reason>>
           frame == [op |-> "PEER_LEFT", final_seq |-> end, reason |-> reason]
<1>1. LongWidth \in Nat /\ reason \in 0 .. 255
  BY CodecAssumption DEF EndReasons
<1>2. number \in Bytes /\ Len(number) = LongWidth /\ ReadInt(number) = end
  BY <1>1, IntStands
<1>3. <<reason>> \in Bytes /\ Len(<<reason>>) = 1 /\ <<reason>>[1] = reason
  BY <1>1, OneByte
<1>4. EncodeServer(frame) = <<ServerOpcode[frame.op]>> \o payload
  BY DEF EncodeServer
<1> HIDE DEF number
<1>5. payload \in Bytes /\ Len(payload) = LongWidth + 1
  BY <1>2, <1>3, Joined
<1>6. payload[LongWidth + 1] = reason
  <2>1. 1 \in 1 .. Len(<<reason>>)
    BY <1>3
  <2>2. payload[Len(number) + 1] = <<reason>>[1]
    BY <1>2, <1>3, <2>1, Joined
  <2> QED
    BY <1>2, <1>3, <2>2
<1>7. SubSeq(payload, 1, LongWidth) = number
  <2>1. SubSeq(payload, 1, Len(number)) = number
    BY <1>2, <1>3, JoinedParts
  <2> QED
    BY <1>2, <2>1
<1> HIDE DEF payload, frame
<1>8. Valid("PEER_LEFT", payload)
  BY <1>5, <1>6 DEF Valid
<1>9. Fields("PEER_LEFT", payload) = frame
  BY <1>2, <1>6, <1>7 DEF Fields, frame
<1>10. StandsFor(payload, frame)
  BY <1>4, <1>5, <1>8, <1>9 DEF StandsFor, frame
<1> QED
  BY <1>10 DEF frame

LEMMA RetryStands ==
    ASSUME NEW op \in {"RATE_LIMITED", "SERVER_BUSY"}, NEW delay \in Values(IntWidth)
    PROVE  StandsFor(BigEndian(delay, IntWidth), [op |-> op, retry_after_ms |-> delay])
<1> DEFINE payload == BigEndian(delay, IntWidth)
           frame == [op |-> op, retry_after_ms |-> delay]
<1>1. payload \in Bytes /\ Len(payload) = IntWidth /\ ReadInt(payload) = delay
  BY CodecAssumption, IntStands
<1>2. EncodeServer(frame) = <<ServerOpcode[frame.op]>> \o payload
  BY DEF EncodeServer
<1> HIDE DEF payload
<1>3. Valid(op, payload) /\ Fields(op, payload) = frame
  BY <1>1 DEF Valid, Fields
<1>4. StandsFor(payload, frame)
  BY <1>1, <1>2, <1>3 DEF StandsFor
<1> QED
  BY <1>4 DEF payload

LEMMA PongStands ==
    ASSUME NEW value \in Values(LongWidth)
    PROVE  StandsFor(BigEndian(value, LongWidth), [op |-> "PONG", value |-> value])
<1> DEFINE payload == BigEndian(value, LongWidth)
           frame == [op |-> "PONG", value |-> value]
<1>1. payload \in Bytes /\ Len(payload) = LongWidth /\ ReadInt(payload) = value
  BY CodecAssumption, IntStands
<1>2. EncodeServer(frame) = <<ServerOpcode[frame.op]>> \o payload
  BY DEF EncodeServer
<1> HIDE DEF payload
<1>3. SubSeq(payload, 1, LongWidth) = payload
  BY <1>1, WholeIsPart
<1>4. Valid("PONG", payload) /\ Fields("PONG", payload) = frame
  BY <1>1, <1>3 DEF Valid, Fields
<1>5. StandsFor(payload, frame)
  BY <1>1, <1>2, <1>4 DEF StandsFor
<1> QED
  BY <1>5 DEF payload

LEMMA ErrorStands ==
    ASSUME NEW code \in Values(2), NEW text \in Texts
    PROVE  \E payload :
             StandsFor(payload, [op |-> "ERROR", code |-> code, text |-> text])
<1> DEFINE number == BigEndian(code, 2)
           payload == number \o text
           frame == [op |-> "ERROR", code |-> code, text |-> text]
<1>1. number \in Bytes /\ Len(number) = 2 /\ ReadInt(number) = code
  BY IntStands
<1>2. text \in Bytes /\ IsText(text) /\ Len(text) \in Nat
  BY BytesAreNumbers DEF Texts
<1>3. EncodeServer(frame) = <<ServerOpcode[frame.op]>> \o payload
  BY DEF EncodeServer
<1> HIDE DEF number
<1>4. payload \in Bytes /\ Len(payload) >= 2
  <2>1. payload \in Bytes /\ Len(payload) = Len(number) + Len(text)
    BY <1>1, <1>2, Joined
  <2> HIDE DEF payload
  <2> QED
    BY <1>1, <1>2, <2>1
<1>5. SubSeq(payload, 1, 2) = number /\ SubSeq(payload, 3, Len(payload)) = text
  <2>1. /\ SubSeq(payload, 1, Len(number)) = number
        /\ SubSeq(payload, Len(number) + 1, Len(payload)) = text
    BY <1>1, <1>2, JoinedParts
  <2>2. Len(number) + 1 = 3
    BY <1>1
  <2> HIDE DEF payload
  <2> QED
    BY <1>1, <2>1, <2>2
<1> HIDE DEF payload
<1>6. Valid("ERROR", payload) /\ Fields("ERROR", payload) = frame
  BY <1>1, <1>2, <1>4, <1>5 DEF Valid, Fields
<1>7. StandsFor(payload, frame)
  BY <1>3, <1>4, <1>6 DEF StandsFor
<1> QED
  BY <1>7

\* Every frame that can be encoded has a payload that stands for it.
LEMMA SomethingStands ==
    ASSUME NEW frame \in ServerFrames, EncodableServer(frame)
    PROVE  \E payload : StandsFor(payload, frame) /\ frame.op \in DOMAIN ServerOpcode
<1>1. CASE frame \in [op : {"READY"}, agent : Texts]
  <2> PICK agent \in Texts : frame = [op |-> "READY", agent |-> agent]
    BY <1>1
  <2>1. Len(agent) <= MaxShortString
    BY DEF EncodableServer
  <2> QED
    BY <2>1, ReadyStands, ServerOps
<1>2. CASE frame \in [op : {"SEARCHING"}]
  <2>1. frame = [op |-> "SEARCHING"]
    BY <1>2
  <2> QED
    BY <2>1, SearchingStands, ServerOps
<1>3. CASE frame \in [op : {"MATCHED"}, conversation : Uuids, peer : Texts,
                      visibility : Visibilities]
  <2> PICK conversation \in Uuids, peer \in Texts, visibility \in Visibilities :
        frame = [op |-> "MATCHED", conversation |-> conversation, peer |-> peer,
                 visibility |-> visibility]
    BY <1>3
  <2>1. Len(peer) <= MaxShortString
    BY DEF EncodableServer
  <2>2. conversation \in Bytes /\ Len(conversation) = UuidWidth
    BY DEF Uuids
  <2> QED
    BY <2>1, <2>2, MatchedStands, ServerOps
<1>4. CASE frame \in [op : {"MESSAGE"}, seq : Values(LongWidth), sender : 0 .. 255,
                      payload : Bytes]
  <2> PICK seq \in Values(LongWidth), sender \in 0 .. 255, text \in Bytes :
        frame = [op |-> "MESSAGE", seq |-> seq, sender |-> sender, payload |-> text]
    BY <1>4
  <2>1. Len(text) <= MaxMessageSize /\ sender <= 1 /\ IsText(text)
    BY DEF EncodableServer
  <2>2. text \in Texts /\ sender \in 0 .. 1
    BY <2>1 DEF Texts
  <2> QED
    BY <2>1, <2>2, MessageStands, ServerOps
<1>5. CASE frame \in [op : {"PEER_LEFT"}, final_seq : Values(LongWidth),
                      reason : EndReasons]
  <2> PICK end \in Values(LongWidth), reason \in EndReasons :
        frame = [op |-> "PEER_LEFT", final_seq |-> end, reason |-> reason]
    BY <1>5
  <2> QED
    BY PeerLeftStands, ServerOps
<1>6. CASE frame \in [op : {"RATE_LIMITED", "SERVER_BUSY"},
                      retry_after_ms : Values(IntWidth)]
  <2> PICK op \in {"RATE_LIMITED", "SERVER_BUSY"}, delay \in Values(IntWidth) :
        frame = [op |-> op, retry_after_ms |-> delay]
    BY <1>6
  <2> QED
    BY RetryStands, ServerOps
<1>7. CASE frame \in [op : {"ERROR"}, code : Values(2), text : Texts]
  <2> PICK code \in Values(2), text \in Texts :
        frame = [op |-> "ERROR", code |-> code, text |-> text]
    BY <1>7
  <2> QED
    BY ErrorStands, ServerOps
<1>8. CASE frame \in [op : {"PONG"}, value : Values(LongWidth)]
  <2> PICK value \in Values(LongWidth) : frame = [op |-> "PONG", value |-> value]
    BY <1>8
  <2> QED
    BY PongStands, ServerOps
<1> QED
  BY <1>1, <1>2, <1>3, <1>4, <1>5, <1>6, <1>7, <1>8 DEF ServerFrames

\* Every server frame that encode_server accepts is what decode_server makes of
\* its bytes.
THEOREM ServerRoundTrip ==
    RoundTrips(ServerFrames, EncodableServer, EncodeServer, DecodeServer)
<1> SUFFICES ASSUME NEW frame \in ServerFrames, EncodableServer(frame)
             PROVE  DecodeServer(EncodeServer(frame)) = frame
  BY DEF RoundTrips
<1>1. PICK payload : StandsFor(payload, frame) /\ frame.op \in DOMAIN ServerOpcode
  BY SomethingStands
<1>2. /\ payload \in Bytes
      /\ EncodeServer(frame) = <<ServerOpcode[frame.op]>> \o payload
      /\ Valid(frame.op, payload) /\ Fields(frame.op, payload) = frame
  BY <1>1 DEF StandsFor
<1>3. DecodeServer(<<ServerOpcode[frame.op]>> \o payload) =
        IF Valid(frame.op, payload) THEN Fields(frame.op, payload)
        ELSE Malformed("Invalid")
  BY <1>1, <1>2, ServerDecodes
<1> QED
  BY <1>2, <1>3

------------------------------------------------------------------------------
(* What a valid payload decodes to. *)

\* The frame of a payload is one that can be encoded, as that payload.
IsFrameOf(frame, op, payload) ==
    /\ frame \in ServerFrames /\ EncodableServer(frame)
    /\ EncodeServer(frame) = <<ServerOpcode[op]>> \o payload

LEMMA ShortStringOf ==
    ASSUME NEW bytes \in Bytes, IsShortString(bytes)
    PROVE  /\ Tail(bytes) \in Texts /\ Len(Tail(bytes)) <= MaxShortString
           /\ ShortString(Tail(bytes)) = bytes
<1>1. bytes # <<>> /\ Len(Tail(bytes)) = Head(bytes) /\ IsText(Tail(bytes))
  BY DEF IsShortString
<1>2. /\ Head(bytes) \in 0 .. 255 /\ Tail(bytes) \in Bytes
      /\ <<Head(bytes)>> \o Tail(bytes) = bytes
  BY <1>1, FirstByte
<1>3. ShortString(Tail(bytes)) = bytes
  BY <1>1, <1>2 DEF ShortString
<1>4. Len(Tail(bytes)) <= 255
  <2>1. \A n \in 0 .. 255 : n <= 255
    OBVIOUS
  <2>2. Len(Tail(bytes)) \in 0 .. 255
    BY <1>1, <1>2, Zenon
  <2> QED
    BY <2>1, <2>2
<1> QED
  BY <1>1, <1>2, <1>3, <1>4 DEF Texts, MaxShortString

LEMMA ReadyOf ==
    ASSUME NEW payload \in Bytes, Valid("READY", payload)
    PROVE  IsFrameOf(Fields("READY", payload), "READY", payload)
<1> DEFINE agent == Tail(payload)
           frame == [op |-> "READY", agent |-> agent]
<1>1. Fields("READY", payload) = frame /\ IsShortString(payload)
  BY DEF Fields, Valid
<1>2. agent \in Texts /\ Len(agent) <= MaxShortString /\ ShortString(agent) = payload
  BY <1>1, ShortStringOf
<1> HIDE DEF agent
<1>3. frame \in ServerFrames
  BY <1>2 DEF ServerFrames
<1>4. EncodableServer(frame)
  BY <1>2 DEF EncodableServer
<1>5. EncodeServer(frame) = <<ServerOpcode["READY"]>> \o payload
  BY <1>2 DEF EncodeServer
<1> QED
  BY <1>1, <1>3, <1>4, <1>5 DEF IsFrameOf

LEMMA SearchingOf ==
    ASSUME NEW payload \in Bytes, Valid("SEARCHING", payload)
    PROVE  IsFrameOf(Fields("SEARCHING", payload), "SEARCHING", payload)
<1> DEFINE frame == [op |-> "SEARCHING"]
<1>1. Fields("SEARCHING", payload) = frame /\ payload = <<>>
  BY DEF Fields, Valid
<1>2. frame \in ServerFrames /\ EncodableServer(frame)
  BY DEF ServerFrames, EncodableServer
<1>3. EncodeServer(frame) = <<ServerOpcode["SEARCHING"]>> \o payload
  BY <1>1 DEF EncodeServer
<1> QED
  BY <1>1, <1>2, <1>3 DEF IsFrameOf

LEMMA MatchedOf ==
    ASSUME NEW payload \in Bytes, Valid("MATCHED", payload)
    PROVE  IsFrameOf(Fields("MATCHED", payload), "MATCHED", payload)
<1> DEFINE conversation == SubSeq(payload, 1, UuidWidth)
           visibility == payload[UuidWidth + 1]
           name == SubSeq(payload, UuidWidth + 2, Len(payload))
           peer == Tail(name)
           frame == [op |-> "MATCHED", conversation |-> conversation,
                     visibility |-> visibility, peer |-> peer]
<1>1. UuidWidth \in Nat /\ Len(payload) \in Nat
  BY CodecAssumption, BytesAreNumbers
<1>2. Len(payload) >= UuidWidth + 2 /\ visibility \in Visibilities /\ IsShortString(name)
  BY DEF Valid
<1>3. /\ conversation \in Bytes /\ Len(conversation) = UuidWidth
      /\ name \in Bytes
      /\ payload = (conversation \o <<visibility>>) \o name
  <2>1. UuidWidth + 1 <= Len(payload)
    BY <1>1, <1>2
  <2> QED
    BY <1>1, <2>1, ThreePartsJoined
<1>4. SubSeq(payload, UuidWidth + 3, Len(payload)) = peer
  <2>1. /\ UuidWidth + 2 \in 1 .. Len(payload) /\ Len(payload) \in UuidWidth + 2 .. Len(payload)
        /\ (UuidWidth + 2) + 1 = UuidWidth + 3 /\ payload \in Seq(0 .. 255)
    BY <1>1, <1>2 DEF Bytes
  <2>2. Tail(SubSeq(payload, UuidWidth + 2, Len(payload)))
          = SubSeq(payload, (UuidWidth + 2) + 1, Len(payload))
    BY <2>1, HeadTailOfSubSeq
  <2> QED
    BY <2>1, <2>2
<1>5. Fields("MATCHED", payload) = frame
  BY <1>4 DEF Fields
<1> HIDE DEF conversation, visibility, name
<1>6. peer \in Texts /\ Len(peer) <= MaxShortString /\ ShortString(peer) = name
  BY <1>2, <1>3, ShortStringOf
<1> HIDE DEF peer
<1>7. frame \in ServerFrames
  BY <1>2, <1>3, <1>6 DEF ServerFrames, Uuids
<1>8. EncodableServer(frame)
  BY <1>6 DEF EncodableServer
<1>9. EncodeServer(frame) = <<ServerOpcode["MATCHED"]>> \o payload
  BY <1>3, <1>6 DEF EncodeServer
<1> QED
  BY <1>5, <1>7, <1>8, <1>9 DEF IsFrameOf

LEMMA ReadNumber ==
    ASSUME NEW bytes \in Bytes, NEW width \in Nat, Len(bytes) = width
    PROVE  /\ ReadInt(bytes) \in Values(width)
           /\ BigEndian(ReadInt(bytes), width) = bytes
BY WriteReadInt DEF Values

LEMMA MessageOf ==
    ASSUME NEW payload \in Bytes, Valid("MESSAGE", payload)
    PROVE  IsFrameOf(Fields("MESSAGE", payload), "MESSAGE", payload)
<1> DEFINE number == SubSeq(payload, 1, LongWidth)
           sender == payload[LongWidth + 1]
           text == SubSeq(payload, LongWidth + 2, Len(payload))
           seq == ReadInt(number)
           frame == [op |-> "MESSAGE", seq |-> seq, sender |-> sender, payload |-> text]
<1>1. LongWidth \in Nat /\ Len(payload) \in Nat
  BY CodecAssumption, BytesAreNumbers
<1>2. /\ Len(payload) > LongWidth /\ Len(payload) - LongWidth - 1 <= MaxMessageSize
      /\ sender <= 1 /\ IsText(text) /\ Fields("MESSAGE", payload) = frame
  BY DEF Valid, Fields
<1>3. /\ number \in Bytes /\ Len(number) = LongWidth
      /\ sender \in 0 .. 255
      /\ text \in Bytes /\ Len(text) = Len(payload) - LongWidth - 1
      /\ payload = (number \o <<sender>>) \o text
  <2>1. LongWidth + 1 <= Len(payload)
    BY <1>1, <1>2
  <2> QED
    BY <1>1, <2>1, ThreePartsJoined
<1> HIDE DEF number, sender, text
<1>4. seq \in Values(LongWidth) /\ BigEndian(seq, LongWidth) = number
  BY <1>1, <1>3, ReadNumber
<1> HIDE DEF seq
<1>5. frame \in ServerFrames
  BY <1>3, <1>4 DEF ServerFrames
<1>6. Len(text) <= MaxMessageSize
  BY <1>2, <1>3
<1>7. EncodableServer(frame)
  BY <1>2, <1>6 DEF EncodableServer
<1>8. EncodeServer(frame) = <<ServerOpcode["MESSAGE"]>> \o payload
  BY <1>3, <1>4 DEF EncodeServer
<1> QED
  BY <1>2, <1>5, <1>7, <1>8 DEF IsFrameOf

LEMMA PeerLeftOf ==
    ASSUME NEW payload \in Bytes, Valid("PEER_LEFT", payload)
    PROVE  IsFrameOf(Fields("PEER_LEFT", payload), "PEER_LEFT", payload)
<1> DEFINE number == SubSeq(payload, 1, LongWidth)
           reason == payload[LongWidth + 1]
           rest == SubSeq(payload, LongWidth + 2, Len(payload))
           end == ReadInt(number)
           frame == [op |-> "PEER_LEFT", final_seq |-> end, reason |-> reason]
<1>1. LongWidth \in Nat /\ Len(payload) = LongWidth + 1 /\ reason \in EndReasons
  BY CodecAssumption DEF Valid
<1>2. Fields("PEER_LEFT", payload) = frame
  BY DEF Fields
<1>3. /\ number \in Bytes /\ Len(number) = LongWidth
      /\ reason \in 0 .. 255
      /\ payload = (number \o <<reason>>) \o rest
  <2>1. LongWidth + 1 <= Len(payload)
    BY <1>1
  <2> QED
    BY <1>1, <2>1, ThreePartsJoined
<1>4. rest = <<>>
  <2>1. LongWidth + 2 \in Int /\ Len(payload) \in Int /\ Len(payload) < LongWidth + 2
    BY <1>1
  <2> QED
    BY <2>1, SubSeqEmpty
<1> HIDE DEF number, reason, rest
<1>5. payload = number \o <<reason>>
  <2>1. number \o <<reason>> \in Bytes
    BY <1>3, OneByte, Joined
  <2>2. (number \o <<reason>>) \o <<>> = number \o <<reason>>
    BY <2>1, ConcatEmptySeq DEF Bytes
  <2> QED
    BY <1>3, <1>4, <2>2
<1>6. end \in Values(LongWidth) /\ BigEndian(end, LongWidth) = number
  BY <1>1, <1>3, ReadNumber
<1> HIDE DEF end
<1>7. frame \in ServerFrames /\ EncodableServer(frame)
  BY <1>1, <1>6 DEF ServerFrames, EncodableServer
<1>8. EncodeServer(frame) = <<ServerOpcode["PEER_LEFT"]>> \o payload
  BY <1>5, <1>6 DEF EncodeServer
<1> QED
  BY <1>2, <1>7, <1>8 DEF IsFrameOf

LEMMA RetryOf ==
    ASSUME NEW op \in {"RATE_LIMITED", "SERVER_BUSY"}, NEW payload \in Bytes,
           Valid(op, payload)
    PROVE  IsFrameOf(Fields(op, payload), op, payload)
<1> DEFINE delay == ReadInt(payload)
           frame == [op |-> op, retry_after_ms |-> delay]
<1>1. Len(payload) = IntWidth /\ Fields(op, payload) = frame
  BY DEF Valid, Fields
<1>2. delay \in Values(IntWidth) /\ BigEndian(delay, IntWidth) = payload
  BY <1>1, CodecAssumption, ReadNumber
<1> HIDE DEF delay
<1>3. frame \in ServerFrames /\ EncodableServer(frame)
  BY <1>2 DEF ServerFrames, EncodableServer
<1>4. EncodeServer(frame) = <<ServerOpcode[op]>> \o payload
  BY <1>2 DEF EncodeServer
<1> QED
  BY <1>1, <1>3, <1>4 DEF IsFrameOf

LEMMA PongOf ==
    ASSUME NEW payload \in Bytes, Valid("PONG", payload)
    PROVE  IsFrameOf(Fields("PONG", payload), "PONG", payload)
<1> DEFINE value == ReadInt(payload)
           frame == [op |-> "PONG", value |-> value]
<1>1. Len(payload) = LongWidth
  BY DEF Valid
<1>2. SubSeq(payload, 1, LongWidth) = payload
  BY <1>1, WholeIsPart
<1>3. Fields("PONG", payload) = frame
  BY <1>2 DEF Fields
<1>4. value \in Values(LongWidth) /\ BigEndian(value, LongWidth) = payload
  BY <1>1, CodecAssumption, ReadNumber
<1> HIDE DEF value
<1>5. frame \in ServerFrames /\ EncodableServer(frame)
  BY <1>4 DEF ServerFrames, EncodableServer
<1>6. EncodeServer(frame) = <<ServerOpcode["PONG"]>> \o payload
  BY <1>4 DEF EncodeServer
<1> QED
  BY <1>3, <1>5, <1>6 DEF IsFrameOf

LEMMA ErrorOf ==
    ASSUME NEW payload \in Bytes, Valid("ERROR", payload)
    PROVE  IsFrameOf(Fields("ERROR", payload), "ERROR", payload)
<1> DEFINE number == SubSeq(payload, 1, 2)
           text == SubSeq(payload, 3, Len(payload))
           code == ReadInt(number)
           frame == [op |-> "ERROR", code |-> code, text |-> text]
<1>1. /\ Len(payload) \in Nat /\ Len(payload) >= 2 /\ IsText(text)
      /\ Fields("ERROR", payload) = frame
  BY BytesAreNumbers DEF Valid, Fields
<1>2. number \in Bytes /\ Len(number) = 2
  <2>1. 1 \in Nat \ {0} /\ 2 \in 0 .. Len(payload) /\ 1 <= 2 + 1 /\ 2 + 1 - 1 = 2
    BY <1>1
  <2> QED
    BY <2>1, Part
<1>3. text \in Bytes
  <2>1. 3 \in Nat \ {0} /\ Len(payload) \in 0 .. Len(payload) /\ 3 <= Len(payload) + 1
    BY <1>1
  <2> QED
    BY <2>1, Part
<1>4. payload = number \o text
  <2>1. 2 \in 0 .. Len(payload) /\ 2 + 1 = 3
    BY <1>1
  <2> QED
    BY <2>1, PartsJoined
<1> HIDE DEF number, text
<1>5. code \in Values(2) /\ BigEndian(code, 2) = number
  BY <1>2, ReadNumber
<1> HIDE DEF code
<1>6. frame \in ServerFrames /\ EncodableServer(frame)
  BY <1>1, <1>3, <1>5 DEF ServerFrames, EncodableServer, Texts
<1>7. EncodeServer(frame) = <<ServerOpcode["ERROR"]>> \o payload
  BY <1>4, <1>5 DEF EncodeServer
<1> QED
  BY <1>1, <1>6, <1>7 DEF IsFrameOf

\* What decode_server accepts is the one encoding of a frame encode_server
\* accepts: nothing cut short, too long or out of range passes.
THEOREM ServerCanonical ==
    /\ IsCanonical(Bytes, EncodableServer, EncodeServer, DecodeServer)
    /\ \A bytes \in Bytes :
         IsFrame(DecodeServer(bytes)) => DecodeServer(bytes) \in ServerFrames
<1> SUFFICES ASSUME NEW bytes \in Bytes, IsFrame(DecodeServer(bytes))
             PROVE  /\ EncodableServer(DecodeServer(bytes))
                    /\ EncodeServer(DecodeServer(bytes)) = bytes
                    /\ DecodeServer(bytes) \in ServerFrames
  BY DEF IsCanonical
<1>1. PICK op \in DOMAIN ServerOpcode, payload \in Bytes :
        /\ bytes = <<ServerOpcode[op]>> \o payload
        /\ Valid(op, payload) /\ DecodeServer(bytes) = Fields(op, payload)
  BY ServerDecoded
<1>2. IsFrameOf(Fields(op, payload), op, payload)
  BY <1>1, ServerOps, ReadyOf, SearchingOf, MatchedOf, MessageOf, PeerLeftOf,
     RetryOf, ErrorOf, PongOf
<1> QED
  BY <1>1, <1>2 DEF IsFrameOf

------------------------------------------------------------------------------
(* The hello. *)

LEMMA VersionFits == Version \in Values(2)
<1> DEFINE rest == Shifted(1, 2)
<1>1. rest[0] = 1 /\ \A n \in 1 .. 2 : rest[n] = rest[n - 1] \div 256
  BY ShiftedIs
<1> HIDE DEF rest
<1>2. rest[1] = 0
  <2>1. 1 \in 1 .. 2 /\ 1 - 1 = 0 /\ 1 \div 256 = 0
    OBVIOUS
  <2> QED
    BY <1>1, <2>1
<1>3. rest[2] = 0
  <2>1. 2 \in 1 .. 2 /\ 2 - 1 = 1 /\ 0 \div 256 = 0
    OBVIOUS
  <2> QED
    BY <1>1, <1>2, <2>1
<1> QED
  BY <1>3 DEF Values, Fits, Version, rest

LEMMA MagicBytes == Magic \in Bytes /\ Len(Magic) = 4
BY DEF Magic, Bytes

\* A hello is understood exactly when it is one of this version, and its flags
\* are read back.
THEOREM HelloUnderstood == HelloAgrees(Bytes, Values(2))
<1>1. ASSUME NEW flags \in Values(2)
      PROVE  DecodeHello(ClientHello(flags)) = [op |-> "HELLO", flags |-> flags]
  <2> DEFINE v == BigEndian(Version, 2)
             f == BigEndian(flags, 2)
             bytes == (Magic \o v) \o f
  <2>1. ClientHello(flags) = bytes
    BY DEF ClientHello
  <2>2. v \in Bytes /\ Len(v) = 2 /\ ReadInt(v) = Version
    BY VersionFits, IntStands
  <2>3. f \in Bytes /\ Len(f) = 2 /\ ReadInt(f) = flags
    BY IntStands
  <2> HIDE DEF v, f
  <2> DEFINE first == Magic \o v
             last == v \o f
  <2>4. first \in Bytes /\ Len(first) = 6 /\ bytes = first \o f
    <3>1. first \in Bytes /\ Len(first) = Len(Magic) + Len(v)
      BY <2>2, MagicBytes, Joined
    <3> HIDE DEF first
    <3> QED
      BY <2>2, <3>1, MagicBytes DEF first
  <2>5. last \in Bytes /\ Len(last) = 4 /\ bytes = Magic \o last
    <3>1. last \in Bytes /\ Len(last) = Len(v) + Len(f)
      BY <2>2, <2>3, Joined
    <3>2. (Magic \o v) \o f = Magic \o (v \o f)
      BY <2>2, <2>3, MagicBytes, JoinedAlong
    <3>3. bytes = Magic \o last
      BY <3>2
    <3> HIDE DEF last, bytes
    <3> QED
      BY <2>2, <2>3, <3>1, <3>3
  <2> HIDE DEF first, last, bytes
  <2>6. bytes \in Bytes /\ Len(bytes) = 8 /\ SubSeq(bytes, 7, 8) = f
    <3>1. first \o f \in Bytes /\ Len(first \o f) = Len(first) + Len(f)
      BY <2>3, <2>4, Joined
    <3>2. SubSeq(first \o f, Len(first) + 1, Len(first \o f)) = f
      BY <2>3, <2>4, JoinedParts
    <3>3. Len(first \o f) = 8 /\ Len(first) + 1 = 7
      BY <2>3, <2>4, <3>1
    <3> QED
      BY <2>4, <3>1, <3>2, <3>3
  <2>7. SubSeq(bytes, 1, 4) = Magic
    <3>1. SubSeq(Magic \o last, 1, Len(Magic)) = Magic
      BY <2>5, MagicBytes, JoinedParts
    <3> QED
      BY <2>5, <3>1, MagicBytes
  <2>8. SubSeq(bytes, 5, 6) = v
    <3>1. Magic \in Seq(0 .. 255) /\ last \in Seq(0 .. 255)
      BY <2>5, MagicBytes DEF Bytes
    <3>2. /\ 5 \in Len(Magic) + 1 .. Len(Magic) + Len(last)
          /\ 6 \in Len(Magic) + 1 .. Len(Magic) + Len(last)
          /\ 5 - Len(Magic) = 1 /\ 6 - Len(Magic) = 2
      BY <2>5, MagicBytes
    <3>3. SubSeq(Magic \o last, 5, 6) = SubSeq(last, 5 - Len(Magic), 6 - Len(Magic))
      BY <3>1, <3>2, SubSeqOfConcat2
    <3>4. SubSeq(v \o f, 1, Len(v)) = v
      BY <2>2, <2>3, JoinedParts
    <3> QED
      BY <2>2, <2>5, <3>2, <3>3, <3>4 DEF last
  <2>9. DecodeHello(bytes) = [op |-> "HELLO", flags |-> flags]
    BY <2>2, <2>3, <2>6, <2>7, <2>8 DEF DecodeHello
  <2> QED
    BY <2>1, <2>9
<1>2. ASSUME NEW bytes \in Bytes, IsFrame(DecodeHello(bytes))
      PROVE  \E flags \in Values(2) : bytes = ClientHello(flags)
  <2> DEFINE v == SubSeq(bytes, 5, 6)
             f == SubSeq(bytes, 7, 8)
  <2>1. \A error : ~IsFrame(Malformed(error))
    BY DEF IsFrame, Malformed
  <2>2. Len(bytes) = 8 /\ SubSeq(bytes, 1, 4) = Magic /\ ReadInt(v) = Version
    <3>1. ~(Len(bytes) # 8 \/ SubSeq(bytes, 1, 4) # Magic)
      BY <1>2, <2>1 DEF DecodeHello
    <3>2. ~(ReadInt(v) # Version)
      BY <1>2, <2>1, <3>1 DEF DecodeHello
    <3> QED
      BY <3>1, <3>2
  <2>3. v \in Bytes /\ Len(v) = 2
    <3>1. 5 \in Nat \ {0} /\ 6 \in 0 .. Len(bytes) /\ 5 <= 6 + 1 /\ 6 + 1 - 5 = 2
      BY <2>2
    <3> QED
      BY <3>1, Part
  <2>4. f \in Bytes /\ Len(f) = 2
    <3>1. 7 \in Nat \ {0} /\ 8 \in 0 .. Len(bytes) /\ 7 <= 8 + 1 /\ 8 + 1 - 7 = 2
      BY <2>2
    <3> QED
      BY <3>1, Part
  <2>5. bytes = (Magic \o v) \o f
    <3>1. /\ bytes \in Seq(0 .. 255) /\ 1 \in 1 .. Len(bytes) + 1
          /\ 4 \in 1 - 1 .. Len(bytes) /\ 6 \in 4 .. Len(bytes) /\ 4 + 1 = 5
      BY <2>2 DEF Bytes
    <3>2. SubSeq(bytes, 1, 4) \o SubSeq(bytes, 4 + 1, 6) = SubSeq(bytes, 1, 6)
      BY <3>1, ConcatAdjacentSubSeq
    <3>3. 6 \in 0 .. Len(bytes) /\ 6 + 1 = 7
      BY <2>2
    <3>4. SubSeq(bytes, 1, 6) \o SubSeq(bytes, 6 + 1, Len(bytes)) = bytes
      BY <3>3, PartsJoined
    <3> QED
      BY <2>2, <3>1, <3>2, <3>3, <3>4
  <2> HIDE DEF v, f
  <2>6. BigEndian(Version, 2) = v
    BY <2>2, <2>3, ReadNumber
  <2>7. ReadInt(f) \in Values(2) /\ BigEndian(ReadInt(f), 2) = f
    BY <2>4, ReadNumber
  <2> QED
    BY <2>5, <2>6, <2>7 DEF ClientHello
<1>3. ASSUME NEW bytes \in Bytes, IsFrame(DecodeHello(bytes))
      PROVE  bytes = ClientHello(DecodeHello(bytes).flags)
  <2>1. PICK flags \in Values(2) : bytes = ClientHello(flags)
    BY <1>2, <1>3
  <2>2. DecodeHello(bytes) = [op |-> "HELLO", flags |-> flags]
    BY <1>1, <2>1
  <2> QED
    BY <2>1, <2>2
<1> QED
  BY <1>1, <1>3 DEF HelloAgrees

------------------------------------------------------------------------------
(* What the service sends and what is read of it. *)

Frames == {frame \in ServerFrames : EncodableServer(frame)}
Items == Frames \cup [op : {"STRAY"}, bytes : Strays]

\* The strays of the model are the encoding of no frame.
StraysAreStray ==
    \A bytes \in Strays, frame \in Frames : EncodeServer(frame) # bytes

MatchedFrames ==
    [op : {"MATCHED"}, conversation : Uuids, peer : Texts, visibility : Visibilities]
MessageFrames ==
    [op : {"MESSAGE"}, seq : Values(LongWidth), sender : 0 .. 255, payload : Bytes]
PeerLeftFrames ==
    [op : {"PEER_LEFT"}, final_seq : Values(LongWidth), reason : EndReasons]

LEMMA FrameOps ==
    ASSUME NEW frame \in ServerFrames
    PROVE  /\ frame.op \in DOMAIN ServerOpcode
           /\ frame.op = "MATCHED" => frame \in MatchedFrames
           /\ frame.op = "MESSAGE" => frame \in MessageFrames
           /\ frame.op = "PEER_LEFT" => frame \in PeerLeftFrames
<1>1. CASE frame \in [op : {"READY"}, agent : Texts]
  BY <1>1, ServerOps
<1>2. CASE frame \in [op : {"SEARCHING"}]
  BY <1>2, ServerOps
<1>3. CASE frame \in MatchedFrames
  BY <1>3, ServerOps DEF MatchedFrames
<1>4. CASE frame \in MessageFrames
  BY <1>4, ServerOps DEF MessageFrames
<1>5. CASE frame \in PeerLeftFrames
  BY <1>5, ServerOps DEF PeerLeftFrames
<1>6. CASE frame \in [op : {"RATE_LIMITED", "SERVER_BUSY"},
                      retry_after_ms : Values(IntWidth)]
  BY <1>6, ServerOps
<1>7. CASE frame \in [op : {"ERROR"}, code : Values(2), text : Texts]
  BY <1>7, ServerOps
<1>8. CASE frame \in [op : {"PONG"}, value : Values(LongWidth)]
  BY <1>8, ServerOps
<1> QED
  BY <1>1, <1>2, <1>3, <1>4, <1>5, <1>6, <1>7, <1>8
     DEF ServerFrames, MatchedFrames, MessageFrames, PeerLeftFrames

\* The reader decodes a frame to what was sent, and refuses a stray.
LEMMA WhatIsRead ==
    ASSUME StraysAreStray, NEW item \in Items
    PROVE  \/ /\ item \in Frames /\ item.op # "STRAY"
              /\ DecodeServer(Wire(item)) = item /\ IsFrame(item)
           \/ item.op = "STRAY" /\ ~IsFrame(DecodeServer(Wire(item)))
<1>1. CASE item \in Frames
  <2>1. item.op # "STRAY" /\ IsFrame(item)
    BY <1>1, FrameOps, ServerOps DEF Frames, IsFrame
  <2>2. Wire(item) = EncodeServer(item)
    BY <2>1 DEF Wire
  <2>3. DecodeServer(EncodeServer(item)) = item
    BY <1>1, ServerRoundTrip DEF RoundTrips, Frames
  <2> QED
    BY <1>1, <2>1, <2>2, <2>3
<1>2. CASE item \in [op : {"STRAY"}, bytes : Strays]
  <2>1. item.op = "STRAY" /\ item.bytes \in Strays /\ item.bytes \in Bytes
    BY <1>2, ConnectionAssumption
  <2>2. Wire(item) = item.bytes
    BY <2>1 DEF Wire
  <2> DEFINE frame == DecodeServer(item.bytes)
  <2>3. ASSUME IsFrame(frame) PROVE FALSE
    <3>1. /\ frame \in ServerFrames /\ EncodableServer(frame)
          /\ EncodeServer(frame) = item.bytes
      BY <2>1, <2>3, ServerCanonical DEF IsCanonical
    <3> QED
      BY <2>1, <3>1 DEF StraysAreStray, Frames
  <2> QED
    BY <2>1, <2>2, <2>3
<1> QED
  BY <1>1, <1>2 DEF Items

Events ==
    {EventOf(frame) : frame \in Frames}
    \cup {Failure(cause) : cause \in {"network", "protocol", "history"}}

\* An event still says what the history takes from its frame.
LEMMA EventKeeps ==
    ASSUME NEW frame \in Frames
    PROVE  /\ EventOf(frame).op = frame.op
           /\ frame.op # "error"
           /\ frame.op = "MATCHED" =>
                /\ EventOf(frame).conversation = frame.conversation
                /\ frame.conversation \in Uuids
           /\ frame.op = "MESSAGE" =>
                EventOf(frame).seq = frame.seq /\ frame.seq \in Nat
           /\ frame.op = "PEER_LEFT" =>
                EventOf(frame).final_seq = frame.final_seq /\ frame.final_seq \in Nat
<1>1. frame \in ServerFrames /\ frame.op # "error"
  BY FrameOps, ServerOps DEF Frames
<1>2. CASE frame.op = "MATCHED"
  <2>1. frame \in MatchedFrames
    BY <1>1, <1>2, FrameOps
  <2>2. EventOf(frame) = [frame EXCEPT !.visibility = VisibilityName[@]]
    BY <1>2 DEF EventOf
  <2> QED
    BY <1>1, <1>2, <2>1, <2>2 DEF MatchedFrames
<1>3. CASE frame.op = "MESSAGE"
  <2>1. frame \in MessageFrames
    BY <1>1, <1>3, FrameOps
  <2>2. EventOf(frame) = [frame EXCEPT !.sender = SenderName(@)]
    BY <1>3 DEF EventOf
  <2> QED
    BY <1>1, <1>3, <2>1, <2>2 DEF MessageFrames, Values
<1>4. CASE frame.op = "PEER_LEFT"
  <2>1. frame \in PeerLeftFrames
    BY <1>1, <1>4, FrameOps
  <2>2. EventOf(frame) = [frame EXCEPT !.reason = ReasonName[@]]
    BY <1>4 DEF EventOf
  <2> QED
    BY <1>1, <1>4, <2>1, <2>2 DEF PeerLeftFrames, Values
<1>5. CASE frame.op \notin {"MATCHED", "MESSAGE", "PEER_LEFT"}
  <2>1. EventOf(frame) = frame
    BY <1>5 DEF EventOf
  <2> QED
    BY <1>1, <1>5, <2>1
<1> QED
  BY <1>2, <1>3, <1>4, <1>5
------------------------------------------------------------------------------
(* Counting. *)

CountTo(S, n) == Cardinality({i \in 1 .. n : i \in S})

\* The number of places up to k that are in S grows with each of them.
LEMMA Counting ==
    ASSUME NEW S, NEW k \in Nat
    PROVE  /\ CountTo(S, k) \in Nat
           /\ CountTo(S, k + 1) =
                IF k + 1 \in S THEN CountTo(S, k) + 1 ELSE CountTo(S, k)
           /\ \A n \in 0 .. k : CountTo(S, n) <= CountTo(S, k)
<1> DEFINE To(n) == {i \in 1 .. n : i \in S}
<1>1. \A n \in Nat : IsFiniteSet(To(n))
  <2> TAKE n \in Nat
  <2>1. IsFiniteSet(1 .. n)
    BY FS_Interval
  <2> QED
    BY <2>1, FS_Subset
<1>2. Cardinality(To(k)) \in Nat
  BY <1>1, FS_CardinalityType
<1>3. Cardinality(To(k + 1)) =
        IF k + 1 \in S THEN Cardinality(To(k)) + 1 ELSE Cardinality(To(k))
  <2>1. CASE k + 1 \in S
    <3>1. To(k + 1) = To(k) \cup {k + 1} /\ k + 1 \notin To(k)
      BY <2>1
    <3> HIDE DEF To
    <3> QED
      BY <1>1, <2>1, <3>1, FS_AddElement
  <2>2. CASE k + 1 \notin S
    <3>1. To(k + 1) = To(k)
      BY <2>2
    <3> QED
      BY <2>2, <3>1
  <2> QED
    BY <2>1, <2>2
<1>4. \A n \in 0 .. k : Cardinality(To(n)) <= Cardinality(To(k))
  <2> TAKE n \in 0 .. k
  <2>1. To(n) \subseteq To(k)
    OBVIOUS
  <2> HIDE DEF To
  <2> QED
    BY <1>1, <2>1, FS_Subset
<1> QED
  BY <1>2, <1>3, <1>4 DEF CountTo

LEMMA Extended ==
    ASSUME NEW S, NEW s \in Seq(S), NEW x \in S
    PROVE  /\ Append(s, x) \in Seq(S) /\ Len(Append(s, x)) = Len(s) + 1
           /\ Append(s, x)[Len(s) + 1] = x
           /\ \A i \in 1 .. Len(s) : Append(s, x)[i] = s[i]
           /\ DOMAIN s = 1 .. Len(s) /\ Len(s) \in Nat
OBVIOUS

------------------------------------------------------------------------------
(* What the variables hold. *)

WireInv ==
    /\ sent \in Seq(Items) /\ Len(sent) <= MaxFrames
    /\ taken \in 0 .. Len(sent)
    /\ socket \in {"open", "closed", "failed"}
    /\ chat \in [on : BOOLEAN, id : Nat, seq : Nat] /\ chat.seq <= Len(sent)

QueueInv ==
    /\ active \in Uuids \cup {<<>>}
    /\ handled \in Seq(HistoryCommands) /\ historyQueue \in Seq(HistoryCommands)
    /\ Len(historyQueue) <= HistoryCapacity
    /\ thread \in {"running", "ended"}

LogInv ==
    /\ log \in Seq(Events) /\ unread \in 0 .. Len(log) /\ unread <= EventCapacity
    /\ client \in {"held", "dropped"}
    /\ reader \in {"running", "ended"}

LEMMA SendOK ==
    ASSUME WireInv, NEW item \in Items, Send(item),
           chat' \in [on : BOOLEAN, id : Nat, seq : Nat],
           chat'.seq <= Len(sent) + 1
    PROVE  WireInv'
<1>1. /\ sent' \in Seq(Items) /\ Len(sent') = Len(sent) + 1 /\ Len(sent) \in Nat
  BY Extended DEF WireInv, Send
<1>2. Len(sent) < MaxFrames /\ taken' = taken /\ socket' = socket
  BY DEF Send
<1>3. MaxFrames \in Nat
  BY ConnectionAssumption
<1> QED
  BY <1>1, <1>2, <1>3 DEF WireInv

\* What the service sends is an item of its stream.
LEMMA ServiceWire ==
    ASSUME WireInv, Service
    PROVE  WireInv'
<1>1. /\ Len(sent) \in Nat /\ MaxFrames \in Nat /\ 0 .. MaxFrames \subseteq Values(LongWidth)
      /\ chat.seq \in Nat /\ chat.id \in Nat /\ chat.seq <= Len(sent)
      /\ UuidWidth \in Nat
  BY ConnectionAssumption, CodecAssumption DEF WireInv
<1>2. ASSUME ServiceMatches PROVE WireInv'
  <2> PICK visibility \in Visibility :
        Send([op |-> "MATCHED", conversation |-> BigEndian(chat.id + 1, UuidWidth),
              peer |-> <<>>, visibility |-> visibility])
    BY <1>2 DEF ServiceMatches
  <2> DEFINE frame == [op |-> "MATCHED", conversation |-> BigEndian(chat.id + 1, UuidWidth),
                       peer |-> <<>>, visibility |-> visibility]
  <2>1. BigEndian(chat.id + 1, UuidWidth) \in Uuids
    BY <1>1, BigEndianBytes DEF Uuids
  <2>2. <<>> \in Texts /\ Len(<<>>) <= MaxShortString /\ visibility \in Visibilities
    BY ConnectionAssumption DEF Texts, IsText, Bytes, MaxShortString
  <2>3. frame \in ServerFrames /\ EncodableServer(frame)
    BY <2>1, <2>2 DEF ServerFrames, EncodableServer
  <2>4. frame \in Items
    BY <2>3 DEF Items, Frames
  <2>5. chat' = [on |-> TRUE, id |-> chat.id + 1, seq |-> 0]
    BY <1>2 DEF ServiceMatches
  <2> HIDE DEF frame
  <2>6. Send(frame)
    BY DEF frame
  <2>7. /\ chat' \in [on : BOOLEAN, id : Nat, seq : Nat]
        /\ chat'.seq <= Len(sent) + 1
    BY <1>1, <2>5
  <2> QED
    BY <2>4, <2>6, <2>7, SendOK
<1>3. ASSUME ServiceRelays PROVE WireInv'
  <2> PICK sender \in Senders, payload \in Payloads :
        Send([op |-> "MESSAGE", seq |-> chat.seq + 1, sender |-> sender,
              payload |-> payload])
    BY <1>3 DEF ServiceRelays
  <2> DEFINE frame == [op |-> "MESSAGE", seq |-> chat.seq + 1, sender |-> sender,
                       payload |-> payload]
  <2>1. Send(frame)
    OBVIOUS
  <2>2. chat.seq + 1 \in Values(LongWidth)
    <3>1. Len(sent) < MaxFrames
      BY <2>1 DEF Send
    <3>2. chat.seq + 1 \in 0 .. MaxFrames
      BY <1>1, <3>1
    <3> QED
      BY <1>1, <3>2
  <2>3. /\ sender \in 0 .. 1 /\ sender \in 0 .. 255 /\ sender <= 1
        /\ payload \in Bytes /\ IsText(payload) /\ Len(payload) <= MaxMessageSize
    <3>1. sender \in 0 .. 1
      BY ConnectionAssumption
    <3>2. payload \in Texts /\ Len(payload) <= MaxMessageSize
      BY ConnectionAssumption
    <3> QED
      BY <3>1, <3>2 DEF Texts
  <2>4. frame \in ServerFrames /\ EncodableServer(frame)
    BY <2>2, <2>3 DEF ServerFrames, EncodableServer
  <2>5. frame \in Items
    BY <2>4 DEF Items, Frames
  <2>6. chat' = [chat EXCEPT !.seq = @ + 1]
    BY <1>3 DEF ServiceRelays
  <2> HIDE DEF frame
  <2>7. /\ chat' \in [on : BOOLEAN, id : Nat, seq : Nat]
        /\ chat'.seq <= Len(sent) + 1
    BY <1>1, <2>6 DEF WireInv
  <2> QED
    BY <2>1, <2>5, <2>7, SendOK
<1>4. ASSUME ServiceEndsChat PROVE WireInv'
  <2> PICK reason \in Reasons :
        Send([op |-> "PEER_LEFT", final_seq |-> chat.seq, reason |-> reason])
    BY <1>4 DEF ServiceEndsChat
  <2> DEFINE frame == [op |-> "PEER_LEFT", final_seq |-> chat.seq, reason |-> reason]
  <2>1. Send(frame)
    OBVIOUS
  <2>2. chat.seq \in Values(LongWidth) /\ reason \in EndReasons
    <3>1. chat.seq \in 0 .. MaxFrames
      BY <1>1 DEF WireInv
    <3> QED
      BY <1>1, <3>1, ConnectionAssumption
  <2>4. frame \in ServerFrames /\ EncodableServer(frame)
    BY <2>2 DEF ServerFrames, EncodableServer
  <2>5. frame \in Items
    BY <2>4 DEF Items, Frames
  <2>6. chat' = [on |-> FALSE, id |-> chat.id, seq |-> chat.seq]
    <3>1. chat \in [on : BOOLEAN, id : Nat, seq : Nat]
      BY DEF WireInv
    <3>2. chat' = [chat EXCEPT !.on = FALSE]
      BY <1>4 DEF ServiceEndsChat
    <3> QED
      BY <3>1, <3>2
  <2> HIDE DEF frame
  <2>7. /\ chat' \in [on : BOOLEAN, id : Nat, seq : Nat]
        /\ chat'.seq <= Len(sent) + 1
    BY <1>1, <2>6
  <2> QED
    BY <2>1, <2>5, <2>7, SendOK
<1>5. ASSUME ServiceAside PROVE WireInv'
  <2> PICK frame \in Asides : Send(frame)
    BY <1>5 DEF ServiceAside
  <2>1. frame \in Items
    BY ConnectionAssumption DEF Items, Frames
  <2>2. chat' = chat
    BY <1>5 DEF ServiceAside
  <2> QED
    BY <1>1, <2>1, <2>2, SendOK DEF WireInv
<1>6. ASSUME ServiceStray PROVE WireInv'
  <2> PICK bytes \in Strays : Send([op |-> "STRAY", bytes |-> bytes])
    BY <1>6 DEF ServiceStray
  <2> DEFINE item == [op |-> "STRAY", bytes |-> bytes]
  <2>1. Send(item) /\ item \in Items
    BY DEF Items
  <2>2. chat' = chat
    BY <1>6 DEF ServiceStray
  <2> HIDE DEF item
  <2> QED
    BY <1>1, <2>1, <2>2, SendOK DEF WireInv
<1>7. ASSUME SocketEnds PROVE WireInv'
  BY <1>7 DEF SocketEnds, WireInv
<1> QED
  BY <1>2, <1>3, <1>4, <1>5, <1>6, <1>7 DEF Service

\* The command of a frame, filed under the conversation that is going on.
LEMMA HistoryOfFrame ==
    ASSUME QueueInv, NEW frame \in Frames
    PROVE  \/ /\ HistoryOf(frame) = <<>>
              /\ frame.op \in Conversational => active = <<>> /\ frame.op # "MATCHED"
           \/ /\ frame.op \in Conversational
              /\ \E id \in Uuids :
                   /\ id = IF frame.op = "MATCHED" THEN frame.conversation ELSE active
                   /\ CommandOf(EventOf(frame), id) \in HistoryCommands
                   /\ HistoryOf(frame) = <<CommandOf(EventOf(frame), id)>>
<1> DEFINE event == EventOf(frame)
<1>1. event.op = frame.op
  BY EventKeeps
<1>2. \A id \in Uuids, seq \in Nat, do \in {"begin", "append", "finish"} :
        Record(do, id, seq) \in HistoryCommands
  BY DEF Record, HistoryCommands, Uuids
<1>3. CASE frame.op = "MATCHED"
  <2>1. frame.conversation \in Uuids
    BY <1>3, EventKeeps
  <2>2. CommandOf(event, frame.conversation) = Record("begin", frame.conversation, 0)
    BY <1>1, <1>3 DEF CommandOf
  <2>3. HistoryOf(frame) = <<Record("begin", frame.conversation, 0)>>
    BY <1>3 DEF HistoryOf
  <2> QED
    BY <1>2, <1>3, <2>1, <2>2, <2>3 DEF Conversational
<1>4. CASE frame.op = "MESSAGE" /\ active # <<>>
  <2>1. active \in Uuids /\ event.seq = frame.seq /\ frame.seq \in Nat
    BY <1>4, EventKeeps DEF QueueInv
  <2>2. CommandOf(event, active) = Record("append", active, frame.seq)
    BY <1>1, <1>4, <2>1 DEF CommandOf
  <2>3. HistoryOf(frame) = <<Record("append", active, frame.seq)>>
    BY <1>4 DEF HistoryOf
  <2> QED
    BY <1>2, <1>4, <2>1, <2>2, <2>3 DEF Conversational
<1>5. CASE frame.op = "PEER_LEFT" /\ active # <<>>
  <2>1. /\ active \in Uuids /\ event.final_seq = frame.final_seq
        /\ frame.final_seq \in Nat
    BY <1>5, EventKeeps DEF QueueInv
  <2>2. CommandOf(event, active) = Record("finish", active, frame.final_seq)
    BY <1>1, <1>5, <2>1 DEF CommandOf
  <2>3. HistoryOf(frame) = <<Record("finish", active, frame.final_seq)>>
    BY <1>5 DEF HistoryOf
  <2> QED
    BY <1>2, <1>5, <2>1, <2>2, <2>3 DEF Conversational
<1>6. CASE /\ frame.op # "MATCHED"
           /\ frame.op \in Conversational => active = <<>>
  <2>1. HistoryOf(frame) = <<>>
    BY <1>6 DEF HistoryOf, Conversational
  <2> QED
    BY <1>6, <2>1
<1> QED
  BY <1>3, <1>4, <1>5, <1>6 DEF Conversational

\* What Take takes.
LEMMA Taken ==
    ASSUME StraysAreStray, WireInv, Take
    PROVE  /\ sent[taken + 1] \in Items /\ taken + 1 \in 1 .. Len(sent)
           /\ taken' = taken + 1 /\ reader = "running"
           /\ IsFrame(Incoming) =>
                /\ Incoming = sent[taken + 1] /\ sent[taken + 1] \in Frames
                /\ sent[taken + 1].op # "STRAY"
           /\ ~IsFrame(Incoming) => sent[taken + 1].op = "STRAY"
<1>1. /\ taken \in Nat /\ Len(sent) \in Nat /\ taken < Len(sent)
      /\ taken' = taken + 1 /\ reader = "running"
  BY DEF WireInv, Take
<1>2. sent[taken + 1] \in Items
  BY <1>1 DEF WireInv
<1> QED
  BY <1>1, <1>2, WhatIsRead DEF Incoming

\* What was handed over and what is waiting, after one more command.
LEMMA QueueOK ==
    ASSUME QueueInv, NEW frame \in Frames, HistoryHasRoom(frame),
           historyQueue' = historyQueue \o HistoryOf(frame),
           active' = ActiveAfter(frame), UNCHANGED <<handled, thread>>
    PROVE  QueueInv'
<1>1. HistoryOf(frame) \in Seq(HistoryCommands)
  <2>1. CASE HistoryOf(frame) = <<>>
    BY <2>1
  <2>2. CASE \E command \in HistoryCommands : HistoryOf(frame) = <<command>>
    BY <2>2
  <2> QED
    BY <2>1, <2>2, HistoryOfFrame
<1>2. /\ historyQueue' \in Seq(HistoryCommands)
      /\ Len(historyQueue') = Len(historyQueue) + Len(HistoryOf(frame))
  BY <1>1 DEF QueueInv
<1>3. Len(historyQueue') <= HistoryCapacity
  BY <1>2 DEF HistoryHasRoom
<1>4. active' \in Uuids \cup {<<>>}
  BY EventKeeps DEF ActiveAfter, QueueInv
<1> QED
  BY <1>2, <1>3, <1>4 DEF QueueInv

LEMMA QueueStep ==
    ASSUME StraysAreStray, WireInv, QueueInv, Next
    PROVE  QueueInv'
<1>1. ASSUME Service PROVE QueueInv'
  BY <1>1 DEF Service, ServiceMatches, ServiceRelays, ServiceEndsChat, ServiceAside,
     ServiceStray, SocketEnds, Send, historyVars, QueueInv
<1>2. ASSUME ReadFrame PROVE QueueInv'
  <2>1. Incoming \in Frames /\ UNCHANGED <<handled, thread>>
    BY <1>2, Taken DEF ReadFrame, Take
  <2> HIDE DEF Incoming
  <2> QED
    BY <1>2, <2>1, QueueOK DEF ReadFrame
<1>3. ASSUME HistoryFull \/ ReadMalformed \/ ReadFails \/ EndOfStream PROVE QueueInv'
  BY <1>3 DEF HistoryFull, ReadMalformed, ReadFails, EndOfStream, Take, historyVars,
     QueueInv
<1>4. ASSUME HandleHistory PROVE QueueInv'
  <2>1. /\ historyQueue # <<>> /\ historyQueue' = Tail(historyQueue)
        /\ handled' = Append(handled, Head(historyQueue))
        /\ active' = active /\ thread' = thread
    BY <1>4 DEF HandleHistory, AfterWrite
  <2>2. /\ Head(historyQueue) \in HistoryCommands
        /\ Tail(historyQueue) \in Seq(HistoryCommands)
        /\ Len(Tail(historyQueue)) = Len(historyQueue) - 1
        /\ Len(historyQueue) \in Nat
    BY <2>1 DEF QueueInv
  <2>3. HistoryCapacity \in Nat
    BY ConnectionAssumption
  <2>4. handled' \in Seq(HistoryCommands)
    BY <2>1, <2>2 DEF QueueInv
  <2>5. Len(historyQueue') <= HistoryCapacity
    BY <2>1, <2>2, <2>3 DEF QueueInv
  <2> QED
    BY <2>1, <2>2, <2>4, <2>5 DEF QueueInv
<1>5. ASSUME ThreadEnds \/ NextEvent \/ DropClient \/ Shutdown PROVE QueueInv'
  BY <1>5 DEF ThreadEnds, NextEvent, DropClient, Shutdown, historyVars, QueueInv
<1> QED
  BY <1>1, <1>2, <1>3, <1>4, <1>5 DEF Next, Read

LEMMA ReportOK ==
    ASSUME LogInv, NEW event \in Events, Report(event)
    PROVE  \/ /\ log' = Append(log, event) /\ log' \in Seq(Events)
              /\ unread' \in 0 .. Len(log') /\ unread' <= EventCapacity
              /\ reader' = reader
           \/ log' = log /\ unread' = unread /\ reader' = "ended"
<1>1. CASE client = "held" /\ unread < EventCapacity
  <2>1. log' = Append(log, event) /\ unread' = unread + 1 /\ reader' = reader
    BY <1>1 DEF Report
  <2>2. log' \in Seq(Events) /\ Len(log') = Len(log) + 1 /\ Len(log) \in Nat
    BY <2>1, Extended DEF LogInv
  <2>3. EventCapacity \in Nat
    BY ConnectionAssumption
  <2> QED
    BY <1>1, <2>1, <2>2, <2>3 DEF LogInv
<1>2. CASE ~(client = "held" /\ unread < EventCapacity)
  BY <1>2 DEF Report
<1> QED
  BY <1>1, <1>2

LEMMA EventsAre ==
    /\ \A frame \in Frames : EventOf(frame) \in Events
    /\ \A cause \in {"network", "protocol", "history"} : Failure(cause) \in Events
BY DEF Events

LEMMA LogStep ==
    ASSUME StraysAreStray, WireInv, LogInv, Next
    PROVE  LogInv'
<1>1. ASSUME Service \/ EndOfStream \/ HandleHistory \/ ThreadEnds \/ Shutdown
      PROVE LogInv'
  BY <1>1 DEF Service, ServiceMatches, ServiceRelays, ServiceEndsChat, ServiceAside,
     ServiceStray, SocketEnds, Send, EndOfStream, HandleHistory, ThreadEnds, Shutdown,
     LogInv
<1>2. ASSUME NEW event \in Events, Report(event), client' = client PROVE LogInv'
  BY <1>2, ReportOK DEF LogInv
<1>3. ASSUME ReadFrame PROVE LogInv'
  <2>1. Incoming \in Frames /\ client' = client
    BY <1>3, Taken DEF ReadFrame, Take
  <2>2. Report(EventOf(Incoming)) \/ UNCHANGED <<log, unread, reader>>
    BY <1>3 DEF ReadFrame
  <2> HIDE DEF Incoming
  <2>3. EventOf(Incoming) \in Events
    BY <2>1, EventsAre
  <2>4. CASE UNCHANGED <<log, unread, reader>>
    BY <2>1, <2>4 DEF LogInv
  <2> QED
    BY <1>2, <2>1, <2>2, <2>3, <2>4
<1>4. ASSUME HistoryFull \/ ReadMalformed \/ ReadFails PROVE LogInv'
  <2>1. \E cause \in {"network", "protocol", "history"} : Report(Failure(cause))
    BY <1>4 DEF HistoryFull, ReadMalformed, ReadFails
  <2>2. client' = client
    BY <1>4 DEF HistoryFull, ReadMalformed, ReadFails, Take
  <2> QED
    BY <1>2, <2>1, <2>2, EventsAre
<1>5. ASSUME NextEvent \/ DropClient PROVE LogInv'
  <2>1. log' = log /\ reader' = reader /\ unread' \in {0, unread - 1}
        /\ client' \in {client, "dropped"} /\ (unread' = unread - 1 => unread > 0)
    BY <1>5 DEF NextEvent, DropClient, LogInv
  <2>2. EventCapacity \in Nat
    BY ConnectionAssumption
  <2>3. Len(log) \in Nat
    BY DEF LogInv
  <2> QED
    BY <2>1, <2>2, <2>3 DEF LogInv
<1> QED
  BY <1>1, <1>3, <1>4, <1>5 DEF Next, Read

LEMMA WireStep ==
    ASSUME StraysAreStray, WireInv, Next
    PROVE  WireInv'
<1>1. ASSUME Service PROVE WireInv'
  BY <1>1, ServiceWire
<1>2. ASSUME Take PROVE WireInv'
  BY <1>2, Taken DEF Take, serviceVars, WireInv
<1>3. ASSUME ReadFails PROVE WireInv'
  BY <1>3 DEF ReadFails, WireInv
<1>4. ASSUME EndOfStream \/ HandleHistory \/ ThreadEnds \/ NextEvent \/ DropClient
             \/ Shutdown
      PROVE  WireInv'
  BY <1>4 DEF EndOfStream, HandleHistory, ThreadEnds, NextEvent, DropClient, Shutdown,
     serviceVars, WireInv
<1> QED
  BY <1>1, <1>2, <1>3, <1>4 DEF Next, Read, ReadFrame, HistoryFull, ReadMalformed

TypeInv == WireInv /\ QueueInv /\ LogInv

LEMMA TypeInitially == Init => TypeInv
<1> SUFFICES ASSUME Init PROVE TypeInv
  OBVIOUS
<1>1. /\ HistoryCapacity \in Nat /\ EventCapacity \in Nat /\ MaxFrames \in Nat
  BY ConnectionAssumption
<1> QED
  BY <1>1 DEF Init, TypeInv, WireInv, QueueInv, LogInv

LEMMA TypeStep ==
    ASSUME StraysAreStray PROVE TypeInv /\ [Next]_vars => TypeInv'
<1>1. ASSUME TypeInv, Next PROVE TypeInv'
  BY <1>1, WireStep, QueueStep, LogStep DEF TypeInv
<1>2. ASSUME TypeInv, UNCHANGED vars PROVE TypeInv'
  BY <1>2 DEF vars, TypeInv, WireInv, QueueInv, LogInv
<1> QED
  BY <1>1, <1>2

\* The hypothesis is what a run can evaluate: decode_server refuses every stray.
THEOREM RefusedAreStray ==
    (\A bytes \in Strays : ~IsFrame(DecodeServer(bytes))) <=> StraysAreStray
<1>1. ASSUME NEW bytes \in Strays, ~IsFrame(DecodeServer(bytes)), NEW frame \in Frames
      PROVE  EncodeServer(frame) # bytes
  <2>1. IsFrame(frame)
    BY FrameOps, ServerOps DEF Frames, IsFrame
  <2>2. DecodeServer(EncodeServer(frame)) = frame
    BY ServerRoundTrip DEF RoundTrips, Frames
  <2> QED
    BY <1>1, <2>1, <2>2
<1>2. ASSUME StraysAreStray, NEW bytes \in Strays PROVE ~IsFrame(DecodeServer(bytes))
  <2> DEFINE item == [op |-> "STRAY", bytes |-> bytes]
  <2>1. item \in Items /\ item.op = "STRAY" /\ Wire(item) = bytes
    BY DEF Items, Wire
  <2> QED
    BY <1>2, <2>1, WhatIsRead
<1> QED
  BY <1>1, <1>2 DEF StraysAreStray

\* Every variable of the reader task, the history thread and their queues stays
\* in its type, and the queues within their capacities.
THEOREM ConnectionTypeCorrectness ==
    ASSUME StraysAreStray PROVE Spec => []ConnectionTypeOK
<1>1. TypeInv => ConnectionTypeOK
  <2> SUFFICES ASSUME TypeInv PROVE ConnectionTypeOK
    OBVIOUS
  <2>1. active \in Bytes
    BY NoBytes DEF TypeInv, QueueInv, Uuids
  <2>2. \A i \in DOMAIN historyQueue : historyQueue[i] \in HistoryCommands
    BY DEF TypeInv, QueueInv
  <2> QED
    BY <2>1, <2>2 DEF TypeInv, WireInv, QueueInv, LogInv, ConnectionTypeOK
<1> QED
  BY <1>1, TypeInitially, TypeStep, PTL DEF Spec

\* map_event decodes what the service has sent, and refuses a stray.
THEOREM WireIsUnderstood ==
    ASSUME StraysAreStray PROVE Spec => []WireAgrees
<1>1. TypeInv => WireAgrees
  <2> SUFFICES ASSUME TypeInv, NEW i \in DOMAIN sent
               PROVE  IF sent[i].op = "STRAY" THEN ~IsFrame(DecodeServer(Wire(sent[i])))
                      ELSE DecodeServer(Wire(sent[i])) = sent[i]
    BY DEF WireAgrees
  <2>1. sent[i] \in Items
    BY DEF TypeInv, WireInv
  <2> QED
    BY <2>1, WhatIsRead
<1> QED
  BY <1>1, TypeInitially, TypeStep, PTL DEF Spec

LEMMA HelloBytes ==
    ASSUME NEW version \in Nat, NEW flags \in Nat
    PROVE  /\ (Magic \o BigEndian(version, 2)) \o BigEndian(flags, 2) \in Bytes
           /\ Len((Magic \o BigEndian(version, 2)) \o BigEndian(flags, 2)) = 8
<1> DEFINE v == BigEndian(version, 2)
           f == BigEndian(flags, 2)
<1>0. 2 \in Nat
  OBVIOUS
<1>1. v \in Bytes /\ Len(v) = 2
  BY <1>0, BigEndianBytes, ZenonT(40)
<1>2. f \in Bytes /\ Len(f) = 2
  BY <1>0, BigEndianBytes, ZenonT(40)
<1> HIDE DEF v, f
<1> DEFINE first == Magic \o v
<1>3. first \in Bytes /\ Len(first) = Len(Magic) + Len(v)
  BY <1>1, MagicBytes, Joined
<1> HIDE DEF first
<1>4. first \o f \in Bytes /\ Len(first \o f) = Len(first) + Len(f)
  BY <1>2, <1>3, Joined
<1> DEFINE bytes == first \o f
<1>5. bytes \in Bytes /\ Len(bytes) = Len(first) + Len(f)
  BY <1>4
<1> HIDE DEF bytes
<1>6. bytes \in Bytes /\ Len(bytes) = 8
  BY <1>1, <1>2, <1>3, <1>5, MagicBytes
<1> QED
  BY <1>6 DEF bytes, first, v, f

\* The samples the runs take are some of the frames and strings of the theorems.
LEMMA SamplesAreBytes == ByteStrings \subseteq Bytes /\ HelloSamples \subseteq Bytes
<1>1. SampleBytes \subseteq 0 .. 255
  BY DEF SampleBytes
<1>2. Strings(5) \subseteq Bytes
  <2>1. ASSUME NEW k \in Nat, NEW f \in [1 .. k -> SampleBytes]
        PROVE  f \in Seq(0 .. 255)
    <3>1. \A i \in 1 .. k : f[i] \in SampleBytes
      OBVIOUS
    <3>2. \A i \in 1 .. k : f[i] \in 0 .. 255
      BY <1>1, <3>1
    <3>3. [i \in 1 .. k |-> f[i]] \in Seq(0 .. 255)
      BY <3>2, IsASeq
    <3>4. f = [i \in 1 .. k |-> f[i]]
      OBVIOUS
    <3> QED
      BY <3>3, <3>4
  <2>2. 0 .. 5 \subseteq Nat
    BY SMTT(30)
  <2> QED
    BY <2>1, <2>2 DEF Strings, Bytes
<1>3. \A op \in 0 .. 26, bytes \in Strings(5) : <<op>> \o bytes \in Bytes
  <2> TAKE op \in 0 .. 26, bytes \in Strings(5)
  <2>1. op \in 0 .. 255
    OBVIOUS
  <2>2. bytes \in Bytes
    BY <1>2
  <2> QED
    BY <2>1, <2>2, HeadAndTail
<1>4. ASSUME NEW bytes \in ByteStrings PROVE bytes \in Bytes
  <2>1. CASE bytes = <<>>
    BY <2>1, NoBytes
  <2>2. CASE \E op \in 0 .. 26, rest \in Strings(5) : bytes = Framed(op, rest)
    BY <2>2, <1>3 DEF Framed
  <2> QED
    BY <2>1, <2>2 DEF ByteStrings
<1>5. \A version, flags \in Nat :
        (Magic \o BigEndian(version, 2)) \o BigEndian(flags, 2) \in Bytes
  BY HelloBytes
<1>6. ClientHello(0) \in Bytes /\ Len(ClientHello(0)) = 8
  <2>1. 0 \in Nat /\ 1 \in Nat
    OBVIOUS
  <2> QED
    BY <2>1, HelloBytes DEF ClientHello, Version
<1>7. Tail(ClientHello(0)) \in Bytes
  <2> DEFINE hello == ClientHello(0)
  <2>1. hello \in Bytes /\ Len(hello) = 8
    BY <1>6
  <2> HIDE DEF hello
  <2>2. hello \in Seq(0 .. 255) /\ hello # <<>>
    BY <2>1, NoBytes, SMTT(30) DEF Bytes
  <2>3. Tail(hello) \in Bytes
    BY <2>2, HeadTailProperties DEF Bytes
  <2> QED
    BY <2>3 DEF hello
<1>8. ClientHello(0) \o <<0>> \in Bytes
  <2>1. <<0>> \in Bytes
    BY 0 \in 0 .. 255, OneByte
  <2> QED
    BY <1>6, <2>1, Joined
<1>9. ASSUME NEW bytes \in HelloSamples PROVE bytes \in Bytes
  <2>1. CASE bytes \in {Tail(ClientHello(0)), ClientHello(0) \o <<0>>}
    BY <2>1, <1>7, <1>8
  <2>2. CASE \E version \in 0 .. 257, flags \in {0, 258} :
               bytes = HelloOf(version, flags)
    <3>1. PICK version \in 0 .. 257, flags \in {0, 258} :
            bytes = (Magic \o BigEndian(version, 2)) \o BigEndian(flags, 2)
      BY <2>2 DEF HelloOf
    <3>2. version \in Nat /\ flags \in Nat
      OBVIOUS
    <3> QED
      BY <1>5, <3>1, <3>2
  <2>3. CASE bytes \in VersionSamples
    BY <2>2, <2>3 DEF VersionSamples
  <2> QED
    BY <2>1, <2>3 DEF HelloSamples
<1> QED
  BY <1>4, <1>9

LEMMA SamplesFit == {0, 258} \subseteq Values(2)
<1>1. ASSUME NEW value \in {0, 258} PROVE value \in Values(2)
  <2> DEFINE rest == Shifted(value, 2)
  <2>1. rest[0] = value /\ \A n \in 1 .. 2 : rest[n] = rest[n - 1] \div 256
    BY ShiftedIs, SMTT(30)
  <2> HIDE DEF rest
  <2>2. rest[1] \in {0, 1}
    <3>1. 1 \in 1 .. 2 /\ 1 - 1 = 0 /\ 0 \div 256 = 0 /\ 258 \div 256 = 1
      OBVIOUS
    <3> QED
      BY <2>1, <3>1
  <2>3. rest[2] = 0
    <3>1. 2 \in 1 .. 2 /\ 2 - 1 = 1 /\ 0 \div 256 = 0 /\ 1 \div 256 = 0
      OBVIOUS
    <3> QED
      BY <2>1, <2>2, <3>1
  <2> QED
    BY <2>3 DEF Values, Fits, rest
<1> QED
  BY <1>1

\* Encoding and decoding are each other's inverse on what is on the socket and on
\* all the samples of the run.
THEOREM CodecAgreement ==
    ASSUME StraysAreStray PROVE Spec => []CodecAgrees
<1>1. /\ RoundTrips(ClientSamples \cap ClientFrames,
                    EncodableClient, EncodeClient, DecodeClient)
      /\ RoundTrips(ServerSamples \cap ServerFrames,
                    EncodableServer, EncodeServer, DecodeServer)
  BY ClientRoundTrip, ServerRoundTrip DEF RoundTrips
<1>2. /\ IsCanonical(ByteStrings, EncodableClient, EncodeClient, DecodeClient)
      /\ IsCanonical(ByteStrings, EncodableServer, EncodeServer, DecodeServer)
  BY ClientCanonical, ServerCanonical, SamplesAreBytes DEF IsCanonical
<1>3. HelloAgrees(HelloSamples, {0, 258})
  BY HelloUnderstood, SamplesAreBytes, SamplesFit DEF HelloAgrees
<1>4. WireAgrees => CodecAgrees
  BY <1>1, <1>2, <1>3 DEF CodecAgrees, SamplesAgree
<1> QED
  BY <1>4, WireIsUnderstood, PTL

------------------------------------------------------------------------------
(* Nothing is missing from what next_event returns. *)

LEMMA PlaceCounts ==
    ASSUME NEW k \in Nat
    PROVE  /\ Place(k) \in Nat
           /\ Place(k + 1) = IF sent[k + 1].op = "PONG" THEN Place(k) ELSE Place(k) + 1
           /\ \A n \in 0 .. k : Place(n) <= Place(k)
<1> DEFINE S == {j \in Nat : sent[j].op # "PONG"}
<1>1. \A n \in Nat : Place(n) = CountTo(S, n)
  <2> TAKE n \in Nat
  <2>1. {j \in 1 .. n : j \in S} = {j \in 1 .. n : sent[j].op # "PONG"}
    OBVIOUS
  <2> QED
    BY <2>1 DEF Place, CountTo
<1>2. k + 1 \in S <=> sent[k + 1].op # "PONG"
  OBVIOUS
<1> HIDE DEF S
<1> QED
  BY <1>1, <1>2, Counting, SMTT(30)

LEMMA PlacesStay ==
    ASSUME NEW S, sent \in Seq(S), NEW item \in S, sent' = Append(sent, item)
    PROVE  \A k \in 0 .. Len(sent) : Place(k)' = Place(k)
<1> TAKE k \in 0 .. Len(sent)
<1>1. \A j \in 1 .. k : sent'[j] = sent[j]
  BY Extended
<1>2. {j \in 1 .. k : sent'[j].op # "PONG"} = {j \in 1 .. k : sent[j].op # "PONG"}
  BY <1>1
<1> QED
  BY <1>2 DEF Place

\* A reader that goes on is up to date, but for the network error it reports last.
GapInv ==
    /\ NoGaps
    /\ reader = "running" =>
         \/ Len(log) = Place(taken)
         \/ socket = "closed" /\ taken = Len(sent)

\* A PONG is consumed.
LEMMA GapConsumed ==
    ASSUME WireInv, LogInv, GapInv, taken \in Nat,
           sent[taken + 1].op = "PONG", taken' = taken + 1, taken < Len(sent),
           UNCHANGED <<sent, log, reader, socket>>
    PROVE  GapInv'
<1>1. Place(taken + 1) = Place(taken) /\ Place(taken) \in Nat
  BY PlaceCounts
<1>2. \A k \in Nat : Place(k)' = Place(k)
  BY DEF Place
<1>3. Place(taken)' = Place(taken)
  BY <1>1 DEF Place
<1>4. Len(sent) \in Nat
  BY DEF WireInv
<1>5. ASSUME NEW k \in 1 .. taken', sent[k].op # "PONG", Place(k) <= Len(log)
      PROVE  Reported(sent[k], log[Place(k)])
  <2>1. k \in 1 .. taken
    BY <1>5
  <2> QED
    BY <1>5, <2>1 DEF GapInv, NoGaps
<1>6. ASSUME NEW i \in DOMAIN log, i > Place(taken)
      PROVE  log[i] = Failure("network") /\ i = Len(log)
  BY <1>6 DEF GapInv, NoGaps
<1>7. ASSUME reader = "running" PROVE Len(log) = Place(taken)
  BY <1>4, <1>7 DEF GapInv
<1>8. Len(log) \in Nat
  BY DEF LogInv
<1> QED
  BY <1>1, <1>2, <1>3, <1>5, <1>6, <1>7, <1>8 DEF GapInv, NoGaps, Reported

\* Anything else is reported, or the reader ends.
LEMMA GapReported ==
    ASSUME WireInv, LogInv, GapInv, reader = "running",
           sent[taken + 1].op # "PONG", taken' = taken + 1, taken < Len(sent),
           UNCHANGED <<sent, socket>>,
           NEW event \in Events, Report(event), Reported(sent[taken + 1], event)
    PROVE  GapInv'
<1>1. /\ taken \in Nat /\ Len(sent) \in Nat
      /\ log \in Seq(Events) /\ Len(log) \in Nat /\ DOMAIN log = 1 .. Len(log)
  BY DEF WireInv, LogInv
<1>2. /\ Place(taken + 1) = Place(taken) + 1 /\ Place(taken) \in Nat
      /\ \A k \in 0 .. taken : Place(k) <= Place(taken)
      /\ \A k \in Nat : Place(k) \in Nat
  BY <1>1, PlaceCounts
<1>3. Len(log) = Place(taken)
  BY <1>1 DEF GapInv
<1>4. \A k \in Nat : Place(k)' = Place(k)
  BY DEF Place
<1>5. Place(taken)' = Place(taken) + 1
  BY <1>2 DEF Place
<1>6. \A k \in 1 .. taken :
        sent[k].op # "PONG" => Reported(sent[k], log[Place(k)]) /\ Place(k) \in 1 .. Len(log)
  <2> SUFFICES ASSUME NEW k \in 1 .. taken, sent[k].op # "PONG"
               PROVE  Reported(sent[k], log[Place(k)]) /\ Place(k) \in 1 .. Len(log)
    OBVIOUS
  <2>1. Place(k) <= Len(log)
    BY <1>2, <1>3
  <2>2. Place(k) >= 1
    <3>1. k - 1 \in Nat /\ (k - 1) + 1 = k
      BY <1>1
    <3>2. Place((k - 1) + 1) = Place(k - 1) + 1 /\ Place(k - 1) \in Nat
      BY <1>2, <3>1, PlaceCounts
    <3> QED
      BY <3>1, <3>2
  <2>3. Reported(sent[k], log[Place(k)])
    BY <2>1 DEF GapInv, NoGaps
  <2> QED
    BY <1>2, <2>1, <2>2, <2>3
<1>7. CASE log' = Append(log, event)
  <2>1. /\ Len(log') = Len(log) + 1 /\ log'[Len(log) + 1] = event
        /\ \A i \in 1 .. Len(log) : log'[i] = log[i]
        /\ DOMAIN log' = 1 .. Len(log) + 1
    BY <1>1, <1>7, Extended
  <2>2. ASSUME NEW k \in 1 .. taken', sent[k].op # "PONG"
        PROVE  Reported(sent[k], log'[Place(k)])
    <3>1. CASE k = taken + 1
      BY <1>2, <1>3, <2>1, <3>1
    <3>2. CASE k \in 1 .. taken
      BY <1>6, <2>1, <2>2, <3>2
    <3> QED
      BY <1>1, <3>1, <3>2
  <2>3. \A k \in 1 .. taken' :
          sent'[k].op # "PONG" => Reported(sent'[k], log'[Place(k)'])
    <3> TAKE k \in 1 .. taken'
    <3>1. Place(k)' = Place(k) /\ sent' = sent
      BY <1>1, <1>4
    <3> QED
      BY <2>2, <3>1
  <2>4. Len(log') = Place(taken)'
    BY <1>3, <1>5, <2>1
  <2>5. \A i \in DOMAIN log' : ~ i > Place(taken)'
    BY <1>2, <1>3, <1>5, <2>1
  <2>6. NoGaps'
    <3>1. Len(log') >= Place(taken)'
      BY <1>2, <1>5, <2>4
    <3> QED
      BY <2>3, <2>5, <3>1 DEF NoGaps, Reported
  <2> QED
    BY <2>4, <2>6 DEF GapInv
<1>8. CASE log' = log /\ reader' = "ended"
  <2>1. ASSUME NEW k \in 1 .. taken', sent[k].op # "PONG", Place(k) <= Len(log)
        PROVE  Reported(sent[k], log[Place(k)])
    <3>1. CASE k = taken + 1
      BY <1>2, <1>3, <2>1, <3>1
    <3>2. CASE k \in 1 .. taken
      BY <1>6, <2>1, <3>2
    <3> QED
      BY <1>1, <3>1, <3>2
  <2>2. \A k \in 1 .. taken' :
          sent'[k].op # "PONG" /\ Place(k)' <= Len(log')
              => Reported(sent'[k], log'[Place(k)'])
    <3> TAKE k \in 1 .. taken'
    <3>1. Place(k)' = Place(k) /\ sent' = sent
      BY <1>1, <1>4
    <3> QED
      BY <1>8, <2>1, <3>1
  <2>3. \A i \in DOMAIN log' : ~ i > Place(taken)'
    BY <1>1, <1>2, <1>3, <1>5, <1>8
  <2>4. NoGaps'
    BY <1>8, <2>2, <2>3 DEF NoGaps, Reported
  <2> QED
    BY <1>8, <2>4 DEF GapInv
<1> QED
  BY <1>7, <1>8, ReportOK

\* A longer stream moves no place that has been taken.
LEMMA GapSent ==
    ASSUME WireInv, GapInv, NEW item \in Items, Send(item)
    PROVE  GapInv'
<1>1. /\ sent' = Append(sent, item) /\ sent \in Seq(Items) /\ socket = "open"
      /\ UNCHANGED <<taken, socket, log, reader>> /\ taken \in 0 .. Len(sent)
  BY DEF Send, WireInv
<1>2. \A k \in 0 .. Len(sent) : Place(k)' = Place(k)
  BY <1>1, PlacesStay
<1>3. \A k \in 1 .. taken : k \in 0 .. Len(sent) /\ sent'[k] = sent[k]
  BY <1>1, Extended
<1>4. Place(taken)' = Place(taken)
  BY <1>1, <1>2
<1>5. \A k \in 1 .. taken' :
        sent'[k].op # "PONG" /\ Place(k)' <= Len(log')
            => Reported(sent'[k], log'[Place(k)'])
  BY <1>1, <1>2, <1>3 DEF GapInv, NoGaps
<1>6. \A i \in DOMAIN log' :
        i > Place(taken)' => log'[i] = Failure("network") /\ i = Len(log')
  BY <1>1, <1>4 DEF GapInv, NoGaps
<1>7. reader' = "running" => Len(log') >= Place(taken)' /\ Len(log') = Place(taken)'
  BY <1>1, <1>4 DEF GapInv, NoGaps
<1>8. NoGaps'
  BY <1>5, <1>6, <1>7 DEF NoGaps, Reported, Failure
<1> QED
  BY <1>7, <1>8 DEF GapInv

\* The last word of a reader whose socket has failed.
LEMMA GapFailure ==
    ASSUME WireInv, LogInv, GapInv, ReadFails
    PROVE  GapInv'
<1>1. /\ UNCHANGED <<sent, taken>> /\ taken = Len(sent) /\ socket = "failed"
      /\ socket' = "closed" /\ reader = "running" /\ Report(Failure("network"))
      /\ Len(log) \in Nat /\ DOMAIN log = 1 .. Len(log) /\ taken \in Nat
  BY DEF ReadFails, WireInv, LogInv
<1>2. Len(log) = Place(taken)
  BY <1>1 DEF GapInv
<1>3. \A k \in Nat : Place(k)' = Place(k)
  BY <1>1 DEF Place
<1>4. Place(taken)' = Place(taken)
  BY <1>1 DEF Place
<1>5. \A k \in 1 .. taken : k \in Nat /\ Place(k) \in Nat /\ Place(k) <= Len(log)
  BY <1>1, <1>2, PlaceCounts
<1>6. CASE log' = Append(log, Failure("network"))
  <2>1. /\ Len(log') = Len(log) + 1 /\ log'[Len(log) + 1] = Failure("network")
        /\ \A i \in 1 .. Len(log) : log'[i] = log[i]
        /\ DOMAIN log' = 1 .. Len(log) + 1
    BY <1>1, <1>6, Extended, EventsAre DEF LogInv
  <2>2. \A k \in 1 .. taken' :
          sent'[k].op # "PONG" => Reported(sent'[k], log'[Place(k)'])
    <3> SUFFICES ASSUME NEW k \in 1 .. taken, sent[k].op # "PONG"
                 PROVE  Reported(sent[k], log'[Place(k)])
      BY <1>1, <1>3
    <3>1. Reported(sent[k], log[Place(k)])
      BY <1>5 DEF GapInv, NoGaps
    <3>2. Place(k) >= 1
      <4>1. k - 1 \in Nat /\ (k - 1) + 1 = k
        BY <1>1
      <4>2. Place((k - 1) + 1) = Place(k - 1) + 1 /\ Place(k - 1) \in Nat
        BY <4>1, PlaceCounts
      <4> QED
        BY <4>1, <4>2
    <3> QED
      BY <1>5, <2>1, <3>1, <3>2
  <2>3. \A i \in DOMAIN log' :
          i > Place(taken)' => log'[i] = Failure("network") /\ i = Len(log')
    BY <1>1, <1>2, <1>4, <2>1
  <2>4. Len(log') >= Place(taken)'
    BY <1>1, <1>2, <1>4, <2>1
  <2>5. NoGaps'
    BY <2>2, <2>3, <2>4 DEF NoGaps, Reported, Failure
  <2> QED
    BY <1>1, <2>5 DEF GapInv
<1>7. CASE log' = log /\ reader' = "ended"
  <2>1. NoGaps'
    <3>1. \A k \in 1 .. taken' :
            sent'[k].op # "PONG" /\ Place(k)' <= Len(log')
                => Reported(sent'[k], log'[Place(k)'])
      BY <1>1, <1>3, <1>5, <1>7 DEF GapInv, NoGaps
    <3>2. \A i \in DOMAIN log' :
            i > Place(taken)' => log'[i] = Failure("network") /\ i = Len(log')
      BY <1>1, <1>2, <1>4, <1>7
    <3> QED
      BY <1>7, <3>1, <3>2 DEF NoGaps, Reported, Failure
  <2> QED
    BY <1>7, <2>1 DEF GapInv
<1> QED
  BY <1>1, <1>6, <1>7, ReportOK, EventsAre

LEMMA GapStep ==
    ASSUME StraysAreStray, TypeInv, GapInv, Next
    PROVE  GapInv'
<1>1. /\ taken \in Nat /\ Len(sent) \in Nat /\ taken <= Len(sent)
      /\ WireInv /\ QueueInv /\ LogInv
  BY DEF TypeInv, WireInv
<1>2. ASSUME Service PROVE GapInv'
  <2>1. CASE SocketEnds
    BY <2>1 DEF SocketEnds, GapInv, NoGaps, Place
  <2>2. CASE \E item : Send(item)
    <3> PICK item : Send(item)
      BY <2>2
    <3>1. item \in Items
      <4>1. WireInv'
        BY <1>1, <1>2, ServiceWire
      <4>2. sent' = Append(sent, item) /\ Len(sent) + 1 \in 1 .. Len(sent')
        BY <1>1, <4>1 DEF Send, WireInv
      <4>3. sent'[Len(sent) + 1] = item
        BY <1>1, <4>2 DEF WireInv
      <4> QED
        BY <4>1, <4>2, <4>3 DEF WireInv
    <3> QED
      BY <1>1, <3>1, GapSent
  <2> QED
    BY <1>2, <2>1, <2>2 DEF Service, ServiceMatches, ServiceRelays, ServiceEndsChat,
       ServiceAside, ServiceStray
<1>3. ASSUME ReadFrame PROVE GapInv'
  <2> DEFINE frame == sent[taken + 1]
  <2>1. Take /\ IsFrame(Incoming)
    BY <1>3 DEF ReadFrame
  <2>2. /\ Incoming = frame /\ frame \in Frames /\ frame.op # "STRAY"
        /\ taken' = taken + 1 /\ reader = "running"
    BY <1>1, <2>1, Taken
  <2>3. UNCHANGED <<sent, socket>> /\ taken < Len(sent)
    BY <2>1 DEF Take, serviceVars
  <2>4. IF frame.op = "PONG" THEN UNCHANGED <<log, unread, reader>>
                             ELSE Report(EventOf(frame))
    BY <1>3, <2>2 DEF ReadFrame
  <2>5. EventOf(frame) \in Events /\ Reported(frame, EventOf(frame))
    BY <2>2, EventsAre DEF Reported
  <2> QED
    BY <1>1, <2>2, <2>3, <2>4, <2>5, GapConsumed, GapReported
<1>4. ASSUME HistoryFull PROVE GapInv'
  <2> DEFINE frame == sent[taken + 1]
  <2>1. Take /\ IsFrame(Incoming) /\ ~HistoryHasRoom(Incoming)
        /\ Report(Failure("history"))
    BY <1>4 DEF HistoryFull
  <2>2. /\ Incoming = frame /\ frame \in Frames
        /\ taken' = taken + 1 /\ reader = "running"
    BY <1>1, <2>1, Taken
  <2>3. UNCHANGED <<sent, socket>> /\ taken < Len(sent)
    BY <2>1 DEF Take, serviceVars
  <2>4. frame.op \in Conversational
    <3>1. CASE HistoryOf(frame) = <<>>
      <4>1. HistoryHasRoom(frame)
        BY <1>1, <3>1 DEF HistoryHasRoom, QueueInv
      <4> QED
        BY <2>1, <2>2, <4>1
    <3> QED
      BY <1>1, <2>2, <3>1, HistoryOfFrame
  <2>5. Failure("history") \in Events /\ Reported(frame, Failure("history"))
        /\ frame.op # "PONG"
    BY <2>4, EventsAre DEF Reported, Conversational
  <2> QED
    BY <1>1, <2>1, <2>2, <2>3, <2>5, GapReported
<1>5. ASSUME ReadMalformed PROVE GapInv'
  <2> DEFINE item == sent[taken + 1]
  <2>1. Take /\ ~IsFrame(Incoming) /\ Report(Failure("protocol"))
    BY <1>5 DEF ReadMalformed
  <2>2. item.op = "STRAY" /\ taken' = taken + 1 /\ reader = "running"
    BY <1>1, <2>1, Taken
  <2>3. UNCHANGED <<sent, socket>> /\ taken < Len(sent)
    BY <2>1 DEF Take, serviceVars
  <2>4. Failure("protocol") \in Events /\ Reported(item, Failure("protocol"))
    BY <2>2, EventsAre DEF Reported
  <2> QED
    BY <1>1, <2>1, <2>2, <2>3, <2>4, GapReported
<1>6. ASSUME ReadFails PROVE GapInv'
  BY <1>1, <1>6, GapFailure
<1>7. ASSUME EndOfStream \/ HandleHistory \/ ThreadEnds \/ NextEvent \/ DropClient
             \/ Shutdown
      PROVE  GapInv'
  <2>1. UNCHANGED <<sent, taken, socket, log>> /\ reader' \in {reader, "ended"}
    BY <1>7 DEF EndOfStream, HandleHistory, ThreadEnds, NextEvent, DropClient, Shutdown,
       serviceVars
  <2> QED
    BY <2>1 DEF GapInv, NoGaps, Place
<1> QED
  BY <1>2, <1>3, <1>4, <1>5, <1>6, <1>7 DEF Next, Read

\* next_event is the service's stream: every frame is reported in its place, as
\* what the service sent or as an error, and a reader task that goes on has left
\* none out, whatever was full.
THEOREM NothingIsMissing ==
    ASSUME StraysAreStray PROVE Spec => []NoGaps
<1>1. Init => GapInv
  <2> SUFFICES ASSUME Init PROVE GapInv
    OBVIOUS
  <2>1. taken = 0 /\ Len(log) = 0 /\ log = <<>> /\ sent = <<>>
    BY DEF Init
  <2>2. Place(0) = 0
    <3>1. {j \in 1 .. 0 : sent[j].op # "PONG"} = {}
      OBVIOUS
    <3> QED
      BY <3>1, FS_EmptySet DEF Place
  <2> QED
    BY <2>1, <2>2 DEF GapInv, NoGaps
<1>2. TypeInv /\ GapInv /\ [Next]_vars => GapInv'
  <2>1. ASSUME GapInv, UNCHANGED vars PROVE GapInv'
    BY <2>1 DEF vars, GapInv, NoGaps, Place
  <2> QED
    BY <2>1, GapStep
<1>3. GapInv => NoGaps
  BY DEF GapInv
<1> QED
  BY <1>1, <1>2, <1>3, TypeInitially, TypeStep, PTL DEF Spec

------------------------------------------------------------------------------
(* The history is the conversation that is shown. *)

\* The frames up to the k-th leave a conversation going on.
Talking(k) ==
    \E m \in 1 .. k :
        sent[m].op = "MATCHED" /\ \A j \in m + 1 .. k : sent[j].op # "PEER_LEFT"

\* The service speaks of a conversation that is going on.
InOrder ==
    /\ \A k \in DOMAIN sent :
         sent[k].op \in {"MESSAGE", "PEER_LEFT"} => Talking(k - 1)
    /\ chat.on => Talking(Len(sent))

\* As long as it has reported no error, the reader records under the conversation
\* it has shown, whenever one is going on.
Following ==
    reader = "running" /\ Trusted(Len(log)) =>
        /\ active # <<>> =>
             \E m \in 1 .. Len(log) :
                 Names(m, Len(log)) /\ active = log[m].conversation
        /\ Talking(taken) => active # <<>>

ShownInv == InOrder /\ Following /\ HistoryIsShown

LEMMA TalkingGoesOn ==
    ASSUME NEW k \in Nat
    PROVE  /\ sent[k + 1].op = "MATCHED" => Talking(k + 1)
           /\ Talking(k) /\ sent[k + 1].op # "PEER_LEFT" => Talking(k + 1)
           /\ Talking(k + 1) /\ sent[k + 1].op # "MATCHED" =>
                Talking(k) /\ sent[k + 1].op # "PEER_LEFT"
<1>1. ASSUME sent[k + 1].op = "MATCHED" PROVE Talking(k + 1)
  <2>1. k + 1 \in 1 .. k + 1 /\ (k + 1) + 1 .. k + 1 = {}
    OBVIOUS
  <2> QED
    BY <1>1, <2>1 DEF Talking
<1>2. ASSUME Talking(k), sent[k + 1].op # "PEER_LEFT" PROVE Talking(k + 1)
  <2> PICK m \in 1 .. k : /\ sent[m].op = "MATCHED"
                          /\ \A j \in m + 1 .. k : sent[j].op # "PEER_LEFT"
    BY <1>2 DEF Talking
  <2>1. m \in 1 .. k + 1 /\ \A j \in m + 1 .. k + 1 : j \in m + 1 .. k \/ j = k + 1
    OBVIOUS
  <2> QED
    BY <1>2, <2>1 DEF Talking
<1>3. ASSUME Talking(k + 1), sent[k + 1].op # "MATCHED"
      PROVE  Talking(k) /\ sent[k + 1].op # "PEER_LEFT"
  <2> PICK m \in 1 .. k + 1 : /\ sent[m].op = "MATCHED"
                              /\ \A j \in m + 1 .. k + 1 : sent[j].op # "PEER_LEFT"
    BY <1>3 DEF Talking
  <2>1. m # k + 1
    BY <1>3
  <2>2. m \in 1 .. k /\ k + 1 \in m + 1 .. k + 1
        /\ \A j \in m + 1 .. k : j \in m + 1 .. k + 1
    BY <2>1
  <2> QED
    BY <2>2 DEF Talking
<1> QED
  BY <1>1, <1>2, <1>3

LEMMA TalkingStays ==
    ASSUME NEW S, sent \in Seq(S), NEW item \in S, sent' = Append(sent, item)
    PROVE  \A k \in 0 .. Len(sent) : Talking(k)' <=> Talking(k)
<1> TAKE k \in 0 .. Len(sent)
<1>1. \A j \in 1 .. k : sent'[j] = sent[j]
  BY Extended
<1>2. \A m \in 1 .. k : \A j \in m + 1 .. k : j \in 1 .. k
  OBVIOUS
<1> QED
  BY <1>1, <1>2, SMTT(30) DEF Talking

LEMMA InOrderStep ==
    ASSUME WireInv, InOrder, Service
    PROVE  InOrder'
<1>1. /\ sent \in Seq(Items) /\ Len(sent) \in Nat
      /\ chat \in [on : BOOLEAN, id : Nat, seq : Nat]
  BY DEF WireInv
<1>2. CASE SocketEnds
  BY <1>2 DEF SocketEnds, InOrder, Talking
<1>3. ASSUME NEW item, Send(item),
             item.op \in {"MESSAGE", "PEER_LEFT"} => chat.on,
             chat'.on => item.op = "MATCHED" \/ (chat.on /\ item.op # "PEER_LEFT")
      PROVE  InOrder'
  <2>1. WireInv' /\ sent' = Append(sent, item)
    BY <1>3, ServiceWire DEF Send
  <2>2. /\ Len(sent') = Len(sent) + 1 /\ sent'[Len(sent) + 1] = item
        /\ item \in Items
    <3>1. Len(sent') = Len(sent) + 1 /\ sent'[Len(sent) + 1] = item
      BY <1>1, <2>1
    <3>2. Len(sent) + 1 \in 1 .. Len(sent')
      BY <1>1, <3>1
    <3>3. sent' \in Seq(Items)
      BY <2>1 DEF WireInv
    <3> QED
      BY <3>1, <3>2, <3>3
  <2>3. \A k \in 1 .. Len(sent) : sent'[k] = sent[k]
    BY <1>1, <2>1, <2>2, Extended
  <2>4. \A k \in 0 .. Len(sent) : Talking(k)' <=> Talking(k)
    BY <1>1, <2>1, <2>2, TalkingStays
  <2>5. ASSUME NEW k \in DOMAIN sent', sent'[k].op \in {"MESSAGE", "PEER_LEFT"}
        PROVE  Talking(k - 1)'
    <3>1. CASE k = Len(sent) + 1
      <4>1. Talking(Len(sent))
        BY <1>3, <2>2, <2>5, <3>1 DEF InOrder
      <4>2. k - 1 = Len(sent) /\ Len(sent) \in 0 .. Len(sent)
        BY <1>1, <3>1
      <4> QED
        BY <2>4, <4>1, <4>2
    <3>2. CASE k \in 1 .. Len(sent)
      <4>1. Talking(k - 1) /\ k - 1 \in 0 .. Len(sent)
        BY <1>1, <2>3, <2>5, <3>2 DEF InOrder
      <4> QED
        BY <2>4, <4>1
    <3>3. k \in 1 .. Len(sent) + 1
      BY <2>1, <2>2 DEF WireInv
    <3> QED
      BY <1>1, <3>1, <3>2, <3>3
  <2>6. ASSUME chat'.on PROVE Talking(Len(sent))'
    <3>1. CASE item.op = "MATCHED"
      <4>1. Len(sent') \in 1 .. Len(sent') /\ Len(sent') + 1 .. Len(sent') = {}
        BY <1>1, <2>2
      <4> QED
        BY <2>2, <3>1, <4>1 DEF Talking
    <3>2. CASE chat.on /\ item.op # "PEER_LEFT"
      <4>1. Talking(Len(sent))
        BY <3>2 DEF InOrder
      <4> PICK m \in 1 .. Len(sent) :
            /\ sent[m].op = "MATCHED"
            /\ \A j \in m + 1 .. Len(sent) : sent[j].op # "PEER_LEFT"
        BY <4>1 DEF Talking
      <4>2. /\ m \in 1 .. Len(sent') /\ sent'[m].op = "MATCHED"
            /\ \A j \in m + 1 .. Len(sent') :
                 j \in m + 1 .. Len(sent) \/ j = Len(sent) + 1
        BY <1>1, <2>2, <2>3
      <4>3. \A j \in m + 1 .. Len(sent) : j \in 1 .. Len(sent)
        BY <1>1
      <4>4. \A j \in m + 1 .. Len(sent') : sent'[j].op # "PEER_LEFT"
        BY <2>2, <2>3, <3>2, <4>2, <4>3
      <4> QED
        BY <4>2, <4>4 DEF Talking
    <3> QED
      BY <1>3, <2>6, <3>1, <3>2
  <2> QED
    BY <2>5, <2>6 DEF InOrder
<1>4. CASE ServiceMatches
  <2> PICK visibility \in Visibility :
        Send([op |-> "MATCHED", conversation |-> BigEndian(chat.id + 1, UuidWidth),
              peer |-> <<>>, visibility |-> visibility])
    BY <1>4 DEF ServiceMatches
  <2> QED
    BY <1>3
<1>5. CASE ServiceRelays
  <2> PICK sender \in Senders, payload \in Payloads :
        Send([op |-> "MESSAGE", seq |-> chat.seq + 1, sender |-> sender,
              payload |-> payload])
    BY <1>5 DEF ServiceRelays
  <2>1. chat.on
    BY <1>5 DEF ServiceRelays
  <2> QED
    BY <1>3, <2>1
<1>6. CASE ServiceEndsChat
  <2> PICK reason \in Reasons :
        Send([op |-> "PEER_LEFT", final_seq |-> chat.seq, reason |-> reason])
    BY <1>6 DEF ServiceEndsChat
  <2>1. chat.on /\ ~chat'.on
    BY <1>1, <1>6 DEF ServiceEndsChat
  <2> QED
    BY <1>3, <2>1
<1>7. CASE ServiceAside
  <2> PICK frame \in Asides : Send(frame)
    BY <1>7 DEF ServiceAside
  <2>1. frame.op \notin Conversational /\ chat' = chat
    BY <1>7, ConnectionAssumption DEF ServiceAside
  <2> QED
    BY <1>3, <2>1 DEF Conversational
<1>8. CASE ServiceStray
  <2> PICK bytes \in Strays : Send([op |-> "STRAY", bytes |-> bytes])
    BY <1>8 DEF ServiceStray
  <2>1. chat' = chat
    BY <1>8 DEF ServiceStray
  <2> QED
    BY <1>3, <2>1
<1> QED
  BY <1>2, <1>4, <1>5, <1>6, <1>7, <1>8 DEF Service

LEMMA ShownCounts ==
    ASSUME NEW k \in Nat
    PROVE  /\ Shown(k) \in Nat
           /\ Shown(k + 1) = IF InConversation(k + 1) THEN Shown(k) + 1 ELSE Shown(k)
           /\ \A n \in 0 .. k : Shown(n) <= Shown(k)
<1> DEFINE S == {i \in Nat : InConversation(i)}
<1>1. \A n \in Nat : Shown(n) = CountTo(S, n)
  <2> TAKE n \in Nat
  <2>1. {i \in 1 .. n : i \in S} = {i \in 1 .. n : InConversation(i)}
    OBVIOUS
  <2> QED
    BY <2>1 DEF Shown, CountTo
<1>2. k + 1 \in S <=> InConversation(k + 1)
  OBVIOUS
<1> HIDE DEF S
<1> QED
  BY <1>1, <1>2, Counting

\* One more event changes nothing for those before it.
LEMMA LogGrows ==
    ASSUME NEW S, log \in Seq(S), NEW event \in S, log' = Append(log, event)
    PROVE  /\ \A k \in 0 .. Len(log) :
                Shown(k)' = Shown(k) /\ (Trusted(k)' <=> Trusted(k))
           /\ \A i \in 1 .. Len(log) :
                /\ InConversation(i)' <=> InConversation(i)
                /\ log'[i] = log[i]
                /\ \A m \in 1 .. i : Names(m, i)' <=> Names(m, i)
<1>1. \A i \in 1 .. Len(log) : log'[i] = log[i]
  BY Extended
<1>2. \A i \in 1 .. Len(log) : InConversation(i)' <=> InConversation(i)
  BY <1>1 DEF InConversation
<1>3. ASSUME NEW k \in 0 .. Len(log) PROVE Shown(k)' = Shown(k)
  <2>1. \A i \in 1 .. k : i \in 1 .. Len(log)
    OBVIOUS
  <2>2. {i \in 1 .. k : InConversation(i)}' = {i \in 1 .. k : InConversation(i)}
    BY <1>2, <2>1
  <2> QED
    BY <2>2 DEF Shown
<1>4. ASSUME NEW k \in 0 .. Len(log) PROVE Trusted(k)' <=> Trusted(k)
  <2>1. \A i \in 1 .. k : log'[i] = log[i]
    BY <1>1
  <2> QED
    BY <2>1 DEF Trusted
<1>5. ASSUME NEW i \in 1 .. Len(log), NEW m \in 1 .. i
      PROVE  Names(m, i)' <=> Names(m, i)
  <2>1. \A j \in 1 .. i : log'[j] = log[j]
    BY <1>1
  <2>2. \A j \in m + 1 .. i : j \in 1 .. i
    OBVIOUS
  <2> QED
    BY <2>1, <2>2 DEF Names
<1> QED
  BY <1>1, <1>2, <1>3, <1>4, <1>5

\* What has been recorded stays.
Extends ==
    /\ Len(History) \in Nat /\ Len(History') \in Nat
    /\ Len(History) <= Len(History')
    /\ \A n \in 1 .. Len(History) : History'[n] = History[n]

\* What has been shown is still recorded.
LEMMA StillFiled ==
    ASSUME LogInv, HistoryIsShown, Extends,
           \/ log' = log
           \/ \E event \in Events : log' = Append(log, event)
    PROVE  \A i \in 1 .. Len(log) :
             Trusted(i)' /\ InConversation(i)' => Filed(i)'
<1> TAKE i \in 1 .. Len(log)
<1>1. log \in Seq(Events) /\ Len(log) \in Nat /\ i \in Nat
  BY DEF LogInv
<1>2. /\ Shown(i)' = Shown(i) /\ (Trusted(i)' <=> Trusted(i))
      /\ InConversation(i)' <=> InConversation(i)
      /\ \A m \in 1 .. i : (Names(m, i)' <=> Names(m, i)) /\ log'[m] = log[m]
  <2>1. CASE log' = log
    BY <2>1 DEF Shown, Trusted, InConversation, Names
  <2>2. CASE \E event \in Events : log' = Append(log, event)
    <3> PICK event \in Events : log' = Append(log, event)
      BY <2>2
    <3>1. i \in 0 .. Len(log) /\ \A m \in 1 .. i : m \in 1 .. Len(log)
      BY <1>1
    <3> QED
      BY <1>1, <3>1, LogGrows
  <2> QED
    BY <2>1, <2>2
<1> HAVE Trusted(i)' /\ InConversation(i)'
<1>3. Shown(i) <= Len(History) /\ Recorded(History[Shown(i)], i)
  BY <1>1, <1>2 DEF HistoryIsShown, Filed
<1>4. Shown(i) \in 1 .. Len(History)
  <2>1. i - 1 \in Nat /\ (i - 1) + 1 = i
    BY <1>1
  <2>2. Shown((i - 1) + 1) = Shown(i - 1) + 1 /\ Shown(i - 1) \in Nat
    BY <1>2, <2>1, ShownCounts
  <2> QED
    BY <1>3, <2>1, <2>2 DEF Extends
<1>5. History'[Shown(i)] = History[Shown(i)] /\ Shown(i) <= Len(History')
  BY <1>4 DEF Extends
<1> PICK m \in 1 .. i :
      Names(m, i) /\ History[Shown(i)] = CommandOf(log[i], log[m].conversation)
  BY <1>3 DEF Recorded
<1>6. /\ Names(m, i)' /\ log'[i] = log[i] /\ log'[m] = log[m]
      /\ History'[Shown(i)'] = CommandOf(log'[i], log'[m].conversation)
  BY <1>2, <1>5
<1>7. Recorded(History[Shown(i)], i)'
  BY <1>6 DEF Recorded, CommandOf, Record
<1> QED
  BY <1>2, <1>5, <1>7 DEF Filed

\* What one more event says of itself.
LEMMA LogGrown ==
    ASSUME NEW S, log \in Seq(S), NEW event \in S, log' = Append(log, event)
    PROVE  /\ DOMAIN log' = 1 .. Len(log) + 1 /\ Len(log') = Len(log) + 1
           /\ log'[Len(log) + 1] = event /\ Len(log) \in Nat
           /\ Trusted(Len(log))' <=> Trusted(Len(log)) /\ event.op # "error"
           /\ Shown(Len(log))' = IF event.op \in Conversational
                                 THEN Shown(Len(log)) + 1 ELSE Shown(Len(log))
           /\ InConversation(Len(log))' <=> event.op \in Conversational
           /\ \A m \in 1 .. Len(log) :
                Names(m, Len(log))' <=> Names(m, Len(log)) /\ event.op # "MATCHED"
           /\ \A m : m = Len(log) + 1 /\ event.op = "MATCHED" => Names(m, Len(log))'
<1> DEFINE n == Len(log)
<1>1. /\ DOMAIN log' = 1 .. n + 1 /\ Len(log') = n + 1 /\ log'[n + 1] = event
      /\ \A i \in 1 .. n : log'[i] = log[i]
      /\ n \in Nat
  BY Extended
<1>2. \A i \in 1 .. n + 1 : i \in 1 .. n \/ i = n + 1
  BY <1>1
<1>3. n + 1 \in 1 .. n + 1 /\ \A i \in 1 .. n : i \in 1 .. n + 1
  BY <1>1
<1>4. Trusted(Len(log))' <=> Trusted(Len(log)) /\ event.op # "error"
  BY <1>1, <1>2, <1>3 DEF Trusted
<1>5. InConversation(Len(log))' <=> event.op \in Conversational
  BY <1>1 DEF InConversation
<1>6. Shown(Len(log))' = IF event.op \in Conversational
                         THEN Shown(Len(log)) + 1 ELSE Shown(Len(log))
  <2> DEFINE T == {i \in Nat : log'[i].op \in Conversational}
  <2>1. CountTo(T, n + 1) = IF n + 1 \in T THEN CountTo(T, n) + 1 ELSE CountTo(T, n)
    BY <1>1, Counting
  <2>2. n + 1 \in T <=> event.op \in Conversational
    BY <1>1
  <2>3. CountTo(T, n) = Shown(n)
    <3>1. {i \in 1 .. n : i \in T} = {i \in 1 .. n : InConversation(i)}
      BY <1>1 DEF InConversation
    <3> QED
      BY <3>1 DEF CountTo, Shown
  <2>4. CountTo(T, n + 1) = Shown(Len(log))'
    <3>1. {i \in 1 .. n + 1 : i \in T} = {i \in 1 .. n + 1 : InConversation(i)'}
      BY <1>1 DEF InConversation
    <3> QED
      BY <1>1, <3>1 DEF CountTo, Shown
  <2> HIDE DEF T
  <2> QED
    BY <2>1, <2>2, <2>3, <2>4
<1>7. ASSUME NEW m \in 1 .. n
      PROVE  Names(m, Len(log))' <=> Names(m, Len(log)) /\ event.op # "MATCHED"
  <2>1. \A j \in m + 1 .. n + 1 : j \in m + 1 .. n \/ j = n + 1
    BY <1>1
  <2>2. /\ n + 1 \in m + 1 .. n + 1
        /\ \A j \in m + 1 .. n : j \in m + 1 .. n + 1 /\ j \in 1 .. n
    BY <1>1
  <2> QED
    BY <1>1, <2>1, <2>2 DEF Names
<1>8. ASSUME NEW m, m = Len(log) + 1, event.op = "MATCHED"
      PROVE  Names(m, Len(log))'
  <2>1. m + 1 .. n + 1 = {}
    BY <1>1, <1>8
  <2> QED
    BY <1>1, <1>8, <2>1 DEF Names
<1> QED
  BY <1>1, <1>4, <1>5, <1>6, <1>7, <1>8

LEMMA Extending ==
    ASSUME NEW S, History \in Seq(S),
           \/ History' = History
           \/ \E command \in S : History' = Append(History, command)
    PROVE  Extends
<1> DEFINE old == History
<1>1. CASE History' = History
  BY <1>1 DEF Extends
<1>2. CASE \E command \in S : History' = Append(History, command)
  <2> PICK command \in S : History' = Append(History, command)
    BY <1>2
  <2>1. /\ Append(History, command) \in Seq(S)
        /\ Len(Append(History, command)) = Len(History) + 1 /\ Len(History) \in Nat
        /\ \A n \in 1 .. Len(History) : Append(History, command)[n] = History[n]
    BY Extended
  <2> QED
    BY <2>1 DEF Extends
<1> QED
  BY <1>1, <1>2

\* An event that is no part of a conversation, an event after the first error and
\* the end of the reader need nothing recorded.
LEMMA ShownKept ==
    ASSUME LogInv, HistoryIsShown, Extends, reader' \in {reader, "ended"},
           \/ log' = log /\ (reader' = "ended" \/ History' = History)
           \/ \E event \in Events :
                /\ log' = Append(log, event)
                /\ \/ event.op = "error" \/ ~Trusted(Len(log))
                   \/ event.op \notin Conversational /\ History' = History
    PROVE  HistoryIsShown'
<1>1. log \in Seq(Events) /\ DOMAIN log = 1 .. Len(log)
  BY DEF LogInv
<1>2. \A i \in 1 .. Len(log) : Trusted(i)' /\ InConversation(i)' => Filed(i)'
  BY StillFiled
<1>3. CASE log' = log /\ (reader' = "ended" \/ History' = History)
  <2>1. Shown(Len(log))' = Shown(Len(log)) /\ (Trusted(Len(log))' <=> Trusted(Len(log)))
    BY <1>3, SMTT(30) DEF Shown, InConversation, Trusted
  <2>2. \A i \in DOMAIN log' : Trusted(i)' /\ InConversation(i)' => Filed(i)'
    BY <1>1, <1>2, <1>3
  <2>3. reader' = "running" /\ Trusted(Len(log))' => Len(History') = Shown(Len(log))'
    BY <1>3, <2>1 DEF HistoryIsShown
  <2> QED
    BY <2>2, <2>3 DEF HistoryIsShown
<1>4. ASSUME NEW event \in Events, log' = Append(log, event),
             \/ event.op = "error" \/ ~Trusted(Len(log))
             \/ event.op \notin Conversational /\ History' = History
      PROVE  HistoryIsShown'
  <2>1. /\ DOMAIN log' = 1 .. Len(log) + 1 /\ Len(log') = Len(log) + 1
        /\ Len(log) \in Nat
        /\ Trusted(Len(log))' <=> Trusted(Len(log)) /\ event.op # "error"
        /\ Shown(Len(log))' = IF event.op \in Conversational
                              THEN Shown(Len(log)) + 1 ELSE Shown(Len(log))
        /\ InConversation(Len(log))' <=> event.op \in Conversational
    BY <1>1, <1>4, LogGrown
  <2>2. ~(Trusted(Len(log))' /\ InConversation(Len(log))')
    BY <1>4, <2>1
  <2>3. ASSUME NEW i \in DOMAIN log', Trusted(i)', InConversation(i)' PROVE Filed(i)'
    <3>1. i # Len(log) + 1
      BY <2>1, <2>2, <2>3 DEF Trusted, InConversation
    <3> QED
      BY <1>2, <2>1, <2>3, <3>1
  <2>4. reader' = "running" /\ Trusted(Len(log))' => Len(History') = Shown(Len(log))'
    BY <1>4, <2>1 DEF HistoryIsShown
  <2> QED
    BY <2>3, <2>4, SMTT(30) DEF HistoryIsShown
<1> QED
  BY <1>3, <1>4

\* An event of the conversation, recorded under the name it has been shown with.
LEMMA ShownAdded ==
    ASSUME LogInv, HistoryIsShown, reader = "running", Trusted(Len(log)),
           NEW event \in Events, log' = Append(log, event),
           event.op \in Conversational,
           NEW S, NEW command \in S, History \in Seq(S),
           History' = Append(History, command),
           \/ event.op = "MATCHED" /\ command = CommandOf(event, event.conversation)
           \/ /\ event.op # "MATCHED"
              /\ \E m \in 1 .. Len(log) :
                   Names(m, Len(log)) /\ command = CommandOf(event, log[m].conversation)
    PROVE  HistoryIsShown'
<1>1. log \in Seq(Events) /\ DOMAIN log = 1 .. Len(log)
  BY DEF LogInv
<1>2. Extends
  BY Extending
<1>3. \A i \in 1 .. Len(log) : Trusted(i)' /\ InConversation(i)' => Filed(i)'
  BY <1>2, StillFiled
<1>4. /\ DOMAIN log' = 1 .. Len(log) + 1 /\ Len(log') = Len(log) + 1
      /\ log'[Len(log) + 1] = event /\ Len(log) \in Nat
      /\ Shown(Len(log))' = Shown(Len(log)) + 1
      /\ \A m \in 1 .. Len(log) :
           Names(m, Len(log))' <=> Names(m, Len(log)) /\ event.op # "MATCHED"
      /\ \A m : m = Len(log) + 1 /\ event.op = "MATCHED" => Names(m, Len(log))'
  BY <1>1, LogGrown
<1>5. /\ Len(History') = Len(History) + 1 /\ History'[Len(History) + 1] = command
      /\ Len(History) \in Nat
  BY Extended
<1>6. Len(History) = Shown(Len(log))
  BY DEF HistoryIsShown
<1>7. \E m \in 1 .. Len(log') :
        Names(m, Len(log))' /\ command = CommandOf(event, log'[m].conversation)
  <2>1. CASE event.op = "MATCHED"
    <3> PICK m \in 1 .. Len(log') : m = Len(log) + 1
      BY <1>4
    <3>1. /\ Names(m, Len(log))' /\ log'[m] = event
          /\ command = CommandOf(event, event.conversation)
      BY <1>4, <2>1
    <3> QED
      BY <3>1
  <2>2. CASE event.op # "MATCHED"
    <3> PICK m \in 1 .. Len(log) :
          Names(m, Len(log)) /\ command = CommandOf(event, log[m].conversation)
      BY <2>2
    <3>1. log'[m] = log[m] /\ m \in 1 .. Len(log')
      BY <1>1, <1>4, Extended
    <3>2. Names(m, Len(log))'
      BY <1>4, <2>2
    <3> QED
      BY <3>1, <3>2
  <2> QED
    BY <2>1, <2>2
<1>8. Filed(Len(log))'
  <2>1. History'[Shown(Len(log))'] = command /\ Shown(Len(log))' <= Len(History')
    BY <1>4, <1>5, <1>6
  <2> PICK m \in 1 .. Len(log') :
        Names(m, Len(log))' /\ command = CommandOf(event, log'[m].conversation)
    BY <1>7
  <2>2. log'[Len(log')] = event
    BY <1>4
  <2> QED
    BY <2>1, <2>2 DEF Filed, Recorded, CommandOf, Record
<1>9. ASSUME NEW i \in DOMAIN log', Trusted(i)', InConversation(i)' PROVE Filed(i)'
  <2>1. CASE i = Len(log')
    BY <1>8, <2>1 DEF Filed, Recorded, Names, Shown, CommandOf, Record
  <2>2. CASE i \in 1 .. Len(log)
    BY <1>3, <1>9, <2>2
  <2> QED
    BY <1>4, <2>1, <2>2
<1>10. Len(History') = Shown(Len(log))'
  BY <1>4, <1>5, <1>6
<1> QED
  BY <1>9, <1>10 DEF HistoryIsShown

\* What the reader will file the next frames under.
LEMMA FollowingStep ==
    ASSUME WireInv, LogInv, Following, reader = "running", taken < Len(sent),
           taken' = taken + 1, sent' = sent,
           \/ /\ log' = log /\ active' = active
              /\ sent[taken + 1].op \notin Conversational
           \/ \E event \in Events : log' = Append(log, event) /\ event.op = "error"
           \/ /\ sent[taken + 1] \in Frames
              /\ log' = Append(log, EventOf(sent[taken + 1]))
              /\ active' = ActiveAfter(sent[taken + 1])
    PROVE  Following'
<1> DEFINE frame == sent[taken + 1]
<1>1. log \in Seq(Events) /\ Len(log) \in Nat /\ taken \in Nat
  BY DEF LogInv, WireInv
<1>2. Talking(taken)' <=> Talking(taken + 1)
  BY DEF Talking
<1>3. CASE log' = log /\ active' = active /\ frame.op \notin Conversational
  <2>1. Talking(taken)' => Talking(taken)
    BY <1>1, <1>2, <1>3, TalkingGoesOn DEF Conversational
  <2> QED
    BY <1>3, <2>1 DEF Following, Trusted, Names
<1>4. ASSUME NEW event \in Events, log' = Append(log, event), event.op = "error"
      PROVE  Following'
  <2>1. ~Trusted(Len(log))'
    BY <1>1, <1>4, LogGrown
  <2> QED
    BY <2>1 DEF Following
<1>5. CASE frame \in Frames /\ log' = Append(log, EventOf(frame))
           /\ active' = ActiveAfter(frame)
  <2> DEFINE event == EventOf(frame)
  <2>1. event \in Events /\ event.op = frame.op /\ event.op # "error"
    BY <1>5, EventsAre, EventKeeps
  <2>2. /\ Len(log') = Len(log) + 1 /\ log'[Len(log) + 1] = event
        /\ Trusted(Len(log))' <=> Trusted(Len(log))
        /\ \A m \in 1 .. Len(log) :
             Names(m, Len(log))' <=> Names(m, Len(log)) /\ event.op # "MATCHED"
        /\ \A m : m = Len(log) + 1 /\ event.op = "MATCHED" => Names(m, Len(log))'
        /\ \A i \in 1 .. Len(log) : log'[i] = log[i]
    BY <1>1, <1>5, <2>1, LogGrown, Extended
  <2>3. ASSUME reader' = "running", Trusted(Len(log))', active' # <<>>
        PROVE  \E m \in 1 .. Len(log') :
                 Names(m, Len(log))' /\ active' = log'[m].conversation
    <3>1. CASE frame.op = "MATCHED"
      <4>1. active' = frame.conversation /\ event.conversation = frame.conversation
        BY <1>5, <3>1, EventKeeps DEF ActiveAfter
      <4> PICK m \in 1 .. Len(log') : m = Len(log) + 1
        BY <1>1, <2>2
      <4>2. Names(m, Len(log))' /\ log'[m] = event
        BY <2>1, <2>2, <3>1
      <4> QED
        BY <4>1, <4>2
    <3>2. CASE frame.op # "MATCHED"
      <4>1. active' = active /\ Trusted(Len(log))
        BY <1>5, <2>2, <2>3, <3>2 DEF ActiveAfter
      <4> PICK m \in 1 .. Len(log) : Names(m, Len(log)) /\ active = log[m].conversation
        BY <2>3, <4>1 DEF Following
      <4>2. Names(m, Len(log))' /\ log'[m] = log[m] /\ m \in 1 .. Len(log')
        BY <1>1, <2>1, <2>2, <3>2
      <4> QED
        BY <4>1, <4>2
    <3> QED
      BY <3>1, <3>2
  <2>4. ASSUME Trusted(Len(log))', Talking(taken)' PROVE active' # <<>>
    <3>1. CASE frame.op = "MATCHED"
      <4>1. active' = frame.conversation /\ frame.conversation \in Uuids
        BY <1>5, <3>1, EventKeeps DEF ActiveAfter
      <4>2. Len(active') # 0
        BY <4>1, CodecAssumption DEF Uuids
      <4> QED
        BY <4>2
    <3>2. CASE frame.op # "MATCHED"
      <4>1. Talking(taken) /\ frame.op # "PEER_LEFT"
        BY <1>1, <1>2, <2>4, <3>2, TalkingGoesOn
      <4>2. active' = active
        BY <1>5, <3>2, <4>1 DEF ActiveAfter
      <4> QED
        BY <2>2, <2>4, <4>1, <4>2 DEF Following
    <3> QED
      BY <3>1, <3>2
  <2> QED
    BY <2>3, <2>4 DEF Following
<1> QED
  BY <1>3, <1>4, <1>5

LEMMA HistoryIs ==
    ASSUME QueueInv
    PROVE  /\ History \in Seq(HistoryCommands)
           /\ \A command \in HistoryCommands :
                handled \o (historyQueue \o <<command>>) = Append(History, command)
           /\ historyQueue # <<>> =>
                Append(handled, Head(historyQueue)) \o Tail(historyQueue) = History
<1>1. handled \in Seq(HistoryCommands) /\ historyQueue \in Seq(HistoryCommands)
  BY DEF QueueInv
<1>2. \A command \in HistoryCommands :
        handled \o (historyQueue \o <<command>>) = Append(handled \o historyQueue, command)
  BY <1>1
<1>3. ASSUME historyQueue # <<>>
      PROVE  Append(handled, Head(historyQueue)) \o Tail(historyQueue)
               = handled \o historyQueue
  BY <1>1, <1>3
<1>4. handled \o historyQueue \in Seq(HistoryCommands)
  BY <1>1
<1>5. History = handled \o historyQueue
  BY DEF History
<1> QED
  BY <1>2, <1>3, <1>4, <1>5, Zenon

\* The reader reads a frame of the conversation or another one.
LEMMA ShownFrame ==
    ASSUME StraysAreStray, TypeInv, ShownInv, ReadFrame
    PROVE  HistoryIsShown' /\ Following'
<1> DEFINE frame == sent[taken + 1]
           event == EventOf(frame)
<1>1. WireInv /\ QueueInv /\ LogInv /\ InOrder /\ Following /\ HistoryIsShown
  BY DEF TypeInv, ShownInv
<1>2. /\ taken \in Nat /\ taken + 1 \in DOMAIN sent /\ taken < Len(sent)
      /\ taken' = taken + 1 /\ reader = "running" /\ sent' = sent /\ handled' = handled
      /\ Incoming = frame /\ frame \in Frames
  <2>1. Take /\ IsFrame(Incoming)
    BY DEF ReadFrame
  <2>2. taken + 1 \in 1 .. Len(sent) /\ DOMAIN sent = 1 .. Len(sent)
    BY <1>1, <2>1, Taken DEF WireInv
  <2> QED
    BY <1>1, <2>1, <2>2, Taken DEF Take, serviceVars, WireInv
<1>3. /\ historyQueue' = historyQueue \o HistoryOf(frame)
      /\ active' = ActiveAfter(frame)
      /\ IF frame.op = "PONG" THEN UNCHANGED <<log, unread, reader>> ELSE Report(event)
  BY <1>2 DEF ReadFrame
<1>4. event \in Events /\ event.op = frame.op /\ event.op # "error"
  BY <1>2, EventsAre, EventKeeps
<1>5. /\ History \in Seq(HistoryCommands)
      /\ \/ /\ HistoryOf(frame) = <<>> /\ History' = History
            /\ frame.op \in Conversational => active = <<>> /\ frame.op # "MATCHED"
         \/ /\ frame.op \in Conversational
            /\ \E command \in HistoryCommands :
                 /\ History' = Append(History, command)
                 /\ command = CommandOf(event, IF frame.op = "MATCHED"
                                               THEN frame.conversation ELSE active)
            /\ frame.op # "MATCHED" => active # <<>>
  <2>1. History \in Seq(HistoryCommands)
    BY <1>1, HistoryIs
  <2>2. History' = handled \o (historyQueue \o HistoryOf(frame))
    BY <1>2, <1>3 DEF History
  <2>3. CASE /\ HistoryOf(frame) = <<>>
             /\ frame.op \in Conversational => active = <<>> /\ frame.op # "MATCHED"
    <3>1. historyQueue \o <<>> = historyQueue
      BY <1>1 DEF QueueInv
    <3> QED
      BY <2>1, <2>2, <2>3, <3>1 DEF History
  <2>4. CASE /\ frame.op \in Conversational
             /\ \E id \in Uuids :
                  /\ id = IF frame.op = "MATCHED" THEN frame.conversation ELSE active
                  /\ CommandOf(EventOf(frame), id) \in HistoryCommands
                  /\ HistoryOf(frame) = <<CommandOf(EventOf(frame), id)>>
    <3> PICK id \in Uuids :
          /\ id = IF frame.op = "MATCHED" THEN frame.conversation ELSE active
          /\ CommandOf(event, id) \in HistoryCommands
          /\ HistoryOf(frame) = <<CommandOf(event, id)>>
      BY <2>4
    <3>1. History' = Append(History, CommandOf(event, id))
      BY <1>1, <2>2, HistoryIs
    <3>2. id # <<>>
      <4>1. Len(id) # 0
        BY CodecAssumption DEF Uuids
      <4> QED
        BY <4>1
    <3> HIDE DEF event
    <3> QED
      BY <2>1, <2>4, <3>1, <3>2
  <2> QED
    BY <1>1, <1>2, <2>3, <2>4, HistoryOfFrame
<1>6. \/ log' = Append(log, event) /\ reader' = reader /\ frame.op # "PONG"
      \/ log' = log /\ (frame.op = "PONG" \/ reader' = "ended")
           /\ reader' \in {reader, "ended"}
  BY <1>1, <1>3, <1>4, ReportOK
<1> HIDE DEF event
<1>7. Extends
  BY <1>5, Extending
<1>8. HistoryIsShown'
  <2>1. CASE log' = log
    <3>1. frame.op = "PONG" => History' = History
      BY <1>5 DEF Conversational
    <3>2. frame.op = "PONG" \/ reader' = "ended"
      BY <1>1, <1>6, <2>1, <1>4 DEF LogInv
    <3>3. reader' \in {reader, "ended"}
      BY <1>6
    <3> QED
      BY <1>1, <1>7, <2>1, <3>1, <3>2, <3>3, ShownKept
  <2>2. CASE log' = Append(log, event) /\ reader' = reader
             /\ (~Trusted(Len(log)) \/ frame.op \notin Conversational)
    <3>1. frame.op \notin Conversational => History' = History
      BY <1>5
    <3> QED
      BY <1>1, <1>4, <1>7, <2>2, <3>1, ShownKept
  <2>3. CASE log' = Append(log, event) /\ reader' = reader
             /\ Trusted(Len(log)) /\ frame.op \in Conversational
    <3>1. frame.op # "MATCHED" => active # <<>>
      <4>1. ASSUME frame.op # "MATCHED" PROVE Talking(taken)
        <5>1. Talking((taken + 1) - 1)
          BY <1>1, <1>2, <2>3, <4>1 DEF InOrder, Conversational
        <5>2. (taken + 1) - 1 = taken
          BY <1>2
        <5> QED
          BY <5>1, <5>2
      <4> QED
        BY <1>1, <1>2, <2>3, <4>1 DEF Following
    <3>2. PICK command \in HistoryCommands :
            /\ History' = Append(History, command)
            /\ command = CommandOf(event, IF frame.op = "MATCHED"
                                          THEN frame.conversation ELSE active)
      BY <1>5, <2>3, <3>1
    <3>3. CASE frame.op = "MATCHED"
      <4>1. event.conversation = frame.conversation
        BY <1>2, <3>3, EventKeeps DEF event
      <4>2. command = CommandOf(event, event.conversation)
        BY <3>2, <3>3, <4>1
      <4> QED
        BY <1>1, <1>2, <1>4, <1>5, <2>3, <3>2, <3>3, <4>2, ShownAdded
    <3>4. CASE frame.op # "MATCHED"
      <4>1. PICK m \in 1 .. Len(log) : Names(m, Len(log)) /\ active = log[m].conversation
        BY <1>1, <1>2, <2>3, <3>1, <3>4 DEF Following
      <4>2. command = CommandOf(event, log[m].conversation)
        BY <3>2, <3>4, <4>1
      <4> QED
        BY <1>1, <1>2, <1>4, <1>5, <2>3, <3>2, <3>4, <4>1, <4>2, ShownAdded
    <3> QED
      BY <3>3, <3>4
  <2> QED
    BY <1>6, <2>1, <2>2, <2>3
<1>9. Following'
  <2>1. CASE log' = Append(log, event)
    BY <1>1, <1>2, <1>3, <2>1, FollowingStep DEF event
  <2>2. CASE log' = log /\ frame.op = "PONG"
    <3>1. active' = active /\ frame.op \notin Conversational
      BY <1>3, <2>2 DEF ActiveAfter, Conversational
    <3> QED
      BY <1>1, <1>2, <2>2, <3>1, FollowingStep
  <2>3. CASE reader' = "ended"
    BY <2>3 DEF Following
  <2> QED
    BY <1>6, <2>1, <2>2, <2>3
<1> QED
  BY <1>8, <1>9

\* An error takes the event's place, or a frame is not the reader's to record.
LEMMA ShownError ==
    ASSUME StraysAreStray, TypeInv, ShownInv, HistoryFull \/ ReadMalformed \/ ReadFails
    PROVE  HistoryIsShown' /\ Following'
<1>1. LogInv /\ WireInv /\ QueueInv /\ Following /\ HistoryIsShown
  BY DEF TypeInv, ShownInv
<1>2. /\ \E cause \in {"network", "protocol", "history"} : Report(Failure(cause))
      /\ UNCHANGED <<historyQueue, handled>>
  BY DEF HistoryFull, ReadMalformed, ReadFails, Take, historyVars
<1>3. PICK event \in Events : event.op = "error" /\ Report(event)
  BY <1>2, EventsAre DEF Failure
<1>4. \/ log' = Append(log, event) /\ reader' = reader
      \/ log' = log /\ reader' = "ended"
  BY <1>1, <1>3, ReportOK
<1>5. History' = History /\ History \in Seq(HistoryCommands)
  BY <1>1, <1>2, HistoryIs DEF History
<1>6. HistoryIsShown'
  <2>1. Extends
    BY <1>5, Extending
  <2> QED
    BY <1>1, <1>3, <1>4, <1>5, <2>1, ShownKept
<1>7. Following'
  <2>1. CASE log' = Append(log, event)
    <3>1. ~Trusted(Len(log))'
      BY <1>1, <1>3, <2>1, LogGrown DEF LogInv
    <3> QED
      BY <3>1 DEF Following
  <2>2. CASE reader' = "ended"
    BY <2>2 DEF Following
  <2> QED
    BY <1>4, <2>1, <2>2
<1> QED
  BY <1>6, <1>7

\* A step that leaves the log and the history alone.
LEMMA ShownElsewhere ==
    ASSUME TypeInv, ShownInv, UNCHANGED <<log, active, History>>,
           reader' \in {reader, "ended"}, Talking(taken)' <=> Talking(taken)
    PROVE  HistoryIsShown' /\ Following'
<1>1. QueueInv /\ LogInv /\ Following /\ HistoryIsShown
  BY DEF TypeInv, ShownInv
<1>2. HistoryIsShown'
  <2>1. Extends
    BY <1>1, HistoryIs, Extending
  <2> QED
    BY <1>1, <2>1, ShownKept
<1>3. Following'
  <2>1. Trusted(Len(log))' <=> Trusted(Len(log))
    BY DEF Trusted
  <2>2. \A m \in 1 .. Len(log) : Names(m, Len(log))' <=> Names(m, Len(log))
    BY DEF Names
  <2>3. reader' = "running" => reader = "running"
    OBVIOUS
  <2> QED
    BY <1>1, <2>1, <2>2, <2>3 DEF Following
<1> QED
  BY <1>2, <1>3

LEMMA ShownStep ==
    ASSUME StraysAreStray, TypeInv, ShownInv, Next
    PROVE  ShownInv'
<1>1. WireInv /\ QueueInv /\ LogInv /\ InOrder /\ Following /\ HistoryIsShown
  BY DEF TypeInv, ShownInv
<1>2. ASSUME UNCHANGED <<sent, chat>> PROVE InOrder'
  BY <1>1, <1>2 DEF InOrder, Talking
<1>4. ASSUME Service PROVE ShownInv'
  <2>1. /\ UNCHANGED <<log, active, handled, historyQueue, reader, taken>>
        /\ sent' = sent \/ \E item : sent' = Append(sent, item)
    BY <1>4 DEF Service, ServiceMatches, ServiceRelays, ServiceEndsChat, ServiceAside,
       ServiceStray, SocketEnds, Send, historyVars
  <2>2. Talking(taken)' <=> Talking(taken)
    <3>1. CASE sent' = sent
      BY <2>1, <3>1 DEF Talking
    <3>2. CASE \E item : sent' = Append(sent, item)
      <4>1. PICK item : sent' = Append(sent, item)
        BY <3>2
      <4>2. \A k \in 1 .. taken : sent'[k] = sent[k]
        BY <1>1, <4>1 DEF WireInv
      <4>3. \A m \in 1 .. taken : \A j \in m + 1 .. taken : j \in 1 .. taken
        BY <1>1 DEF WireInv
      <4> QED
        BY <2>1, <4>2, <4>3 DEF Talking
    <3> QED
      BY <2>1, <3>1, <3>2
  <2>3. History' = History
    BY <2>1 DEF History
  <2> QED
    BY <1>1, <1>4, <2>1, <2>2, <2>3, InOrderStep, ShownElsewhere DEF ShownInv
<1>5. ASSUME ReadFrame PROVE ShownInv'
  <2>1. UNCHANGED <<sent, chat>>
    BY <1>5 DEF ReadFrame, Take, serviceVars
  <2> QED
    BY <1>2, <1>5, <2>1, ShownFrame DEF ShownInv
<1>6. ASSUME HistoryFull \/ ReadMalformed \/ ReadFails PROVE ShownInv'
  <2>1. UNCHANGED <<sent, chat>>
    BY <1>6 DEF HistoryFull, ReadMalformed, ReadFails, Take, serviceVars
  <2> QED
    BY <1>2, <1>6, <2>1, ShownError DEF ShownInv
<1>7. ASSUME EndOfStream \/ HandleHistory \/ ThreadEnds \/ NextEvent \/ DropClient
             \/ Shutdown
      PROVE  ShownInv'
  <2>1. /\ UNCHANGED <<sent, chat, taken, log, active>>
        /\ reader' \in {reader, "ended"}
    BY <1>7 DEF EndOfStream, HandleHistory, ThreadEnds, NextEvent, DropClient, Shutdown,
       serviceVars
  <2>2. Talking(taken)' <=> Talking(taken)
    BY <2>1 DEF Talking
  <2>3. History' = History
    <3>1. CASE HandleHistory
      <4>1. /\ historyQueue # <<>> /\ historyQueue' = Tail(historyQueue)
            /\ handled' = Append(handled, Head(historyQueue))
        BY <3>1 DEF HandleHistory
      <4>2. Append(handled, Head(historyQueue)) \o Tail(historyQueue) = History
        BY <1>1, <4>1, HistoryIs
      <4> QED
        BY <4>1, <4>2 DEF History
    <3>2. CASE UNCHANGED <<handled, historyQueue>>
      BY <3>2 DEF History
    <3> QED
      BY <1>7, <3>1, <3>2 DEF EndOfStream, ThreadEnds, NextEvent, DropClient, Shutdown,
         historyVars
  <2> QED
    BY <1>2, <2>1, <2>2, <2>3, ShownElsewhere DEF ShownInv
<1> QED
  BY <1>4, <1>5, <1>6, <1>7 DEF Next, Read

\* Up to the first error it reports, a client's history is the conversation it
\* shows: map_event has handed on what it shows, in its order, and under the
\* conversation that was named last.
THEOREM WhatIsShownIsRecorded ==
    ASSUME StraysAreStray PROVE Spec => []HistoryIsShown
<1>1. Init => ShownInv
  <2> SUFFICES ASSUME Init PROVE ShownInv
    OBVIOUS
  <2>1. /\ taken = 0 /\ Len(log) = 0 /\ DOMAIN log = {} /\ DOMAIN sent = {}
        /\ ~chat.on /\ active = <<>> /\ handled = <<>> /\ historyQueue = <<>>
    BY DEF Init
  <2>2. Shown(0) = 0
    <3>1. {i \in 1 .. 0 : InConversation(i)} = {}
      OBVIOUS
    <3> QED
      BY <3>1, FS_EmptySet DEF Shown
  <2>3. ~Talking(0)
    BY DEF Talking
  <2>4. Len(History) = 0
    BY <2>1 DEF History
  <2> QED
    BY <2>1, <2>2, <2>3, <2>4 DEF ShownInv, InOrder, Following, HistoryIsShown
<1>2. TypeInv /\ ShownInv /\ [Next]_vars => ShownInv'
  <2>1. ASSUME TypeInv, ShownInv, UNCHANGED vars PROVE ShownInv'
    <3>1. /\ UNCHANGED <<log, active, History>> /\ reader' = reader
          /\ Talking(taken)' <=> Talking(taken)
      BY <2>1 DEF vars, History, Talking
    <3>2. InOrder'
      BY <2>1 DEF vars, ShownInv, InOrder, Talking
    <3> QED
      BY <2>1, <3>1, <3>2, ShownElsewhere DEF ShownInv
  <2> QED
    BY <2>1, ShownStep
<1>3. ShownInv => HistoryIsShown
  BY DEF ShownInv
<1> QED
  BY <1>1, <1>2, <1>3, TypeInitially, TypeStep, PTL DEF Spec

------------------------------------------------------------------------------
(* HistoryStore: types.                                                    *)

\* A writer in the middle of an append has a message to append, and none
\* appends what the service has not said.
Appending ==
    \A w \in Writers :
        /\ final[w] <= Len(said)
        /\ at[w] \in {"body", "count"} => next[w] \in 1 .. Len(said)

HistInv == TypeOK /\ Appending

LEMMA NumbersAreThese ==
    /\ Numbers \subseteq Nat /\ 0 \in Numbers
    /\ \A n \in Nat : n \in Numbers <=> n <= MaxMessages
BY HistoryAssumption DEF Numbers

LEMMA UnitsJoined ==
    ASSUME NEW s \in Seq(Nat), NEW t \in Seq(Nat)
    PROVE  /\ s \o t \in Seq(Nat) /\ Len(s \o t) = Len(s) + Len(t)
           /\ \A i \in 1 .. Len(s) : (s \o t)[i] = s[i]
           /\ \A i \in 1 .. Len(t) : (s \o t)[Len(s) + i] = t[i]
<1>1. /\ s \o t \in Seq(Nat) /\ Len(s \o t) = Len(s) + Len(t)
      /\ \A i \in 1 .. Len(s) + Len(t) :
           (s \o t)[i] = IF i <= Len(s) THEN s[i] ELSE t[i - Len(s)]
  BY ConcatProperties
<1> QED
  BY <1>1

LEMMA Prefix ==
    ASSUME NEW S, NEW s \in Seq(S), NEW k \in 0 .. Len(s)
    PROVE  /\ SubSeq(s, 1, k) \in Seq(S) /\ Len(SubSeq(s, 1, k)) = k
           /\ \A i \in 1 .. k : SubSeq(s, 1, k)[i] = s[i]
OBVIOUS

LEMMA HeaderIs ==
    /\ Header \in Seq(Nat) /\ Len(Header) = 3
    /\ Header[1] = FileMagic /\ Header[2] = 1 /\ Header[3] = 0 /\ FileMagic \in Nat
BY HistoryAssumption DEF Header, FileMagic

LEMMA EntryIs ==
    ASSUME TypeOK, NEW n \in 1 .. Len(said)
    PROVE  /\ n \in Numbers \ {0} /\ said[n] \in Seq(Nat) /\ Message(n) \in Messages
           /\ FieldsOf(n) \in Seq(Nat) /\ Len(FieldsOf(n)) = 2
           /\ FieldsOf(n)[1] = n /\ FieldsOf(n)[2] = Len(said[n])
           /\ Entry(n) \in Seq(Nat) /\ Len(Entry(n)) = 2 + Len(said[n])
           /\ Entry(n)[1] = n /\ Entry(n)[2] = Len(said[n])
           /\ Entry(n)[1] = FieldsOf(n)[1] /\ Entry(n)[2] = FieldsOf(n)[2]
           /\ \A i \in 1 .. Len(said[n]) : Entry(n)[2 + i] = said[n][i]
<1>1. said[n] \in Seq(Nat) /\ n \in Nat /\ n # 0 /\ n <= MaxMessages
  BY HistoryAssumption DEF TypeOK
<1>2. n \in Numbers \ {0} /\ Message(n) \in Messages
  BY <1>1, NumbersAreThese DEF Message, Messages
<1>3. /\ FieldsOf(n) \in Seq(Nat) /\ Len(FieldsOf(n)) = 2
      /\ FieldsOf(n)[1] = n /\ FieldsOf(n)[2] = Len(said[n])
  BY <1>1 DEF FieldsOf
<1>4. /\ Entry(n) \in Seq(Nat) /\ Len(Entry(n)) = 2 + Len(said[n])
      /\ \A i \in 1 .. 2 : Entry(n)[i] = FieldsOf(n)[i]
      /\ \A i \in 1 .. Len(said[n]) : Entry(n)[2 + i] = said[n][i]
  <2> DEFINE fields == FieldsOf(n)
  <2>0. fields \in Seq(Nat)
    BY <1>3
  <2>1. /\ fields \o said[n] \in Seq(Nat) /\ Len(fields \o said[n]) = Len(fields) + Len(said[n])
        /\ \A i \in 1 .. Len(fields) : (fields \o said[n])[i] = fields[i]
        /\ \A i \in 1 .. Len(said[n]) : (fields \o said[n])[Len(fields) + i] = said[n][i]
    <3> HIDE DEF fields
    <3> QED
      BY <1>1, <2>0, UnitsJoined
  <2>2. Entry(n) = fields \o said[n]
    BY DEF Entry
  <2> HIDE DEF fields
  <2> QED
    BY <1>3, <2>1, <2>2 DEF fields
<1> QED
  BY <1>1, <1>2, <1>3, <1>4

LEMMA InitOK == StoreInit => HistInv
<1> SUFFICES ASSUME StoreInit PROVE HistInv
  OBVIOUS
<1>1. /\ data \in Seq(Nat) /\ said \in Seq(Contents) /\ Len(said) = 0
      /\ kept \in Seq([seq : Numbers \ {0}, end : Nat])
  BY DEF StoreInit
<1>2. at \in [Writers -> Places] /\ \A w \in Writers : at[w] \notin {"body", "count"}
  BY DEF StoreInit, Places
<1>3. next \in [Writers -> 1 .. MaxMessages + 1]
  BY HistoryAssumption DEF StoreInit
<1>4. printed \in [Callers -> SUBSET Seq(Messages)]
  BY DEF StoreInit
<1>5. row \in [sync : {"none", "active", "complete", "partial"}, final : Numbers]
  BY NumbersAreThese DEF StoreInit, Row
<1>6. \A w \in Writers : final[w] = 0 /\ 0 \in Numbers
  BY NumbersAreThese DEF StoreInit
<1>7. final \in [Writers -> Numbers] /\ whole \in [Writers -> BOOLEAN]
  BY <1>6 DEF StoreInit
<1>8. ended \in BOOLEAN /\ exists \in BOOLEAN /\ torn \in BOOLEAN
  BY DEF StoreInit
<1>9. TypeOK
  BY <1>1, <1>2, <1>3, <1>4, <1>5, <1>7, <1>8, HistoryAssumption DEF TypeOK
<1>10. Appending
  BY <1>1, <1>2, <1>6 DEF Appending
<1> QED
  BY <1>9, <1>10 DEF HistInv

\* What a writer may append has been said.
LEMMA AvailableIsSaid ==
    ASSUME HistInv, NEW w \in Writers
    PROVE  Available(w) \in Numbers /\ Available(w) <= Len(said)
BY NumbersAreThese DEF HistInv, TypeOK, Appending, Available

LEMMA InHand ==
    ASSUME HistInv, NEW w \in Writers, WriteFields(w) \/ WriteBody(w)
    PROVE  next[w] \in 1 .. Len(said)
<1>1. next[w] \in Nat /\ next[w] >= 1
  BY HistoryAssumption DEF HistInv, TypeOK
<1>2. CASE WriteFields(w)
  <2>1. Available(w) \in Nat /\ Available(w) <= Len(said)
    BY AvailableIsSaid, NumbersAreThese
  <2>2. Len(said) \in Nat
    BY DEF HistInv, TypeOK
  <2>3. next[w] <= Available(w)
    BY <1>2 DEF WriteFields
  <2> QED
    BY <1>1, <2>1, <2>2, <2>3
<1>3. CASE WriteBody(w)
  BY <1>3 DEF WriteBody, HistInv, Appending
<1> QED
  BY <1>2, <1>3

\* After an append the writer is past its message.
LEMMA AdvanceOK ==
    ASSUME HistInv, NEW w \in Writers, next[w] \in 1 .. Len(said),
           NEW place \in Places \ {"body", "count"}, Advance(w, place)
    PROVE  /\ at' \in [Writers -> Places]
           /\ next' \in [Writers -> 1 .. MaxMessages + 1]
           /\ \A v \in Writers : at'[v] \in {"body", "count"} =>
                at'[v] = at[v] /\ next'[v] = next[v]
<1>1. next[w] + 1 \in 1 .. MaxMessages + 1
  BY HistoryAssumption DEF HistInv, TypeOK
<1>2. next' \in [Writers -> 1 .. MaxMessages + 1] /\ at' \in [Writers -> Places]
  BY <1>1 DEF HistInv, TypeOK, Advance, Goto
<1> QED
  BY <1>2 DEF HistInv, TypeOK, Advance, Goto

\* What the write of a header leaves in the file.
LEMMA Overwritten ==
    ASSUME TypeOK, NEW k \in 0 .. Len(Header), Overwrite(k)
    PROVE  /\ data' \in Seq(Nat)
           /\ data = <<>> => data' = SubSeq(Header, 1, k)
<1>1. SubSeq(Header, 1, k) \in Seq(Nat)
  BY HeaderIs, Prefix
<1>2. SubSeq(data, k + 1, Len(data)) \in Seq(Nat)
  BY DEF TypeOK
<1>3. data = <<>> => SubSeq(data, k + 1, Len(data)) = <<>>
  <2> SUFFICES ASSUME data = <<>> PROVE SubSeq(data, k + 1, Len(data)) = <<>>
    OBVIOUS
  <2>1. Len(SubSeq(data, k + 1, Len(data))) = 0
    OBVIOUS
  <2> QED
    BY <1>2, <2>1, EmptySeq
<1> DEFINE begin == SubSeq(Header, 1, k)
           rest == SubSeq(data, k + 1, Len(data))
<1>4. data' = begin \o rest
  BY DEF Overwrite
<1> HIDE DEF begin, rest
<1>5. begin \in Seq(Nat) /\ rest \in Seq(Nat) /\ (data = <<>> => rest = <<>>)
  BY <1>1, <1>2, <1>3 DEF begin, rest
<1>6. begin \o rest \in Seq(Nat)
  BY <1>5, UnitsJoined
<1>7. begin \o <<>> = begin
  BY <1>5, ConcatEmptySeq
<1> QED
  BY <1>4, <1>5, <1>6, <1>7 DEF begin

LEMMA Written ==
    ASSUME HistInv, NEW w \in Writers, WriteFields(w) \/ WriteBody(w)
    PROVE  \E units \in Seq(Nat) : data' = data \o units
<1>1. next[w] \in 1 .. Len(said) /\ TypeOK
  BY InHand DEF HistInv
<1>2. /\ FieldsOf(next[w]) \in Seq(Nat) /\ said[next[w]] \in Seq(Nat)
      /\ Len(FieldsOf(next[w])) = 2
  BY <1>1, EntryIs
<1>3. /\ SubSeq(FieldsOf(next[w]), 1, 1) \in Seq(Nat)
      /\ \A k \in 0 .. Len(said[next[w]]) - 1 : SubSeq(said[next[w]], 1, k) \in Seq(Nat)
  BY <1>2, Prefix, SMTT(30)
<1>4. <<>> \in Seq(Nat) /\ data \o <<>> = data
  BY <1>1, ConcatEmptySeq DEF TypeOK
<1>5. CASE WriteFields(w)
  BY <1>2, <1>3, <1>4, <1>5 DEF WriteFields, Write
<1>6. CASE WriteBody(w)
  BY <1>2, <1>3, <1>4, <1>6 DEF WriteBody, Write
<1> QED
  BY <1>5, <1>6

LEMMA KeepOK ==
    ASSUME TypeOK, data' \in Seq(Nat), NEW n \in 1 .. Len(said), Keep(n)
    PROVE  torn' \in BOOLEAN /\ kept' \in Seq([seq : Numbers \ {0}, end : Nat])
<1>1. [seq |-> n, end |-> Len(data')] \in [seq : Numbers \ {0}, end : Nat]
  BY EntryIs
<1>2. Append(kept, [seq |-> n, end |-> Len(data')]) \in Seq([seq : Numbers \ {0}, end : Nat])
  BY <1>1, AppendProperties DEF TypeOK
<1> QED
  BY <1>2 DEF Keep, TypeOK

LEMMA ServiceOK ==
    ASSUME HistInv, Speak \/ EndConversation
    PROVE  HistInv' /\ \A n \in 1 .. Len(said) : n \in 1 .. Len(said') /\ said'[n] = said[n]
<1> USE DEF HistInv
<1>1. CASE Speak
  <2>1. PICK content \in Contents : said' = Append(said, content)
    BY <1>1 DEF Speak
  <2>2. /\ said' \in Seq(Contents) /\ Len(said') = Len(said) + 1
        /\ \A n \in 1 .. Len(said) : said'[n] = said[n]
    BY <2>1, AppendProperties DEF TypeOK
  <2>3. Len(said) \in Nat /\ Len(said') <= MaxMessages
    BY <1>1, <2>2, HistoryAssumption DEF TypeOK, Speak
  <2>4. Appending'
    <3>1. \A w \in Writers : final[w] \in Nat
      BY NumbersAreThese DEF TypeOK
    <3> QED
      BY <1>1, <2>2, <2>3, <3>1 DEF Appending, Speak
  <2>5. TypeOK'
    BY <1>1, <2>2, <2>3 DEF Speak, TypeOK, fileVars, historyOf
  <2> QED
    BY <2>2, <2>3, <2>4, <2>5
<1>2. CASE EndConversation
  BY <1>2 DEF TypeOK, Appending, EndConversation, fileVars, historyOf
<1> QED
  BY <1>1, <1>2

LEMMA StepOf ==
    ASSUME HistInv, NEW w \in Writers, WriterStep(w) \/ Cut(w)
    PROVE  /\ data' \in Seq(Nat)
           /\ UNCHANGED <<said, ended, printed>>
<1>1. CASE WriteHeader(w)
  <2>1. Overwrite(Len(Header)) \/ \E k \in 0 .. Len(Header) - 1 : Overwrite(k)
    BY <1>1 DEF WriteHeader
  <2>2. data' \in Seq(Nat)
    BY <2>1, HeaderIs, Overwritten DEF HistInv
  <2> QED
    BY <1>1, <2>2 DEF WriteHeader
<1>2. CASE WriteFields(w) \/ WriteBody(w)
  <2>1. PICK units \in Seq(Nat) : data' = data \o units
    BY <1>2, Written
  <2>2. data \in Seq(Nat)
    BY DEF HistInv, TypeOK
  <2>3. data' \in Seq(Nat)
    BY <2>1, <2>2, ConcatProperties
  <2> QED
    BY <1>2, <2>3 DEF WriteFields, WriteBody
<1>3. CASE Create(w) \/ Insert(w) \/ Count(w) \/ StartFinish(w) \/ FinishRead(w)
           \/ FinishUpdate(w) \/ Cut(w)
  BY <1>3 DEF Create, Insert, Count, StartFinish, FinishRead, FinishUpdate, Cut,
              fileVars, HistInv, TypeOK
<1> QED
  BY <1>1, <1>2, <1>3 DEF WriterStep

LEMMA WriteOK ==
    ASSUME HistInv, NEW w \in Writers, WriterStep(w) \/ Cut(w)
    PROVE  HistInv'
<1>0. /\ AfterError(w) \in Places \ {"body", "count"} /\ "next" \in Places \ {"body", "count"}
      /\ data' \in Seq(Nat) /\ UNCHANGED <<said, ended, printed>>
  BY StepOf DEF AfterError, Places
<1> USE DEF HistInv, TypeOK, Goto, Failed, fileVars, historyOf
<1>1. CASE Create(w)
  BY <1>0, <1>1, ZenonT(40) DEF Create, Places, Appending
<1>2. CASE WriteHeader(w)
  <2>1. torn' \in BOOLEAN /\ kept' = kept
    BY <1>2 DEF WriteHeader, Torn
  <2>2. at' \in [Writers -> Places] /\ Appending'
    BY <1>0, <1>2 DEF WriteHeader, Places, Appending
  <2> QED
    BY <1>0, <1>2, <2>1, <2>2 DEF WriteHeader
<1>3. CASE Insert(w)
  <2>1. row' \in [sync : {"none", "active", "complete", "partial"}, final : Numbers]
    BY <1>3, NumbersAreThese DEF Insert, Row
  <2>2. at' \in [Writers -> Places] /\ Appending'
    BY <1>0, <1>3 DEF Insert, Places, Appending
  <2> QED
    BY <1>3, <2>1, <2>2 DEF Insert
<1>4. CASE WriteFields(w)
  <2>1. next[w] \in 1 .. Len(said)
    BY <1>4, InHand
  <2>2. torn' \in BOOLEAN /\ kept' \in Seq([seq : Numbers \ {0}, end : Nat])
    BY <1>0, <1>4, <2>1, KeepOK DEF WriteFields, Torn
  <2>3. /\ at' \in [Writers -> Places] /\ Appending'
        /\ next' \in [Writers -> 1 .. MaxMessages + 1]
    <3>1. CASE Advance(w, AfterError(w))
      BY <1>0, <1>4, <2>1, <3>1, AdvanceOK DEF WriteFields, Appending
    <3>2. CASE (Goto(w, "body") \/ Goto(w, "count")) /\ UNCHANGED next
      BY <1>0, <1>4, <2>1, <3>2 DEF WriteFields, Places, Appending
    <3> QED
      BY <1>4, <3>1, <3>2 DEF WriteFields
  <2> QED
    BY <1>0, <1>4, <2>2, <2>3 DEF WriteFields
<1>5. CASE WriteBody(w)
  <2>1. next[w] \in 1 .. Len(said)
    BY <1>5, InHand
  <2>2. torn' \in BOOLEAN /\ kept' \in Seq([seq : Numbers \ {0}, end : Nat])
    BY <1>0, <1>5, <2>1, KeepOK DEF WriteBody, Torn
  <2>3. /\ at' \in [Writers -> Places] /\ Appending'
        /\ next' \in [Writers -> 1 .. MaxMessages + 1]
    <3>1. CASE Advance(w, AfterError(w))
      BY <1>0, <1>5, <2>1, <3>1, AdvanceOK DEF WriteBody, Appending
    <3>2. CASE Goto(w, "count") /\ UNCHANGED next
      BY <1>0, <1>5, <2>1, <3>2 DEF WriteBody, Places, Appending
    <3> QED
      BY <1>5, <3>1, <3>2 DEF WriteBody
  <2> QED
    BY <1>0, <1>5, <2>2, <2>3 DEF WriteBody
<1>6. CASE Count(w)
  <2>1. next[w] \in 1 .. Len(said)
    BY <1>6 DEF Count, Appending
  <2>2. PICK place \in {"next", AfterError(w)} : Advance(w, place)
    BY <1>6 DEF Count
  <2>3. /\ at' \in [Writers -> Places] /\ Appending'
        /\ next' \in [Writers -> 1 .. MaxMessages + 1]
    BY <1>0, <1>6, <2>1, <2>2, AdvanceOK DEF Count, Appending
  <2> QED
    BY <1>6, <2>3 DEF Count
<1>7. CASE StartFinish(w)
  <2>1. final' \in [Writers -> Numbers] /\ \A v \in Writers : final'[v] <= Len(said)
    BY <1>7, AvailableIsSaid DEF StartFinish, Appending
  <2>2. \A v \in Writers : at'[v] \in {"body", "count"} => at'[v] = at[v]
    BY <1>7 DEF StartFinish
  <2>3. Appending'
    BY <1>7, <2>1, <2>2 DEF StartFinish, Appending
  <2> QED
    BY <1>7, <2>1, <2>3 DEF StartFinish, Places
<1>8. CASE FinishRead(w)
  <2>1. whole' \in [Writers -> BOOLEAN]
    BY <1>8 DEF FinishRead, IsComplete
  <2> QED
    BY <1>8, <2>1 DEF FinishRead, Places, Appending
<1>9. CASE FinishUpdate(w)
  <2>1. row' \in [sync : {"none", "active", "complete", "partial"}, final : Numbers]
    BY <1>9 DEF FinishUpdate, Row
  <2> QED
    BY <1>9, <2>1 DEF FinishUpdate, Places, Appending
<1>10. CASE Cut(w)
  BY <1>10 DEF Cut, Torn, Places, Appending
<1> QED
  BY <1>1, <1>2, <1>3, <1>4, <1>5, <1>6, <1>7, <1>8, <1>9, <1>10 DEF WriterStep

------------------------------------------------------------------------------
(* HistoryStore: what read makes of a file.                                *)

\* read's offsets, one record after the other.
LEMMA OffsetIs ==
    ASSUME data \in Seq(Nat), HeaderOK
    PROVE  /\ \A n \in 0 .. Len(data) : Offset[n] \in Nat
           /\ Offset[0] = 2 + data[2]
           /\ \A n \in 1 .. Len(data) : Offset[n] = Past(Offset[n - 1])
<1> DEFINE N == Len(data)
           step == [n \in 1 .. N |-> [o \in Nat |-> Past(o)]]
           start == 2 + data[2]
           Is(f) == f = [n \in 0 .. N |-> IF n = 0 THEN start ELSE Past(f[n - 1])]
<1>0. N \in Nat /\ start \in Nat
  BY DEF HeaderOK
<1>1. \A o \in Nat : Past(o) \in Nat
  <2> SUFFICES ASSUME NEW o \in Nat PROVE Past(o) \in Nat
    OBVIOUS
  <2>1. CASE o + 2 <= Len(data)
    <3>1. data[o + 2] \in Nat
      BY <2>1
    <3> QED
      BY <2>1, <3>1 DEF Past
  <2> QED
    BY <2>1 DEF Past
<1>2. step \in [1 .. N -> [Nat -> Nat]]
  BY <1>1
<1>3. \A n \in 1 .. N, o \in Nat : step[n][o] = Past(o)
  OBVIOUS
<1>4. Offset = CHOOSE f : Is(f)
  BY DEF Offset
<1> HIDE DEF step, N, start
<1>5. PICK f \in [0 .. N -> Nat] : Computed(f, N, start, step)
  BY <1>0, <1>2, Recursion
<1>6. Is(f)
  <2>1. ASSUME NEW n \in 1 .. N PROVE f[n] = Past(f[n - 1])
    <3>1. n - 1 \in 0 .. N
      BY <1>0
    <3>2. f[n - 1] \in Nat
      BY <3>1
    <3>3. f[n] = step[n][f[n - 1]]
      BY <1>5 DEF Computed
    <3> QED
      BY <1>3, <3>2, <3>3, Zenon
  <2>2. \A n \in 0 .. N : n = 0 \/ n \in 1 .. N
    BY <1>0
  <2> QED
    BY <1>5, <2>1, <2>2 DEF Computed
<1>7. Is(Offset)
  <2> HIDE DEF Is
  <2> QED
    BY <1>4, <1>6
<1>8. \A n \in 0 .. N : Offset[n] = IF n = 0 THEN start ELSE Past(Offset[n - 1])
  BY <1>7
<1>9. Offset[0] = start /\ \A n \in 1 .. N : Offset[n] = Past(Offset[n - 1])
  BY <1>0, <1>8
<1>10. \A n \in 0 .. N : Offset[n] \in Nat
  <2> DEFINE T == {n \in Nat : n <= N => Offset[n] \in Nat}
  <2>1. 0 \in T
    BY <1>0, <1>9
  <2>2. ASSUME NEW n \in Nat, n \in T PROVE n + 1 \in T
    <3> SUFFICES ASSUME n + 1 <= N PROVE Offset[n + 1] \in Nat
      OBVIOUS
    <3>1. n + 1 \in 1 .. N /\ (n + 1) - 1 = n /\ Offset[n] \in Nat
      BY <1>0, <2>2
    <3>2. Offset[n + 1] = Past(Offset[n])
      BY <1>9, <3>1
    <3> QED
      BY <1>1, <3>1, <3>2
  <2> HIDE DEF T
  <2>3. Nat \subseteq T
    BY <2>1, <2>2, Induction
  <2> QED
    BY <1>0, <2>3 DEF T
<1> QED
  BY <1>9, <1>10 DEF N, start

\* They never go back.
LEMMA OffsetsGrow ==
    ASSUME data \in Seq(Nat), HeaderOK, NEW n \in 0 .. Len(data), NEW k \in 0 .. n
    PROVE  Offset[k] <= Offset[n]
<1>1. /\ Len(data) \in Nat /\ \A m \in 0 .. Len(data) : Offset[m] \in Nat
      /\ \A m \in 1 .. Len(data) : Offset[m] = Past(Offset[m - 1])
  BY OffsetIs
<1>2. ASSUME NEW m \in Nat, m + 1 <= Len(data) PROVE Offset[m] <= Offset[m + 1]
  <2>1. Offset[m + 1] = Past(Offset[m]) /\ Offset[m] \in Nat
    BY <1>1, <1>2
  <2>2. CASE Offset[m] + 2 <= Len(data)
    <3>1. data[Offset[m] + 2] \in Nat
      BY <2>1, <2>2
    <3> QED
      BY <2>1, <2>2, <3>1 DEF Past
  <2> QED
    BY <2>1, <2>2 DEF Past
<1> DEFINE T == {m \in Nat : m <= Len(data) /\ k <= m => Offset[k] <= Offset[m]}
<1>3. 0 \in T
  BY <1>1
<1>4. ASSUME NEW m \in Nat, m \in T PROVE m + 1 \in T
  <2> SUFFICES ASSUME m + 1 <= Len(data), k <= m + 1 PROVE Offset[k] <= Offset[m + 1]
    OBVIOUS
  <2>1. Offset[k] \in Nat /\ Offset[m] \in Nat /\ Offset[m + 1] \in Nat
    BY <1>1
  <2>2. CASE k = m + 1
    BY <2>1, <2>2
  <2>3. CASE k <= m
    BY <1>2, <1>4, <2>1, <2>3
  <2> QED
    BY <2>2, <2>3
<1>5. Nat \subseteq T
  <2> HIDE DEF T
  <2> QED
    BY <1>3, <1>4, Induction
<1>6. n \in T
  BY <1>5
<1> QED
  BY <1>1, <1>6

\* A file that can be read ends after some number of records, and only one.
LEMMA ReadEnds ==
    ASSUME data \in Seq(Nat), Readable
    PROVE  /\ Len(Transcript) \in 0 .. Len(data) /\ Ends(Len(Transcript))
           /\ \A n \in 0 .. Len(data) : Ends(n) => n = Len(Transcript)
           /\ DOMAIN Transcript = 1 .. Len(Transcript)
           /\ \A i \in 1 .. Len(Transcript) :
                Transcript[i] = [seq |-> data[Offset[i - 1] + 1],
                                 content |-> SubSeq(data, Offset[i - 1] + 3, Offset[i])]
<1> DEFINE n == CHOOSE m \in 0 .. Len(data) : Ends(m)
           T == {m \in Nat : m <= Len(data) =>
                   \/ \E k \in 0 .. m : Ends(k)
                   \/ \A k \in 0 .. m : Offset[k] # Len(data)}
<1>0. Len(data) \in Nat
  OBVIOUS
<1>1. 0 \in T
  <2>1. CASE Offset[0] = Len(data)
    BY <2>1 DEF Ends
  <2>2. CASE Offset[0] # Len(data)
    BY <2>2
  <2> QED
    BY <2>1, <2>2
<1>2. ASSUME NEW m \in Nat, m \in T PROVE m + 1 \in T
  <2> SUFFICES ASSUME m + 1 <= Len(data), ~ \E k \in 0 .. m + 1 : Ends(k)
               PROVE  \A k \in 0 .. m + 1 : Offset[k] # Len(data)
    OBVIOUS
  <2>1. \A k \in 0 .. m : Offset[k] # Len(data)
    BY <1>0, <1>2
  <2>2. Offset[m + 1] # Len(data)
    BY <2>1 DEF Ends
  <2> QED
    BY <2>1, <2>2
<1>3. Nat \subseteq T
  <2> HIDE DEF T
  <2> QED
    BY <1>1, <1>2, Induction
<1>4. \E k \in 0 .. Len(data) : Ends(k)
  <2>1. Len(data) \in T
    BY <1>0, <1>3
  <2> QED
    BY <1>0, <2>1 DEF Readable
<1>5. n \in 0 .. Len(data) /\ Ends(n)
  BY <1>4
<1>6. ASSUME NEW m \in 0 .. Len(data), Ends(m) PROVE m = n
  <2> HIDE DEF n
  <2>1. ~ m < n /\ ~ n < m
    BY <1>5, <1>6 DEF Ends
  <2> QED
    BY <1>5, <2>1
<1>7. Transcript = [i \in 1 .. n |-> [seq |-> data[Offset[i - 1] + 1],
                                      content |-> SubSeq(data, Offset[i - 1] + 3, Offset[i])]]
  BY DEF Transcript
<1> HIDE DEF n
<1>8. Len(Transcript) = n /\ DOMAIN Transcript = 1 .. n
  BY <1>5, <1>7
<1> QED
  BY <1>5, <1>6, <1>7, <1>8

\* What read returns are messages.
LEMMA TranscriptType ==
    ASSUME TypeOK, Readable PROVE Transcript \in Seq(Messages)
<1>1. data \in Seq(Nat) /\ HeaderOK /\ Len(data) \in Nat
  BY DEF TypeOK, Readable
<1>2. ASSUME NEW i \in 1 .. Len(Transcript) PROVE Transcript[i] \in Messages
  <2>1. /\ Transcript[i] = [seq |-> data[Offset[i - 1] + 1],
                            content |-> SubSeq(data, Offset[i - 1] + 3, Offset[i])]
        /\ Len(Transcript) \in 0 .. Len(data) /\ Ends(Len(Transcript))
    BY <1>1, ReadEnds
  <2>2. i - 1 \in 0 .. Len(Transcript) /\ i \in 0 .. Len(Transcript)
        /\ i - 1 \in 0 .. Len(data) /\ i \in 0 .. Len(data)
    BY <2>1
  <2>3. Offset[i - 1] \in Nat /\ Offset[i] \in Nat /\ Offset[Len(Transcript)] = Len(data)
    BY <1>1, <2>1, <2>2, OffsetIs DEF Ends
  <2>4. Offset[i - 1] <= Len(data) /\ Offset[i] <= Len(data)
    BY <1>1, <2>1, <2>2, <2>3, OffsetsGrow
  <2>5. Offset[i - 1] # Len(data)
    BY <2>1, <2>2 DEF Ends
  <2>6. data[Offset[i - 1] + 1] \in Nat
    BY <1>1, <2>3, <2>4, <2>5, SMTT(30)
  <2>7. SubSeq(data, Offset[i - 1] + 3, Offset[i]) \in Seq(Nat)
    <3> DEFINE first == Offset[i - 1] + 3
               last == Offset[i]
    <3>1. first \in Nat /\ first >= 1 /\ last \in Nat /\ last <= Len(data)
      BY <2>3, <2>4
    <3> HIDE DEF first, last
    <3>2. \A k \in first .. last : data[k] \in Nat
      BY <1>1, <3>1
    <3>3. SubSeq(data, first, last) \in Seq(Nat)
      BY <3>1, <3>2, SubSeqProperties
    <3> QED
      BY <3>3 DEF first, last
  <2>8. ASSUME NEW n \in Nat, NEW units \in Seq(Nat)
        PROVE  [seq |-> n, content |-> units] \in Messages
    BY DEF Messages
  <2> QED
    BY <2>1, <2>6, <2>7, <2>8
<1>3. Transcript \in [1 .. Len(Transcript) -> Messages] /\ Len(Transcript) \in Nat
  <2>1. Len(Transcript) \in 0 .. Len(data) /\ DOMAIN Transcript = 1 .. Len(Transcript)
    BY <1>1, ReadEnds
  <2>2. Transcript = [i \in DOMAIN Transcript |-> Transcript[i]]
    BY DEF Transcript
  <2>3. Transcript = [i \in 1 .. Len(Transcript) |-> Transcript[i]]
    BY <2>1, <2>2
  <2>4. Transcript \in [1 .. Len(Transcript) -> Messages]
    BY <1>2, <2>3
  <2> QED
    BY <1>1, <2>1, <2>4
<1> QED
  BY <1>3

LEMMA CallerOK ==
    ASSUME HistInv, NEW c \in Callers, Look(c) \/ Import(c) \/ ReadBack(c)
    PROVE  HistInv'
<1> USE DEF HistInv, TypeOK, Appending, Goto, fileVars, historyOf
<1>0. c \in Writers /\ Len(said) \in Numbers
  BY NumbersAreThese DEF Writers
<1>1. CASE Look(c)
  <2>1. final' = final \/ final' = [final EXCEPT ![c] = Len(said)]
    BY <1>1 DEF Look
  <2>3. final' \in [Writers -> Numbers] /\ \A w \in Writers : final'[w] <= Len(said)
    <3>1. \A w \in Writers : final'[w] = final[w] \/ final'[w] = Len(said)
      BY <2>1
    <3>2. Len(said) <= Len(said)
      OBVIOUS
    <3> QED
      BY <1>0, <2>1, <3>1, <3>2
  <2>2. \A w \in Writers : at'[w] \in {"body", "count"} => at'[w] = at[w]
    BY <1>0, <1>1 DEF Look
  <2> QED
    BY <1>0, <1>1, <2>2, <2>3 DEF Look, Places
<1>2. CASE Import(c)
  BY <1>0, <1>2 DEF Import, Places
<1>3. CASE ReadBack(c)
  <2>1. printed' \in [Callers -> SUBSET Seq(Messages)]
    <3>1. CASE Readable
      <4>1. Transcript \in Seq(Messages)
        <5> USE DEF HistInv
        <5>1. TypeOK
          OBVIOUS
        <5> QED
          BY <3>1, <5>1, TranscriptType
      <4> DEFINE read == {Transcript}
                 lists == SUBSET Seq(Messages)
      <4>2. read \in lists /\ printed \in [Callers -> lists]
        BY <4>1
      <4>3. printed' = [printed EXCEPT ![c] = read]
        BY <1>3, <3>1 DEF ReadBack
      <4> HIDE DEF read, lists
      <4>4. printed' \in [Callers -> lists]
        BY <4>2, <4>3
      <4> QED
        BY <4>4 DEF lists
    <3> QED
      BY <1>3, <3>1 DEF ReadBack
  <2> QED
    BY <1>0, <1>3, <2>1 DEF ReadBack, Places
<1> QED
  BY <1>1, <1>2, <1>3

LEMMA StepOK == HistInv /\ [StoreNext]_storeVars => HistInv'
<1> SUFFICES ASSUME HistInv, [StoreNext]_storeVars PROVE HistInv'
  OBVIOUS
<1>1. CASE UNCHANGED storeVars
  BY <1>1 DEF storeVars, fileVars, historyOf, HistInv, TypeOK, Appending
<1> QED
  BY <1>1, ServiceOK, WriteOK, CallerOK DEF StoreNext

\* Every variable of the store, of its writers and of its readers stays in its
\* type, whatever write of begin, append and finish fails: what read returns, also
\* from a file that a failed write has left out of step, is a list of messages.
THEOREM StoreTypeCorrectness == StoreSpec => []TypeOK
<1>1. StoreSpec => []HistInv
  BY InitOK, StepOK, PTL DEF StoreSpec
<1>2. HistInv => TypeOK
  BY DEF HistInv
<1> QED
  BY <1>1, <1>2, PTL

------------------------------------------------------------------------------
(* What holds when recoveries begin after the client has stopped writing.  *)

\* One writer at a time has the file in its hands.
LEMMA OnlyOne ==
    ASSUME OneWriter, NEW v \in Writers, NEW w \in Writers,
           at[v] \in Owning, at[w] \in Owning
    PROVE  v = w
  BY DEF OneWriter, Owning, Writers

LEMMA OneWriterStep ==
    ASSUME ~Overlap, HistInv, OneWriter, StoreNext PROVE OneWriter'
<1> USE DEF HistInv, TypeOK, OneWriter, Owning, Writers, Goto, Failed, AfterError,
            Advance, fileVars, historyOf, Torn
<1>0. Live \notin Callers
  BY HistoryAssumption
<1>1. CASE Speak \/ EndConversation
  BY <1>1 DEF Speak, EndConversation
<1>2. ASSUME NEW w \in Writers, Create(w) PROVE OneWriter'
  <2>1. CASE ~exists /\ exists' = TRUE /\ Goto(w, "header")
    <3>1. \A c \in Callers : c # w => at[c] \notin Owning
      BY <2>1
    <3>2. \A c \in Callers : w = Live => at[c] = "idle"
      BY <1>2 DEF Create
    <3>3. w # Live => at[Live] = "over"
      BY <1>2 DEF Create
    <3>4. data = <<>> /\ ~torn
      BY <2>1
    <3> QED
      BY <1>0, <1>2, <2>1, <3>1, <3>2, <3>3, <3>4 DEF Create
  <2>2. CASE Failed(w) /\ UNCHANGED exists
    BY <1>0, <1>2, <2>2 DEF Create
  <2> QED
    BY <1>2, <2>1, <2>2 DEF Create
<1>3. ASSUME NEW w \in Writers, WriteHeader(w) PROVE OneWriter'
  <2>1. exists' /\ at[w] = "header" /\ at'[w] # "header"
    BY <1>0, <1>3 DEF WriteHeader
  <2>2. \A v \in Writers : at'[v] # "header"
    BY <1>0, <1>3, <2>1 DEF WriteHeader
  <2> QED
    BY <1>0, <1>3, <2>1, <2>2 DEF WriteHeader
<1>4. ASSUME NEW w \in Writers, WriteFields(w) PROVE OneWriter'
  <2>1. /\ at[w] = "next"
        /\ ~exists => at' = [at EXCEPT ![w] = AfterError(w)] /\ UNCHANGED <<data, torn>>
    BY <1>4 DEF WriteFields
  <2>2. exists' = exists /\ \A v \in Writers : at'[v] = "header" => at[v] = "header" /\ v # w
    BY <1>0, <1>4, <2>1 DEF WriteFields
  <2>3. \A v \in Writers : at[v] # "header"
    BY <1>0, <2>1
  <2>4. \A v \in Writers : ~exists' \/ at'[v] = "header" => data' = <<>> /\ ~torn'
    BY <2>1, <2>2, <2>3
  <2>5. w = Live => (at'[Live] = "body" => exists')
    BY <1>4, <2>1, <2>2 DEF WriteFields
  <2>6. at' \in {[at EXCEPT ![w] = "body"], [at EXCEPT ![w] = "count"],
                 [at EXCEPT ![w] = AfterError(w)]}
    BY <1>4 DEF WriteFields
  <2> QED
    BY <1>0, <2>1, <2>2, <2>4, <2>5, <2>6
<1>5. ASSUME NEW w \in Writers, WriteBody(w) PROVE OneWriter'
  <2>1. at[w] = "body" /\ exists /\ exists' = exists
    BY <1>0, <1>5 DEF WriteBody
  <2>2. \A v \in Writers : at[v] # "header" /\ at'[v] # "header"
    BY <1>0, <1>5, <2>1 DEF WriteBody
  <2> QED
    BY <1>0, <1>5, <2>1, <2>2 DEF WriteBody
<1>6. ASSUME NEW w \in Writers, Insert(w) \/ Count(w) PROVE OneWriter'
  <2>1. CASE Insert(w)
    BY <1>0, <2>1 DEF Insert
  <2>2. CASE Count(w)
    BY <1>0, <2>2, ZenonT(40) DEF Count
  <2> QED
    BY <1>6, <2>1, <2>2
<1>7. ASSUME NEW w \in Writers, StartFinish(w) \/ FinishRead(w) \/ FinishUpdate(w)
      PROVE  OneWriter'
  <2>1. CASE StartFinish(w)
    BY <1>0, <2>1 DEF StartFinish
  <2>2. CASE FinishRead(w)
    BY <1>0, <2>2 DEF FinishRead
  <2>3. CASE FinishUpdate(w)
    BY <1>0, <2>3 DEF FinishUpdate
  <2> QED
    BY <1>7, <2>1, <2>2, <2>3
<1>8. ASSUME NEW w \in Writers, Cut(w) PROVE OneWriter'
  <2>1. exists' = exists /\ data' = data /\ (at[w] \in {"header", "body"} => exists)
        /\ (torn' = torn \/ at[w] \in {"header", "body"})
    BY <1>0, <1>8 DEF Cut
  <2>2. at' = [at EXCEPT ![w] = "over"]
    BY <1>8 DEF Cut
  <2>3. at[w] \in {"header", "body"} => \A v \in Writers : at'[v] # "header"
    BY <1>0, <2>2
  <2>4. ~exists' => ~torn'
    BY <2>1
  <2>5. \A v \in Writers : at'[v] = "header" => at[v] = "header" /\ at[w] \notin {"header", "body"}
    BY <1>0, <2>2, <2>3
  <2>6. \A v \in Writers : at'[v] = "header" => ~torn'
    BY <2>1, <2>5
  <2>7. \A v \in Writers : ~exists' \/ at'[v] = "header" => data' = <<>> /\ ~torn'
    BY <2>1, <2>4, <2>5, <2>6
  <2> QED
    BY <1>0, <1>8, <2>1, <2>2, <2>7 DEF Cut
<1>9. ASSUME NEW c \in Callers, Look(c) \/ Import(c) \/ ReadBack(c)
      PROVE  OneWriter'
  <2>1. CASE Look(c)
    BY <1>0, <2>1 DEF Look
  <2>2. CASE Import(c)
    BY <1>0, <2>2 DEF Import
  <2>3. CASE ReadBack(c)
    BY <1>0, <2>3 DEF ReadBack
  <2> QED
    BY <1>9, <2>1, <2>2, <2>3
<1> QED
  BY <1>1, <1>2, <1>3, <1>4, <1>5, <1>6, <1>7, <1>8, <1>9 DEF StoreNext, WriterStep

\* Only append writes behind what is there, and only begin, which finds no file,
\* creates one; a header is written where nothing is.
LEMMA StepAppends ==
    ASSUME HistInv, OneWriter, StoreNext
    PROVE  /\ \E units \in Seq(Nat) : data' = data \o units
           /\ exists => exists'
<1>0. data' = data => \E units \in Seq(Nat) : data' = data \o units
  <2>1. data \in Seq(Nat) /\ <<>> \in Seq(Nat) /\ data \o <<>> = data
    BY ConcatEmptySeq DEF HistInv, TypeOK
  <2> QED
    BY <2>1, Zenon
<1>1. ASSUME NEW w \in Writers, WriterStep(w) \/ Cut(w)
      PROVE  /\ \E units \in Seq(Nat) : data' = data \o units
             /\ exists => exists'
  <2>1. CASE WriteFields(w) \/ WriteBody(w)
    BY <2>1, Written DEF WriteFields, WriteBody
  <2>2. CASE WriteHeader(w)
    <3>1. PICK k \in 0 .. Len(Header) : Overwrite(k)
      BY <2>2, HeaderIs DEF WriteHeader
    <3>2. data = <<>> /\ TypeOK
      BY <2>2 DEF WriteHeader, OneWriter, HistInv
    <3>3. data' = SubSeq(Header, 1, k) /\ SubSeq(Header, 1, k) \in Seq(Nat)
      BY <3>1, <3>2, Overwritten, HeaderIs, Prefix
    <3>4. data' = data \o SubSeq(Header, 1, k)
      BY <3>2, <3>3, ConcatEmptySeq
    <3> QED
      BY <2>2, <3>3, <3>4 DEF WriteHeader
  <2>3. CASE Create(w)
    BY <1>0, <2>3 DEF Create
  <2>4. CASE Insert(w) \/ Count(w) \/ StartFinish(w) \/ FinishRead(w)
             \/ FinishUpdate(w) \/ Cut(w)
    BY <1>0, <2>4 DEF Insert, Count, StartFinish, FinishRead, FinishUpdate, Cut, fileVars
  <2> QED
    BY <1>1, <2>1, <2>2, <2>3, <2>4 DEF WriterStep
<1>2. CASE Speak \/ EndConversation
  BY <1>0, <1>2 DEF Speak, EndConversation, fileVars
<1>3. ASSUME NEW c \in Callers, Look(c) \/ Import(c) \/ ReadBack(c)
      PROVE  data' = data /\ exists' = exists
  BY <1>3 DEF Look, Import, ReadBack, fileVars
<1> QED
  BY <1>0, <1>1, <1>2, <1>3 DEF StoreNext

LEMMA StartsAlone == StoreInit => OneWriter
<1> SUFFICES ASSUME StoreInit PROVE OneWriter
  OBVIOUS
<1>1. at[Live] = "begin" /\ \A c \in Callers : at[c] = "idle"
  BY HistoryAssumption DEF StoreInit, Writers
<1> QED
  BY <1>1 DEF StoreInit, OneWriter, Owning

\* As long as recoveries begin after the client has stopped writing, a transcript
\* is append-only: no begin, append or recovery overwrites or replaces what is in
\* the file.
THEOREM TranscriptIsAppendOnly ==
    ASSUME ~Overlap PROVE StoreSpec => AppendOnly
<1> DEFINE Inv == HistInv /\ OneWriter
<1>1. StoreInit => Inv
  BY InitOK, StartsAlone
<1>2. Inv /\ [StoreNext]_storeVars => Inv'
  <2>1. OneWriter /\ UNCHANGED storeVars => OneWriter'
    BY DEF OneWriter, storeVars, fileVars, historyOf
  <2> QED
    BY <2>1, StepOK, OneWriterStep
<1>3. Inv /\ [StoreNext]_storeVars =>
        [/\ Len(data) <= Len(data') /\ SubSeq(data', 1, Len(data)) = data
         /\ exists => exists']_storeVars
  <2> SUFFICES ASSUME HistInv, OneWriter, StoreNext
               PROVE  /\ Len(data) <= Len(data') /\ SubSeq(data', 1, Len(data)) = data
                      /\ exists => exists'
    OBVIOUS
  <2>1. PICK units \in Seq(Nat) : data' = data \o units
    BY StepAppends
  <2>2. data \in Seq(Nat) /\ Len(data) \in Nat /\ Len(units) \in Nat
    BY DEF HistInv, TypeOK
  <2>3. /\ Len(data') = Len(data) + Len(units) /\ data' \in Seq(Nat)
        /\ \A i \in 1 .. Len(data) : data'[i] = data[i]
    BY <2>1, <2>2, UnitsJoined
  <2>4. SubSeq(data', 1, Len(data)) = data
    <3>1. /\ SubSeq(data', 1, Len(data)) \in Seq(Nat)
          /\ Len(SubSeq(data', 1, Len(data))) = Len(data)
          /\ \A i \in 1 .. Len(data) : SubSeq(data', 1, Len(data))[i] = data[i]
      BY <2>2, <2>3, Prefix
    <3> QED
      BY <2>2, <3>1, SeqEqual
  <2> QED
    BY <2>2, <2>3, <2>4, StepAppends
<1> QED
  BY <1>1, <1>2, <1>3, PTL DEF StoreSpec, AppendOnly

\* Nothing comes before what is there: units that have been written stay.
LEMMA StepKeeps ==
    ASSUME HistInv, OneWriter, StoreNext
    PROVE  /\ Len(data) \in Nat /\ Len(data') \in Nat /\ Len(data) <= Len(data')
           /\ \A i \in 1 .. Len(data) : data'[i] = data[i]
           /\ \A n \in 1 .. Len(said) : n \in 1 .. Len(said') /\ said'[n] = said[n]
<1>1. PICK units \in Seq(Nat) : data' = data \o units
  BY StepAppends
<1>2. data \in Seq(Nat)
  BY DEF HistInv, TypeOK
<1>3. /\ Len(data') = Len(data) + Len(units) /\ \A i \in 1 .. Len(data) : data'[i] = data[i]
      /\ Len(data) \in Nat /\ Len(units) \in Nat
  BY <1>1, <1>2, UnitsJoined
<1>4. \A n \in 1 .. Len(said) : n \in 1 .. Len(said') /\ said'[n] = said[n]
  <2>1. CASE Speak \/ EndConversation
    BY <2>1, ServiceOK
  <2>2. CASE \E w \in Writers : WriterStep(w) \/ Cut(w)
    BY <2>2, StepOf
  <2>3. CASE \E c \in Callers : Look(c) \/ Import(c) \/ ReadBack(c)
    BY <2>3 DEF Look, Import, ReadBack
  <2> QED
    BY <2>1, <2>2, <2>3 DEF StoreNext
<1> QED
  BY <1>3, <1>4

LEMMA KeptType ==
    ASSUME TypeOK
    PROVE  /\ DOMAIN kept = 1 .. Len(kept) /\ Len(kept) \in Nat
           /\ \A i \in DOMAIN kept : kept[i].seq \in Nat /\ kept[i].end \in Nat
           /\ \A i \in DOMAIN kept : Begin(i) \in Nat
           /\ End \in Nat
           /\ Len(kept) > 0 => End = kept[Len(kept)].end
           /\ Len(kept) = 0 => End = Len(Header)
<1> DEFINE S == [seq : Numbers \ {0}, end : Nat]
<1>0. kept \in Seq(S)
  BY DEF TypeOK
<1>1. /\ DOMAIN kept = 1 .. Len(kept) /\ Len(kept) \in Nat
      /\ \A i \in DOMAIN kept : kept[i] \in S
      /\ kept = <<>> <=> Len(kept) = 0
  <2> HIDE DEF S
  <2> QED
    BY <1>0, EmptySeq, ElementOfSeq, LenProperties
<1>2. \A i \in DOMAIN kept : kept[i].seq \in Nat /\ kept[i].end \in Nat
  BY <1>1, NumbersAreThese
<1>3. ASSUME NEW i \in DOMAIN kept PROVE Begin(i) \in Nat
  BY <1>1, <1>2, HeaderIs DEF Begin
<1> QED
  BY <1>1, <1>2, <1>3, HeaderIs DEF End

\* A record that is kept says the same in a file that has grown.
LEMMA KeptStays ==
    ASSUME HistInv, OneWriter, StoreNext, NEW i \in DOMAIN kept, Kept(i),
           i \in DOMAIN kept', kept'[i] = kept[i],
           i = 1 \/ kept'[i - 1] = kept[i - 1]
    PROVE  Kept(i)'
<1>0. TypeOK /\ TypeOK'
  BY StepOK DEF HistInv
<1>1. /\ Len(data) \in Nat /\ Len(data') \in Nat /\ Len(data) <= Len(data')
      /\ \A k \in 1 .. Len(data) : data'[k] = data[k]
  BY StepKeeps
<1> DEFINE n == kept[i].seq
<1>2. n \in 1 .. Len(said) /\ n \in 1 .. Len(said') /\ said'[n] = said[n]
      /\ DOMAIN said = 1 .. Len(said) /\ DOMAIN said' = 1 .. Len(said')
  <2>1. DOMAIN said = 1 .. Len(said) /\ DOMAIN said' = 1 .. Len(said')
    BY <1>0 DEF TypeOK
  <2>2. n \in DOMAIN said
    BY DEF Kept
  <2> QED
    BY <2>1, <2>2, StepKeeps
<1>3. Entry(n)' = Entry(n) /\ Begin(i)' = Begin(i)
  <2>1. Entry(n)' = <<n, Len(said'[n])>> \o said'[n]
    BY <1>2 DEF Entry, FieldsOf
  <2> QED
    BY <1>2, <2>1 DEF Entry, FieldsOf, Begin, Header, FileMagic
<1>4. /\ Len(Entry(n)) \in Nat /\ Begin(i) \in Nat
      /\ kept[i].end = Begin(i) + Len(Entry(n)) /\ kept[i].end <= Len(data)
      /\ Holds(Begin(i), Entry(n))
  BY <1>0, <1>2, EntryIs, KeptType DEF Kept
<1> HIDE DEF n
<1>5. ASSUME NEW k \in 1 .. Len(Entry(n)) PROVE data'[Begin(i) + k] = Entry(n)[k]
  <2>1. Begin(i) + k \in 1 .. Len(data)
    BY <1>1, <1>4
  <2>2. data[Begin(i) + k] = Entry(n)[k]
    BY <1>4 DEF Holds
  <2> QED
    BY <1>1, <2>1, <2>2
<1> QED
  BY <1>1, <1>2, <1>3, <1>4, <1>5 DEF Kept, Holds, n

\* A record is added to kept where the file ends with it.
Grown(n) ==
    /\ kept' = Append(kept, [seq |-> n, end |-> Len(data')])
    /\ Len(data') = End + Len(Entry(n))
    /\ \A k \in 1 .. Len(Entry(n)) : data'[End + k] = Entry(n)[k]

LEMMA GrownIs ==
    ASSUME TypeOK, NEW n \in 1 .. Len(said), Grown(n)
    PROVE  /\ kept' # <<>> /\ Len(kept') = Len(kept) + 1 /\ DOMAIN kept' = 1 .. Len(kept) + 1
           /\ \A i \in DOMAIN kept : i \in DOMAIN kept' /\ kept'[i] = kept[i]
           /\ kept'[Len(kept) + 1] = [seq |-> n, end |-> Len(data')]
           /\ End' = Len(data') /\ \A i : i = Len(kept) + 1 => Begin(i)' = End
<1> DEFINE S == [seq : Numbers \ {0}, end : Nat]
           new == [seq |-> n, end |-> Len(data')]
<1>1. /\ DOMAIN kept = 1 .. Len(kept) /\ Len(kept) \in Nat /\ End \in Nat
      /\ Len(kept) > 0 => End = kept[Len(kept)].end
      /\ Len(kept) = 0 => End = Len(Header)
  BY KeptType
<1>2. new \in S
  <2>1. n \in Numbers \ {0} /\ Len(Entry(n)) \in Nat
    BY EntryIs
  <2> QED
    BY <1>1, <2>1 DEF Grown
<1>3. kept \in Seq(S)
  BY DEF TypeOK
<1>4. /\ kept' \in Seq(S) /\ Len(kept') = Len(kept) + 1
      /\ \A i \in 1 .. Len(kept) : kept'[i] = kept[i]
      /\ kept'[Len(kept) + 1] = new
  <2> HIDE DEF S, new
  <2>1. kept' = Append(kept, new)
    BY DEF Grown, new
  <2> QED
    BY <1>2, <1>3, <2>1, AppendProperties
<1>5. DOMAIN kept' = 1 .. Len(kept) + 1 /\ kept' # <<>>
  BY <1>1, <1>4
<1>6. End' = Len(data')
  BY <1>4, <1>5 DEF End
<1>7. ASSUME NEW i, i = Len(kept) + 1 PROVE Begin(i)' = End
  <2>1. CASE Len(kept) = 0
    BY <1>1, <1>7, <2>1 DEF Begin, Header, FileMagic
  <2>2. CASE Len(kept) # 0
    <3>1. i # 1 /\ i - 1 = Len(kept) /\ Len(kept) \in 1 .. Len(kept)
      BY <1>1, <1>7, <2>2
    <3>2. Begin(i)' = kept'[i - 1].end
      BY <3>1 DEF Begin
    <3> QED
      BY <1>1, <1>4, <2>2, <3>1, <3>2
  <2> QED
    BY <2>1, <2>2
<1> QED
  BY <1>1, <1>4, <1>5, <1>6, <1>7

LEMMA FileIsEmpty ==
    ASSUME TypeOK, KeptIsThere, data = <<>> PROVE kept = <<>> /\ End = Len(Header)
<1>1. Len(data) = 0
  OBVIOUS
<1>2. ASSUME kept # <<>> PROVE FALSE
  <2>1. 1 \in DOMAIN kept
    BY <1>2, EmptySeq DEF TypeOK
  <2>2. Kept(1) /\ Begin(1) = 3
    BY <2>1, HeaderIs DEF KeptIsThere, Begin
  <2>3. kept[1].seq \in 1 .. Len(said)
    BY <2>2 DEF Kept, TypeOK
  <2>4. Len(Entry(kept[1].seq)) \in Nat
    BY <2>3, EntryIs
  <2> QED
    BY <1>1, <2>2, <2>4 DEF Kept
<1> QED
  BY <1>2 DEF End

\* A writer at work has the file to itself, and it is there.
LEMMA Alone ==
    ASSUME HistInv, OneWriter, NEW w \in Writers, at[w] \in Owning, exists \/ w # Live
    PROVE  exists /\ \A v \in Writers \ {w} : at[v] \notin Owning
BY OnlyOne DEF OneWriter, Writers

\* A step that adds to kept: an append that is done, in a file no write of which
\* has been cut short.
LEMMA StepRecords ==
    ASSUME HistInv, OneWriter, NothingElse, StoreNext
    PROVE  \/ kept' = kept
           \/ \E w \in Writers :
                /\ exists /\ ~torn /\ next[w] \in 1 .. Len(said) /\ Grown(next[w])
                /\ at[w] \in {"next", "body"} /\ next' = next /\ said' = said
                /\ at' = [at EXCEPT ![w] = "count"]
<1> DEFINE Adds(w) == /\ exists /\ ~torn /\ next[w] \in 1 .. Len(said) /\ Grown(next[w])
                      /\ at[w] \in {"next", "body"} /\ next' = next /\ said' = said
                      /\ at' = [at EXCEPT ![w] = "count"]
<1>0. TypeOK /\ data \in Seq(Nat) /\ Len(data) \in Nat /\ End \in Nat
  BY KeptType DEF HistInv, TypeOK
<1>1. ASSUME NEW w \in Writers, WriteFields(w), kept' # kept PROVE Adds(w)
  <2>1. /\ exists /\ Write(FieldsOf(next[w])) /\ said[next[w]] = <<>>
        /\ at[w] = "next" /\ Goto(w, "count") /\ Keep(next[w]) /\ next' = next /\ said' = said
    BY <1>1 DEF WriteFields, Torn, historyOf
  <2>2. ~torn /\ kept' = Append(kept, [seq |-> next[w], end |-> Len(data')])
    BY <1>1, <2>1 DEF Keep
  <2>3. next[w] \in 1 .. Len(said)
    BY <1>1, InHand
  <2>4. \A v \in Writers : at[v] \notin {"header", "body"}
    BY <2>1, Alone DEF Owning
  <2>5. Len(data) = End
    BY <2>1, <2>2, <2>4 DEF NothingElse
  <2> DEFINE fields == FieldsOf(next[w])
             entry == Entry(next[w])
  <2>6. /\ fields \in Seq(Nat) /\ Len(fields) = 2 /\ Len(entry) = 2
        /\ entry[1] = fields[1] /\ entry[2] = fields[2]
    <3>1. Len(said[next[w]]) = 0
      BY <2>1, EmptySeq
    <3>2. /\ fields \in Seq(Nat) /\ Len(fields) = 2 /\ Len(entry) = 2 + Len(said[next[w]])
          /\ entry[1] = fields[1] /\ entry[2] = fields[2]
      BY <1>0, <2>3, EntryIs
    <3> HIDE DEF fields, entry
    <3> QED
      BY <3>1, <3>2
  <2>7. data' = data \o fields
    BY <2>1 DEF Write
  <2> HIDE DEF fields, entry
  <2>8. /\ Len(data') = Len(data) + Len(fields)
        /\ \A k \in 1 .. Len(fields) : data'[Len(data) + k] = fields[k]
    <3>1. data \in Seq(Nat) /\ fields \in Seq(Nat)
      BY <1>0, <2>6
    <3>2. /\ Len(data \o fields) = Len(data) + Len(fields)
          /\ \A k \in 1 .. Len(fields) : (data \o fields)[Len(data) + k] = fields[k]
      BY <3>1, UnitsJoined
    <3> QED
      BY <2>7, <3>2
  <2>9. Len(data') = End + Len(entry)
    BY <2>5, <2>6, <2>8
  <2>10. \A k \in 1 .. Len(entry) : data'[End + k] = entry[k]
    <3>1. \A k \in 1 .. Len(entry) : k = 1 \/ k = 2
      BY <2>6
    <3>2. data'[End + 1] = fields[1] /\ data'[End + 2] = fields[2]
      BY <2>5, <2>6, <2>8
    <3> QED
      BY <2>6, <3>1, <3>2
  <2> QED
    BY <2>1, <2>2, <2>3, <2>4, <2>9, <2>10 DEF Grown, Goto, entry
<1>2. ASSUME NEW w \in Writers, WriteBody(w), kept' # kept PROVE Adds(w)
  <2>1. /\ Write(said[next[w]]) /\ at[w] = "body" /\ Goto(w, "count")
        /\ Keep(next[w]) /\ next' = next /\ said' = said
    BY <1>2 DEF WriteBody, Torn
  <2>2. ~torn /\ kept' = Append(kept, [seq |-> next[w], end |-> Len(data')])
    BY <1>2, <2>1 DEF Keep
  <2>3. next[w] \in 1 .. Len(said)
    BY <1>2, InHand
  <2>4. exists /\ \A v \in Writers : at[v] # "header"
    BY <2>1, Alone DEF Owning, OneWriter
  <2> DEFINE fields == FieldsOf(next[w])
             entry == Entry(next[w])
             content == said[next[w]]
  <2>5. Len(data) = End + 2 /\ Holds(End, fields)
    BY <2>1, <2>2, <2>4 DEF NothingElse
  <2>6. /\ content \in Seq(Nat) /\ Len(fields) = 2 /\ Len(entry) = 2 + Len(content)
        /\ entry[1] = fields[1] /\ entry[2] = fields[2]
        /\ \A k \in 1 .. Len(content) : entry[2 + k] = content[k]
    BY <1>0, <2>3, EntryIs
  <2>7. data' = data \o content
    BY <2>1 DEF Write
  <2> HIDE DEF fields, entry, content
  <2>8. /\ Len(data') = Len(data) + Len(content)
        /\ \A k \in 1 .. Len(data) : data'[k] = data[k]
        /\ \A k \in 1 .. Len(content) : data'[Len(data) + k] = content[k]
        /\ Len(content) \in Nat
    <3>1. data \in Seq(Nat) /\ content \in Seq(Nat)
      BY <1>0, <2>6
    <3>2. /\ Len(data \o content) = Len(data) + Len(content)
          /\ \A k \in 1 .. Len(data) : (data \o content)[k] = data[k]
          /\ \A k \in 1 .. Len(content) : (data \o content)[Len(data) + k] = content[k]
      BY <3>1, UnitsJoined
    <3>3. Len(content) \in Nat
      BY <3>1
    <3> QED
      BY <2>7, <3>2, <3>3
  <2>9. ASSUME NEW k \in 1 .. Len(entry) PROVE data'[End + k] = entry[k]
    <3>1. CASE k \in 1 .. 2
      <4>1. data[End + k] = fields[k]
        BY <2>5, <2>6, <3>1 DEF Holds
      <4> QED
        BY <1>0, <2>5, <2>6, <2>8, <3>1, <4>1
    <3>2. CASE k - 2 \in 1 .. Len(content)
      <4>1. entry[2 + (k - 2)] = content[k - 2] /\ data'[Len(data) + (k - 2)] = content[k - 2]
        BY <2>6, <2>8, <3>2
      <4>2. 2 + (k - 2) = k /\ Len(data) + (k - 2) = End + k
        BY <1>0, <2>5, <2>6, <2>8
      <4> QED
        BY <4>1, <4>2
    <3> QED
      BY <2>6, <2>8, <3>1, <3>2
  <2>10. Len(data') = End + Len(entry)
    BY <1>0, <2>5, <2>6, <2>8
  <2> QED
    BY <2>1, <2>2, <2>3, <2>4, <2>9, <2>10 DEF Grown, Goto, entry
<1>3. ASSUME NEW w \in Writers, WriterStep(w) \/ Cut(w), ~WriteFields(w), ~WriteBody(w)
      PROVE  kept' = kept
  BY <1>3 DEF WriterStep, Create, WriteHeader, Insert, Count, StartFinish, FinishRead,
              FinishUpdate, Cut, Torn, historyOf
<1>4. ASSUME Speak \/ EndConversation \/ \E c \in Callers : Look(c) \/ Import(c) \/ ReadBack(c)
      PROVE  kept' = kept
  BY <1>4 DEF Speak, EndConversation, Look, Import, ReadBack, historyOf
<1> HIDE DEF Adds
<1>5. kept' = kept \/ \E w \in Writers : Adds(w)
  <2>1. CASE \E w \in Writers : WriterStep(w) \/ Cut(w)
    BY <1>1, <1>2, <1>3, <2>1
  <2>2. CASE Speak \/ EndConversation \/ \E c \in Callers : Look(c) \/ Import(c) \/ ReadBack(c)
    BY <1>4, <2>2
  <2> QED
    BY <2>1, <2>2 DEF StoreNext
<1> QED
  BY <1>5 DEF Adds

LEMMA KeptIsThereStep ==
    ASSUME HistInv, OneWriter, KeptIsThere, NothingElse, StoreNext
    PROVE  KeptIsThere'
<1>0. TypeOK /\ HistInv' /\ TypeOK'
  BY StepOK DEF HistInv
<1>1. /\ Len(data) \in Nat /\ Len(data') \in Nat /\ Len(data) <= Len(data')
      /\ \A i \in 1 .. Len(data) : data'[i] = data[i]
  BY StepKeeps
<1>2. DOMAIN kept = 1 .. Len(kept) /\ Len(kept) \in Nat /\ End \in Nat /\ (Len(kept) = 0 => End = 3)
  BY <1>0, KeptType, HeaderIs
<1>3. CASE kept' = kept
  <2>1. \A i \in DOMAIN kept' : Kept(i)'
    BY <1>3, KeptStays DEF KeptIsThere
  <2>2. ASSUME kept' # <<>> PROVE Holds(0, Header)'
    <3>0. 1 \in DOMAIN kept
      BY <1>0, <1>3, <2>2, EmptySeq DEF TypeOK
    <3>1. Kept(1) /\ Holds(0, Header)
      BY <1>3, <2>2, <3>0 DEF KeptIsThere
    <3>2. kept[1].seq \in 1 .. Len(said)
      BY <1>0, <3>1 DEF Kept, TypeOK
    <3>3. kept[1].end >= 3 /\ 3 <= Len(data)
      <4>1. Len(Entry(kept[1].seq)) \in Nat /\ Begin(1) = 3
        BY <1>0, <3>2, EntryIs, HeaderIs DEF Begin
      <4>2. kept[1].end = Begin(1) + Len(Entry(kept[1].seq)) /\ kept[1].end <= Len(data)
        BY <3>1 DEF Kept
      <4> QED
        BY <1>1, <4>1, <4>2
    <3>4. Header' = Header
      BY DEF Header, FileMagic
    <3> QED
      BY <1>1, <3>1, <3>3, <3>4, HeaderIs DEF Holds
  <2> QED
    BY <2>1, <2>2 DEF KeptIsThere
<1>4. ASSUME NEW w \in Writers, next[w] \in 1 .. Len(said), Grown(next[w]), ~torn, exists,
             at[w] \in {"next", "body"}, said' = said, kept' # kept
      PROVE  KeptIsThere'
  <2> DEFINE n == next[w]
             last == Len(kept) + 1
  <2>1. /\ kept' # <<>> /\ DOMAIN kept' = 1 .. last
        /\ \A i \in DOMAIN kept : i \in DOMAIN kept' /\ kept'[i] = kept[i]
        /\ kept'[last] = [seq |-> n, end |-> Len(data')]
        /\ \A i : i = last => Begin(i)' = End
    BY <1>0, <1>4, GrownIs
  <2>2. ASSUME NEW i \in DOMAIN kept PROVE Kept(i)'
    <3>1. i \in 1 .. Len(kept) /\ (i = 1 \/ i - 1 \in 1 .. Len(kept))
      BY <1>2
    <3>2. i \in DOMAIN kept' /\ kept'[i] = kept[i] /\ (i = 1 \/ kept'[i - 1] = kept[i - 1])
      BY <1>2, <2>1, <3>1
    <3> QED
      BY <2>2, <3>2, KeptStays DEF KeptIsThere
  <2>3. ASSUME NEW i, i = last PROVE Kept(i)'
    <3>1. kept'[i].seq = n /\ kept'[i].end = Len(data') /\ Begin(i)' = End
      BY <2>1, <2>3
    <3>2. n \in DOMAIN said'
      BY <1>0, <1>4 DEF TypeOK
    <3>3. \A m : Entry(m)' = Entry(m)
      BY <1>4 DEF Entry, FieldsOf
    <3>4. /\ Len(data') = End + Len(Entry(n))
          /\ \A k \in 1 .. Len(Entry(n)) : data'[End + k] = Entry(n)[k]
      BY <1>4 DEF Grown
    <3>5. Holds(Begin(i), Entry(kept[i].seq))' <=>
            \A k \in 1 .. Len(Entry(n)) : data'[End + k] = Entry(n)[k]
      BY <3>1, <3>3 DEF Holds
    <3> QED
      BY <1>1, <3>1, <3>2, <3>3, <3>4, <3>5 DEF Kept
  <2>4. Holds(0, Header)'
    <3>1. exists /\ \A v \in Writers : at[v] # "header"
      BY <1>4, Alone DEF Owning
    <3>2. Len(data) >= 3 /\ Holds(0, Header)
      BY <1>4, <3>1, HeaderIs DEF NothingElse
    <3>3. Header' = Header
      BY DEF Header, FileMagic
    <3> QED
      BY <1>1, <3>2, <3>3, HeaderIs DEF Holds
  <2>5. \A i \in DOMAIN kept' : i \in DOMAIN kept \/ i = last
    BY <1>2, <2>1
  <2> QED
    BY <2>2, <2>3, <2>4, <2>5 DEF KeptIsThere
<1> QED
  BY <1>3, <1>4, StepRecords

\* The order of what is kept, when nothing is added: nobody has come to write at an
\* earlier place.
LEMMA OrderStays ==
    ASSUME HistInv, KeptInOrder, kept' = kept,
           \/ kept = <<>>
           \/ \A w \in Writers : at'[w] \in Owning =>
                /\ at[w] \in Owning
                /\ \/ next'[w] = next[w] /\ (at[w] = "count" => at'[w] = "count")
                   \/ next'[w] = next[w] + 1
    PROVE  KeptInOrder'
<1>1. \A i \in DOMAIN kept : kept[i].seq \in Nat
  BY KeptType DEF HistInv
<1>2. \A w \in Writers : next[w] \in Nat
  BY HistoryAssumption DEF HistInv, TypeOK
<1>3. CASE kept = <<>>
  <2>1. DOMAIN kept = {}
    BY <1>3
  <2> QED
    BY <2>1 DEF KeptInOrder
<1>4. CASE kept # <<>>
  <2>1. ASSUME NEW w \in Writers, NEW i \in DOMAIN kept, at'[w] \in Owning
        PROVE  kept[i].seq < next'[w] \/ (kept[i].seq = next'[w] /\ at'[w] = "count")
    <3>1. kept[i].seq < next[w] \/ (kept[i].seq = next[w] /\ at[w] = "count")
      BY <1>4, <2>1 DEF KeptInOrder
    <3> QED
      BY <1>1, <1>2, <1>4, <2>1, <3>1
  <2> QED
    BY <2>1 DEF KeptInOrder
<1> QED
  BY <1>3, <1>4

LEMMA KeptInOrderStep ==
    ASSUME ~Overlap, HistInv, OneWriter, KeptIsThere, KeptInOrder, NothingElse, StoreNext
    PROVE  KeptInOrder'
<1>0. TypeOK
  BY DEF HistInv
<1>1. ASSUME kept' = kept PROVE KeptInOrder'
  <2>1. CASE Speak \/ EndConversation
    BY <1>1, <2>1, OrderStays DEF Speak, EndConversation
  <2>2. ASSUME NEW w \in Writers, Create(w) PROVE KeptInOrder'
    <3>1. CASE ~exists
      BY <1>0, <1>1, <3>1, OrderStays, FileIsEmpty DEF OneWriter, Writers
    <3>2. CASE exists
      <4>1. w # Live
        BY <2>2, <3>2 DEF Create, OneWriter
      <4>2. at' = [at EXCEPT ![w] = "over"] /\ next' = next
        BY <2>2, <3>2, <4>1 DEF Create, Failed, Goto, AfterError
      <4> QED
        BY <1>0, <1>1, <4>2, OrderStays DEF Owning, TypeOK
    <3> QED
      BY <3>1, <3>2
  <2>3. ASSUME NEW w \in Writers,
               WriteHeader(w) \/ Insert(w) \/ StartFinish(w) \/ FinishRead(w) \/ FinishUpdate(w)
        PROVE  KeptInOrder'
    <3>1. /\ next' = next /\ at[w] \in Owning \ {"count"}
          /\ \E place \in Places : at' = [at EXCEPT ![w] = place]
      BY <2>3 DEF WriteHeader, Insert, StartFinish, FinishRead, FinishUpdate, Failed, Goto,
                  AfterError, Owning, Places
    <3> QED
      BY <1>0, <1>1, <3>1, OrderStays DEF TypeOK
  <2>4. ASSUME NEW w \in Writers, WriteFields(w) \/ WriteBody(w) \/ Count(w)
        PROVE  KeptInOrder'
    <3>1. at[w] \in Owning /\ \E place \in Places : at' = [at EXCEPT ![w] = place]
      BY <2>4 DEF WriteFields, WriteBody, Count, Advance, Goto, AfterError, Owning, Places
    <3>2. \/ next' = next /\ at[w] # "count"
          \/ next' = [next EXCEPT ![w] = next[w] + 1]
      BY <2>4 DEF WriteFields, WriteBody, Count, Advance
    <3> QED
      BY <1>0, <1>1, <3>1, <3>2, OrderStays DEF TypeOK
  <2>5. ASSUME NEW w \in Writers, Cut(w) PROVE KeptInOrder'
    BY <1>0, <1>1, <2>5, OrderStays DEF Cut, Goto, TypeOK, Owning
  <2>6. ASSUME NEW c \in Callers, Look(c) \/ Import(c) \/ ReadBack(c) PROVE KeptInOrder'
    <3>1. /\ next' = next /\ c \in Writers
          /\ \E place \in {"read", "fetched", "begin", "over"} : at' = [at EXCEPT ![c] = place]
      BY <2>6 DEF Look, Import, ReadBack, Goto, Writers
    <3> QED
      BY <1>0, <1>1, <3>1, OrderStays DEF TypeOK, Owning
  <2> QED
    BY <2>1, <2>2, <2>3, <2>4, <2>5, <2>6 DEF StoreNext, WriterStep
<1>2. ASSUME NEW w \in Writers, next[w] \in 1 .. Len(said), Grown(next[w]), next' = next,
             at[w] \in {"next", "body"}, at' = [at EXCEPT ![w] = "count"], exists
      PROVE  KeptInOrder'
  <2> DEFINE last == Len(kept) + 1
  <2>1. /\ DOMAIN kept' = 1 .. last /\ DOMAIN kept = 1 .. Len(kept) /\ Len(kept) \in Nat
        /\ \A i \in DOMAIN kept : kept'[i] = kept[i]
        /\ kept'[last].seq = next[w]
    <3>1. DOMAIN kept = 1 .. Len(kept) /\ Len(kept) \in Nat
      BY <1>0, KeptType
    <3>2. /\ DOMAIN kept' = 1 .. last /\ \A i \in DOMAIN kept : kept'[i] = kept[i]
          /\ kept'[last] = [seq |-> next[w], end |-> Len(data')]
      BY <1>0, <1>2, GrownIs
    <3> QED
      BY <3>1, <3>2
  <2>2. \A i \in DOMAIN kept : kept[i].seq < next[w]
    BY <1>2 DEF KeptInOrder, Owning
  <2>3. \A v \in Writers : at'[v] \in Owning => v = w
    BY <1>0, <1>2, Alone DEF TypeOK, Owning
  <2>4. at'[w] = "count" /\ next'[w] = next[w]
    BY <1>0, <1>2 DEF TypeOK
  <2>5. \A i \in DOMAIN kept' : i \in DOMAIN kept \/ i = last
    BY <2>1
  <2>6. ASSUME NEW i \in DOMAIN kept', NEW j \in DOMAIN kept', i < j
        PROVE  kept'[i].seq < kept'[j].seq
    <3>1. i \in DOMAIN kept
      BY <2>1, <2>6
    <3> QED
      BY <2>1, <2>2, <2>5, <2>6, <3>1 DEF KeptInOrder
  <2>7. ASSUME NEW v \in Writers, NEW i \in DOMAIN kept', at'[v] \in Owning
        PROVE  kept'[i].seq < next'[v] \/ (kept'[i].seq = next'[v] /\ at'[v] = "count")
    BY <2>1, <2>2, <2>3, <2>4, <2>5, <2>7
  <2> QED
    BY <2>6, <2>7 DEF KeptInOrder
<1> QED
  BY <1>1, <1>2, StepRecords

\* Nothing else comes into a file that a step leaves alone.
LEMMA NothingElseStays ==
    ASSUME HistInv, NothingElse, data' = data, kept' = kept, exists' => exists,
           \A n \in 1 .. Len(said) : said'[n] = said[n],
           ~torn' => ~torn,
           \A w \in Writers : ~torn' /\ at[w] = "header" => at'[w] = "header",
           \A w \in Writers : ~torn' =>
               /\ at'[w] = "body" <=> at[w] = "body"
               /\ at[w] = "body" => next'[w] = next[w]
    PROVE  NothingElse'
<1> SUFFICES ASSUME ~torn', exists', \A w \in Writers : at'[w] # "header"
             PROVE  /\ Len(data) >= Len(Header) /\ Holds(0, Header)'
                    /\ (\A w \in Writers : at'[w] # "body") => Len(data) = End'
                    /\ \A w \in Writers : at'[w] = "body" =>
                         /\ said'[next'[w]] # <<>>
                         /\ Len(data) = End' + 2 /\ Holds(End, FieldsOf(next[w]))'
  BY DEF NothingElse, Header, FileMagic
<1>1. ~torn /\ exists /\ \A w \in Writers : at[w] # "header"
  OBVIOUS
<1>2. /\ Len(data) >= Len(Header) /\ Holds(0, Header)
      /\ (\A w \in Writers : at[w] # "body") => Len(data) = End
      /\ \A w \in Writers : at[w] = "body" =>
           /\ said[next[w]] # <<>>
           /\ Len(data) = End + 2 /\ Holds(End, FieldsOf(next[w]))
  BY <1>1 DEF NothingElse
<1>3. End' = End /\ Header' = Header /\ Holds(0, Header)'
  BY <1>2 DEF End, Header, FileMagic, Holds
<1>4. ASSUME NEW w \in Writers, at'[w] = "body"
      PROVE  /\ said'[next'[w]] # <<>>
             /\ Len(data) = End' + 2 /\ Holds(End, FieldsOf(next[w]))'
  <2>1. at[w] = "body" /\ next'[w] = next[w]
    BY <1>4
  <2>2. said'[next[w]] = said[next[w]]
    BY <2>1 DEF HistInv, Appending
  <2>3. FieldsOf(next[w])' = FieldsOf(next[w])
    BY <2>1, <2>2 DEF FieldsOf
  <2> QED
    BY <1>2, <1>3, <2>1, <2>2, <2>3 DEF Holds
<1> QED
  BY <1>2, <1>3, <1>4

LEMMA NothingElseStep ==
    ASSUME ~Overlap, HistInv, OneWriter, KeptIsThere, NothingElse, StoreNext
    PROVE  NothingElse'
<1>0. TypeOK /\ data \in Seq(Nat) /\ Len(data) \in Nat /\ End \in Nat
      /\ at \in [Writers -> Places] /\ \A n \in 1 .. Len(said) : said'[n] = said[n]
  BY KeptType, StepKeeps DEF HistInv, TypeOK
<1>1. CASE Speak \/ EndConversation
  BY <1>0, <1>1, NothingElseStays DEF Speak, EndConversation, fileVars, historyOf
<1>2. ASSUME NEW w \in Writers, Create(w) PROVE NothingElse'
  <2>1. CASE at' = [at EXCEPT ![w] = "header"]
    BY <1>0, <2>1 DEF NothingElse
  <2>2. CASE Failed(w) /\ UNCHANGED exists
    BY <1>0, <1>2, <2>2, NothingElseStays DEF Create, Failed, Goto, AfterError, historyOf
  <2> QED
    BY <1>2, <2>1, <2>2 DEF Create, Goto
<1>3. ASSUME NEW w \in Writers, WriteHeader(w) PROVE NothingElse'
  <2>1. CASE Torn
    BY <2>1 DEF Torn, NothingElse
  <2>2. CASE Overwrite(Len(Header)) /\ UNCHANGED historyOf
    <3>1. at[w] = "header" /\ at[w] \in Owning /\ exists /\ data = <<>>
      <4>1. at[w] = "header"
        BY <1>3 DEF WriteHeader
      <4>2. data = <<>>
        BY <4>1 DEF OneWriter
      <4>3. exists
        BY <4>1 DEF OneWriter, Writers, Owning
      <4> QED
        BY <4>1, <4>2, <4>3 DEF Owning
    <3>2. data' = SubSeq(Header, 1, Len(Header))
      BY <1>0, <2>2, <3>1, Overwritten, HeaderIs
    <3>3. Len(data') = 3 /\ \A k \in 1 .. 3 : data'[k] = Header[k]
      BY <3>2, HeaderIs, Prefix
    <3>4. End' = 3 /\ Header' = Header
      BY <1>0, <2>2, <3>1, FileIsEmpty, HeaderIs DEF historyOf, End, Header, FileMagic
    <3>5. \A v \in Writers : at'[v] # "body"
      BY <1>0, <1>3, <3>1, Alone DEF WriteHeader, Goto, Failed, AfterError, Owning
    <3>6. Holds(0, Header)'
      BY <3>3, <3>4, HeaderIs DEF Holds
    <3> QED
      BY <3>3, <3>4, <3>5, <3>6, HeaderIs DEF NothingElse
  <2> QED
    BY <1>3, <2>1, <2>2 DEF WriteHeader
<1>4. ASSUME NEW w \in Writers, WriteFields(w) PROVE NothingElse'
  <2>1. at[w] = "next" /\ at[w] \in Owning /\ next[w] \in 1 .. Len(said)
        /\ said' = said /\ exists' = exists
    BY <1>4, InHand DEF WriteFields, Owning
  <2>2. CASE Torn
    BY <2>2 DEF Torn, NothingElse
  <2>3. CASE Advance(w, AfterError(w)) /\ UNCHANGED <<data, historyOf>>
    BY <1>0, <1>4, <2>1, <2>3, NothingElseStays DEF Advance, Goto, AfterError, historyOf
  <2>4. CASE exists /\ Write(FieldsOf(next[w])) /\ next' = next /\ ~torn
    <3>1. \A v \in Writers : at[v] \notin {"header", "body"}
      BY <2>1, <2>4, Alone DEF Owning
    <3>2. Len(data) = End /\ Holds(0, Header) /\ Len(data) >= 3
      BY <2>4, <3>1, HeaderIs DEF NothingElse
    <3> DEFINE fields == FieldsOf(next[w])
    <3>3. fields \in Seq(Nat) /\ Len(fields) = 2 /\ data' = data \o fields
      BY <1>0, <2>1, <2>4, EntryIs DEF Write
    <3>4. fields' = fields
      BY <2>1, <2>4 DEF FieldsOf
    <3>5. /\ Len(data') = Len(data) + 2 /\ \A k \in 1 .. Len(data) : data'[k] = data[k]
          /\ \A k \in 1 .. 2 : data'[Len(data) + k] = fields[k]
      <4> HIDE DEF fields
      <4>1. data \in Seq(Nat) /\ fields \in Seq(Nat)
        BY <1>0, <3>3
      <4>2. /\ Len(data \o fields) = Len(data) + Len(fields)
            /\ \A k \in 1 .. Len(data) : (data \o fields)[k] = data[k]
            /\ \A k \in 1 .. Len(fields) : (data \o fields)[Len(data) + k] = fields[k]
        BY <4>1, UnitsJoined
      <4> QED
        BY <3>3, <4>2
    <3>6. Header' = Header /\ Holds(0, Header)'
      BY <3>2, <3>5, HeaderIs DEF Holds, Header, FileMagic
    <3>7. CASE Goto(w, "body") /\ UNCHANGED historyOf /\ said[next[w]] # <<>>
      <4>1. End' = End
        BY <3>7 DEF End, historyOf, Header, FileMagic
      <4>2. \A v \in Writers : at'[v] = "body" <=> v = w
        BY <1>0, <3>1, <3>7 DEF Goto
      <4>3. Holds(End, FieldsOf(next[w]))'
        <5>1. FieldsOf(next[w])' = fields /\ Len(fields) = 2
          BY <3>3, <3>4
        <5> HIDE DEF fields
        <5> QED
          BY <3>2, <3>5, <4>1, <5>1 DEF Holds
      <4>4. Len(data') = End' + 2 /\ Len(data') >= Len(Header')
        BY <1>0, <3>2, <3>5, <3>6, <4>1, HeaderIs
      <4>5. said'[next'[w]] # <<>>
        BY <2>1, <2>4, <3>7
      <4> HIDE DEF fields
      <4> QED
        BY <2>1, <3>6, <4>2, <4>3, <4>4, <4>5 DEF NothingElse
    <3>8. CASE Goto(w, "count") /\ Keep(next[w]) /\ said[next[w]] = <<>>
      <4>1. Len(said[next[w]]) = 0
        BY <3>8, EmptySeq
      <4>2. kept' # kept
        <5>1. kept' = Append(kept, [seq |-> next[w], end |-> Len(data')])
          BY <2>4, <3>8 DEF Keep
        <5>2. Len(kept') = Len(kept) + 1 /\ Len(kept) \in Nat
          BY <5>1 DEF HistInv, TypeOK
        <5> QED
          BY <5>2
      <4>3. End' = Len(data')
        BY <1>0, <4>2, StepRecords, GrownIs
      <4>4. \A v \in Writers : at'[v] # "body"
        BY <1>0, <3>1, <3>8 DEF Goto
      <4>5. Len(data') >= Len(Header')
        BY <1>0, <3>2, <3>5, <3>6, HeaderIs
      <4> QED
        BY <3>6, <4>3, <4>4, <4>5 DEF NothingElse
    <3> QED
      BY <1>4, <2>4, <3>7, <3>8, <2>2, <2>3 DEF WriteFields
  <2>5. CASE torn
    <3>1. torn'
      BY <1>4, <2>5 DEF WriteFields, Keep, Torn, historyOf
    <3> QED
      BY <3>1 DEF NothingElse
  <2> QED
    BY <1>4, <2>2, <2>3, <2>4, <2>5 DEF WriteFields
<1>5. ASSUME NEW w \in Writers, WriteBody(w) PROVE NothingElse'
  <2>1. at[w] = "body" /\ at[w] \in Owning /\ exists
    BY <1>5 DEF WriteBody, Owning, OneWriter, Writers
  <2>2. CASE Torn
    BY <2>2 DEF Torn, NothingElse
  <2>3. CASE Goto(w, "count") /\ Keep(next[w]) /\ ~torn
    <3>1. \A v \in Writers \ {w} : at[v] \notin {"header", "body"}
      BY <2>1, Alone DEF Owning
    <3>2. Holds(0, Header) /\ Len(data) >= 3
      BY <2>1, <2>3, <3>1, HeaderIs DEF NothingElse
    <3>3. /\ Len(data') \in Nat /\ Len(data') >= Len(data)
          /\ \A k \in 1 .. Len(data) : data'[k] = data[k]
      BY StepKeeps
    <3>4. Header' = Header /\ Holds(0, Header)' /\ Len(data') >= Len(Header')
      BY <1>0, <3>2, <3>3, HeaderIs DEF Holds, Header, FileMagic
    <3>5. kept' # kept
      <4>1. kept' = Append(kept, [seq |-> next[w], end |-> Len(data')])
        BY <2>3 DEF Keep
      <4>2. Len(kept') = Len(kept) + 1 /\ Len(kept) \in Nat
        BY <4>1 DEF HistInv, TypeOK
      <4> QED
        BY <4>2
    <3>6. End' = Len(data')
      BY <1>0, <3>5, StepRecords, GrownIs
    <3>7. \A v \in Writers : at'[v] # "body"
      BY <1>0, <2>3, <3>1 DEF Goto
    <3> QED
      BY <3>4, <3>6, <3>7 DEF NothingElse
  <2>4. CASE Keep(next[w]) /\ torn
    BY <2>4 DEF Keep, NothingElse
  <2> QED
    BY <1>5, <2>2, <2>3, <2>4 DEF WriteBody
<1>6. ASSUME NEW w \in Writers,
             Insert(w) \/ Count(w) \/ StartFinish(w) \/ FinishRead(w) \/ FinishUpdate(w)
      PROVE  NothingElse'
  <2>1. /\ data' = data /\ kept' = kept /\ torn' = torn /\ exists' = exists
        /\ at[w] \notin {"header", "body"}
        /\ \E place \in Places \ {"header", "body"} : at' = [at EXCEPT ![w] = place]
        /\ \A v \in Writers \ {w} : next'[v] = next[v]
    BY <1>6 DEF Insert, Count, StartFinish, FinishRead, FinishUpdate, Failed, Goto, Advance,
                AfterError, fileVars, historyOf, Places, HistInv, TypeOK
  <2> QED
    BY <1>0, <2>1, NothingElseStays
<1>7. ASSUME NEW w \in Writers, Cut(w) PROVE NothingElse'
  <2>1. CASE at[w] \in {"header", "body"}
    BY <1>7, <2>1 DEF Cut, Torn, NothingElse
  <2>2. CASE at[w] \notin {"header", "body"}
    BY <1>0, <1>7, <2>2, NothingElseStays DEF Cut, Goto, fileVars, historyOf
  <2> QED
    BY <2>1, <2>2
<1>8. ASSUME NEW c \in Callers, Look(c) \/ Import(c) \/ ReadBack(c) PROVE NothingElse'
  <2>1. /\ data' = data /\ kept' = kept /\ torn' = torn /\ exists' = exists /\ next' = next
        /\ c \in Writers /\ at[c] \in {"idle", "fetched", "read"}
        /\ \E place \in {"read", "fetched", "begin", "over"} : at' = [at EXCEPT ![c] = place]
    BY <1>8 DEF Look, Import, ReadBack, Goto, fileVars, historyOf, Writers
  <2> QED
    BY <1>0, <2>1, NothingElseStays
<1> QED
  BY <1>1, <1>2, <1>3, <1>4, <1>5, <1>6, <1>7, <1>8 DEF StoreNext, WriterStep

LEMMA SameFile ==
    ASSUME data' = data PROVE Readable' = Readable /\ Transcript' = Transcript
  BY DEF Readable, HeaderOK, Offset, Past, Ends, Transcript, FileMagic

\* Nothing has been finished when somebody changes the file: nobody else owns it.
LEMMA FileChanges ==
    ASSUME OneWriter, FinishedIsFinal, NEW v \in Writers,
           ~exists \/ at[v] \in Owning \ {"update"},
           row' = row, whole' = whole,
           \A w \in Writers : at'[w] = "update" => at[w] = "update"
    PROVE  FinishedIsFinal'
<1>1. CASE ~exists
  <2>1. data = <<>>
    BY <1>1 DEF OneWriter
  <2>2. ~Readable
    BY <2>1 DEF Readable, HeaderOK
  <2> QED
    BY <2>2 DEF FinishedIsFinal
<1>2. CASE at[v] \in Owning \ {"update"}
  <2>1. \A w \in Writers : at[w] # "update"
    BY <1>2, OnlyOne DEF Owning
  <2>2. row.sync # "complete"
    BY <1>2 DEF FinishedIsFinal
  <2> QED
    BY <2>1, <2>2 DEF FinishedIsFinal
<1> QED
  BY <1>1, <1>2

\* Nothing that has been finished is lost by what leaves file and row alone and
\* gives the file to nobody.
LEMMA FileStays ==
    ASSUME FinishedIsFinal, data' = data, row' = row,
           \A w \in Writers :
             /\ at'[w] \in Owning => at[w] \in Owning
             /\ at'[w] = "update" =>
                  at[w] = "update" /\ whole'[w] = whole[w] /\ final'[w] = final[w]
    PROVE  FinishedIsFinal'
<1>1. Readable' = Readable /\ Transcript' = Transcript
  BY SameFile
<1> QED
  BY <1>1 DEF FinishedIsFinal, IsComplete

LEMMA FinishedStep ==
    ASSUME ~Overlap, HistInv, OneWriter, FinishedIsFinal, StoreNext
    PROVE  FinishedIsFinal'
<1> USE DEF HistInv, TypeOK, Goto, Failed, fileVars, historyOf
<1>1. CASE Speak \/ EndConversation
  BY <1>1, FileStays DEF Speak, EndConversation
<1>2. ASSUME NEW w \in Writers, Create(w) PROVE FinishedIsFinal'
  <2>1. CASE ~exists
    <3>1. \A v \in Writers : at'[v] = "update" => at[v] = "update"
      BY <1>2 DEF Create, AfterError
    <3> QED
      BY <1>2, <2>1, <3>1, FileChanges DEF Create
  <2>2. CASE exists
    <3>1. w # Live /\ at' = [at EXCEPT ![w] = "over"]
      BY <1>2, <2>2 DEF Create, OneWriter, AfterError
    <3> QED
      BY <1>2, <2>2, <3>1, FileStays DEF Create, Owning
  <2> QED
    BY <2>1, <2>2
<1>3. ASSUME NEW w \in Writers, WriteHeader(w) \/ WriteFields(w) \/ WriteBody(w)
      PROVE  FinishedIsFinal'
  <2>1. at[w] \in Owning \ {"update"} /\ row' = row /\ whole' = whole
    BY <1>3 DEF WriteHeader, WriteFields, WriteBody, Owning
  <2>2. \A v \in Writers : at'[v] = "update" => at[v] = "update"
    BY <1>3 DEF WriteHeader, WriteFields, WriteBody, Advance, AfterError
  <2> QED
    BY <2>1, <2>2, FileChanges
<1>4. ASSUME NEW w \in Writers, Insert(w) PROVE FinishedIsFinal'
  <2>1. at[w] \in Owning /\ at[w] # "update"
    BY <1>4 DEF Insert, Owning
  <2>2. row.sync # "complete" /\ row'.sync # "complete"
    BY <1>4, <2>1 DEF FinishedIsFinal, Insert, Row
  <2>3. \A v \in Writers : at[v] # "update" /\ at'[v] # "update"
    BY <1>4, <2>1, OnlyOne DEF Insert, AfterError, Owning
  <2> QED
    BY <2>2, <2>3 DEF FinishedIsFinal
<1>5. ASSUME NEW w \in Writers, Count(w) \/ StartFinish(w) \/ Cut(w)
      PROVE  FinishedIsFinal'
  <2>1. data' = data /\ row' = row /\ whole' = whole
    BY <1>5 DEF Count, StartFinish, Cut
  <2>2. \A v \in Writers :
          /\ at'[v] \in Owning => at[v] \in Owning
          /\ at'[v] = "update" => at[v] = "update" /\ final'[v] = final[v]
    BY <1>5 DEF Count, StartFinish, Cut, Advance, AfterError, Owning
  <2> QED
    BY <2>1, <2>2, FileStays
<1>6. ASSUME NEW w \in Writers, FinishRead(w) PROVE FinishedIsFinal'
  <2>1. at[w] = "finish" /\ at[w] \in Owning /\ data' = data
    BY <1>6 DEF FinishRead, Owning
  <2>2. row.sync # "complete" /\ row' = row
    BY <1>6, <2>1 DEF FinishedIsFinal, FinishRead
  <2>3. ASSUME NEW v \in Writers, at'[v] = "update", whole'[v]
        PROVE  Readable /\ IsComplete(final[v])
    <3>1. v = w
      BY <1>6, <2>1, <2>3, OnlyOne DEF FinishRead, Owning
    <3>2. Readable /\ whole'[w] = IsComplete(final[w])
      BY <1>6, <2>3, <3>1 DEF FinishRead
    <3> QED
      BY <2>3, <3>1, <3>2
  <2>4. final' = final
    BY <1>6 DEF FinishRead
  <2>5. \A v \in Writers : at'[v] = "update" /\ whole'[v] =>
          Readable' /\ IsComplete(final[v])'
    BY <2>1, <2>3, <2>4, SameFile DEF IsComplete
  <2> QED
    BY <2>2, <2>5 DEF FinishedIsFinal
<1>7. ASSUME NEW w \in Writers, FinishUpdate(w) PROVE FinishedIsFinal'
  <2>1. at[w] = "update" /\ at[w] \in Owning /\ data' = data
    BY <1>7 DEF FinishUpdate, Owning
  <2>2. row.sync # "complete" /\ \A v \in Writers : at'[v] \notin Owning
    BY <1>7, <2>1, OnlyOne DEF FinishedIsFinal, FinishUpdate, Owning
  <2>3. row'.sync = "complete" => whole[w] /\ row'.final = final[w]
    BY <1>7, <2>2 DEF FinishUpdate, Row
  <2>4. row'.sync = "complete" => Readable /\ IsComplete(final[w])
    BY <2>1, <2>3 DEF FinishedIsFinal
  <2>5. row'.sync = "complete" => Readable' /\ IsComplete(row.final)'
    BY <2>1, <2>3, <2>4, SameFile DEF IsComplete
  <2> QED
    BY <2>2, <2>5 DEF FinishedIsFinal, Owning
<1>8. ASSUME NEW c \in Callers, Look(c) \/ Import(c) \/ ReadBack(c)
      PROVE  FinishedIsFinal'
  <2>1. data' = data /\ row' = row /\ whole' = whole
    BY <1>8 DEF Look, Import, ReadBack
  <2>2. \A v \in Writers :
          /\ at'[v] \in Owning => at[v] \in Owning
          /\ at'[v] = "update" => at[v] = "update" /\ final'[v] = final[v]
    BY <1>8 DEF Look, Import, ReadBack, Owning, Writers
  <2> QED
    BY <2>1, <2>2, FileStays
<1> QED
  BY <1>1, <1>2, <1>3, <1>4, <1>5, <1>6, <1>7, <1>8 DEF StoreNext, WriterStep

\* The payload of a record, from where it begins to where it ends.
Payload(o, end) == SubSeq(data, o + 3, end)

\* A record of kept, unit by unit.
LEMMA KeptIs ==
    ASSUME HistInv, KeptIsThere, NEW i \in 1 .. Len(kept), NEW n, n = kept[i].seq,
           NEW o, o = Begin(i)
    PROVE  /\ n \in 1 .. Len(said) /\ said[n] \in Seq(Nat) /\ Len(said[n]) \in Nat /\ o \in Nat
           /\ kept[i].end = o + 2 + Len(said[n]) /\ o + 2 + Len(said[n]) <= Len(data)
           /\ data[o + 1] = n /\ data[o + 2] = Len(said[n])
           /\ Payload(o, kept[i].end) = said[n]
<1>0. TypeOK /\ i \in DOMAIN kept /\ Kept(i)
  BY KeptType DEF HistInv, KeptIsThere
<1>1. o \in Nat /\ n \in 1 .. Len(said)
  BY <1>0, KeptType DEF Kept, TypeOK
<1>2. /\ kept[i].end = o + Len(Entry(n)) /\ kept[i].end <= Len(data)
      /\ \A k \in 1 .. Len(Entry(n)) : data[o + k] = Entry(n)[k]
  BY <1>0 DEF Kept, Holds
<1>3. /\ said[n] \in Seq(Nat) /\ Len(Entry(n)) = 2 + Len(said[n])
      /\ Entry(n)[1] = n /\ Entry(n)[2] = Len(said[n])
      /\ \A k \in 1 .. Len(said[n]) : Entry(n)[2 + k] = said[n][k]
  <2>1. /\ said[n] \in Seq(Nat) /\ Len(Entry(n)) = 2 + Len(said[n])
        /\ FieldsOf(n)[1] = n /\ FieldsOf(n)[2] = Len(said[n])
        /\ Entry(n)[1] = FieldsOf(n)[1] /\ Entry(n)[2] = FieldsOf(n)[2]
        /\ \A k \in 1 .. Len(said[n]) : Entry(n)[2 + k] = said[n][k]
    BY <1>0, <1>1, EntryIs
  <2> QED
    BY <2>1
<1> DEFINE entry == Entry(n)
           content == said[n]
<1>4. Len(content) \in Nat
  BY <1>3
<1> HIDE DEF entry, content
<1>9. Len(entry) = 2 + Len(content)
  BY <1>3 DEF entry, content
<1>5. 1 \in 1 .. Len(entry) /\ 2 \in 1 .. Len(entry)
  BY <1>4, <1>9
<1>6. data[o + 1] = n /\ data[o + 2] = Len(content)
  BY <1>2, <1>3, <1>5 DEF entry, content
<1>7. ASSUME NEW k \in 1 .. Len(content) PROVE data[o + 2 + k] = content[k]
  <2>1. 2 + k \in 1 .. Len(entry) /\ o + (2 + k) = o + 2 + k
    BY <1>1, <1>4, <1>9
  <2>2. data[o + (2 + k)] = entry[2 + k]
    BY <1>2, <2>1 DEF entry
  <2> QED
    BY <1>3, <2>1, <2>2 DEF entry, content
<1>8. kept[i].end = o + 2 + Len(content) /\ o + 2 + Len(content) <= Len(data)
  <2>1. Len(entry) = 2 + Len(content) /\ kept[i].end = o + Len(entry)
    BY <1>2, <1>3 DEF entry, content
  <2>2. kept[i].end = o + 2 + Len(content)
    BY <1>1, <1>4, <2>1
  <2> QED
    BY <1>2, <2>2
<1>10. SubSeq(data, o + 3, o + 2 + Len(content)) = content
  <2> DEFINE first == o + 3
             last == o + 2 + Len(content)
             part == SubSeq(data, first, last)
  <2>1. /\ first \in Nat /\ last \in Nat /\ 1 <= first /\ last <= Len(data)
        /\ first <= last + 1 /\ last + 1 - first = Len(content)
        /\ \A k \in 1 .. Len(content) : first + k - 1 = o + 2 + k
    <3>1. first \in Nat /\ last \in Nat /\ 1 <= first /\ last <= Len(data)
      BY <1>1, <1>4, <1>8
    <3>2. first <= last + 1 /\ last + 1 - first = Len(content)
      BY <1>1, <1>4
    <3>3. \A k \in 1 .. Len(content) : first + k - 1 = o + 2 + k
      BY <1>1, <1>4
    <3> QED
      BY <3>1, <3>2, <3>3
  <2> HIDE DEF first, last
  <2>2. /\ part \in Seq(Nat) /\ Len(part) = last + 1 - first
        /\ \A k \in 1 .. last + 1 - first : part[k] = data[first + k - 1]
    BY <1>0, <2>1 DEF TypeOK
  <2> HIDE DEF part
  <2>3. \A k \in 1 .. Len(content) : part[k] = content[k]
    BY <1>7, <2>1, <2>2
  <2>4. part = content
    BY <1>3, <2>1, <2>2, <2>3, SeqEqual DEF content
  <2> QED
    BY <2>4 DEF part, first, last
<1>11. Payload(o, kept[i].end) = said[n]
  BY <1>8, <1>10 DEF Payload, content
<1> QED
  BY <1>1, <1>3, <1>4, <1>6, <1>8, <1>11 DEF content

\* Where read is after each record of kept: behind it.
LEMMA OffsetsKept ==
    ASSUME HistInv, KeptIsThere, HeaderOK, Holds(0, Header), NEW i \in 0 .. Len(kept)
    PROVE  /\ i \in 0 .. Len(data) /\ Begin(i + 1) \in Nat /\ Offset[i] = Begin(i + 1)
           /\ i + 3 <= Begin(i + 1) /\ Begin(i + 1) <= Len(data)
<1>0. TypeOK /\ data \in Seq(Nat) /\ Len(data) \in Nat
  BY DEF HistInv, TypeOK
<1>1. DOMAIN kept = 1 .. Len(kept) /\ Len(kept) \in Nat
  BY <1>0, KeptType
<1>2. /\ Offset[0] = 2 + data[2] /\ \A n \in 1 .. Len(data) : Offset[n] = Past(Offset[n - 1])
  BY <1>0, OffsetIs
<1> DEFINE Behind(m) == /\ m \in 0 .. Len(data) /\ Begin(m + 1) \in Nat
                        /\ Offset[m] = Begin(m + 1)
                        /\ m + 3 <= Begin(m + 1) /\ Begin(m + 1) <= Len(data)
           T == {m \in Nat : m <= Len(kept) => Behind(m)}
<1>3. 0 \in T
  <2>1. data[2] = 1
    <3>1. data[0 + 2] = Header[2]
      BY HeaderIs DEF Holds
    <3> QED
      BY <3>1, HeaderIs
  <2>2. Begin(0 + 1) = 3
    BY HeaderIs DEF Begin
  <2> QED
    BY <1>0, <1>2, <2>1, <2>2 DEF HeaderOK
<1>4. ASSUME NEW m \in Nat, m \in T PROVE m + 1 \in T
  <2> SUFFICES ASSUME m + 1 <= Len(kept) PROVE Behind(m + 1)
    OBVIOUS
  <2>1. Behind(m)
    BY <1>1, <1>4
  <2> DEFINE n == kept[m + 1].seq
             o == Begin(m + 1)
             length == Len(said[n])
  <2>2. m + 1 \in 1 .. Len(kept)
    BY <1>1
  <2>3. /\ length \in Nat /\ kept[m + 1].end = o + 2 + length
        /\ o + 2 + length <= Len(data) /\ data[o + 2] = length
    BY <2>2, KeptIs
  <2>4. Begin((m + 1) + 1) = kept[m + 1].end
    <3>1. (m + 1) + 1 # 1 /\ ((m + 1) + 1) - 1 = m + 1
      OBVIOUS
    <3> QED
      BY <3>1 DEF Begin
  <2>5. o \in Nat /\ Offset[m] = o /\ m + 3 <= o
    BY <2>1
  <2> HIDE DEF n, o, length
  <2>6. m + 1 \in 1 .. Len(data) /\ (m + 1) - 1 = m
    <3>1. o + 2 + length <= Len(data) /\ length \in Nat
      BY <2>3
    <3>2. m + 1 <= Len(data)
      BY <1>0, <2>5, <3>1
    <3> QED
      BY <1>0, <3>2
  <2>7. Offset[m + 1] = Past(o)
    BY <1>2, <2>5, <2>6
  <2>8. o + 2 <= Len(data)
    BY <1>0, <2>3, <2>5
  <2>9. Past(o) = o + 2 + length
    BY <2>3, <2>8 DEF Past
  <2>10. Offset[m + 1] = Begin((m + 1) + 1)
    BY <2>3, <2>4, <2>7, <2>9
  <2>11. Begin((m + 1) + 1) \in Nat /\ (m + 1) + 3 <= Begin((m + 1) + 1)
         /\ Begin((m + 1) + 1) <= Len(data)
    <3> DEFINE b == Begin((m + 1) + 1)
    <3>1. b = o + 2 + length
      BY <2>3, <2>4
    <3> HIDE DEF b
    <3>2. length \in Nat /\ o \in Nat /\ m + 3 <= o /\ o + 2 + length <= Len(data)
      BY <2>3, <2>5
    <3>3. b \in Nat /\ (m + 1) + 3 <= b /\ b <= Len(data)
      BY <1>0, <3>1, <3>2
    <3> QED
      BY <3>3 DEF b
  <2> QED
    BY <1>0, <2>6, <2>10, <2>11
<1>5. Nat \subseteq T
  <2> HIDE DEF T
  <2> QED
    BY <1>3, <1>4, Induction, SMTT(30)
<1>6. i \in T
  BY <1>1, <1>5
<1> QED
  BY <1>1, <1>6

\* What a file says, read from the start, begins with the records of kept; with
\* those it ends unless a write has been cut short.
LEMMA TranscriptIsKept ==
    ASSUME HistInv, OneWriter, KeptIsThere, NothingElse, Readable
    PROVE  /\ DOMAIN Transcript = 1 .. Len(Transcript) /\ Len(Transcript) \in Nat
           /\ \A i \in DOMAIN Transcript \cap DOMAIN kept :
                Transcript[i] = Message(kept[i].seq)
           /\ torn \/ Len(Transcript) = Len(kept)
<1>0. /\ TypeOK /\ data \in Seq(Nat) /\ Len(data) \in Nat /\ HeaderOK
      /\ said \in Seq(Seq(Nat))
  BY HistoryAssumption, SMTT(30) DEF HistInv, TypeOK, Readable
<1>1. /\ DOMAIN kept = 1 .. Len(kept) /\ Len(kept) \in Nat
      /\ Len(kept) > 0 => End = kept[Len(kept)].end
      /\ Len(kept) = 0 => End = Len(Header)
  BY <1>0, KeptType
<1>2. /\ Len(Transcript) \in 0 .. Len(data)
      /\ \A n \in 0 .. Len(data) : Ends(n) => n = Len(Transcript)
      /\ DOMAIN Transcript = 1 .. Len(Transcript)
      /\ \A i \in 1 .. Len(Transcript) :
           Transcript[i] = [seq |-> data[Offset[i - 1] + 1],
                            content |-> SubSeq(data, Offset[i - 1] + 3, Offset[i])]
  BY <1>0, ReadEnds
<1>3. ASSUME NEW i \in DOMAIN Transcript \cap DOMAIN kept
      PROVE  Transcript[i] = Message(kept[i].seq)
  <2>1. i \in 1 .. Len(kept) /\ i \in 1 .. Len(Transcript)
    BY <1>1, <1>2
  <2>2. Holds(0, Header)
    BY <1>1, <2>1 DEF KeptIsThere
  <2> DEFINE n == kept[i].seq
             o == Begin(i)
  <2>3. /\ o \in Nat /\ data[o + 1] = n /\ Payload(o, kept[i].end) = said[n]
    BY <2>1, KeptIs
  <2>4. Offset[i - 1] = o /\ o \in Nat
    <3>1. i - 1 \in 0 .. Len(kept) /\ (i - 1) + 1 = i
      BY <1>1, <2>1
    <3>2. Begin((i - 1) + 1) \in Nat /\ Offset[i - 1] = Begin((i - 1) + 1)
      BY <1>0, <2>2, <3>1, OffsetsKept
    <3> QED
      BY <3>1, <3>2
  <2>5. Offset[i] = kept[i].end
    <3>1. i \in 0 .. Len(kept) /\ i + 1 # 1 /\ (i + 1) - 1 = i
      BY <1>1, <2>1
    <3>2. Offset[i] = Begin(i + 1)
      BY <1>0, <2>2, <3>1, OffsetsKept, SMTT(30)
    <3> QED
      BY <3>1, <3>2 DEF Begin
  <2>6. Transcript[i] = [seq |-> data[o + 1], content |-> SubSeq(data, o + 3, kept[i].end)]
    BY <1>2, <2>1, <2>4, <2>5
  <2> QED
    BY <2>3, <2>6 DEF Message, Payload
<1>4. ASSUME ~torn PROVE Len(Transcript) = Len(kept)
  <2>1. data # <<>>
    BY <1>0 DEF HeaderOK
  <2>2. exists /\ \A w \in Writers : at[w] # "header"
    BY <2>1 DEF OneWriter, Writers
  <2>3. /\ Len(data) >= Len(Header) /\ Holds(0, Header)
        /\ (\A w \in Writers : at[w] # "body") => Len(data) = End
        /\ \A w \in Writers : at[w] = "body" =>
             said[next[w]] # <<>> /\ Len(data) = End + 2 /\ Holds(End, FieldsOf(next[w]))
    BY <1>4, <2>2 DEF NothingElse
  <2>4. Begin(Len(kept) + 1) = End
    <3>1. Len(kept) = 0 => Len(kept) + 1 = 1
      OBVIOUS
    <3>2. Len(kept) > 0 => Len(kept) + 1 # 1 /\ (Len(kept) + 1) - 1 = Len(kept)
      BY <1>1
    <3> QED
      BY <1>1, <3>1, <3>2 DEF Begin
  <2>5. /\ Len(kept) \in 0 .. Len(data) /\ End \in Nat /\ Offset[Len(kept)] = End
        /\ Len(kept) + 3 <= End /\ End <= Len(data)
    <3>1. Len(kept) \in 0 .. Len(kept)
      BY <1>1
    <3> QED
      BY <1>0, <2>3, <2>4, <3>1, OffsetsKept
  <2>6. \A w \in Writers : at[w] # "body"
    <3> SUFFICES ASSUME NEW w \in Writers, at[w] = "body" PROVE FALSE
      OBVIOUS
    <3>1. next[w] \in 1 .. Len(said)
      BY DEF HistInv, Appending
    <3>2. said[next[w]] \in Seq(Nat) /\ said[next[w]] # <<>>
      BY <1>0, <2>3, <3>1
    <3>3. Len(said[next[w]]) \in Nat /\ Len(said[next[w]]) > 0
      BY <3>2, EmptySeq
    <3>4. data[End + 2] = Len(said[next[w]]) /\ Len(data) = End + 2
      <4>1. /\ Len(FieldsOf(next[w])) = 2 /\ FieldsOf(next[w])[2] = Len(said[next[w]])
        BY <1>0, <3>1, EntryIs
      <4> QED
        BY <2>3, <4>1 DEF Holds
    <3>5. Past(End) > Len(data)
      <4>1. End + 2 <= Len(data) /\ data[End + 2] = Len(said[next[w]])
        BY <2>5, <3>4
      <4>2. Past(End) = End + 2 + Len(said[next[w]])
        BY <4>1 DEF Past
      <4> DEFINE length == Len(said[next[w]])
                 past == Past(End)
      <4>3. /\ End \in Nat /\ Len(data) = End + 2
            /\ length \in Nat /\ length > 0 /\ past = End + 2 + length
        BY <2>5, <3>3, <3>4, <4>2
      <4> HIDE DEF length, past
      <4>4. past > Len(data)
        BY <4>3
      <4> QED
        BY <4>4 DEF past
    <3>6. Len(kept) + 1 \in 1 .. Len(data) /\ Len(kept) + 1 \in 0 .. Len(data)
      BY <1>0, <1>1, <2>5
    <3>7. Offset[Len(kept) + 1] = Past(End)
      <4>1. \A m \in 1 .. Len(data) : Offset[m] = Past(Offset[m - 1])
        BY <1>0, OffsetIs
      <4>2. (Len(kept) + 1) - 1 = Len(kept)
        BY <1>1
      <4> QED
        BY <2>5, <3>6, <4>1, <4>2
    <3>8. Len(data) \in 0 .. Len(data) /\ Len(kept) + 1 \in 0 .. Len(data)
      BY <1>0, <3>6
    <3>9. Offset[Len(kept) + 1] <= Offset[Len(data)]
      BY <1>0, <3>8, OffsetsGrow
    <3>10. Offset[Len(data)] = Len(data) /\ Offset[Len(kept) + 1] \in Nat
      BY <1>0, <3>8, OffsetIs DEF Readable
    <3> QED
      BY <1>0, <3>5, <3>7, <3>9, <3>10
  <2>7. Len(data) = End
    BY <2>3, <2>6
  <2>8. ASSUME NEW k \in 0 .. Len(kept) - 1 PROVE Offset[k] # Len(data)
    <3>1. k \in 0 .. Len(kept) /\ k + 1 \in 1 .. Len(kept)
      BY <1>1
    <3>2. Offset[k] = Begin(k + 1) /\ Begin(k + 1) \in Nat
      BY <1>0, <2>3, <3>1, OffsetsKept
    <3> DEFINE length == Len(said[kept[k + 1].seq])
    <3>3. length \in Nat /\ Begin(k + 1) + 2 + length <= Len(data)
      BY <3>1, KeptIs, SMTT(30)
    <3> HIDE DEF length
    <3> QED
      BY <1>0, <3>2, <3>3
  <2>9. Ends(Len(kept))
    BY <2>5, <2>7, <2>8 DEF Ends
  <2> QED
    BY <1>2, <2>5, <2>9
<1>5. Len(Transcript) \in Nat
  <2>1. Len(Transcript) \in 0 .. Len(data) /\ Len(data) \in Nat
    BY <1>0, <1>2
  <2> QED
    BY <2>1
<1> QED
  BY <1>2, <1>3, <1>4, <1>5

\* What is torn stays torn.
LEMMA TornStays ==
    ASSUME torn, StoreNext PROVE torn'
<1>1. ASSUME NEW w \in Writers, WriterStep(w) \/ Cut(w) PROVE torn'
  BY <1>1 DEF WriterStep, Create, WriteHeader, Insert, WriteFields, WriteBody, Count, StartFinish,
              FinishRead, FinishUpdate, Cut, Keep, Torn, historyOf
<1>2. CASE Speak \/ EndConversation \/ \E c \in Callers : Look(c) \/ Import(c) \/ ReadBack(c)
  BY <1>2 DEF Speak, EndConversation, Look, Import, ReadBack, historyOf
<1> QED
  BY <1>1, <1>2 DEF StoreNext

\* What a step does to the history: it stays, or grows while nothing is torn.
LEMMA KeptGrows ==
    ASSUME HistInv, OneWriter, KeptIsThere, NothingElse, StoreNext
    PROVE  /\ Len(kept) \in Nat /\ Len(kept') \in Nat /\ Len(kept) <= Len(kept')
           /\ DOMAIN kept = 1 .. Len(kept) /\ DOMAIN kept' = 1 .. Len(kept')
           /\ Len(kept') # Len(kept) => ~torn
           /\ \A i \in DOMAIN kept :
                kept'[i] = kept[i] /\ Message(kept[i].seq)' = Message(kept[i].seq)
<1>1. TypeOK /\ DOMAIN kept = 1 .. Len(kept) /\ Len(kept) \in Nat
  BY KeptType DEF HistInv
<1>2. \A n \in 1 .. Len(said) : Message(n)' = Message(n)
  BY StepKeeps DEF Message
<1>3. \A i \in DOMAIN kept : kept[i].seq \in 1 .. Len(said)
  BY <1>1 DEF KeptIsThere, Kept, TypeOK
<1>4. CASE kept' = kept
  BY <1>1, <1>2, <1>3, <1>4 DEF Message
<1>5. ASSUME NEW w \in Writers, ~torn, next[w] \in 1 .. Len(said), Grown(next[w])
      PROVE  /\ Len(kept') = Len(kept) + 1 /\ DOMAIN kept' = 1 .. Len(kept) + 1
             /\ \A i \in DOMAIN kept : kept'[i] = kept[i]
  BY <1>1, <1>5, GrownIs
<1>6. ASSUME NEW i \in DOMAIN kept, kept'[i] = kept[i]
      PROVE  Message(kept[i].seq)' = Message(kept[i].seq)
  BY <1>2, <1>3, <1>6 DEF Message
<1>7. CASE kept' # kept
  <2>1. ~torn /\ Len(kept') = Len(kept) + 1 /\ DOMAIN kept' = 1 .. Len(kept) + 1
        /\ \A i \in DOMAIN kept : kept'[i] = kept[i]
    BY <1>5, <1>7, StepRecords
  <2>2. \A i \in DOMAIN kept : kept'[i] = kept[i] /\ Message(kept[i].seq)' = Message(kept[i].seq)
    BY <1>6, <2>1
  <2>3. Len(kept') \in Nat /\ Len(kept) <= Len(kept') /\ DOMAIN kept' = 1 .. Len(kept')
    BY <1>1, <2>1
  <2> QED
    BY <1>1, <2>1, <2>2, <2>3
<1> QED
  BY <1>4, <1>7

LEMMA PrintedStep ==
    ASSUME HistInv, OneWriter, KeptIsThere, NothingElse, KeptInOrder', PrintedIsSaid, StoreNext
    PROVE  PrintedIsSaid'
<1> DEFINE Says(t) == /\ \A i \in DOMAIN t \cap DOMAIN kept : t[i] = Message(kept[i].seq)
                      /\ torn \/ Len(t) <= Len(kept)
<1>1. /\ Len(kept) \in Nat /\ Len(kept') \in Nat /\ Len(kept) <= Len(kept')
      /\ DOMAIN kept = 1 .. Len(kept) /\ DOMAIN kept' = 1 .. Len(kept')
      /\ Len(kept') # Len(kept) => ~torn
      /\ \A i \in DOMAIN kept : kept'[i] = kept[i] /\ Message(kept[i].seq)' = Message(kept[i].seq)
  BY KeptGrows
<1>2. ASSUME NEW t \in Seq(Messages), Says(t)
      PROVE  /\ \A i \in DOMAIN t \cap DOMAIN kept' : t[i] = Message(kept[i].seq)'
             /\ torn' \/ Len(t) <= Len(kept')
  <2>1. DOMAIN t = 1 .. Len(t) /\ Len(t) \in Nat
    OBVIOUS
  <2>2. CASE Len(kept') = Len(kept)
    <3>1. DOMAIN kept' = DOMAIN kept
      BY <1>1, <2>2, SMTT(30)
    <3>2. \A i \in DOMAIN t \cap DOMAIN kept' : t[i] = Message(kept[i].seq)'
      BY <1>1, <1>2, <3>1
    <3> QED
      BY <1>2, <2>2, <3>2, TornStays
  <2>3. CASE Len(kept') # Len(kept)
    <3>1. Len(t) <= Len(kept)
      BY <1>1, <1>2, <2>3
    <3> DEFINE length == Len(t)
               before == Len(kept)
               after == Len(kept')
    <3>4. /\ length \in Nat /\ before \in Nat /\ after \in Nat
          /\ length <= before /\ before <= after
      BY <1>1, <2>1, <3>1
    <3> HIDE DEF length, before, after
    <3>5. length <= after /\ \A i \in 1 .. length : i \in 1 .. before
      BY <3>4, SMTT(30)
    <3>2. \A i \in DOMAIN t : i \in DOMAIN kept
      BY <1>1, <2>1, <3>5 DEF length, before
    <3>3. Len(t) <= Len(kept')
      BY <3>5 DEF length, after
    <3> QED
      BY <1>1, <1>2, <3>2, <3>3
  <2> QED
    BY <2>2, <2>3
<1>3. printed \in [Callers -> SUBSET Seq(Messages)]
  BY DEF HistInv, TypeOK
<1>4. \A c \in Callers : \A t \in printed[c] : Says(t)
  BY DEF PrintedIsSaid
<1>5. ASSUME NEW c \in Callers, NEW t \in printed'[c] PROVE t \in Seq(Messages) /\ Says(t)
  <2>1. CASE t \in printed[c]
    BY <1>3, <1>4, <2>1
  <2>2. CASE t \notin printed[c]
    <3>1. \E d \in Callers : ReadBack(d)
      <4>1. CASE \E w \in Writers : WriterStep(w) \/ Cut(w)
        BY <1>5, <2>2, <4>1, StepOf
      <4>2. CASE Speak \/ EndConversation \/ \E d \in Callers : Look(d) \/ Import(d)
        BY <1>5, <2>2, <4>2 DEF Speak, EndConversation, Look, Import
      <4> QED
        BY <4>1, <4>2 DEF StoreNext
    <3>2. Readable /\ t = Transcript
      BY <1>3, <1>5, <2>2, <3>1 DEF ReadBack
    <3>3. Transcript \in Seq(Messages)
      BY <3>2, TranscriptType DEF HistInv
    <3>4. /\ \A i \in DOMAIN Transcript \cap DOMAIN kept : Transcript[i] = Message(kept[i].seq)
          /\ torn \/ Len(Transcript) = Len(kept)
      BY <3>2, TranscriptIsKept
    <3> DEFINE read == Len(Transcript)
               length == Len(kept)
    <3>6. torn \/ read = length
      BY <3>4, SMTT(30)
    <3>7. length \in Nat
      BY <1>1
    <3> HIDE DEF read, length
    <3>8. torn \/ read <= length
      BY <3>6, <3>7
    <3>5. torn \/ Len(Transcript) <= Len(kept)
      BY <3>8 DEF read, length
    <3> QED
      BY <3>2, <3>3, <3>4, <3>5
  <2> QED
    BY <2>1, <2>2
<1>6. ASSUME NEW c \in Callers, NEW t \in printed'[c]
      PROVE  /\ \A i \in DOMAIN t \cap DOMAIN kept' : t[i] = Message(kept[i].seq)'
             /\ torn' \/ Len(t) <= Len(kept')
  <2>1. t \in Seq(Messages) /\ Says(t)
    BY <1>5
  <2> HIDE DEF Says
  <2> QED
    BY <1>2, <2>1
<1>7. \A i, j \in DOMAIN kept' : i < j => kept'[i].seq < kept'[j].seq
  BY DEF KeptInOrder
<1> QED
  BY <1>6, <1>7, SMTT(30) DEF PrintedIsSaid

LEMMA StoreStarts == StoreInit => StoreInv
<1> SUFFICES ASSUME StoreInit PROVE StoreInv
  OBVIOUS
<1>1. OneWriter
  BY StartsAlone
<1>2. kept = <<>> /\ DOMAIN kept = {} /\ exists = FALSE /\ row.sync # "complete"
  BY DEF StoreInit, Row
<1>3. \A w \in Writers : at[w] # "update"
  BY DEF StoreInit
<1>4. \A c \in Callers : printed[c] = {}
  BY DEF StoreInit
<1>5. KeptIsThere /\ KeptInOrder /\ NothingElse
  BY <1>2 DEF KeptIsThere, KeptInOrder, NothingElse
<1>6. FinishedIsFinal
  BY <1>2, <1>3 DEF FinishedIsFinal
<1>7. PrintedIsSaid
  BY <1>2, <1>4 DEF PrintedIsSaid
<1> QED
  BY <1>1, <1>5, <1>6, <1>7 DEF StoreInv

LEMMA StoreInvStep ==
    ASSUME ~Overlap, HistInv, StoreInv, [StoreNext]_storeVars PROVE StoreInv'
<1>1. CASE StoreNext
  <2>1. OneWriter' /\ KeptIsThere' /\ KeptInOrder' /\ NothingElse' /\ FinishedIsFinal'
    BY <1>1, OneWriterStep, KeptIsThereStep, KeptInOrderStep, NothingElseStep, FinishedStep
       DEF StoreInv
  <2>2. PrintedIsSaid'
    BY <1>1, <2>1, PrintedStep DEF StoreInv
  <2> QED
    BY <2>1, <2>2 DEF StoreInv
<1>2. CASE UNCHANGED storeVars
  <2>1. /\ said' = said /\ exists' = exists /\ data' = data /\ row' = row /\ at' = at
        /\ next' = next /\ final' = final /\ whole' = whole /\ printed' = printed
        /\ torn' = torn /\ kept' = kept
    BY <1>2 DEF storeVars, fileVars, historyOf
  <2>2. OneWriter' /\ KeptInOrder'
    BY <2>1 DEF StoreInv, OneWriter, KeptInOrder
  <2>3. KeptIsThere'
    <3>1. ASSUME NEW i \in DOMAIN kept PROVE Kept(i)'
      <4>1. Kept(i)
        BY DEF StoreInv, KeptIsThere
      <4>2. Begin(i)' = Begin(i) /\ Entry(kept[i].seq)' = Entry(kept[i].seq)
        BY <2>1 DEF Begin, Entry, FieldsOf, Header, FileMagic
      <4> QED
        BY <2>1, <4>1, <4>2 DEF Kept, Holds
    <3>2. kept # <<>> => Holds(0, Header)'
      BY <2>1 DEF StoreInv, KeptIsThere, Holds, Header, FileMagic
    <3> QED
      BY <2>1, <3>1, <3>2 DEF KeptIsThere
  <2>6. NothingElse'
    BY <2>1, NothingElseStays DEF StoreInv
  <2>4. FinishedIsFinal'
    BY <2>1, FileStays DEF StoreInv
  <2>5. PrintedIsSaid'
    BY <2>1 DEF StoreInv, PrintedIsSaid, Message
  <2> QED
    BY <2>2, <2>3, <2>4, <2>5, <2>6 DEF StoreInv
<1> QED
  BY <1>1, <1>2

\* What the properties below follow from holds in every reachable state: one writer
\* at a time has the file in its hands, the records appended before a write was cut
\* short are in it unit by unit, in order, with nothing else until then, and what
\* finish has found is what a reader of the file would find.
THEOREM StoreInvariance == ASSUME ~Overlap PROVE StoreSpec => []StoreInv
<1> DEFINE Inv == HistInv /\ StoreInv
<1>1. StoreInit => Inv
  BY InitOK, StoreStarts
<1>2. Inv /\ [StoreNext]_storeVars => Inv'
  BY StepOK, StoreInvStep
<1>3. Inv => StoreInv
  OBVIOUS
<1> HIDE DEF Inv
<1>4. StoreSpec => []Inv
  BY <1>1, <1>2, PTL DEF StoreSpec
<1> QED
  BY <1>3, <1>4, PTL

\* A conversation that the index calls complete reads as the sequences 1 .. final_seq
\* and, unless a write of it was cut short, as its messages, however the writes of the
\* client and of the recoveries after it went.
THEOREM CompleteMeansWhole == ASSUME ~Overlap PROVE StoreSpec => []CompleteIsWhole
<1>1. ASSUME HistInv, StoreInv PROVE CompleteIsWhole
  <2> SUFFICES ASSUME row.sync = "complete"
               PROVE  /\ Readable /\ Len(Transcript) = row.final
                      /\ \A i \in 1 .. row.final : Transcript[i].seq = i
                      /\ torn \/ \A i \in 1 .. row.final : Transcript[i] = Message(i)
    BY DEF CompleteIsWhole
  <2>1. /\ Readable /\ Len(Transcript) = row.final
        /\ \A i \in 1 .. row.final : Transcript[i].seq = i
    BY <1>1 DEF StoreInv, FinishedIsFinal, IsComplete
  <2>2. ASSUME ~torn, NEW i \in 1 .. row.final PROVE Transcript[i] = Message(i)
    <3>1. /\ DOMAIN Transcript = 1 .. Len(Transcript) /\ Len(Transcript) = Len(kept)
          /\ \A k \in DOMAIN Transcript \cap DOMAIN kept : Transcript[k] = Message(kept[k].seq)
      BY <1>1, <2>1, <2>2, TranscriptIsKept DEF StoreInv
    <3>2. i \in DOMAIN Transcript /\ i \in DOMAIN kept
      BY <1>1, <2>1, <3>1, KeptType DEF HistInv
    <3>3. Transcript[i] = Message(kept[i].seq) /\ Transcript[i].seq = i
      BY <2>1, <3>1, <3>2
    <3>4. kept[i].seq = i
      BY <3>3 DEF Message
    <3> QED
      BY <3>3, <3>4
  <2> QED
    BY <2>1, <2>2
<1>2. StoreSpec => []HistInv
  BY InitOK, StepOK, PTL DEF StoreSpec
<1>3. StoreSpec => []StoreInv
  BY StoreInvariance
<1> QED
  BY <1>1, <1>2, <1>3, PTL

\* What aingle history prints begins with the records appended before a write was cut
\* short, each a message of the service, in order and none twice, and ends with them
\* if none was.
THEOREM PrintedIsWhatWasSaid == ASSUME ~Overlap PROVE StoreSpec => []PrintedIsSaid
<1>1. StoreInv => PrintedIsSaid
  BY DEF StoreInv
<1>2. StoreSpec => []StoreInv
  BY StoreInvariance
<1> QED
  BY <1>1, <1>2, PTL

===============================================================================
