------------------------- MODULE UdpTransportProofs -------------------------
(***************************************************************************)
(* Proofs about UdpTransport, for any size of a byte and of the buffers,   *)
(* and any headers, stream lists and payloads.                             *)
(***************************************************************************)
EXTENDS UdpTransport, TLAPS

-----------------------------------------------------------------------------
(* Integers and their bytes *)

LEMMA Product ==
  ASSUME NEW a \in Nat, NEW b \in Nat
  PROVE  a * b \in Nat
  OBVIOUS

LEMMA DivMod ==
  ASSUME NEW n \in Nat, NEW b \in Nat \ {0}
  PROVE  /\ n \div b \in Nat /\ n % b \in 0 .. b - 1
         /\ n = b * (n \div b) + (n % b)
  OBVIOUS

LEMMA DivBound ==
  ASSUME NEW n \in Nat, NEW b \in Nat \ {0}, NEW a \in Nat, n < b * a
  PROVE  n \div b < a
  <1> DEFINE q == n \div b
  <1>1. q \in Nat /\ n % b \in Nat /\ n = b * q + (n % b)
    BY DivMod
  <1> HIDE DEF q
  <1>2. SUFFICES ASSUME ~(q < a) PROVE FALSE
    BY DEF q
  <1>3. b * a <= b * q
    BY <1>1, <1>2
  <1> QED BY <1>1, <1>3

LEMMA Powers ==
  /\ Base \in Nat \ {0} /\ Base * Base \in Nat /\ Base * (Base * Base) \in Nat
  /\ Base * Base * Base * Base = Base * (Base * (Base * Base))
  /\ Base * Base * Base * Base \in Nat \ {0}
  <1>1. Base \in Nat \ {0} /\ Base >= 10
    BY WireAssumption
  <1>2. Base * Base \in Nat \ {0}
    BY <1>1
  <1>3. Base * (Base * Base) \in Nat \ {0} /\ Base * Base * Base = Base * (Base * Base)
    BY <1>1, <1>2
  <1>4. Base * (Base * (Base * Base)) \in Nat \ {0}
    BY <1>1, <1>3
  <1>5. Base * Base * Base * Base = Base * (Base * (Base * Base))
    BY <1>1
  <1> QED BY <1>1, <1>2, <1>3, <1>4, <1>5

\* fixint::le of a u32: four bytes, from which the integer comes back.
LEMMA U32Bytes ==
  ASSUME NEW n \in U32
  PROVE  /\ le4(n) \in Seq(Byte) /\ Len(le4(n)) = 4
         /\ n = le4(n)[1] + Base * (le4(n)[2] + Base * (le4(n)[3] + Base * le4(n)[4]))
  <1> DEFINE n1 == n \div Base
             n2 == n1 \div Base
             n3 == n2 \div Base
  <1>1. n \in Nat /\ n < Base * (Base * (Base * Base))
    BY Powers DEF U32
  <1>2. n1 \in Nat /\ n1 < Base * (Base * Base) /\ n % Base \in Byte /\ n = Base * n1 + (n % Base)
    BY <1>1, Powers, DivMod, DivBound DEF Byte
  <1>3. n2 \in Nat /\ n2 < Base * Base /\ n1 % Base \in Byte /\ n1 = Base * n2 + (n1 % Base)
    <2> HIDE DEF n1
    <2> QED BY <1>2, Powers, DivMod, DivBound DEF Byte
  <1>4. n3 \in Nat /\ n3 < Base /\ n2 % Base \in Byte /\ n2 = Base * n3 + (n2 % Base)
    <2> HIDE DEF n2
    <2> QED BY <1>3, Powers, DivMod, DivBound DEF Byte
  <1>5. n3 % Base = n3 /\ n3 \in Byte
    <2> HIDE DEF n3
    <2>1. n3 \in 0 .. Base - 1 /\ Base \in Nat \ {0}
      BY <1>4, Powers
    <2> QED BY <2>1 DEF Byte
  <1>6. le4(n) = <<n % Base, n1 % Base, n2 % Base, n3 % Base>>
    BY DEF le4
  <1> DEFINE d0 == n % Base
             d1 == n1 % Base
             d2 == n2 % Base
             d3 == n3 % Base
  <1>7. n = d0 + Base * (d1 + Base * (d2 + Base * d3))
    <2>1. /\ d0 \in Nat /\ d1 \in Nat /\ d2 \in Nat /\ d3 = n3
          /\ n = Base * n1 + d0 /\ n1 = Base * n2 + d1 /\ n2 = Base * n3 + d2
      BY <1>2, <1>3, <1>4, <1>5 DEF Byte
    <2>2. Base * n1 \in Nat /\ Base * n2 \in Nat /\ Base * n3 \in Nat
      <3>1. n1 \in Nat /\ n2 \in Nat /\ n3 \in Nat /\ Base \in Nat
        BY <1>2, <1>3, <1>4, Powers
      <3> HIDE DEF n1, n2, n3
      <3> QED BY <3>1, Product
    <2> HIDE DEF d0, d1, d2, d3, n1, n2, n3
    <2>3. n2 = d2 + Base * d3
      BY <2>1, <2>2
    <2>4. n1 = d1 + Base * (d2 + Base * d3)
      BY <2>1, <2>2, <2>3
    <2>5. n = d0 + Base * (d1 + Base * (d2 + Base * d3))
      BY <2>1, <2>2, <2>4
    <2> QED BY <2>5
  <1> HIDE DEF n1, n2, n3
  <1> QED BY <1>2, <1>3, <1>4, <1>5, <1>6, <1>7

\* fixint::le of a u64: eight bytes, the two halves of the integer.
LEMMA U64Bytes ==
  ASSUME NEW n \in U64
  PROVE  LET P  == Base * Base * Base * Base
             lo == n % P
             hi == n \div P
         IN lo \in U32 /\ hi \in U32 /\ n = lo + P * hi /\ le8(n) = le4(lo) \o le4(hi)
  <1> DEFINE P == Base * Base * Base * Base
             lo == n % P
             hi == n \div P
  <1>1. le8(n) = le4(lo) \o le4(hi)
    BY DEF le8
  <1>2. P \in Nat \ {0}
    BY Powers
  <1>3. n \in Nat /\ n < P * P
    <2>1. U64 = 0 .. P * P - 1
      BY DEF U64
    <2>2. P * P \in Nat
      BY <1>2
    <2> HIDE DEF P
    <2> QED BY <1>2, <2>1, <2>2
  <1>4. U32 = 0 .. P - 1
    BY DEF U32
  <1>5. hi \in Nat /\ lo \in 0 .. P - 1 /\ n = P * hi + lo /\ hi < P
    <2> HIDE DEF P
    <2> QED BY <1>2, <1>3, DivMod, DivBound
  <1>6. P * hi \in Nat
    <2> HIDE DEF P, hi
    <2> QED BY <1>2, <1>5
  <1> HIDE DEF P, lo, hi
  <1>7. lo \in U32 /\ hi \in U32 /\ n = lo + P * hi
    BY <1>2, <1>4, <1>5, <1>6
  <1> QED BY <1>1, <1>7 DEF P, lo, hi

-----------------------------------------------------------------------------
(* postcard *)

\* The bytes of a buffer after its first ones.
LEMMA AfterPrefix ==
  ASSUME NEW S, NEW a \in Seq(S), NEW p \in Seq(S)
  PROVE  finalize(a \o p, Len(a)) = p
  BY DEF finalize

LEMMA ClientVariants ==
  /\ Len(ClientMessageFlat) = 9
  /\ \A i \in 0 .. 8 : variant(ClientMessageFlat, ClientMessageFlat[i + 1]) = i
  <1> DEFINE e == ClientMessageFlat
  <1>1. Len(e) = 9
    BY DEF ClientMessageFlat
  <1>2. \A i \in 0 .. 8 : \A j \in 0 .. 8 : e[i + 1] = e[j + 1] => i = j
    BY DEF ClientMessageFlat
  <1> HIDE DEF e
  <1>3. \A i \in 0 .. 8 : variant(e, e[i + 1]) = i
    BY <1>1, <1>2 DEF variant
  <1> QED BY <1>1, <1>3 DEF e

LEMMA ServerVariants ==
  /\ Len(ServerMessageFlat) = 10
  /\ \A i \in 0 .. 9 : variant(ServerMessageFlat, ServerMessageFlat[i + 1]) = i
  <1> DEFINE e == ServerMessageFlat
  <1>1. Len(e) = 10
    BY DEF ServerMessageFlat
  <1>2. \A i \in 0 .. 9 : \A j \in 0 .. 9 : e[i + 1] = e[j + 1] => i = j
    BY DEF ServerMessageFlat
  <1> HIDE DEF e
  <1>3. \A i \in 0 .. 9 : variant(e, e[i + 1]) = i
    BY <1>1, <1>2 DEF variant
  <1> QED BY <1>1, <1>3 DEF e

\* A variant without fields.
LEMMA SimpleBytes ==
  ASSUME NEW enum, NEW i \in Byte, i < Len(enum), Len(enum) \in Nat,
         variant(enum, enum[i + 1]) = i, enum[i + 1] \notin {"AudioHeader", "Connect"},
         NEW p \in Seq(Byte)
  PROVE  LET v == <<enum[i + 1]>>
         IN /\ to_io(enum, v) = <<i>>
            /\ deserialize(enum, to_io(enum, v) \o p) = {<<v, p>>}
  <1> DEFINE v == <<enum[i + 1]>>
             b == <<i>> \o p
  <1>1. v[1] = enum[i + 1] /\ fields(v) = <<>>
    BY DEF fields
  <1>2. to_io(enum, v) = <<i>>
    BY <1>1 DEF to_io
  <1>3. b # <<>> /\ b[1] = i /\ <<i>> \in Seq(Byte) /\ Len(<<i>>) = 1
    OBVIOUS
  <1>4. finalize(b, 1) = p
    <2>1. finalize(<<i>> \o p, Len(<<i>>)) = p
      BY <1>3, AfterPrefix
    <2> QED BY <1>3, <2>1
  <1> HIDE DEF b
  <1>5. deserialize(enum, b) = {<<<<enum[i + 1]>>, finalize(b, 1)>>}
    BY <1>3 DEF deserialize
  <1> QED BY <1>2, <1>4, <1>5 DEF b

Joined(a, b) ==
  /\ a \o b \in Seq(Byte) /\ Len(a \o b) = Len(a) + Len(b)
  /\ \A k \in 1 .. Len(a) : (a \o b)[k] = a[k]
  /\ \A k \in 1 .. Len(b) : (a \o b)[Len(a) + k] = b[k]

LEMMA Joins ==
  ASSUME NEW a \in Seq(Byte), NEW b \in Seq(Byte)
  PROVE  Joined(a, b)
  BY DEF Joined

LEMMA Concat ==
  ASSUME NEW a \in Seq(Byte), NEW b \in Seq(Byte)
  PROVE  /\ a \o b \in Seq(Byte) /\ Len(a \o b) = Len(a) + Len(b)
         /\ \A k \in 1 .. Len(a) : (a \o b)[k] = a[k]
         /\ \A k \in 1 .. Len(b) : (a \o b)[Len(a) + k] = b[k]
  OBVIOUS

\* Where the bytes of a header are: h is the header's encoding, w a slice that begins
\* with it.
HeaderAt(i, a, b, c, d, h, w) ==
  /\ h \in Seq(Byte) /\ Len(h) = 17
  /\ w \in Seq(Byte) /\ Len(w) >= 17 /\ w[1] = i
  /\ w[2] = a[1] /\ w[3] = a[2] /\ w[4] = a[3] /\ w[5] = a[4]
  /\ w[6] = b[1] /\ w[7] = b[2] /\ w[8] = b[3] /\ w[9] = b[4]
  /\ w[10] = c[1] /\ w[11] = c[2] /\ w[12] = c[3] /\ w[13] = c[4]
  /\ w[14] = d[1] /\ w[15] = d[2] /\ w[16] = d[3] /\ w[17] = d[4]

LEMMA HeaderLayout ==
  ASSUME NEW i \in Byte, NEW p \in Seq(Byte),
         NEW a \in Seq(Byte), NEW b \in Seq(Byte), NEW c \in Seq(Byte), NEW d \in Seq(Byte),
         Len(a) = 4, Len(b) = 4, Len(c) = 4, Len(d) = 4, NEW h, NEW w
  PROVE  h = <<i>> \o (a \o (b \o c) \o d) /\ w = h \o p => HeaderAt(i, a, b, c, d, h, w)
  <1>1. ASSUME h = <<i>> \o (a \o (b \o c) \o d), w = h \o p
        PROVE  /\ h \in Seq(Byte) /\ Len(h) = 17
               /\ w \in Seq(Byte) /\ Len(w) >= 17 /\ w[1] = i
               /\ w[2] = a[1] /\ w[3] = a[2] /\ w[4] = a[3] /\ w[5] = a[4]
               /\ w[6] = b[1] /\ w[7] = b[2] /\ w[8] = b[3] /\ w[9] = b[4]
               /\ w[10] = c[1] /\ w[11] = c[2] /\ w[12] = c[3] /\ w[13] = c[4]
               /\ w[14] = d[1] /\ w[15] = d[2] /\ w[16] = d[3] /\ w[17] = d[4]
    <2> DEFINE bc == b \o c
               abc == a \o bc
               f == abc \o d
    <2>h. h = <<i>> \o f /\ w = h \o p
      BY <1>1
    <2>0. <<i>> \in Seq(Byte) /\ Len(<<i>>) = 1 /\ <<i>>[1] = i
      OBVIOUS
    <2>1. bc \in Seq(Byte) /\ Len(bc) = Len(b) + Len(c)
          /\ (\A k \in 1 .. Len(b) : bc[k] = b[k]) /\ (\A k \in 1 .. Len(c) : bc[Len(b) + k] = c[k])
      <3>1. Joined(b, c)
        BY Joins
      <3> QED BY <3>1, Zenon DEF Joined
    <2> HIDE DEF bc
    <2>2. abc \in Seq(Byte) /\ Len(abc) = Len(a) + Len(bc)
          /\ (\A k \in 1 .. Len(a) : abc[k] = a[k])
          /\ (\A k \in 1 .. Len(bc) : abc[Len(a) + k] = bc[k])
      <3>1. Joined(a, bc)
        BY <2>1, Joins
      <3> QED BY <3>1, Zenon DEF Joined
    <2> HIDE DEF abc
    <2>3. f \in Seq(Byte) /\ Len(f) = Len(abc) + Len(d)
          /\ (\A k \in 1 .. Len(abc) : f[k] = abc[k])
          /\ (\A k \in 1 .. Len(d) : f[Len(abc) + k] = d[k])
      <3>1. Joined(abc, d)
        BY <2>2, Joins
      <3> QED BY <3>1, Zenon DEF Joined
    <2> HIDE DEF f
    <2>4. h \in Seq(Byte) /\ Len(h) = 1 + Len(f) /\ h[1] = i
          /\ (\A k \in 1 .. Len(f) : h[1 + k] = f[k])
      <3> DEFINE t == <<i>>
      <3>1. t \in Seq(Byte) /\ Len(t) = 1 /\ t[1] = i
        BY <2>0
      <3> HIDE DEF t
      <3>2. t \o f \in Seq(Byte) /\ Len(t \o f) = Len(t) + Len(f)
            /\ (\A k \in 1 .. Len(t) : (t \o f)[k] = t[k])
            /\ (\A k \in 1 .. Len(f) : (t \o f)[Len(t) + k] = f[k])
        <4>1. Joined(t, f)
          BY <2>3, <3>1, Joins
        <4> QED BY <4>1, Zenon DEF Joined
      <3>3. h = t \o f
        BY <2>h DEF t
      <3> QED BY <3>1, <3>2, <3>3
    <2>5. w \in Seq(Byte) /\ Len(w) = Len(h) + Len(p) /\ \A k \in 1 .. Len(h) : w[k] = h[k]
      BY <2>4, <2>h, Concat
    <2>l. Len(bc) = 8 /\ Len(abc) = 12 /\ Len(f) = 16 /\ Len(h) = 17 /\ Len(p) \in Nat
      BY <2>1, <2>2, <2>3, <2>4
    <2>6. ASSUME NEW k \in 1 .. 4
          PROVE  w[k + 1] = a[k] /\ w[k + 5] = b[k] /\ w[k + 9] = c[k] /\ w[k + 13] = d[k]
      <3>1. /\ w[1 + k] = h[1 + k] /\ w[1 + (4 + k)] = h[1 + (4 + k)]
            /\ w[1 + (8 + k)] = h[1 + (8 + k)] /\ w[1 + (12 + k)] = h[1 + (12 + k)]
        <4>1. \A j \in 1 .. 17 : w[j] = h[j]
          BY <2>5, <2>l
        <4>2. /\ 1 + k \in 1 .. 17 /\ 1 + (4 + k) \in 1 .. 17
              /\ 1 + (8 + k) \in 1 .. 17 /\ 1 + (12 + k) \in 1 .. 17
          OBVIOUS
        <4> QED BY <4>1, <4>2
      <3>2. /\ h[1 + k] = f[k] /\ h[1 + (4 + k)] = f[4 + k]
            /\ h[1 + (8 + k)] = f[8 + k] /\ h[1 + (12 + k)] = f[12 + k]
        <4>1. \A j \in 1 .. 16 : h[1 + j] = f[j]
          BY <2>4, <2>l
        <4>2. k \in 1 .. 16 /\ 4 + k \in 1 .. 16 /\ 8 + k \in 1 .. 16 /\ 12 + k \in 1 .. 16
          OBVIOUS
        <4> QED BY <4>1, <4>2
      <3>3. /\ f[k] = abc[k] /\ f[4 + k] = abc[4 + k]
            /\ f[8 + k] = abc[4 + (4 + k)] /\ f[12 + k] = d[k]
        <4>1. Len(abc) = 12 /\ Len(d) = 4 /\ 4 + (4 + k) = 8 + k
          BY <2>l
        <4>2. k \in 1 .. 12 /\ 4 + k \in 1 .. 12 /\ 8 + k \in 1 .. 12
          OBVIOUS
        <4>3. f[k] = abc[k] /\ f[4 + k] = abc[4 + k] /\ f[8 + k] = abc[8 + k]
          BY <2>3, <4>1, <4>2
        <4>4. f[12 + k] = d[k]
          BY <2>3, <4>1
        <4> QED BY <4>1, <4>3, <4>4
      <3>4. abc[k] = a[k] /\ abc[4 + k] = bc[k] /\ abc[4 + (4 + k)] = bc[4 + k]
        BY <2>2, <2>l
      <3>5. bc[k] = b[k] /\ bc[4 + k] = c[k]
        BY <2>1, <2>l
      <3>6. k + 1 = 1 + k /\ k + 5 = 1 + (4 + k) /\ k + 9 = 1 + (8 + k) /\ k + 13 = 1 + (12 + k)
        OBVIOUS
      <3> QED BY <3>1, <3>2, <3>3, <3>4, <3>5, <3>6
    <2>7. /\ w[1] = i /\ Len(w) >= 17
          /\ w[2] = a[1] /\ w[3] = a[2] /\ w[4] = a[3] /\ w[5] = a[4]
          /\ w[6] = b[1] /\ w[7] = b[2] /\ w[8] = b[3] /\ w[9] = b[4]
          /\ w[10] = c[1] /\ w[11] = c[2] /\ w[12] = c[3] /\ w[13] = c[4]
          /\ w[14] = d[1] /\ w[15] = d[2] /\ w[16] = d[3] /\ w[17] = d[4]
      BY <2>4, <2>5, <2>l, <2>6
    <2> QED BY <2>4, <2>5, <2>l, <2>7
  <1> QED BY <1>1 DEF HeaderAt

\* An audio header.
LEMMA HeaderBytes ==
  ASSUME NEW enum, NEW i \in Byte, i < Len(enum), Len(enum) \in Nat,
         variant(enum, enum[i + 1]) = i, enum[i + 1] = "AudioHeader",
         NEW h \in AudioMessageHeader, NEW p \in Seq(Byte)
  PROVE  LET v == audio_flat(h)
         IN /\ to_io(enum, v) \in Seq(Byte) /\ Len(to_io(enum, v)) = 17
            /\ deserialize(enum, to_io(enum, v) \o p) = {<<v, p>>}
  <1> DEFINE v == audio_flat(h)
             P == Base * Base * Base * Base
             n == h.stream_msg.byte_idx
             a == le4(h.stream_idx)
             b == le4(n % P)
             c == le4(n \div P)
             d == le4(h.stream_msg.n_bytes)
             s == <<i>> \o (a \o (b \o c) \o d)
             w == s \o p
  <1>1. h.stream_idx \in U32 /\ n \in U64 /\ h.stream_msg.n_bytes \in U32
    BY DEF AudioMessageHeader
  <1>2. v = <<"AudioHeader", h.stream_idx, n, h.stream_msg.n_bytes>>
    BY DEF audio_flat
  <1>3. n % P \in U32 /\ n \div P \in U32 /\ n = (n % P) + P * (n \div P) /\ le8(n) = b \o c
    BY <1>1, U64Bytes
  <1>4. to_io(enum, v) = s
    <2>1. v[1] = "AudioHeader" /\ v[2] = h.stream_idx /\ v[3] = n /\ v[4] = h.stream_msg.n_bytes
      BY <1>2
    <2> HIDE DEF v, n
    <2>2. fields(v) = le4(v[2]) \o le8(v[3]) \o le4(v[4])
      BY <2>1 DEF fields
    <2>3. fields(v) = a \o (b \o c) \o d
      BY <1>3, <2>1, <2>2
    <2>4. variant(enum, v[1]) = i
      BY <2>1
    <2> HIDE DEF a, b, c, d
    <2> QED BY <2>3, <2>4 DEF to_io
  <1>5. /\ a \in Seq(Byte) /\ b \in Seq(Byte) /\ c \in Seq(Byte) /\ d \in Seq(Byte)
        /\ Len(a) = 4 /\ Len(b) = 4 /\ Len(c) = 4 /\ Len(d) = 4
        /\ h.stream_idx = a[1] + Base * (a[2] + Base * (a[3] + Base * a[4]))
        /\ n % P = b[1] + Base * (b[2] + Base * (b[3] + Base * b[4]))
        /\ n \div P = c[1] + Base * (c[2] + Base * (c[3] + Base * c[4]))
        /\ h.stream_msg.n_bytes = d[1] + Base * (d[2] + Base * (d[3] + Base * d[4]))
    BY <1>1, <1>3, U32Bytes
  <1> HIDE DEF a, b, c, d, P, n
  <1>6. /\ s \in Seq(Byte) /\ Len(s) = 17
        /\ w \in Seq(Byte) /\ Len(w) >= 17 /\ w[1] = i
        /\ w[2] = a[1] /\ w[3] = a[2] /\ w[4] = a[3] /\ w[5] = a[4]
        /\ w[6] = b[1] /\ w[7] = b[2] /\ w[8] = b[3] /\ w[9] = b[4]
        /\ w[10] = c[1] /\ w[11] = c[2] /\ w[12] = c[3] /\ w[13] = c[4]
        /\ w[14] = d[1] /\ w[15] = d[2] /\ w[16] = d[3] /\ w[17] = d[4]
    <2>1. s = <<i>> \o (a \o (b \o c) \o d) /\ w = s \o p
      OBVIOUS
    <2> HIDE DEF s, w
    <2>2. /\ a \in Seq(Byte) /\ b \in Seq(Byte) /\ c \in Seq(Byte) /\ d \in Seq(Byte)
          /\ Len(a) = 4 /\ Len(b) = 4 /\ Len(c) = 4 /\ Len(d) = 4
      BY <1>5
    <2>3. HeaderAt(i, a, b, c, d, s, w)
      BY <2>1, <2>2, HeaderLayout
    <2> QED BY <2>3 DEF HeaderAt
  <1>7. finalize(w, 17) = p
    <2> HIDE DEF s
    <2>1. finalize(s \o p, Len(s)) = p
      BY <1>6, AfterPrefix
    <2> QED BY <1>6, <2>1
  <1> HIDE DEF s, w
  <1>8. from_le4(w, 2) = h.stream_idx /\ from_le4(w, 14) = h.stream_msg.n_bytes
    <2>1. /\ from_le4(w, 2) = w[2] + Base * (w[3] + Base * (w[4] + Base * w[5]))
          /\ from_le4(w, 14) = w[14] + Base * (w[15] + Base * (w[16] + Base * w[17]))
      BY DEF from_le4
    <2> QED BY <1>5, <1>6, <2>1, Zenon
  <1>9. from_le8(w, 6) = n
    <2>1. from_le4(w, 6) = n % P /\ from_le4(w, 10) = n \div P
      <3>1. /\ from_le4(w, 6) = w[6] + Base * (w[7] + Base * (w[8] + Base * w[9]))
            /\ from_le4(w, 10) = w[10] + Base * (w[11] + Base * (w[12] + Base * w[13]))
        BY DEF from_le4
      <3> QED BY <1>5, <1>6, <3>1, Zenon
    <2>2. from_le8(w, 6) = from_le4(w, 6) + P * from_le4(w, 6 + 4)
      BY DEF from_le8, P
    <2> QED BY <1>3, <2>1, <2>2
  <1>10. header_in(w) = {v}
    <2>1. ~(Len(w) < HeaderLen)
      BY <1>6 DEF HeaderLen
    <2> QED BY <1>2, <1>8, <1>9, <2>1 DEF header_in
  <1>11. deserialize(enum, w) = {<<v, p>>}
    <2>1. w # <<>> /\ w[1] < Len(enum) /\ enum[w[1] + 1] = "AudioHeader"
      BY <1>6
    <2>2. deserialize(enum, w) = {<<x, finalize(w, HeaderLen)>> : x \in header_in(w)}
      BY <2>1 DEF deserialize
    <2> HIDE DEF v
    <2> QED BY <1>7, <1>10, <2>2 DEF HeaderLen
  <1> QED BY <1>4, <1>6, <1>11 DEF w

LEMMA Part ==
  ASSUME NEW w \in Seq(Byte), NEW m \in Nat \ {0}, NEW n \in Nat, m <= n + 1, n <= Len(w)
  PROVE  /\ SubSeq(w, m, n) \in Seq(Byte)
         /\ Len(SubSeq(w, m, n)) = n - m + 1
         /\ \A k \in 1 .. n - m + 1 : SubSeq(w, m, n)[k] = w[m - 1 + k]
  OBVIOUS

\* A list whose length is at place j.
LEMMA ListAt ==
  ASSUME NEW w \in Seq(Byte), NEW x \in Seq(Byte \ {0}), NEW j \in Nat \ {0},
         Len(x) \in ShortVarint,
         j + Len(x) <= Len(w), w[j] = Len(x), \A k \in 1 .. Len(x) : w[j + k] = x[k]
  PROVE  list_at(w, j) = {x}
  <1>1. Len(x) \in Nat /\ Len(w) \in Nat
    OBVIOUS
  <1>2. \A k \in j + 1 .. j + w[j] : w[k] # 0
    <2> SUFFICES ASSUME NEW k \in j + 1 .. j + Len(x) PROVE w[k] # 0
      OBVIOUS
    <2>1. k - j \in 1 .. Len(x) /\ j + (k - j) = k
      BY <1>1
    <2>2. w[k] = x[k - j]
      BY <2>1
    <2> QED BY <2>1, <2>2
  <1>3. SubSeq(w, j + 1, j + w[j]) = x
    <2> DEFINE t == SubSeq(w, j + 1, j + Len(x))
    <2> DEFINE l == j + Len(x)
    <2>0. l \in Nat /\ l <= Len(w) /\ j + 1 >= 1 /\ l - (j + 1) + 1 = Len(x)
      BY <1>1
    <2>1. /\ SubSeq(w, j + 1, l) \in Seq(Byte)
          /\ Len(SubSeq(w, j + 1, l)) = Len(x)
          /\ \A k \in 1 .. Len(x) : SubSeq(w, j + 1, l)[k] = w[j + k]
      <3> HIDE DEF l
      <3> DEFINE m == j + 1
      <3>1. m \in Nat \ {0} /\ m <= l + 1 /\ m - 1 = j /\ l - m + 1 = Len(x)
        BY <1>1, <2>0
      <3> HIDE DEF m
      <3>2. /\ SubSeq(w, m, l) \in Seq(Byte)
            /\ Len(SubSeq(w, m, l)) = l - m + 1
            /\ \A k \in 1 .. l - m + 1 : SubSeq(w, m, l)[k] = w[m - 1 + k]
        BY <2>0, <3>1, Part
      <3> DEFINE z == SubSeq(w, m, l)
      <3> HIDE DEF z
      <3>3. z \in Seq(Byte) /\ Len(z) = Len(x) /\ \A k \in 1 .. Len(x) : z[k] = w[j + k]
        BY <3>1, <3>2 DEF z
      <3> QED BY <3>3 DEF z, m
    <2> HIDE DEF t
    <2>2. t \in Seq(Byte) /\ Len(t) = Len(x)
      BY <2>1 DEF t, l
    <2>3. \A k \in 1 .. Len(x) : t[k] = x[k]
      BY <2>1 DEF t, l
    <2>4. t = x
      <3>1. t = [k \in 1 .. Len(t) |-> t[k]] /\ x = [k \in 1 .. Len(x) |-> x[k]]
        BY <2>2
      <3> QED BY <2>2, <2>3, <3>1
    <2> QED BY <2>4 DEF t
  <1>4. j <= Len(w) /\ w[j] \in ShortVarint /\ j + w[j] <= Len(w)
    BY <1>1
  <1> QED BY <1>2, <1>3, <1>4, Zenon DEF list_at

\* Where the bytes of a Connect are.
ListsAt(x, y, h, w) ==
  /\ h \in Seq(Byte) /\ Len(h) = 3 + Len(x) + Len(y)
  /\ w \in Seq(Byte) /\ Len(w) >= Len(h) /\ w[1] = 0
  /\ w[2] = Len(x) /\ \A k \in 1 .. Len(x) : w[2 + k] = x[k]
  /\ w[3 + Len(x)] = Len(y) /\ \A k \in 1 .. Len(y) : w[3 + Len(x) + k] = y[k]

LEMMA ListsLayout ==
  ASSUME NEW x \in Seq(Byte), NEW y \in Seq(Byte), NEW p \in Seq(Byte),
         Len(x) \in Byte, Len(y) \in Byte, NEW h, NEW w
  PROVE  h = << 0 >> \o (<<Len(x)>> \o x \o <<Len(y)>> \o y) /\ w = h \o p => ListsAt(x, y, h, w)
  <1>1. ASSUME h = << 0 >> \o (<<Len(x)>> \o x \o <<Len(y)>> \o y), w = h \o p
        PROVE  ListsAt(x, y, h, w)
    <2> DEFINE a == <<Len(x)>> \o x
               b == a \o <<Len(y)>>
               c == b \o y
    <2>h. h = << 0 >> \o c /\ w = h \o p
      BY <1>1
    <2>0. /\ 0 \in Byte /\ Len(x) \in Nat /\ Len(y) \in Nat
          /\ << 0 >> \in Seq(Byte) /\ Len(<< 0 >>) = 1 /\ << 0 >>[1] = 0
          /\ <<Len(x)>> \in Seq(Byte) /\ Len(<<Len(x)>>) = 1 /\ <<Len(x)>>[1] = Len(x)
          /\ <<Len(y)>> \in Seq(Byte) /\ Len(<<Len(y)>>) = 1 /\ <<Len(y)>>[1] = Len(y)
      BY WireAssumption DEF Byte
    <2>1. /\ a \in Seq(Byte) /\ Len(a) = 1 + Len(x) /\ a[1] = Len(x)
          /\ \A k \in 1 .. Len(x) : a[1 + k] = x[k]
      BY <2>0, Concat
    <2> HIDE DEF a
    <2>2. /\ b \in Seq(Byte) /\ Len(b) = 2 + Len(x)
          /\ \A k \in 1 .. 1 + Len(x) : b[k] = a[k]
          /\ b[2 + Len(x)] = Len(y)
      <3>1. /\ b \in Seq(Byte) /\ Len(b) = Len(a) + 1
            /\ \A k \in 1 .. Len(a) : b[k] = a[k]
            /\ b[Len(a) + 1] = Len(y)
        BY <2>0, <2>1, Concat
      <3> HIDE DEF b
      <3> QED BY <2>0, <2>1, <3>1
    <2> HIDE DEF b
    <2>3. /\ c \in Seq(Byte) /\ Len(c) = 2 + Len(x) + Len(y)
          /\ \A k \in 1 .. 2 + Len(x) : c[k] = b[k]
          /\ \A k \in 1 .. Len(y) : c[2 + Len(x) + k] = y[k]
      <3>1. /\ c \in Seq(Byte) /\ Len(c) = Len(b) + Len(y)
            /\ \A k \in 1 .. Len(b) : c[k] = b[k]
            /\ \A k \in 1 .. Len(y) : c[Len(b) + k] = y[k]
        BY <2>2, Concat
      <3> HIDE DEF c
      <3> QED BY <2>0, <2>2, <3>1
    <2> HIDE DEF c
    <2>4. /\ h \in Seq(Byte) /\ Len(h) = 3 + Len(x) + Len(y) /\ h[1] = 0
          /\ \A k \in 1 .. 2 + Len(x) + Len(y) : h[1 + k] = c[k]
      <3> DEFINE g == << 0 >> \o c
      <3>1. /\ g \in Seq(Byte) /\ Len(g) = Len(<< 0 >>) + Len(c)
            /\ \A k \in 1 .. Len(<< 0 >>) : g[k] = << 0 >>[k]
            /\ \A k \in 1 .. Len(c) : g[Len(<< 0 >>) + k] = c[k]
        BY <2>0, <2>3, Concat
      <3>2. h = g
        BY <2>h
      <3> HIDE DEF g
      <3> QED BY <2>0, <2>3, <3>1, <3>2
    <2>5. /\ w \in Seq(Byte) /\ Len(w) = Len(h) + Len(p)
          /\ \A k \in 1 .. Len(h) : w[k] = h[k]
      BY <2>h, <2>4, Concat
    <2>6. \A k \in 1 .. 2 + Len(x) + Len(y) : w[1 + k] = c[k]
      <3> SUFFICES ASSUME NEW k \in 1 .. 2 + Len(x) + Len(y) PROVE w[1 + k] = c[k]
        OBVIOUS
      <3>1. 1 + k \in 1 .. Len(h)
        BY <2>0, <2>4
      <3>2. w[1 + k] = h[1 + k]
        BY <2>5, <3>1
      <3>3. h[1 + k] = c[k]
        BY <2>4
      <3> QED BY <3>2, <3>3
    <2>7. w[2] = Len(x) /\ w[3 + Len(x)] = Len(y)
      <3>1. c[1] = b[1] /\ b[1] = a[1] /\ c[2 + Len(x)] = b[2 + Len(x)]
        BY <2>0, <2>2, <2>3
      <3>2. w[1 + 1] = c[1] /\ w[1 + (2 + Len(x))] = c[2 + Len(x)]
        BY <2>0, <2>6
      <3> QED BY <2>0, <2>1, <2>2, <3>1, <3>2
    <2>8. ASSUME NEW k \in 1 .. Len(x) PROVE w[2 + k] = x[k]
      <3>1. w[1 + (1 + k)] = c[1 + k]
        BY <2>0, <2>6
      <3>2. c[1 + k] = b[1 + k] /\ b[1 + k] = a[1 + k] /\ a[1 + k] = x[k]
        BY <2>0, <2>1, <2>2, <2>3
      <3> QED BY <2>0, <3>1, <3>2
    <2>9. ASSUME NEW k \in 1 .. Len(y) PROVE w[3 + Len(x) + k] = y[k]
      <3>1. w[1 + (2 + Len(x) + k)] = c[2 + Len(x) + k]
        BY <2>0, <2>6
      <3> QED BY <2>0, <2>3, <3>1
    <2>10. Len(w) >= Len(h) /\ w[1] = 0
      BY <2>0, <2>4, <2>5
    <2> QED BY <2>4, <2>5, <2>7, <2>8, <2>9, <2>10 DEF ListsAt
  <1> QED BY <1>1

\* A Connect, whose variant is the first one.
LEMMA ConnectBytes ==
  ASSUME NEW x \in Seq(Byte \ {0}), NEW y \in Seq(Byte \ {0}),
         Len(x) \in ShortVarint, Len(y) \in ShortVarint,
         NEW p \in Seq(Byte)
  PROVE  LET v == <<"Connect", x, y>>
             s == to_io(ServerMessageFlat, v)
         IN s \in Seq(Byte) /\ deserialize(ServerMessageFlat, s \o p) = {<<v, p>>}
  <1> DEFINE v == <<"Connect", x, y>>
             s == << 0 >> \o (<<Len(x)>> \o x \o <<Len(y)>> \o y)
             w == s \o p
  <1>0. /\ Len(x) \in Nat /\ Len(y) \in Nat /\ Len(x) \in Byte /\ Len(y) \in Byte
        /\ x \in Seq(Byte) /\ y \in Seq(Byte)
    BY DEF ShortVarint
  <1>1. to_io(ServerMessageFlat, v) = s
    <2>1. variant(ServerMessageFlat, "Connect") = 0
      <3>1. ServerMessageFlat[0 + 1] = "Connect"
        BY DEF ServerMessageFlat
      <3> QED BY <3>1, ServerVariants
    <2>2. fields(v) = <<Len(x)>> \o x \o <<Len(y)>> \o y
      BY DEF fields
    <2>3. v[1] = "Connect"
      OBVIOUS
    <2> QED BY <2>1, <2>2, <2>3 DEF to_io
  <1>2. ListsAt(x, y, s, w)
    <2>1. s = << 0 >> \o (<<Len(x)>> \o x \o <<Len(y)>> \o y) /\ w = s \o p
      OBVIOUS
    <2> HIDE DEF s, w
    <2> QED BY <1>0, <2>1, ListsLayout
  <1>3. finalize(w, Len(s)) = p
    <2>1. s \in Seq(Byte)
      BY <1>2 DEF ListsAt
    <2> HIDE DEF s
    <2> QED BY <2>1, AfterPrefix
  <1> HIDE DEF s, w
  <1>4. list_at(w, 2) = {x} /\ list_at(w, 3 + Len(x)) = {y}
    <2>1. /\ Len(s) \in Nat /\ Len(w) \in Nat
          /\ 2 + Len(x) <= Len(w) /\ 3 + Len(x) + Len(y) <= Len(w)
      BY <1>0, <1>2 DEF ListsAt
    <2>2. list_at(w, 2) = {x}
      <3> DEFINE j == 2
      <3>1. /\ j \in Nat \ {0} /\ j + Len(x) <= Len(w) /\ w[j] = Len(x) /\ w \in Seq(Byte)
            /\ \A k \in 1 .. Len(x) : w[j + k] = x[k]
        BY <1>2, <2>1 DEF ListsAt
      <3> HIDE DEF j
      <3>2. list_at(w, j) = {x}
        BY <3>1, ListAt
      <3> QED BY <3>2 DEF j
    <2> DEFINE j == 3 + Len(x)
    <2>3. /\ j \in Nat \ {0} /\ j + Len(y) <= Len(w) /\ w[j] = Len(y) /\ w \in Seq(Byte)
          /\ \A k \in 1 .. Len(y) : w[j + k] = y[k]
      BY <1>0, <1>2, <2>1 DEF ListsAt
    <2> HIDE DEF j
    <2>4. list_at(w, j) = {y}
      BY <2>3, ListAt
    <2> QED BY <2>2, <2>4 DEF j
  <1>5. deserialize(ServerMessageFlat, w) = {<<v, p>>}
    <2>1. w # <<>> /\ w[1] < Len(ServerMessageFlat) /\ w[1] = 0
      BY <1>0, <1>2, ServerVariants DEF ListsAt
    <2>2. ServerMessageFlat[w[1] + 1] = "Connect"
      BY <2>1 DEF ServerMessageFlat
    <2> DEFINE F(ins) == {<<<<"Connect", ins, outs>>, finalize(w, 3 + Len(ins) + Len(outs))>> :
                            outs \in list_at(w, 3 + Len(ins))}
    <2>3. deserialize(ServerMessageFlat, w) = UNION {F(ins) : ins \in list_at(w, 2)}
      BY <2>1, <2>2 DEF deserialize
    <2>4. Len(s) = 3 + Len(x) + Len(y)
      BY <1>2 DEF ListsAt
    <2>5. F(x) = {<<v, p>>}
      BY <1>3, <1>4, <2>4
    <2> HIDE DEF F, v
    <2> QED BY <1>4, <2>3, <2>5
  <1>6. s \in Seq(Byte)
    BY <1>2 DEF ListsAt
  <1> QED BY <1>1, <1>5, <1>6 DEF w

-----------------------------------------------------------------------------
(* The conversions between nested and flat messages *)

LEMMA AudioConversion ==
  ASSUME NEW h \in AudioMessageHeader
  PROVE  audio_from_flat(audio_flat(h)) = audio(h)
  <1>1. h = [stream_idx |-> h.stream_idx,
             stream_msg |-> [byte_idx |-> h.stream_msg.byte_idx,
                             n_bytes |-> h.stream_msg.n_bytes]]
    BY DEF AudioMessageHeader
  <1> QED BY <1>1 DEF audio_from_flat, audio_flat

ClientFlatIs(m, tag) == client_flat(m) = <<tag>> /\ client_from_flat(<<tag>>) = m

LEMMA ClientConversions ==
  /\ ClientFlatIs(<<"Discovery">>, "Discovery")
  /\ ClientFlatIs(CONN_SUCCESS, "ConnectionSuccess")
  /\ ClientFlatIs(CONN_FAILED, "ConnectionFailed")
  /\ ClientFlatIs(CONN_REFUSED, "ConnectionRefused")
  /\ ClientFlatIs(START_IO, "StartIO")
  /\ ClientFlatIs(STOP_IO, "StopIO")
  /\ ClientFlatIs(<<"Disconnect">>, "Disconnect")
  /\ ClientFlatIs(HEARTBEAT, "Heartbeat")
  /\ \A h \in AudioMessageHeader :
       client_flat(audio(h)) = audio_flat(h) /\ client_from_flat(audio_flat(h)) = audio(h)
  <1>1. ClientFlatIs(<<"Discovery">>, "Discovery")
    BY DEF ClientFlatIs, client_flat, client_from_flat
  <1>2. ClientFlatIs(CONN_SUCCESS, "ConnectionSuccess")
    BY DEF ClientFlatIs, client_flat, client_from_flat, CONN_SUCCESS
  <1>3. ClientFlatIs(CONN_FAILED, "ConnectionFailed")
    BY DEF ClientFlatIs, client_flat, client_from_flat, CONN_FAILED
  <1>4. ClientFlatIs(CONN_REFUSED, "ConnectionRefused")
    BY DEF ClientFlatIs, client_flat, client_from_flat, CONN_REFUSED
  <1>5. ClientFlatIs(START_IO, "StartIO")
    BY DEF ClientFlatIs, client_flat, client_from_flat, START_IO
  <1>6. ClientFlatIs(STOP_IO, "StopIO")
    BY DEF ClientFlatIs, client_flat, client_from_flat, STOP_IO
  <1>7. ClientFlatIs(<<"Disconnect">>, "Disconnect")
    BY DEF ClientFlatIs, client_flat, client_from_flat
  <1>8. ClientFlatIs(HEARTBEAT, "Heartbeat")
    BY DEF ClientFlatIs, client_flat, client_from_flat, HEARTBEAT
  <1>9. ASSUME NEW h \in AudioMessageHeader
        PROVE  client_flat(audio(h)) = audio_flat(h) /\ client_from_flat(audio_flat(h)) = audio(h)
    <2>1. client_flat(audio(h)) = audio_flat(h)
      BY DEF client_flat, audio
    <2>2. audio_flat(h)[1] = "AudioHeader"
      BY DEF audio_flat
    <2>3. client_from_flat(audio_flat(h)) = audio_from_flat(audio_flat(h))
      BY <2>2 DEF client_from_flat
    <2> QED BY <2>1, <2>3, AudioConversion
  <1> QED BY <1>1, <1>2, <1>3, <1>4, <1>5, <1>6, <1>7, <1>8, <1>9

ServerFlatIs(m, tag) == server_flat(m) = <<tag>> /\ server_from_flat(<<tag>>) = m

LEMMA ServerConversions ==
  /\ ServerFlatIs(START_IO_FAILED, "StartIOFailed")
  /\ ServerFlatIs(START_IO_REFUSED, "StartIORefused")
  /\ ServerFlatIs(START_IO_OK, "StartIOSuccess")
  /\ ServerFlatIs(STOP_IO_FAILED, "StopIOFailed")
  /\ ServerFlatIs(STOP_IO_REFUSED, "StopIORefused")
  /\ ServerFlatIs(STOP_IO_OK, "StopIOSuccess")
  /\ ServerFlatIs(<<"Disconnect">>, "Disconnect")
  /\ ServerFlatIs(HEARTBEAT, "Heartbeat")
  /\ \A h \in AudioMessageHeader :
       server_flat(audio(h)) = audio_flat(h) /\ server_from_flat(audio_flat(h)) = audio(h)
  <1>1. ServerFlatIs(START_IO_FAILED, "StartIOFailed")
    BY DEF ServerFlatIs, server_flat, server_from_flat, START_IO_FAILED
  <1>2. ServerFlatIs(START_IO_REFUSED, "StartIORefused")
    BY DEF ServerFlatIs, server_flat, server_from_flat, START_IO_REFUSED
  <1>3. ServerFlatIs(START_IO_OK, "StartIOSuccess")
    BY DEF ServerFlatIs, server_flat, server_from_flat, START_IO_OK
  <1>4. ServerFlatIs(STOP_IO_FAILED, "StopIOFailed")
    BY DEF ServerFlatIs, server_flat, server_from_flat, STOP_IO_FAILED
  <1>5. ServerFlatIs(STOP_IO_REFUSED, "StopIORefused")
    BY DEF ServerFlatIs, server_flat, server_from_flat, STOP_IO_REFUSED
  <1>6. ServerFlatIs(STOP_IO_OK, "StopIOSuccess")
    BY DEF ServerFlatIs, server_flat, server_from_flat, STOP_IO_OK
  <1>7. ServerFlatIs(<<"Disconnect">>, "Disconnect")
    BY DEF ServerFlatIs, server_flat, server_from_flat
  <1>8. ServerFlatIs(HEARTBEAT, "Heartbeat")
    BY DEF ServerFlatIs, server_flat, server_from_flat, HEARTBEAT
  <1>9. ASSUME NEW h \in AudioMessageHeader
        PROVE  server_flat(audio(h)) = audio_flat(h) /\ server_from_flat(audio_flat(h)) = audio(h)
    <2>1. server_flat(audio(h)) = audio_flat(h)
      BY DEF server_flat, audio
    <2>2. audio_flat(h)[1] = "AudioHeader"
      BY DEF audio_flat
    <2>3. server_from_flat(audio_flat(h)) = audio_from_flat(audio_flat(h))
      BY <2>2 DEF server_from_flat
    <2> QED BY <2>1, <2>3, AudioConversion
  <1> QED BY <1>1, <1>2, <1>3, <1>4, <1>5, <1>6, <1>7, <1>8, <1>9

-----------------------------------------------------------------------------
(* Encoding and decoding *)

\* The flat message v, with the bytes p after it, is read back.
Carried(enum, v, p) ==
  to_io(enum, v) \in Seq(Byte) /\ deserialize(enum, to_io(enum, v) \o p) = {<<v, p>>}

LEMMA ClientFlatCarried ==
  ASSUME NEW p \in Seq(Byte)
  PROVE  /\ \A t \in {"Discovery", "ConnectionSuccess", "ConnectionFailed", "ConnectionRefused",
                         "StartIO", "StopIO", "Disconnect", "Heartbeat"} :
               Carried(ClientMessageFlat, <<t>>, p)
         /\ \A h \in AudioMessageHeader : Carried(ClientMessageFlat, audio_flat(h), p)
  <1>1. ASSUME NEW i \in 0 .. 8
        PROVE  i \in Byte /\ i < Len(ClientMessageFlat) /\ Len(ClientMessageFlat) \in Nat
    BY WireAssumption, ClientVariants DEF Byte
  <1>2. ASSUME NEW i \in 0 .. 8, i \notin {6}
        PROVE  Carried(ClientMessageFlat, <<ClientMessageFlat[i + 1]>>, p)
    <2> DEFINE e == ClientMessageFlat
    <2>1. i \in Byte /\ i < Len(e) /\ Len(e) \in Nat /\ variant(e, e[i + 1]) = i
      BY <1>1, ClientVariants
    <2>2. e[i + 1] \notin {"AudioHeader", "Connect"}
      BY <1>2 DEF ClientMessageFlat
    <2> HIDE DEF e
    <2>3. to_io(e, <<e[i + 1]>>) = <<i>>
          /\ deserialize(e, to_io(e, <<e[i + 1]>>) \o p) = {<<<<e[i + 1]>>, p>>}
      BY <2>1, <2>2, SimpleBytes
    <2>4. <<i>> \in Seq(Byte)
      BY <2>1
    <2>5. Carried(e, <<e[i + 1]>>, p)
      BY <2>3, <2>4, Zenon DEF Carried
    <2> QED BY <2>5 DEF e
  <1>3. ASSUME NEW h \in AudioMessageHeader PROVE Carried(ClientMessageFlat, audio_flat(h), p)
    <2> DEFINE e == ClientMessageFlat
               i == 6
    <2>1. i \in Byte /\ i < Len(e) /\ Len(e) \in Nat /\ variant(e, e[i + 1]) = i
      BY <1>1, ClientVariants
    <2>2. e[i + 1] = "AudioHeader"
      BY DEF ClientMessageFlat
    <2> HIDE DEF e, i
    <2> QED
      <3>1. Carried(e, audio_flat(h), p)
        BY <2>1, <2>2, HeaderBytes DEF Carried
      <3> QED BY <3>1 DEF e
  <1>4. ASSUME NEW t \in {"Discovery", "ConnectionSuccess", "ConnectionFailed", "ConnectionRefused",
                         "StartIO", "StopIO", "Disconnect", "Heartbeat"}
        PROVE  Carried(ClientMessageFlat, <<t>>, p)
    <2>1. PICK i \in 0 .. 8 : i \notin {6} /\ ClientMessageFlat[i + 1] = t
      <3>1. /\ ClientMessageFlat[0 + 1] = "Discovery"
            /\ ClientMessageFlat[1 + 1] = "ConnectionSuccess"
            /\ ClientMessageFlat[2 + 1] = "ConnectionFailed"
            /\ ClientMessageFlat[3 + 1] = "ConnectionRefused"
            /\ ClientMessageFlat[4 + 1] = "StartIO"
            /\ ClientMessageFlat[5 + 1] = "StopIO"
            /\ ClientMessageFlat[7 + 1] = "Disconnect"
            /\ ClientMessageFlat[8 + 1] = "Heartbeat"
        BY DEF ClientMessageFlat
      <3> QED BY <3>1
    <2> QED BY <1>2, <2>1
  <1> QED BY <1>3, <1>4

\* What the client encodes, with any bytes after it, decodes to the message and these bytes.
THEOREM RoundTripClient ==
  ASSUME NEW m \in Client, NEW p \in Seq(Byte)
  PROVE  /\ client_message_encode(m) \in Seq(Byte)
         /\ client_message_decode(client_message_encode(m) \o p) = {<<m, p>>}
  <1> DEFINE v == client_flat(m)
  <1>1. Carried(ClientMessageFlat, v, p) /\ client_from_flat(v) = m
    <2>1. m \in {<<"Discovery">>, CONN_SUCCESS, CONN_FAILED, CONN_REFUSED,
                  START_IO, STOP_IO, <<"Disconnect">>, HEARTBEAT}
          \/ (\E h \in AudioMessageHeader : m = audio(h))
      BY WireAssumption DEF Client, ClientSimple, IOState, Error,
           CONN_SUCCESS, CONN_FAILED, CONN_REFUSED, START_IO, STOP_IO, HEARTBEAT
    <2>2. CASE m \in {<<"Discovery">>, CONN_SUCCESS, CONN_FAILED, CONN_REFUSED,
                  START_IO, STOP_IO, <<"Disconnect">>, HEARTBEAT}
      <3>1. \E t \in {"Discovery", "ConnectionSuccess", "ConnectionFailed", "ConnectionRefused",
               "StartIO", "StopIO", "Disconnect", "Heartbeat"} :
              v = <<t>> /\ client_from_flat(<<t>>) = m
        BY <2>2, ClientConversions DEF ClientFlatIs
      <3> QED BY <3>1, ClientFlatCarried
    <2>3. ASSUME NEW h \in AudioMessageHeader, m = audio(h)
          PROVE  Carried(ClientMessageFlat, v, p) /\ client_from_flat(v) = m
      BY <2>3, ClientConversions, ClientFlatCarried
    <2> HIDE DEF v
    <2> QED BY <2>1, <2>2, <2>3
  <1> HIDE DEF v
  <1>2. client_message_encode(m) = to_io(ClientMessageFlat, v)
    BY DEF client_message_encode, v
  <1>3. client_message_decode(to_io(ClientMessageFlat, v) \o p) = {<<client_from_flat(v), p>>}
    <2> DEFINE r == <<v, p>>
    <2>1. deserialize(ClientMessageFlat, to_io(ClientMessageFlat, v) \o p) = {r}
      BY <1>1 DEF Carried
    <2>2. r[1] = v /\ r[2] = p
      OBVIOUS
    <2> HIDE DEF r
    <2> QED BY <2>1, <2>2 DEF client_message_decode
  <1> QED BY <1>1, <1>2, <1>3 DEF Carried

LEMMA ServerFlatCarried ==
  ASSUME NEW p \in Seq(Byte)
  PROVE  /\ \A t \in {"StartIOFailed", "StartIORefused", "StartIOSuccess", "StopIOFailed",
                         "StopIORefused", "StopIOSuccess", "Disconnect", "Heartbeat"} :
               Carried(ServerMessageFlat, <<t>>, p)
         /\ \A h \in AudioMessageHeader : Carried(ServerMessageFlat, audio_flat(h), p)
  <1>1. ASSUME NEW i \in 0 .. 9
        PROVE  i \in Byte /\ i < Len(ServerMessageFlat) /\ Len(ServerMessageFlat) \in Nat
    BY WireAssumption, ServerVariants DEF Byte
  <1>2. ASSUME NEW i \in 0 .. 9, i \notin {0, 7}
        PROVE  Carried(ServerMessageFlat, <<ServerMessageFlat[i + 1]>>, p)
    <2> DEFINE e == ServerMessageFlat
    <2>1. i \in Byte /\ i < Len(e) /\ Len(e) \in Nat /\ variant(e, e[i + 1]) = i
      BY <1>1, ServerVariants
    <2>2. e[i + 1] \notin {"AudioHeader", "Connect"}
      BY <1>2 DEF ServerMessageFlat
    <2> HIDE DEF e
    <2>3. to_io(e, <<e[i + 1]>>) = <<i>>
          /\ deserialize(e, to_io(e, <<e[i + 1]>>) \o p) = {<<<<e[i + 1]>>, p>>}
      BY <2>1, <2>2, SimpleBytes
    <2>4. <<i>> \in Seq(Byte)
      BY <2>1
    <2>5. Carried(e, <<e[i + 1]>>, p)
      BY <2>3, <2>4, Zenon DEF Carried
    <2> QED BY <2>5 DEF e
  <1>3. ASSUME NEW h \in AudioMessageHeader PROVE Carried(ServerMessageFlat, audio_flat(h), p)
    <2> DEFINE e == ServerMessageFlat
               i == 7
    <2>1. i \in Byte /\ i < Len(e) /\ Len(e) \in Nat /\ variant(e, e[i + 1]) = i
      BY <1>1, ServerVariants
    <2>2. e[i + 1] = "AudioHeader"
      BY DEF ServerMessageFlat
    <2> HIDE DEF e, i
    <2> QED
      <3>1. Carried(e, audio_flat(h), p)
        BY <2>1, <2>2, HeaderBytes DEF Carried
      <3> QED BY <3>1 DEF e
  <1>4. ASSUME NEW t \in {"StartIOFailed", "StartIORefused", "StartIOSuccess", "StopIOFailed",
                         "StopIORefused", "StopIOSuccess", "Disconnect", "Heartbeat"}
        PROVE  Carried(ServerMessageFlat, <<t>>, p)
    <2>1. PICK i \in 0 .. 9 : i \notin {0, 7} /\ ServerMessageFlat[i + 1] = t
      <3>1. /\ ServerMessageFlat[1 + 1] = "StartIOFailed"
            /\ ServerMessageFlat[2 + 1] = "StartIORefused"
            /\ ServerMessageFlat[3 + 1] = "StartIOSuccess"
            /\ ServerMessageFlat[4 + 1] = "StopIOFailed"
            /\ ServerMessageFlat[5 + 1] = "StopIORefused"
            /\ ServerMessageFlat[6 + 1] = "StopIOSuccess"
            /\ ServerMessageFlat[8 + 1] = "Disconnect"
            /\ ServerMessageFlat[9 + 1] = "Heartbeat"
        BY DEF ServerMessageFlat
      <3> QED BY <3>1
    <2> QED BY <1>2, <2>1
  <1> QED BY <1>3, <1>4

\* What the server encodes, with any bytes after it, decodes to the message and these bytes.
THEOREM RoundTripServer ==
  ASSUME NEW m \in Server, NEW p \in Seq(Byte)
  PROVE  /\ server_message_encode(m) \in Seq(Byte)
         /\ server_message_decode(server_message_encode(m) \o p) = {<<m, p>>}
  <1> DEFINE v == server_flat(m)
  <1>1. Carried(ServerMessageFlat, v, p) /\ server_from_flat(v) = m
    <2>1. m \in {START_IO_FAILED, START_IO_REFUSED, START_IO_OK,
                  STOP_IO_FAILED, STOP_IO_REFUSED, STOP_IO_OK, <<"Disconnect">>, HEARTBEAT}
          \/ (\E h \in AudioMessageHeader : m = audio(h))
          \/ (\E x \in FormatLists, y \in FormatLists : m = <<"Connect", x, y>>)
      BY WireAssumption DEF Server, ServerSimple, IOState, Error,
           START_IO_FAILED, START_IO_REFUSED, START_IO_OK,
                  STOP_IO_FAILED, STOP_IO_REFUSED, STOP_IO_OK, HEARTBEAT
    <2>2. CASE m \in {START_IO_FAILED, START_IO_REFUSED, START_IO_OK,
                  STOP_IO_FAILED, STOP_IO_REFUSED, STOP_IO_OK, <<"Disconnect">>, HEARTBEAT}
      <3>1. \E t \in {"StartIOFailed", "StartIORefused", "StartIOSuccess", "StopIOFailed",
               "StopIORefused", "StopIOSuccess", "Disconnect", "Heartbeat"} :
              v = <<t>> /\ server_from_flat(<<t>>) = m
        BY <2>2, ServerConversions DEF ServerFlatIs
      <3> QED BY <3>1, ServerFlatCarried
    <2>3. ASSUME NEW h \in AudioMessageHeader, m = audio(h)
          PROVE  Carried(ServerMessageFlat, v, p) /\ server_from_flat(v) = m
      BY <2>3, ServerConversions, ServerFlatCarried
    <2>4. ASSUME NEW x \in FormatLists, NEW y \in FormatLists, m = <<"Connect", x, y>>
          PROVE  Carried(ServerMessageFlat, v, p) /\ server_from_flat(v) = m
      <3>1. v = <<"Connect", x, y>> /\ server_from_flat(<<"Connect", x, y>>) = m
        BY <2>4 DEF server_flat, server_from_flat
      <3>2. /\ x \in Seq(Byte \ {0}) /\ y \in Seq(Byte \ {0})
            /\ Len(x) \in ShortVarint /\ Len(y) \in ShortVarint
        BY WireAssumption
      <3>3. Carried(ServerMessageFlat, <<"Connect", x, y>>, p)
        BY <3>2, ConnectBytes DEF Carried
      <3> QED BY <3>1, <3>3, Zenon
    <2> HIDE DEF v
    <2> QED BY <2>1, <2>2, <2>3, <2>4
  <1> HIDE DEF v
  <1>2. server_message_encode(m) = to_io(ServerMessageFlat, v)
    BY DEF server_message_encode, v
  <1>3. server_message_decode(to_io(ServerMessageFlat, v) \o p) = {<<server_from_flat(v), p>>}
    <2> DEFINE r == <<v, p>>
    <2>1. deserialize(ServerMessageFlat, to_io(ServerMessageFlat, v) \o p) = {r}
      BY <1>1 DEF Carried
    <2>2. r[1] = v /\ r[2] = p
      OBVIOUS
    <2> HIDE DEF r
    <2> QED BY <2>1, <2>2 DEF server_message_decode
  <1> QED BY <1>1, <1>2, <1>3 DEF Carried

-----------------------------------------------------------------------------
(* The sockets *)

Blank(bytes) == \A k \in 1 .. Len(bytes) : bytes[k] = 0

\* Datagrams that a side may receive: one that its peer has made by encoding a message
\* decodes to what is meant, and one that send_msg has made is blank.
Sound(s, d) ==
  /\ d.by = "packet" => decode(s, d.bytes) = d.meant
  /\ d.by = "send_msg" => Blank(d.bytes)

Received(s) ==
  {d \in [by : {"packet", "send_msg", "foreign"}, bytes : Seq(Byte),
          meant : SUBSET (Messages(peer(s)) \X Seq(Byte))] : Sound(s, d)}

TransportInv ==
  /\ TypeOK
  /\ inbox \in Seq(Received(side))
  /\ loop = "handling" => taken \in Received(side)
  /\ HandedAsSent

LEMMA DecodesPeer ==
  ASSUME NEW s \in Side, NEW m \in Messages(peer(s)), NEW p \in Seq(Byte)
  PROVE  /\ encode(peer(s), m) \in Seq(Byte)
         /\ decode(s, encode(peer(s), m) \o p) = {<<m, p>>}
  <1>1. CASE s = "client"
    <2>1. m \in Server /\ peer(s) = "server"
      BY <1>1 DEF Messages, peer
    <2>2. encode("server", m) = server_message_encode(m)
      BY DEF encode
    <2>3. \A b : decode("client", b) = server_message_decode(b)
      BY DEF decode
    <2> QED BY <1>1, <2>1, <2>2, <2>3, RoundTripServer
  <1>2. CASE s = "server"
    <2>1. m \in Client /\ peer(s) = "client"
      BY <1>2 DEF Messages, peer
    <2>2. encode("client", m) = client_message_encode(m)
      BY DEF encode
    <2>3. \A b : decode("server", b) = client_message_decode(b)
      BY DEF decode
    <2> QED BY <1>2, <2>1, <2>2, <2>3, RoundTripClient
  <1> QED BY <1>1, <1>2 DEF Side

LEMMA PacketReceived ==
  ASSUME NEW s \in Side, NEW m \in Messages(peer(s)), NEW p \in Seq(Byte)
  PROVE  packet(peer(s), m, p) \in Received(s)
  <1> DEFINE e == encode(peer(s), m)
             d == packet(peer(s), m, p)
  <1>1. e \in Seq(Byte) /\ decode(s, e \o p) = {<<m, p>>}
    BY DecodesPeer
  <1>2. d = [by |-> "packet", bytes |-> e \o p, meant |-> {<<m, p>>}]
    BY DEF packet, Datagram
  <1>3. <<m, p>> \in Messages(peer(s)) \X Seq(Byte)
    OBVIOUS
  <1> HIDE DEF e
  <1>4. e \o p \in Seq(Byte)
    BY <1>1, Concat
  <1> DEFINE b == e \o p
             t == <<m, p>>
             M == Messages(peer(s)) \X Seq(Byte)
  <1>5. d.by = "packet" /\ d.bytes = b /\ d.meant = {t}
    BY <1>2
  <1>6. d \in [by : {"packet", "send_msg", "foreign"}, bytes : Seq(Byte), meant : SUBSET M]
    <2>1. b \in Seq(Byte) /\ {t} \in SUBSET M
      BY <1>3, <1>4
    <2>2. d = [by |-> "packet", bytes |-> b, meant |-> {t}]
      BY <1>2
    <2> HIDE DEF b, t, M, d
    <2> QED BY <2>1, <2>2
  <1> HIDE DEF d
  <1>7. Sound(s, d)
    <2>1. decode(s, d.bytes) = d.meant
      BY <1>1, <1>5, Zenon
    <2> QED BY <1>5, <2>1 DEF Sound
  <1>8. d \in Received(s)
    BY <1>6, <1>7 DEF Received
  <1> QED BY <1>8 DEF d

\* Every datagram that arrives is one of those.
LEMMA ArrivalsReceived ==
  ASSUME NEW s \in Side
  PROVE  /\ \A d \in Packets(peer(s)) : d \in Received(s)
         /\ \A m \in Messages(peer(s)) : \A d \in send_msg(peer(s), m) : d \in Received(s)
         /\ \A bytes \in Foreign : Datagram("foreign", bytes, {}) \in Received(s)
  <1>1. ASSUME NEW d \in Packets(peer(s)) PROVE d \in Received(s)
    <2>1. CASE \E m \in Messages(peer(s)) : d = packet(peer(s), m, <<>>)
      <3>1. <<>> \in Seq(Byte)
        OBVIOUS
      <3> QED BY <2>1, <3>1, PacketReceived
    <2>2. CASE \E h \in Headers, p \in Payloads : d = packet(peer(s), audio(h), p)
      <3>1. PICK h \in Headers, p \in Payloads : d = packet(peer(s), audio(h), p)
        BY <2>2
      <3>2. audio(h) \in Messages(peer(s))
        BY DEF Messages, Client, Server
      <3>3. p \in Seq(Byte)
        BY TransportAssumption
      <3> QED BY <3>1, <3>2, <3>3, PacketReceived
    <2> QED BY <2>1, <2>2 DEF Packets
  <1>2. ASSUME NEW m \in Messages(peer(s)), NEW d \in send_msg(peer(s), m)
        PROVE  d \in Received(s)
    <2> DEFINE n == EncLen - Len(encode(peer(s), m))
               z == [k \in 1 .. n |-> 0]
    <2>1. <<>> \in Seq(Byte) /\ 0 \in Byte
      BY WireAssumption DEF Byte
    <2>2. encode(peer(s), m) \in Seq(Byte)
      BY <2>1, DecodesPeer
    <2>3. n \in Nat /\ d = Datagram("send_msg", z, {<<m, <<>>>>})
      <3> DEFINE e == encode(peer(s), m)
      <3>1. PICK bytes \in unwritten(e) : d = Datagram("send_msg", bytes, {<<m, <<>>>>})
        BY DEF send_msg
      <3>2. Len(e) <= EncLen /\ bytes = [k \in 1 .. EncLen - Len(e) |-> 0]
        BY DEF unwritten
      <3>3. EncLen - Len(e) \in Nat
        <4>1. Len(e) \in Nat /\ EncLen \in Nat
          BY <2>2, WireAssumption
        <4> HIDE DEF e
        <4> QED BY <3>2, <4>1
      <3> QED BY <3>1, <3>2, <3>3, Zenon DEF n, z
    <2> HIDE DEF n
    <2>4. z \in Seq(Byte) /\ Blank(z)
      BY <2>1, <2>3 DEF Blank
    <2>5. <<m, <<>>>> \in Messages(peer(s)) \X Seq(Byte)
      BY <2>1
    <2> HIDE DEF z
    <2> QED BY <2>3, <2>4, <2>5 DEF Datagram, Received, Sound
  <1>3. ASSUME NEW bytes \in Foreign PROVE Datagram("foreign", bytes, {}) \in Received(s)
    <2>1. bytes \in Seq(Byte)
      BY TransportAssumption
    <2> QED BY <2>1 DEF Datagram, Received, Sound
  <1> QED BY <1>1, <1>2, <1>3

LEMMA InitTransport == Init => TransportInv
  <1> SUFFICES ASSUME Init PROVE TransportInv
    OBVIOUS
  <1>1. 0 \in Byte /\ MaxQueue \in Nat
    BY WireAssumption, TransportAssumption DEF Byte
  <1>2. TypeOK
    BY <1>1 DEF Init, TypeOK
  <1>3. inbox \in Seq(Received(side)) /\ loop # "handling"
    BY DEF Init
  <1> QED BY <1>2, <1>3 DEF TransportInv, HandedAsSent

\* The errors that end a loop.
Failures == {"recv", "callback", "beacon"} \X ErrorKind

\* A step in which the loop handles nothing new.
LEMMA LoopIdle ==
  ASSUME TransportInv, UNCHANGED <<side, buf>>,
         inbox' \in Seq(Received(side)), Len(inbox') <= MaxQueue,
         loop' \in {"receiving", "timed_out", "returned"} \/ UNCHANGED <<loop, taken, handed>>,
         loop' = "timed_out" => side = "client",
         beacon' \in {"sending", "sleeping", "returned"}, failed' \subseteq Failures
  PROVE  TransportInv'
  <1>1. TypeOK'
    BY DEF TransportInv, TypeOK, Failures
  <1>2. (loop = "handling" => taken \in Received(side))' /\ HandedAsSent'
    BY DEF TransportInv, HandedAsSent
  <1> QED BY <1>1, <1>2 DEF TransportInv

\* A datagram at the end of the queue.
LEMMA ArrivesKeeps ==
  ASSUME TransportInv, NEW d \in Received(side), Arrives(d)
  PROVE  inbox' \in Seq(Received(side)) /\ Len(inbox') <= MaxQueue
  <1> DEFINE R == Received(side)
  <1>1. inbox \in Seq(R) /\ d \in R /\ Len(inbox) <= MaxQueue /\ MaxQueue \in Nat
    BY TransportAssumption DEF TransportInv, TypeOK
  <1> HIDE DEF R
  <1>2. inbox' \in Seq(R) /\ Len(inbox') <= MaxQueue
    BY <1>1 DEF Arrives
  <1> QED BY <1>2 DEF R

\* What recv makes of its buffer: the first n bytes are those of the datagram.
Filled(bytes, b, n) == [k \in 1 .. BufLen |-> IF k <= n THEN bytes[k] ELSE b[k]]

LEMMA BufferPrefix ==
  ASSUME NEW bytes \in Seq(Byte), NEW b \in [1 .. BufLen -> Byte], NEW n \in Nat,
         n <= Len(bytes), n <= BufLen
  PROVE  /\ Filled(bytes, b, n) \in [1 .. BufLen -> Byte]
         /\ SubSeq(Filled(bytes, b, n), 1, n) = SubSeq(bytes, 1, n)
  <1> DEFINE c == Filled(bytes, b, n)
  <1>0. BufLen \in Nat
    BY TransportAssumption
  <1>1. c \in [1 .. BufLen -> Byte]
    <2>1. ASSUME NEW k \in 1 .. BufLen PROVE (IF k <= n THEN bytes[k] ELSE b[k]) \in Byte
      BY <1>0
    <2> QED BY <2>1 DEF Filled
  <1>2. c \in Seq(Byte) /\ Len(c) = BufLen
    <2> HIDE DEF c
    <2> QED BY <1>0, <1>1
  <1>3. \A k \in 1 .. n : c[k] = bytes[k]
    BY <1>0 DEF Filled
  <1> HIDE DEF c
  <1>4. /\ SubSeq(c, 1, n) \in Seq(Byte) /\ Len(SubSeq(c, 1, n)) = n
        /\ \A k \in 1 .. n : SubSeq(c, 1, n)[k] = c[k]
    BY <1>0, <1>2
  <1>5. /\ SubSeq(bytes, 1, n) \in Seq(Byte) /\ Len(SubSeq(bytes, 1, n)) = n
        /\ \A k \in 1 .. n : SubSeq(bytes, 1, n)[k] = bytes[k]
    OBVIOUS
  <1>6. SubSeq(c, 1, n) = SubSeq(bytes, 1, n)
    <2> DEFINE x == SubSeq(c, 1, n)
               y == SubSeq(bytes, 1, n)
    <2>1. /\ x \in Seq(Byte) /\ y \in Seq(Byte) /\ Len(x) = n /\ Len(y) = n
          /\ \A k \in 1 .. n : x[k] = y[k]
      BY <1>3, <1>4, <1>5
    <2> HIDE DEF x, y
    <2>2. x = y
      BY <2>1
    <2> QED BY <2>2 DEF x, y
  <1> QED BY <1>1, <1>6 DEF c

LEMMA RecvKeeps ==
  ASSUME TransportInv, recv
  PROVE  TransportInv'
  <1> DEFINE R == Received(side)
             bytes == taken'.bytes
             n == IF Len(bytes) < BufLen THEN Len(bytes) ELSE BufLen
  <1>1. /\ inbox \in Seq(R) /\ inbox # <<>> /\ taken' = Head(inbox) /\ inbox' = Tail(inbox)
        /\ Len(inbox) <= MaxQueue /\ MaxQueue \in Nat /\ BufLen \in Nat
    BY TransportAssumption DEF TransportInv, TypeOK, recv
  <1>2. taken' \in R /\ inbox' \in Seq(R) /\ Len(inbox') <= MaxQueue
    <2> HIDE DEF R
    <2> QED BY <1>1
  <1>3. bytes \in Seq(Byte) /\ (taken'.by = "packet" => decode(side, bytes) = taken'.meant)
    BY <1>2 DEF Received, Sound
  <1>4. /\ buf \in [1 .. BufLen -> Byte]
        /\ buf' = [k \in 1 .. BufLen |-> IF k <= n THEN bytes[k] ELSE buf[k]]
        /\ handed' = decode(side, SubSeq(buf', 1, n))
        /\ loop' = "handling" /\ UNCHANGED <<side, beacon, failed>>
    BY DEF TransportInv, TypeOK, recv
  <1>5. n \in Nat /\ n <= Len(bytes) /\ n <= BufLen
    <2> HIDE DEF bytes
    <2> QED BY <1>1, <1>3
  <1>6. buf' \in [1 .. BufLen -> Byte] /\ SubSeq(buf', 1, n) = SubSeq(bytes, 1, n)
    <2> HIDE DEF bytes, n
    <2> DEFINE b == buf
               c == buf'
    <2>1. /\ bytes \in Seq(Byte) /\ b \in [1 .. BufLen -> Byte]
          /\ c = Filled(bytes, b, n)
      BY <1>3, <1>4 DEF Filled
    <2> HIDE DEF b, c
    <2>2. c \in [1 .. BufLen -> Byte] /\ SubSeq(c, 1, n) = SubSeq(bytes, 1, n)
      BY <1>5, <2>1, BufferPrefix
    <2> QED BY <2>2 DEF c
  <1>7. TypeOK'
    BY <1>2, <1>4, <1>6 DEF TransportInv, TypeOK
  <1>8. handed' = decode(side, SubSeq(bytes, 1, n))
    BY <1>4, <1>6, Zenon
  <1>9. Len(bytes) > BufLen => handed' = decode(side, SubSeq(bytes, 1, BufLen))
    <2> SUFFICES ASSUME Len(bytes) > BufLen PROVE n = BufLen
      BY <1>8
    <2> HIDE DEF bytes
    <2> QED BY <1>1, <1>3
  <1>10. Len(bytes) <= BufLen => handed' = decode(side, bytes)
    <2> SUFFICES ASSUME Len(bytes) <= BufLen PROVE SubSeq(bytes, 1, n) = bytes
      BY <1>8
    <2> HIDE DEF bytes
    <2>1. n = Len(bytes)
      BY <1>1, <1>3
    <2>2. SubSeq(bytes, 1, Len(bytes)) = bytes
      BY <1>3
    <2> QED BY <2>1, <2>2
  <1>11. HandedAsSent'
    <2>1. Len(bytes) <= BufLen /\ taken'.by = "packet" => handed' = taken'.meant
      BY <1>3, <1>10
    <2> QED BY <1>4, <1>9, <1>10, <2>1 DEF HandedAsSent
  <1> QED BY <1>2, <1>4, <1>7, <1>11 DEF TransportInv

LEMMA StepTransport == TransportInv /\ [Next]_transport => TransportInv'
  <1> SUFFICES ASSUME TransportInv, [Next]_transport PROVE TransportInv'
    OBVIOUS
  <1>0. /\ side \in Side /\ inbox \in Seq(Received(side)) /\ Len(inbox) <= MaxQueue
        /\ loop = "timed_out" => side = "client"
        /\ beacon \in {"sending", "sleeping", "returned"} /\ failed \subseteq Failures
    BY DEF TransportInv, TypeOK, Failures
  <1>1. CASE recv
    BY <1>1, RecvKeeps
  <1>2. CASE on_message \/ on_timeout
    BY <1>0, <1>2, LoopIdle DEF on_message, on_timeout, callback, Ok, Err, Failures
  <1>3. ASSUME NEW kind \in ErrorKind, recv_err(kind) PROVE TransportInv'
    BY <1>0, <1>3, LoopIdle DEF recv_err, Failures
  <1>4. CASE beacon_send
    <2>1. inbox' \in Seq(Received(side)) /\ Len(inbox') <= MaxQueue
      <3>1. CASE UNCHANGED inbox
        BY <1>0, <3>1
      <3>2. CASE side = "server" /\ Arrives(packet("client", <<"Discovery">>, <<>>))
        <4>1. peer(side) = "client" /\ <<"Discovery">> \in Messages(peer(side))
          BY <3>2 DEF peer, Messages, Client, ClientSimple
        <4>2. <<>> \in Seq(Byte)
          OBVIOUS
        <4>3. packet("client", <<"Discovery">>, <<>>) \in Received(side)
          BY <1>0, <4>1, <4>2, PacketReceived
        <4> QED BY <3>2, <4>3, ArrivesKeeps
      <3> QED BY <1>4, <3>1, <3>2 DEF beacon_send
    <2> QED BY <1>0, <1>4, <2>1, LoopIdle DEF beacon_send
  <1>5. CASE beacon_wake
    BY <1>0, <1>5, LoopIdle DEF beacon_wake
  <1>6. ASSUME NEW kind \in ErrorKind, beacon_err(kind) PROVE TransportInv'
    BY <1>0, <1>6, LoopIdle DEF beacon_err, Failures
  <1>7. ASSUME NEW d \in Received(side), arrive(d) PROVE TransportInv'
    <2>1. inbox' \in Seq(Received(side)) /\ Len(inbox') <= MaxQueue
      BY <1>7, ArrivesKeeps DEF arrive
    <2> QED BY <1>0, <1>7, <2>1, LoopIdle DEF arrive
  <1>8. CASE UNCHANGED transport
    BY <1>8 DEF transport, TransportInv, TypeOK, HandedAsSent
  <1>9. CASE \/ \E d \in Packets(peer(side)) : arrive(d)
             \/ \E m \in Messages(peer(side)) : \E d \in send_msg(peer(side), m) : arrive(d)
             \/ \E bytes \in Foreign : arrive(Datagram("foreign", bytes, {}))
    BY <1>0, <1>7, <1>9, ArrivalsReceived
  <1> QED BY <1>1, <1>2, <1>3, <1>4, <1>5, <1>6, <1>8, <1>9 DEF Next

THEOREM TransportInvariant == Spec => []TransportInv
  BY InitTransport, StepTransport, PTL DEF Spec

\* The loops' states, whatever arrives and whatever fails; only a client's loop calls
\* on_timeout, and the socket and the receive buffer keep their sizes.
THEOREM TransportTypes == Spec => []TypeOK
  <1>1. TransportInv => TypeOK
    BY DEF TransportInv
  <1> QED BY <1>1, TransportInvariant, PTL

\* on_message is given what the datagram says and nothing that the buffer held before:
\* for every header, list of formats, payload and size of the buffer.
THEOREM Handing == Spec => []HandedAsSent
  <1>1. TransportInv => HandedAsSent
    BY DEF TransportInv
  <1> QED BY <1>1, TransportInvariant, PTL

\* Why a loop has returned: its receive has failed with an error that is not a
\* timeout, or a callback has failed, with any error.
ReturnedOnError ==
  /\ loop = "returned" =>
       \/ <<"recv", "Other">> \in failed
       \/ \E kind \in ErrorKind : <<"callback", kind>> \in failed
  /\ beacon = "returned" => <<"beacon", "Other">> \in failed

\* The loops return for no other reason ("only returns if a non-recoverable I/O error
\* occurs"): the safety that LoopsKeepServing rests on.
THEOREM LoopsReturnOnError == Spec => []ReturnedOnError
  <1>1. Init => ReturnedOnError
    BY DEF Init, ReturnedOnError
  <1>2. ReturnedOnError /\ [Next]_transport => ReturnedOnError'
    <2> SUFFICES ASSUME ReturnedOnError, [Next]_transport PROVE ReturnedOnError'
      OBVIOUS
    <2>1. CASE on_message \/ on_timeout
      BY <2>1 DEF on_message, on_timeout, callback, Ok, Err, ReturnedOnError
    <2>2. ASSUME NEW kind \in ErrorKind, recv_err(kind) PROVE ReturnedOnError'
      BY <2>2 DEF recv_err, io_err_is_timeout, ErrorKind, ReturnedOnError
    <2>3. ASSUME NEW kind \in ErrorKind, beacon_err(kind) PROVE ReturnedOnError'
      BY <2>3 DEF beacon_err, io_err_is_timeout, ErrorKind, ReturnedOnError
    <2>4. CASE recv \/ beacon_send \/ beacon_wake \/ (\E d : arrive(d)) \/ UNCHANGED transport
      BY <2>4 DEF recv, beacon_send, beacon_wake, arrive, transport, ReturnedOnError
    <2> QED BY <2>1, <2>2, <2>3, <2>4 DEF Next
  <1> QED BY <1>1, <1>2, PTL DEF Spec

-----------------------------------------------------------------------------
(* What send_msg sends *)

\* The only message that a side decodes from zeros: variant 0, with no fields or with
\* empty lists.
BlankMessage(s) == IF s = "server" THEN <<"Discovery">> ELSE <<"Connect", <<>>, <<>>>>

LEMMA BlankList ==
  ASSUME NEW w \in Seq(Byte), Blank(w), NEW j \in Nat \ {0}
  PROVE  \A x \in list_at(w, j) : x = <<>>
  <1> SUFFICES ASSUME NEW x \in list_at(w, j) PROVE x = <<>>
    OBVIOUS
  <1>1. j <= Len(w) /\ x = SubSeq(w, j + 1, j + w[j])
    BY DEF list_at
  <1>2. w[j] = 0
    BY <1>1 DEF Blank
  <1>3. x = SubSeq(w, j + 1, j)
    BY <1>1, <1>2
  <1> QED BY <1>1, <1>3

LEMMA BlankToServer ==
  ASSUME NEW w \in Seq(Byte), Blank(w)
  PROVE  \A got \in client_message_decode(w) : got[1] = <<"Discovery">>
  <1> SUFFICES ASSUME NEW r \in deserialize(ClientMessageFlat, w)
               PROVE  client_from_flat(r[1]) = <<"Discovery">>
    BY DEF client_message_decode
  <1>1. w # <<>>
    BY DEF deserialize
  <1>2. w[1] = 0
    BY <1>1 DEF Blank
  <1>3. ClientMessageFlat[w[1] + 1] = "Discovery" /\ w[1] < Len(ClientMessageFlat)
    BY <1>2, ClientVariants DEF ClientMessageFlat
  <1>4. deserialize(ClientMessageFlat, w) = {<<<<"Discovery">>, finalize(w, 1)>>}
    BY <1>1, <1>3 DEF deserialize
  <1>5. r[1] = <<"Discovery">>
    BY <1>4
  <1> QED BY <1>5 DEF client_from_flat

LEMMA BlankToClient ==
  ASSUME NEW w \in Seq(Byte), Blank(w)
  PROVE  \A got \in server_message_decode(w) : got[1] = <<"Connect", <<>>, <<>>>>
  <1> SUFFICES ASSUME NEW r \in deserialize(ServerMessageFlat, w)
               PROVE  server_from_flat(r[1]) = <<"Connect", <<>>, <<>>>>
    BY DEF server_message_decode
  <1>1. w # <<>>
    BY DEF deserialize
  <1>2. w[1] = 0
    BY <1>1 DEF Blank
  <1>3. ServerMessageFlat[w[1] + 1] = "Connect" /\ w[1] < Len(ServerMessageFlat)
    BY <1>2, ServerVariants DEF ServerMessageFlat
  <1> DEFINE F(ins) == {<<<<"Connect", ins, outs>>, finalize(w, 3 + Len(ins) + Len(outs))>> :
                          outs \in list_at(w, 3 + Len(ins))}
  <1>4. deserialize(ServerMessageFlat, w) = UNION {F(ins) : ins \in list_at(w, 2)}
    BY <1>1, <1>3 DEF deserialize
  <1>5. PICK ins \in list_at(w, 2) : r \in F(ins)
    BY <1>4
  <1>6. PICK outs \in list_at(w, 3 + Len(ins)) : r[1] = <<"Connect", ins, outs>>
    <2>1. PICK outs \in list_at(w, 3 + Len(ins)) :
            r = <<<<"Connect", ins, outs>>, finalize(w, 3 + Len(ins) + Len(outs))>>
      BY <1>5, Zenon
    <2>2. r[1] = <<"Connect", ins, outs>>
      BY <2>1
    <2> QED BY <2>2
  <1>7. ins = <<>>
    BY BlankList
  <1>8. outs = <<>>
    <2>1. 3 + Len(ins) \in Nat \ {0}
      BY <1>7
    <2> QED BY <2>1, BlankList
  <1> QED BY <1>6, <1>7, <1>8 DEF server_from_flat

LEMMA BlankDecodes ==
  ASSUME NEW s \in Side, NEW w \in Seq(Byte), Blank(w)
  PROVE  \A got \in decode(s, w) : got[1] = BlankMessage(s)
  <1>1. CASE s = "client"
    BY <1>1, BlankToClient DEF decode, BlankMessage
  <1>2. CASE s = "server"
    BY <1>2, BlankToServer DEF decode, BlankMessage
  <1> QED BY <1>1, <1>2 DEF Side

\* What on_message is given for a datagram of send_msg.
SentIsBlank ==
  loop = "handling" /\ taken.by = "send_msg" => \A got \in handed : got[1] = BlankMessage(side)

\* Whatever the message and the buffers, what send_msg sends is taken for a Discovery
\* by a server, and by a client for a Connect without streams, if it is understood at
\* all: no other message of send_msg arrives.
THEOREM SendMsgIsBlank == Spec => []SentIsBlank
  <1>1. TransportInv => SentIsBlank
    <2> SUFFICES ASSUME TransportInv, loop = "handling", taken.by = "send_msg"
                 PROVE  \A got \in handed : got[1] = BlankMessage(side)
      BY DEF SentIsBlank
    <2> DEFINE bytes == taken.bytes
    <2>1. side \in Side /\ BufLen \in Nat
      BY TransportAssumption DEF TransportInv, TypeOK
    <2>2. bytes \in Seq(Byte) /\ Blank(bytes)
      BY DEF TransportInv, Received, Sound
    <2>3. CASE Len(bytes) > BufLen
      <3>1. handed = decode(side, SubSeq(bytes, 1, BufLen))
        BY <2>3 DEF TransportInv, HandedAsSent
      <3> HIDE DEF bytes
      <3>2. SubSeq(bytes, 1, BufLen) \in Seq(Byte) /\ Blank(SubSeq(bytes, 1, BufLen))
        BY <2>1, <2>2, <2>3 DEF Blank
      <3> QED BY <2>1, <3>1, <3>2, BlankDecodes
    <2>4. CASE Len(bytes) <= BufLen
      <3>1. handed = decode(side, bytes)
        BY <2>4 DEF TransportInv, HandedAsSent
      <3> QED BY <2>1, <2>2, <3>1, BlankDecodes
    <2>5. Len(bytes) \in Nat
      <3> HIDE DEF bytes
      <3> QED BY <2>2
    <2> QED BY <2>1, <2>3, <2>4, <2>5
  <1> QED BY <1>1, TransportInvariant, PTL

=============================================================================
