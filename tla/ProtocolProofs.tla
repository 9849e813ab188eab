---------------------------- MODULE ProtocolProofs ----------------------------
(***************************************************************************)
(* The codec for every byte size, all widths up to four bytes, all limits  *)
(* and all buffers. Three invariants, each from the ones before: what has  *)
(* been checked of the message being decoded (IInv), that the bytes read   *)
(* so far are its encoding (Consumed), and that it agrees with the message *)
(* that was encoded if the buffer was not damaged (Follows).               *)
(***************************************************************************)
EXTENDS Protocol, SequenceTheorems, TLAPS

-----------------------------------------------------------------------------
(* Bytes and numbers *)

\* The widths and limits as numbers.
LEMMA Widths ==
    /\ Base \in Nat /\ Base >= 2 /\ U16 \in 1..4 /\ U32 \in 1..4 /\ IDENT_LEN \in Nat
    /\ FIXED_HEADER_SIZE = U16 + 1 + IDENT_LEN + 1 + U16 + U32 /\ FIXED_HEADER_SIZE \in Nat
    /\ Byte \subseteq Nat /\ {0, 1} \subseteq Byte
BY WidthAssumption DEF Byte

\* Products of numbers are numbers.
LEMMA ProductNat == ASSUME NEW m \in Nat, NEW n \in Nat PROVE m * n \in Nat
OBVIOUS

\* The powers are numbers, and the limits are below them.
LEMMA Limits ==
    /\ Pow(U16) \in Nat /\ Pow(U16) >= 2 /\ Pow(U32) \in Nat /\ Pow(U32) >= 2
    /\ MAX_MSG_TYPE_LEN = Base - 1
    /\ MAX_ADDRESS_LEN \in Nat /\ MAX_ADDRESS_LEN >= 1 /\ MAX_ADDRESS_LEN < Pow(U16)
    /\ MAX_PAYLOAD_LEN \in Nat /\ MAX_PAYLOAD_LEN >= 1 /\ MAX_PAYLOAD_LEN < Pow(U32)
<1>1. ASSUME NEW w \in 1..4 PROVE Pow(w) \in Nat
  <2>1. Base \in Nat /\ Base * Base \in Nat
    BY Widths, ProductNat
  <2>2. Base * (Base * Base) \in Nat
    BY <2>1, ProductNat
  <2>3. Base * (Base * (Base * Base)) \in Nat
    BY <2>1, <2>2, ProductNat
  <2>4. w = 1 \/ w = 2 \/ w = 3 \/ w = 4
    OBVIOUS
  <2> QED
    BY <2>1, <2>2, <2>3, <2>4 DEF Pow
<1>2. Pow(U16) \in Nat /\ Pow(U32) \in Nat
  BY <1>1, Widths
<1> QED
  BY <1>2, LimitAssumption

\* A number read from bytes is a natural number.
LEMMA GetLeNat == ASSUME NEW s \in Seq(Byte) PROVE GetLe(s) \in Nat
<1> DEFINE d(i) == IF i \in DOMAIN s THEN s[i] ELSE 0
<1>1. d(1) \in Nat /\ d(2) \in Nat /\ d(3) \in Nat /\ d(4) \in Nat
  <2>1. ASSUME NEW i PROVE d(i) \in Nat
    <3>1. i \in DOMAIN s => s[i] \in Byte
      OBVIOUS
    <3> QED
      BY <3>1, Widths
  <2> HIDE DEF d
  <2> QED
    BY <2>1
<1>2. GetLe(s) = d(1) + Base * (d(2) + Base * (d(3) + Base * d(4)))
  BY DEF GetLe
<1> HIDE DEF d
<1>3. Base \in Nat
  BY Widths
<1>4. Base * d(4) \in Nat
  BY <1>1, <1>3, ProductNat
<1>5. Base * (d(3) + Base * d(4)) \in Nat
  BY <1>1, <1>3, <1>4, ProductNat
<1>6. Base * (d(2) + Base * (d(3) + Base * d(4))) \in Nat
  BY <1>1, <1>3, <1>5, ProductNat
<1> QED
  BY <1>1, <1>2, <1>6

\* A number is written as bytes.
LEMMA PutLeType ==
    ASSUME NEW n \in Nat, NEW w \in 1..4
    PROVE  PutLe(n, w) \in Seq(Byte) /\ Len(PutLe(n, w)) = w
<1>1. ASSUME NEW k \in Nat PROVE Shift(k) \in Nat /\ k % Base \in Byte
  BY Widths DEF Shift, Byte
<1> DEFINE q1 == Shift(n)  q2 == Shift(q1)  q3 == Shift(q2)
           ds == <<n % Base, q1 % Base, q2 % Base, q3 % Base>>
<1>2. q1 \in Nat /\ q2 \in Nat /\ q3 \in Nat
  BY <1>1
<1>3. /\ n % Base \in Byte /\ q1 % Base \in Byte /\ q2 % Base \in Byte /\ q3 % Base \in Byte
  BY <1>1, <1>2
<1>4. PutLe(n, w) = SubSeq(ds, 1, w)
  BY DEF PutLe
<1>5. ds \in Seq(Byte) /\ Len(ds) = 4
  <2> HIDE DEF q1, q2, q3
  <2> QED
    BY <1>3
<1> HIDE DEF ds
<1> QED
  BY <1>4, <1>5

\* A number that fits loses nothing in a cast.
LEMMA SmallMod == ASSUME NEW k \in Nat, NEW b \in Nat, k < b PROVE k % b = k
OBVIOUS

\* Division by the size of a byte.
LEMMA DivFacts ==
    ASSUME NEW k \in Nat
    PROVE  Shift(k) \in Nat /\ k % Base \in Nat /\ k = (k % Base) + Base * Shift(k)
<1>1. Base \in Nat /\ Base >= 2
  BY Widths
<1> DEFINE q == k \div Base  r == k % Base
<1>2. q \in Nat /\ r \in Nat /\ k = Base * q + r
  BY <1>1
<1> HIDE DEF q, r
<1>3. Base * q \in Nat
  BY <1>1, <1>2, ProductNat
<1>4. k = r + Base * q
  BY <1>2, <1>3
<1> QED
  BY <1>2, <1>4 DEF Shift, q, r

\* The first elements of a sequence.
LEMMA FirstElements ==
    ASSUME NEW S, NEW s \in Seq(S), NEW w \in 0..Len(s)
    PROVE  /\ SubSeq(s, 1, w) \in Seq(S) /\ Len(SubSeq(s, 1, w)) = w
           /\ \A i \in 1..w : SubSeq(s, 1, w)[i] = s[i]
OBVIOUS

\* A number is its lowest digit and the rest.
LEMMA Digit ==
    ASSUME NEW d \in Byte, NEW q \in Nat
    PROVE  d + Base * q \in Nat /\ (d + Base * q) % Base = d /\ Shift(d + Base * q) = q
<1> DEFINE n == d + Base * q  r == n % Base  k == n \div Base
<1>1. Base \in Nat /\ Base >= 2 /\ d \in Nat /\ d < Base
  BY Widths DEF Byte
<1>2. Base * q \in Nat
  BY <1>1, ProductNat
<1>3. n \in Nat
  BY <1>1, <1>2
<1>4. r \in Nat /\ r < Base /\ k \in Nat /\ n = Base * k + r
  <2> HIDE DEF n
  <2> QED
    BY <1>1, <1>3
<1>5. ASSUME NEW x \in Nat, NEW y \in Nat, x < y PROVE Base * x + Base <= Base * y
  <2>1. PICK z \in Nat : y = x + 1 + z
    <3>1. y - x - 1 \in Nat /\ y = x + 1 + (y - x - 1)
      BY <1>5
    <3> QED
      BY <3>1
  <2>2. Base * y = Base * x + Base + Base * z
    BY <1>1, <2>1
  <2>3. Base * z \in Nat /\ Base * x \in Nat
    BY <1>1, ProductNat
  <2> QED
    BY <1>1, <2>2, <2>3
<1>6. Base * k \in Nat
  BY <1>1, <1>4, ProductNat
<1>7. d + Base * q = Base * k + r
  BY <1>4
<1>8. k = q
  <2> HIDE DEF n, k, r
  <2>1. ~(k < q)
    BY <1>1, <1>2, <1>4, <1>5, <1>6, <1>7
  <2>2. ~(q < k)
    BY <1>1, <1>2, <1>4, <1>5, <1>6, <1>7
  <2> QED
    BY <1>4, <2>1, <2>2
<1>9. r = d
  <2> HIDE DEF n, k, r
  <2> QED
    BY <1>1, <1>2, <1>4, <1>7, <1>8
<1> QED
  BY <1>3, <1>8, <1>9 DEF Shift

\* What is read back as a number and written again is unchanged.
LEMMA PutGet ==
    ASSUME NEW w \in 1..4, NEW s \in Seq(Byte), Len(s) = w
    PROVE  PutLe(GetLe(s), w) = s
<1> DEFINE d(i) == IF i \in DOMAIN s THEN s[i] ELSE 0
           n3 == d(3) + Base * d(4)  n2 == d(2) + Base * n3  n1 == d(1) + Base * n2
<1>1. d(1) \in Byte /\ d(2) \in Byte /\ d(3) \in Byte /\ d(4) \in Byte
  <2>1. ASSUME NEW i PROVE d(i) \in Byte
    <3>1. i \in DOMAIN s => s[i] \in Byte
      OBVIOUS
    <3> QED
      BY <3>1, Widths
  <2> HIDE DEF d
  <2> QED
    BY <2>1
<1>2. GetLe(s) = n1
  BY DEF GetLe
<1>3. \A i \in 1..w : d(i) = s[i]
  OBVIOUS
<1> HIDE DEF d
<1>4. d(4) \in Nat /\ d(4) % Base = d(4)
  <2>1. d(4) \in Nat /\ Base \in Nat /\ d(4) < Base
    BY <1>1, Widths DEF Byte
  <2> QED
    BY <2>1, SmallMod
<1>5. n3 \in Nat /\ n3 % Base = d(3) /\ Shift(n3) = d(4)
  BY <1>1, <1>4, Digit
<1> HIDE DEF n3
<1>6. n2 \in Nat /\ n2 % Base = d(2) /\ Shift(n2) = n3
  BY <1>1, <1>5, Digit
<1> HIDE DEF n2
<1>7. n1 % Base = d(1) /\ Shift(n1) = n2
  BY <1>1, <1>6, Digit
<1> HIDE DEF n1
<1> DEFINE ds == <<d(1), d(2), d(3), d(4)>>
<1>8. PutLe(n1, w) = SubSeq(ds, 1, w)
  BY <1>4, <1>5, <1>6, <1>7 DEF PutLe
<1>9. ds \in Seq(Byte) /\ Len(ds) = 4 /\ \A i \in 1..4 : ds[i] = d(i)
  BY <1>1
<1> HIDE DEF ds
<1>10. /\ SubSeq(ds, 1, w) \in Seq(Byte) /\ Len(SubSeq(ds, 1, w)) = w
       /\ \A i \in 1..w : SubSeq(ds, 1, w)[i] = s[i]
  BY <1>3, <1>9
<1> QED
  BY <1>2, <1>8, <1>10

\* What is written of a number that fits is read back as that number.
LEMMA GetPut ==
    ASSUME NEW w \in 1..4, NEW n \in 0..(Pow(w) - 1), Pow(w) \in Nat
    PROVE  GetLe(PutLe(n, w)) = n
<1>1. Base \in Nat /\ Base >= 2 /\ n \in Nat
  BY Widths
<1>2. ASSUME NEW k \in Nat
      PROVE  /\ Shift(k) \in Nat /\ k % Base \in Nat /\ k = (k % Base) + Base * Shift(k)
             /\ k < Base => k % Base = k
  BY <1>1, DivFacts, SmallMod
<1>3. ASSUME NEW k \in Nat, NEW b \in Nat, k < Base * b PROVE Shift(k) < b
  <2>1. Shift(k) \in Nat /\ k % Base \in Nat /\ k = (k % Base) + Base * Shift(k)
    BY <1>2
  <2>2. SUFFICES ASSUME b <= Shift(k) PROVE FALSE
    BY <2>1
  <2>3. PICK z \in Nat : Shift(k) = b + z
    <3>1. Shift(k) - b \in Nat /\ Shift(k) = b + (Shift(k) - b)
      BY <2>1, <2>2
    <3> QED
      BY <3>1
  <2>4. Base * Shift(k) = Base * b + Base * z /\ Base * b \in Nat /\ Base * z \in Nat
        /\ Base * Shift(k) \in Nat
    BY <1>1, <2>1, <2>3, ProductNat
  <2> HIDE <2>3
  <2> QED
    BY <1>3, <2>1, <2>4
<1> DEFINE q1 == Shift(n)  q2 == Shift(q1)  q3 == Shift(q2)
           d1 == n % Base  d2 == q1 % Base  d3 == q2 % Base  d4 == q3 % Base
           ds == <<d1, d2, d3, d4>>
           B2 == Base * Base  B3 == Base * B2
<1>4. PutLe(n, w) = SubSeq(ds, 1, w)
  BY DEF PutLe
<1>5. q1 \in Nat /\ d1 \in Nat /\ n = d1 + Base * q1 /\ (n < Base => d1 = n)
  BY <1>1, <1>2
<1> HIDE DEF q1, d1
<1>6. q2 \in Nat /\ d2 \in Nat /\ q1 = d2 + Base * q2 /\ (q1 < Base => d2 = q1)
  BY <1>2, <1>5
<1> HIDE DEF q2, d2
<1>7. q3 \in Nat /\ d3 \in Nat /\ q2 = d3 + Base * q3 /\ (q2 < Base => d3 = q2)
  BY <1>2, <1>6
<1> HIDE DEF q3, d3
<1>8. d4 \in Nat /\ (q3 < Base => d4 = q3)
  BY <1>2, <1>7
<1> HIDE DEF d4
<1>9. ds \in Seq(Nat) /\ Len(ds) = 4 /\ ds[1] = d1 /\ ds[2] = d2 /\ ds[3] = d3 /\ ds[4] = d4
  BY <1>5, <1>6, <1>7, <1>8
<1>10. B2 \in Nat /\ B3 \in Nat
  BY <1>1, ProductNat
<1> HIDE DEF ds, B2, B3
<1> DEFINE s == SubSeq(ds, 1, w)
<1>11. s \in Seq(Nat) /\ DOMAIN s = 1..w /\ \A i \in 1..w : s[i] = ds[i]
  <2>1. s \in Seq(Nat) /\ Len(s) = w /\ \A i \in 1..w : s[i] = ds[i]
    <3>1. w \in 0..Len(ds)
      BY <1>9
    <3> QED
      BY <1>9, <3>1, FirstElements
  <2> HIDE DEF s
  <2> QED
    BY <2>1
<1> DEFINE e(i) == IF i \in DOMAIN s THEN s[i] ELSE 0
<1>12. GetLe(s) = e(1) + Base * (e(2) + Base * (e(3) + Base * e(4)))
  BY DEF GetLe
<1> HIDE DEF s
<1>13. \A i \in 1..4 : e(i) = IF i <= w THEN ds[i] ELSE 0
  BY <1>11
<1> HIDE DEF e
<1>14. Base * 0 = 0
  BY <1>1
<1>15. GetLe(s) = n
  <2>1. CASE w = 1
    <3>1. n < Base
      BY <1>1, <2>1 DEF Pow
    <3>2. e(1) = d1 /\ e(2) = 0 /\ e(3) = 0 /\ e(4) = 0
      BY <1>9, <1>13, <2>1
    <3> QED
      BY <1>5, <1>12, <1>14, <3>1, <3>2
  <2>2. CASE w = 2
    <3>1. n < B2
      BY <1>1, <1>10, <2>2 DEF Pow, B2
    <3>2. q1 < Base
      BY <1>1, <1>3, <3>1 DEF B2, q1
    <3>3. e(1) = d1 /\ e(2) = d2 /\ e(3) = 0 /\ e(4) = 0
      BY <1>9, <1>13, <2>2
    <3> QED
      BY <1>5, <1>6, <1>12, <1>14, <3>2, <3>3
  <2>3. CASE w = 3
    <3>1. n < B3
      BY <1>1, <1>10, <2>3 DEF Pow, B2, B3
    <3>2. q1 < B2
      BY <1>1, <1>3, <1>10, <3>1 DEF B3, q1
    <3>3. q2 < Base
      BY <1>1, <1>3, <1>5, <3>2 DEF B2, q2
    <3>4. e(1) = d1 /\ e(2) = d2 /\ e(3) = d3 /\ e(4) = 0
      BY <1>9, <1>13, <2>3
    <3> QED
      BY <1>5, <1>6, <1>7, <1>12, <1>14, <3>3, <3>4
  <2>4. CASE w = 4
    <3>1. n < Base * B3
      BY <1>1, <1>10, <2>4 DEF Pow, B2, B3
    <3>2. q1 < B3
      BY <1>1, <1>3, <1>10, <3>1 DEF q1
    <3>3. q2 < B2
      BY <1>3, <1>5, <1>10, <3>2 DEF B3, q2
    <3>4. q3 < Base
      BY <1>1, <1>3, <1>6, <3>3 DEF B2, q3
    <3>5. e(1) = d1 /\ e(2) = d2 /\ e(3) = d3 /\ e(4) = d4
      BY <1>9, <1>13, <2>4
    <3> QED
      BY <1>5, <1>6, <1>7, <1>8, <1>12, <3>4, <3>5
  <2> QED
    BY <2>1, <2>2, <2>3, <2>4
<1> QED
  BY <1>4, <1>15 DEF s

-----------------------------------------------------------------------------
(* The invariant of the decoder *)

Decoding == {"msg_type", "address", "reply_to", "payload", "done"}

\* Before decode starts nothing has been read, and a message that was built
\* has its mode in flags and nothing else.
Fresh ==
    /\ at \in {"new", "built", "requested", "header"} =>
          pos = 0 /\ got = NoMessage /\ error = "none"
    /\ msg.flags \in {0, 1}

\* What has been checked of the message being decoded, field by field.
CheckedSoFar ==
    /\ at \in Decoding =>
          /\ got.version = 1
          /\ got.address_len <= MAX_ADDRESS_LEN /\ got.payload_len <= MAX_PAYLOAD_LEN
    /\ at \in {"msg_type", "address", "reply_to"} => got.reply_to = <<>>
    /\ at \in Decoding \ {"msg_type"} =>
          Len(got.msg_type) = got.msg_type_len /\ IsUtf8(got.msg_type)
    /\ at \in {"reply_to", "payload", "done"} =>
          Len(got.address) = got.address_len /\ IsUtf8(got.address) /\ ValidateAddress(got.address)
    /\ at = "reply_to" => ModeOf(got.flags) = InOut
    /\ at \in {"payload", "done"} =>
          IF ModeOf(got.flags) = InOut
          THEN /\ Len(got.reply_to) \in 1..MAX_ADDRESS_LEN
               /\ IsUtf8(got.reply_to) /\ ValidateAddress(got.reply_to)
          ELSE got.reply_to = <<>>
    /\ at = "done" => Len(got.payload) = got.payload_len

IInv == TypeOK /\ NeverPanics /\ Fresh /\ CheckedSoFar

\* What Peek yields of a buffer that is long enough.
LEMMA PeekFacts ==
    ASSUME frame \in Seq(Byte), pos \in Nat, NEW from \in Nat, NEW n \in Nat,
           pos + from + n <= Len(frame)
    PROVE  /\ Peek(from, n) \in Seq(Byte) /\ Len(Peek(from, n)) = n
           /\ \A i \in 1..n : Peek(from, n)[i] = frame[pos + from + i]
<1> DEFINE l == pos + from + 1  h == pos + from + n
<1>1. Peek(from, n) = SubSeq(frame, l, h)
  BY DEF Peek
<1>2. l \in Int /\ h \in Int /\ h - l + 1 = n /\ (l <= h <=> n # 0)
  OBVIOUS
<1>3. ASSUME NEW i \in l..h PROVE frame[i] \in Byte
  <2>1. i \in 1..Len(frame)
    OBVIOUS
  <2> QED
    BY <2>1
<1>4. ASSUME NEW i \in 1..n PROVE l + i - 1 = pos + from + i
  OBVIOUS
<1> HIDE DEF l, h
<1>5. /\ SubSeq(frame, l, h) \in Seq(Byte)
      /\ Len(SubSeq(frame, l, h)) = IF l <= h THEN h - l + 1 ELSE 0
      /\ \A i \in 1..(h - l + 1) : SubSeq(frame, l, h)[i] = frame[l + i - 1]
  BY <1>2, <1>3, SubSeqProperties
<1> QED
  BY <1>1, <1>2, <1>4, <1>5

\* A read that is covered by a length check does not panic.
LEMMA Reading ==
    ASSUME NEW n \in Nat, NEW m, NEW next, Remaining \in Int, Remaining >= n, Read(n, m, next)
    PROVE  at' = next /\ pos' = pos + n /\ got' = m /\ UNCHANGED <<msg, frame, origin, error>>
<1>1. ~(Remaining < n)
  OBVIOUS
<1> QED
  BY <1>1 DEF Read

\* The fixed header of a buffer that is long enough.
LEMMA HeaderFacts ==
    ASSUME frame \in Seq(Byte), pos \in Nat, pos + FIXED_HEADER_SIZE <= Len(frame)
    PROVE  /\ Header = [NoMessage EXCEPT
                           !.version = Header.version, !.flags = Header.flags,
                           !.ident = Header.ident, !.msg_type_len = Header.msg_type_len,
                           !.address_len = Header.address_len,
                           !.payload_len = Header.payload_len]
           /\ Header.version = GetLe(Peek(0, U16)) /\ Header.version \in Nat
           /\ Header.flags = frame[pos + U16 + 1] /\ Header.flags \in Byte
           /\ Header.ident = Peek(U16 + 1, IDENT_LEN) /\ Header.ident \in Seq(Byte)
           /\ Header.msg_type_len = frame[pos + U16 + 1 + IDENT_LEN + 1]
           /\ Header.msg_type_len \in Byte
           /\ Header.address_len = GetLe(Peek(U16 + 1 + IDENT_LEN + 1, U16))
           /\ Header.address_len \in Nat
           /\ Header.payload_len = GetLe(Peek(U16 + 1 + IDENT_LEN + 1 + U16, U32))
           /\ Header.payload_len \in Nat
<1> DEFINE lens == U16 + 1 + IDENT_LEN
           v == GetLe(Peek(0, U16))
           f == Peek(U16, 1)[1]
           d == Peek(U16 + 1, IDENT_LEN)
           t == Peek(lens, 1)[1]
           a == GetLe(Peek(lens + 1, U16))
           p == GetLe(Peek(lens + 1 + U16, U32))
<1>1. Header = [NoMessage EXCEPT !.version = v, !.flags = f, !.ident = d, !.msg_type_len = t,
                                 !.address_len = a, !.payload_len = p]
  BY DEF Header
<1>2. /\ U16 \in Nat /\ U32 \in Nat /\ IDENT_LEN \in Nat /\ Len(frame) \in Nat
      /\ FIXED_HEADER_SIZE = U16 + 1 + IDENT_LEN + 1 + U16 + U32
  BY Widths
<1>3. v \in Nat
  <2>1. Peek(0, U16) \in Seq(Byte)
    BY <1>2, PeekFacts
  <2> QED
    BY <2>1, GetLeNat
<1>4. f = frame[pos + U16 + 1] /\ f \in Byte
  <2>1. pos + U16 + 1 <= Len(frame)
    BY <1>2
  <2>2. /\ Peek(U16, 1) \in Seq(Byte) /\ Len(Peek(U16, 1)) = 1
        /\ \A i \in 1..1 : Peek(U16, 1)[i] = frame[pos + U16 + i]
    BY <1>2, <2>1, PeekFacts
  <2>3. 1 \in 1..1
    OBVIOUS
  <2> QED
    BY <2>2, <2>3
<1>5. d \in Seq(Byte)
  BY <1>2, PeekFacts
<1>6. t = frame[pos + U16 + 1 + IDENT_LEN + 1] /\ t \in Byte
  <2>1. lens \in Nat /\ pos + lens + 1 <= Len(frame)
    BY <1>2
  <2>2. /\ Peek(lens, 1) \in Seq(Byte) /\ Len(Peek(lens, 1)) = 1
        /\ \A i \in 1..1 : Peek(lens, 1)[i] = frame[pos + lens + i]
    <3> HIDE DEF lens
    <3> QED
      BY <2>1, PeekFacts
  <2>3. pos + lens + 1 = pos + U16 + 1 + IDENT_LEN + 1
    BY <1>2
  <2>4. 1 \in 1..1
    OBVIOUS
  <2> QED
    BY <2>2, <2>3, <2>4
<1>7. a \in Nat
  <2>1. lens + 1 \in Nat /\ pos + (lens + 1) + U16 <= Len(frame)
    BY <1>2
  <2>2. Peek(lens + 1, U16) \in Seq(Byte)
    <3> HIDE DEF lens
    <3> QED
      BY <1>2, <2>1, PeekFacts
  <2> QED
    BY <2>2, GetLeNat
<1>8. p \in Nat
  <2>1. lens + 1 + U16 \in Nat /\ pos + (lens + 1 + U16) + U32 <= Len(frame)
    BY <1>2
  <2>2. Peek(lens + 1 + U16, U32) \in Seq(Byte)
    <3> HIDE DEF lens
    <3> QED
      BY <1>2, <2>1, PeekFacts
  <2> QED
    BY <2>2, GetLeNat
<1>9. /\ Header.version = v /\ Header.flags = f /\ Header.ident = d /\ Header.msg_type_len = t
      /\ Header.address_len = a /\ Header.payload_len = p
  <2> HIDE DEF v, f, d, t, a, p
  <2> QED
    BY <1>1 DEF NoMessage
<1>10. Header = [NoMessage EXCEPT
                    !.version = Header.version, !.flags = Header.flags,
                    !.ident = Header.ident, !.msg_type_len = Header.msg_type_len,
                    !.address_len = Header.address_len,
                    !.payload_len = Header.payload_len]
  <2> HIDE DEF v, f, d, t, a, p
  <2> QED
    BY <1>1, <1>9
<1> QED
  BY <1>3, <1>4, <1>5, <1>6, <1>7, <1>8, <1>9, <1>10

Errors ==
    Incomplete \cup {"none", "UnsupportedVersion", "TooLong", "InvalidMsgTypeUtf8", "InvalidAddress",
                     "MissingReplyToForInOut", "ReplyToTooLong", "InvalidReplyTo"}

\* What the decoder knows of its state between two reads.
LEMMA StateFacts ==
    ASSUME IInv
    PROVE  /\ frame \in Seq(Byte) /\ Len(frame) \in Nat /\ pos \in Nat /\ pos <= Len(frame)
           /\ Remaining \in Nat /\ Remaining = Len(frame) - pos
           /\ msg \in Message /\ got \in Message /\ error \in Errors
BY DEF IInv, TypeOK, Remaining, Errors

\* A refusal after reading no more than what is there.
LEMMA Refusing ==
    ASSUME IInv, NEW n \in Nat, pos + n <= Len(frame), NEW e \in Errors, Refuse(e, n)
    PROVE  IInv'
<1>1. /\ at' = "refused" /\ error' = e /\ pos' = pos + n
      /\ msg' = msg /\ frame' = frame /\ origin' = origin /\ got' = got
  BY DEF Refuse
<1>2. pos' \in 0..Len(frame')
  BY <1>1, StateFacts
<1>3. TypeOK'
  BY <1>1, <1>2 DEF IInv, TypeOK, Errors
<1> QED
  BY <1>1, <1>3 DEF IInv, NeverPanics, Fresh, CheckedSoFar, Decoding

\* A read of no more than what is there.
LEMMA ReadingIsTyped ==
    ASSUME IInv, NEW n \in Nat, n <= Remaining, NEW m \in Message,
           NEW next \in Decoding, Read(n, m, next)
    PROVE  /\ at' = next /\ pos' = pos + n /\ got' = m
           /\ TypeOK' /\ NeverPanics' /\ Fresh'
<1>1. /\ at' = next /\ pos' = pos + n /\ got' = m
      /\ msg' = msg /\ frame' = frame /\ origin' = origin /\ error' = error
  BY StateFacts, Reading
<1>2. pos' \in 0..Len(frame')
  BY <1>1, StateFacts
<1>3. TypeOK'
  BY <1>1, <1>2 DEF IInv, TypeOK, Decoding
<1> QED
  BY <1>1, <1>3 DEF IInv, NeverPanics, Fresh, Decoding

\* Encoded bytes are bytes.
LEMMA EncodeType ==
    ASSUME NEW m \in Message PROVE Encode(m) \in Seq(Byte)
<1>1. /\ m.version \in Nat /\ m.address_len \in Nat /\ m.payload_len \in Nat
      /\ m.flags \in Byte /\ m.msg_type_len \in Byte /\ m.ident \in Seq(Byte)
      /\ m.msg_type \in Seq(Byte) /\ m.address \in Seq(Byte)
      /\ m.reply_to \in Seq(Byte) /\ m.payload \in Seq(Byte)
  BY Limits DEF Message
<1>2. Len(m.reply_to) % Pow(U16) \in Nat
  BY <1>1, Limits
<1>3. EncodeHeader(m) \in Seq(Byte)
  <2>1. /\ PutLe(m.version, U16) \in Seq(Byte) /\ PutLe(m.address_len, U16) \in Seq(Byte)
        /\ PutLe(m.payload_len, U32) \in Seq(Byte)
    BY <1>1, Widths, PutLeType
  <2>2. <<m.flags>> \in Seq(Byte) /\ <<m.msg_type_len>> \in Seq(Byte)
    BY <1>1
  <2> QED
    BY <1>1, <2>1, <2>2 DEF EncodeHeader
<1>4. EncodeReplyTo(m) \in Seq(Byte)
  <2>1. PutLe(Len(m.reply_to) % Pow(U16), U16) \in Seq(Byte)
    BY <1>2, Widths, PutLeType
  <2> QED
    BY <1>1, <2>1 DEF EncodeReplyTo
<1> QED
  BY <1>1, <1>3, <1>4 DEF Encode

\* Message::new makes a well-formed message.
LEMMA NewMessageType ==
    ASSUME NEW in \in Inputs
    PROVE  NewMessage(in) \in Message /\ NewMessage(in).flags \in {0, 1}
<1>1. /\ in.mode \in {0, 1} /\ in.ident \in Seq(Byte) /\ in.msg_type \in Seq(Byte)
      /\ in.address \in Seq(Byte) /\ in.reply_to \in Seq(Byte) /\ in.payload \in Seq(Byte)
  BY InputsAssumption, Widths
<1>2. /\ Len(in.msg_type) % Base \in Byte
      /\ Len(in.address) % Pow(U16) \in 0..(Pow(U16) - 1)
      /\ Len(in.payload) % Pow(U32) \in 0..(Pow(U32) - 1)
  <2>1. ASSUME NEW k \in Nat, NEW n \in Nat, n >= 1 PROVE k % n \in 0..(n - 1)
    BY <2>1
  <2>2. Len(in.msg_type) \in Nat /\ Len(in.address) \in Nat /\ Len(in.payload) \in Nat
    BY <1>1
  <2>3. Base \in Nat /\ Base >= 1 /\ Pow(U16) >= 1 /\ Pow(U32) >= 1
    BY Limits, Widths
  <2> QED
    BY <2>1, <2>2, <2>3, Limits DEF Byte
<1>3. 1 \in 0..(Pow(U16) - 1) /\ in.mode \in Byte
  BY <1>1, Limits, Widths
<1> QED
  BY <1>1, <1>2, <1>3 DEF NewMessage, Message

\* Building a message and handing over the buffer.
LEMMA BuildStep ==
    ASSUME IInv,
           \/ \E in \in Inputs : New(in)
           \/ \E client \in ClientAddresses : Request(client)
           \/ GiveWhole \/ GiveCut \/ GiveDamaged
    PROVE  IInv'
<1>1. ASSUME NEW in \in Inputs, New(in) PROVE IInv'
  <2>1. msg' \in Message /\ msg'.flags \in {0, 1}
    BY <1>1, NewMessageType DEF New
  <2>2. /\ at = "new" /\ at' = "built" /\ frame' = frame /\ origin' = origin /\ pos' = pos
        /\ got' = got /\ error' = error
    BY <1>1 DEF New
  <2>3. TypeOK'
    BY <2>1, <2>2 DEF IInv, TypeOK
  <2> QED
    BY <2>1, <2>2, <2>3 DEF IInv, NeverPanics, Fresh, CheckedSoFar, Decoding
<1>2. ASSUME NEW client \in ClientAddresses, Request(client) PROVE IInv'
  <2>1. client \in Seq(Byte)
    BY InputsAssumption
  <2>2. msg.flags - ModeOf(msg.flags) + InOut = 1
    BY DEF IInv, Fresh, ModeOf, InOut
  <2>3. msg' = [msg EXCEPT !.flags = 1, !.reply_to = client]
    BY <1>2, <2>2 DEF Request, ForceInOut
  <2>4. msg' \in Message /\ msg'.flags \in {0, 1}
    BY <2>1, <2>3, StateFacts, Widths DEF Message
  <2>5. /\ at = "built" /\ at' = "requested" /\ frame' = frame /\ origin' = origin /\ pos' = pos
        /\ got' = got /\ error' = error
    BY <1>2 DEF Request
  <2>6. TypeOK'
    BY <2>4, <2>5 DEF IInv, TypeOK
  <2> QED
    BY <2>4, <2>5, <2>6 DEF IInv, NeverPanics, Fresh, CheckedSoFar, Decoding
<1>3. ASSUME NEW buf \in Seq(Byte), NEW how \in {"whole", "cut", "damaged"}, Give(buf, how)
      PROVE  IInv'
  <2>1. /\ at \in {"built", "requested"} /\ at' = "header" /\ frame' = buf /\ origin' = how
        /\ pos' = pos /\ got' = got /\ error' = error /\ msg' = msg
    BY <1>3 DEF Give
  <2>2. pos = 0
    BY <2>1 DEF IInv, Fresh
  <2>3. pos' \in 0..Len(frame')
    BY <2>1, <2>2
  <2>4. TypeOK'
    BY <2>1, <2>3 DEF IInv, TypeOK
  <2> QED
    BY <2>1, <2>4 DEF IInv, NeverPanics, Fresh, CheckedSoFar, Decoding
<1>4. Encode(msg) \in Seq(Byte)
  BY StateFacts, EncodeType
<1>5. CASE GiveWhole
  <2>1. PICK tail \in Tails : Give(Encode(msg) \o tail, "whole")
    BY <1>5 DEF GiveWhole
  <2>2. Encode(msg) \o tail \in Seq(Byte)
    BY <1>4, InputsAssumption
  <2> QED
    BY <1>3, <2>1, <2>2
<1>6. CASE GiveCut
  <2> DEFINE f == Encode(msg)
  <2>1. PICK n \in 0..(Len(f) - 1) : Give(SubSeq(f, 1, n), "cut")
    BY <1>6 DEF GiveCut
  <2> HIDE DEF f
  <2>2. SubSeq(f, 1, n) \in Seq(Byte)
    BY <1>4 DEF f
  <2> QED
    BY <1>3, <2>1, <2>2
<1>7. CASE GiveDamaged
  <2> DEFINE f == Encode(msg)
  <2>1. PICK i \in DOMAIN f, b \in Byte : Give([f EXCEPT ![i] = b], "damaged")
    BY <1>7 DEF GiveDamaged
  <2>2. f \in Seq(Byte)
    BY <1>4
  <2> HIDE DEF f
  <2>3. [f EXCEPT ![i] = b] \in Seq(Byte)
    BY <2>2
  <2> QED
    BY <1>3, <2>1, <2>3
<1> QED
  BY <1>1, <1>2, <1>5, <1>6, <1>7

\* Each of decode's parts keeps the invariant: it refuses, or reads what it has
\* made sure is there.
LEMMA HeaderStep == ASSUME IInv, DecodeHeader PROVE IInv'
<1>1. /\ FIXED_HEADER_SIZE \in Nat /\ U16 \in Nat /\ U16 <= FIXED_HEADER_SIZE
  BY Widths
<1>2. CASE Remaining < FIXED_HEADER_SIZE /\ Refuse("IncompleteHeader", 0)
  <2>1. pos + 0 <= Len(frame) /\ "IncompleteHeader" \in Errors
    BY StateFacts DEF Errors, Incomplete
  <2> QED
    BY <1>2, <2>1, Refusing
<1>3. CASE Remaining >= FIXED_HEADER_SIZE /\ Refuse("UnsupportedVersion", U16)
  <2>1. pos + U16 <= Len(frame) /\ "UnsupportedVersion" \in Errors
    BY <1>1, <1>3, StateFacts DEF Errors
  <2> QED
    BY <1>1, <1>3, <2>1, Refusing
<1>4. CASE Remaining >= FIXED_HEADER_SIZE /\ Refuse("TooLong", FIXED_HEADER_SIZE)
  <2>1. pos + FIXED_HEADER_SIZE <= Len(frame) /\ "TooLong" \in Errors
    BY <1>1, <1>4, StateFacts DEF Errors
  <2> QED
    BY <1>1, <1>4, <2>1, Refusing
<1>5. CASE /\ Remaining >= FIXED_HEADER_SIZE
           /\ Header.version = 1
           /\ Header.address_len <= MAX_ADDRESS_LEN /\ Header.payload_len <= MAX_PAYLOAD_LEN
           /\ Read(FIXED_HEADER_SIZE, Header, "msg_type")
  <2>1. pos + FIXED_HEADER_SIZE <= Len(frame)
    BY <1>1, <1>5, StateFacts
  <2>2. /\ Header = [NoMessage EXCEPT
                        !.version = Header.version, !.flags = Header.flags,
                        !.ident = Header.ident, !.msg_type_len = Header.msg_type_len,
                        !.address_len = Header.address_len, !.payload_len = Header.payload_len]
        /\ Header.flags \in Byte /\ Header.ident \in Seq(Byte) /\ Header.msg_type_len \in Byte
        /\ Header.address_len \in Nat /\ Header.payload_len \in Nat
    BY <2>1, StateFacts, HeaderFacts
  <2>3. /\ Header.version \in 0..(Pow(U16) - 1)
        /\ Header.address_len \in 0..(Pow(U16) - 1)
        /\ Header.payload_len \in 0..(Pow(U32) - 1)
    BY <1>5, <2>2, Limits
  <2>4. Header \in Message /\ Header.reply_to = <<>>
    <3> DEFINE h == [version |-> Header.version, flags |-> Header.flags, ident |-> Header.ident,
                     msg_type_len |-> Header.msg_type_len, address_len |-> Header.address_len,
                     payload_len |-> Header.payload_len, msg_type |-> <<>>, address |-> <<>>,
                     reply_to |-> <<>>, payload |-> <<>>]
    <3>1. Header = h
      BY <2>2, Zenon DEF NoMessage
    <3>2. <<>> \in Seq(Byte)
      OBVIOUS
    <3>3. h \in Message
      BY <2>2, <2>3, <3>2 DEF Message
    <3>4. h.reply_to = <<>>
      OBVIOUS
    <3> HIDE DEF h
    <3> QED
      BY <3>1, <3>3, <3>4
  <2>5. /\ at' = "msg_type" /\ got' = Header /\ TypeOK' /\ NeverPanics' /\ Fresh'
    BY <1>1, <1>5, <2>4, ReadingIsTyped DEF Decoding
  <2>6. CheckedSoFar'
    BY <1>5, <2>4, <2>5 DEF CheckedSoFar, Decoding
  <2> QED
    BY <2>5, <2>6 DEF IInv
<1> QED
  BY <1>2, <1>3, <1>4, <1>5 DEF DecodeHeader

\* The lengths in the header are numbers.
LEMMA LengthFacts ==
    ASSUME IInv
    PROVE  got.msg_type_len \in Nat /\ got.address_len \in Nat /\ got.payload_len \in Nat
<1>1. got.msg_type_len \in Byte /\ got.address_len \in Nat /\ got.payload_len \in Nat
  BY StateFacts, Limits DEF Message
<1> QED
  BY <1>1, Widths

LEMMA MsgTypeStep == ASSUME IInv, DecodeMsgType PROVE IInv'
<1> DEFINE n == got.msg_type_len
<1>1. n \in Nat /\ at = "msg_type"
  BY LengthFacts DEF DecodeMsgType
<1>2. CASE Refuse("IncompleteMsgType", 0)
  <2>1. pos + 0 <= Len(frame) /\ "IncompleteMsgType" \in Errors
    BY StateFacts DEF Errors, Incomplete
  <2> QED
    BY <1>2, <2>1, Refusing
<1>3. CASE Remaining >= n /\ Refuse("InvalidMsgTypeUtf8", n)
  <2>1. pos + n <= Len(frame) /\ "InvalidMsgTypeUtf8" \in Errors
    BY <1>1, <1>3, StateFacts DEF Errors
  <2> HIDE DEF n
  <2> QED
    BY <1>1, <1>3, <2>1, Refusing
<1>4. CASE /\ Remaining >= n /\ IsUtf8(Peek(0, n))
           /\ Read(n, [got EXCEPT !.msg_type = Peek(0, n)], "address")
  <2>1. Peek(0, n) \in Seq(Byte) /\ Len(Peek(0, n)) = n
    <3> HIDE DEF n
    <3>1. pos + 0 + n <= Len(frame)
      BY <1>1, <1>4, StateFacts
    <3> QED
      BY <1>1, <3>1, StateFacts, PeekFacts
  <2> DEFINE m == [got EXCEPT !.msg_type = Peek(0, n)]
  <2>2. m \in Message
    BY <2>1, StateFacts DEF Message
  <2>3. at' = "address" /\ got' = m /\ TypeOK' /\ NeverPanics' /\ Fresh'
    <3> HIDE DEF m, n
    <3>1. Read(n, m, "address")
      BY <1>4 DEF m
    <3> QED
      BY <1>1, <1>4, <2>2, <3>1, ReadingIsTyped, StateFacts DEF Decoding
  <2>4. /\ m.msg_type = Peek(0, n) /\ m.msg_type_len = n /\ m.version = got.version
        /\ m.address_len = got.address_len /\ m.payload_len = got.payload_len
        /\ m.reply_to = got.reply_to
    BY StateFacts DEF Message
  <2>5. CheckedSoFar'
    <3> HIDE DEF m, n
    <3> QED
      BY <1>1, <1>4, <2>1, <2>3, <2>4 DEF IInv, CheckedSoFar, Decoding
  <2> QED
    BY <2>3, <2>5 DEF IInv
<1> QED
  BY <1>2, <1>3, <1>4 DEF DecodeMsgType

LEMMA AddressStep == ASSUME IInv, DecodeAddress PROVE IInv'
<1> DEFINE n == got.address_len
<1>1. n \in Nat /\ at = "address"
  BY LengthFacts DEF DecodeAddress
<1>2. CASE Refuse("IncompleteAddress", 0)
  <2>1. pos + 0 <= Len(frame) /\ "IncompleteAddress" \in Errors
    BY StateFacts DEF Errors, Incomplete
  <2> QED
    BY <1>2, <2>1, Refusing
<1>3. CASE Remaining >= n /\ Refuse("InvalidAddress", n)
  <2>1. pos + n <= Len(frame) /\ "InvalidAddress" \in Errors
    BY <1>1, <1>3, StateFacts DEF Errors
  <2> HIDE DEF n
  <2> QED
    BY <1>1, <1>3, <2>1, Refusing
<1>4. CASE /\ Remaining >= n /\ IsUtf8(Peek(0, n)) /\ ValidateAddress(Peek(0, n))
           /\ Read(n, [got EXCEPT !.address = Peek(0, n)], AfterAddress(got))
  <2>1. Peek(0, n) \in Seq(Byte) /\ Len(Peek(0, n)) = n
    <3> HIDE DEF n
    <3>1. pos + 0 + n <= Len(frame)
      BY <1>1, <1>4, StateFacts
    <3> QED
      BY <1>1, <3>1, StateFacts, PeekFacts
  <2> DEFINE m == [got EXCEPT !.address = Peek(0, n)]
  <2>2. m \in Message
    BY <2>1, StateFacts DEF Message
  <2>3. AfterAddress(got) \in {"reply_to", "payload"}
        /\ (AfterAddress(got) = "reply_to" <=> ModeOf(got.flags) = InOut)
    BY DEF AfterAddress
  <2>4. at' = AfterAddress(got) /\ got' = m /\ TypeOK' /\ NeverPanics' /\ Fresh'
    <3> HIDE DEF m, n
    <3>1. Read(n, m, AfterAddress(got))
      BY <1>4 DEF m
    <3> QED
      BY <1>1, <1>4, <2>2, <2>3, <3>1, ReadingIsTyped, StateFacts DEF Decoding
  <2>5. /\ m.address = Peek(0, n) /\ m.msg_type_len = got.msg_type_len
        /\ m.msg_type = got.msg_type /\ m.version = got.version /\ m.flags = got.flags
        /\ m.address_len = n /\ m.payload_len = got.payload_len
        /\ m.reply_to = got.reply_to
    BY StateFacts DEF Message
  <2>6. CheckedSoFar'
    <3> HIDE DEF m, n
    <3> QED
      BY <1>1, <1>4, <2>1, <2>3, <2>4, <2>5 DEF IInv, CheckedSoFar, Decoding, n
  <2> QED
    BY <2>4, <2>6 DEF IInv
<1> QED
  BY <1>2, <1>3, <1>4 DEF DecodeAddress

LEMMA ReplyToStep == ASSUME IInv, DecodeReplyTo PROVE IInv'
<1> DEFINE n == GetLe(Peek(0, U16))
<1>1. U16 \in Nat /\ at = "reply_to"
  BY Widths DEF DecodeReplyTo
<1>2. Remaining >= U16 => n \in Nat
  <2>1. Remaining >= U16 => Peek(0, U16) \in Seq(Byte)
    <3>1. Remaining >= U16 => pos + 0 + U16 <= Len(frame)
      BY <1>1, StateFacts
    <3> QED
      BY <1>1, <3>1, StateFacts, PeekFacts
  <2> QED
    BY <2>1, GetLeNat
<1>3. CASE Refuse("IncompleteReplyTo", 0)
  <2>1. pos + 0 <= Len(frame) /\ "IncompleteReplyTo" \in Errors
    BY StateFacts DEF Errors, Incomplete
  <2> QED
    BY <1>3, <2>1, Refusing
<1>4. ASSUME NEW e \in Errors, Remaining >= U16, Refuse(e, U16) PROVE IInv'
  <2>1. pos + U16 <= Len(frame)
    BY <1>1, <1>4, StateFacts
  <2> QED
    BY <1>1, <1>4, <2>1, Refusing
<1>5. CASE Remaining >= U16 /\ Remaining >= U16 + n /\ Refuse("InvalidReplyTo", U16 + n)
  <2>1. U16 + n \in Nat /\ pos + (U16 + n) <= Len(frame) /\ "InvalidReplyTo" \in Errors
    BY <1>1, <1>2, <1>5, StateFacts DEF Errors
  <2> HIDE DEF n
  <2> QED
    BY <1>5, <2>1, Refusing
<1>6. CASE /\ Remaining >= U16 /\ n \in 1..MAX_ADDRESS_LEN /\ Remaining >= U16 + n
           /\ IsUtf8(Peek(U16, n)) /\ ValidateAddress(Peek(U16, n))
           /\ Read(U16 + n, [got EXCEPT !.reply_to = Peek(U16, n)], "payload")
  <2>1. /\ Peek(U16, n) \in Seq(Byte) /\ Len(Peek(U16, n)) = n
        /\ n \in Nat /\ U16 + n \in Nat
    <3>1. n \in Nat
      BY <1>2, <1>6
    <3> HIDE DEF n
    <3>2. pos + U16 + n <= Len(frame)
      BY <1>1, <1>6, <3>1, StateFacts
    <3> QED
      BY <1>1, <3>1, <3>2, StateFacts, PeekFacts
  <2> DEFINE m == [got EXCEPT !.reply_to = Peek(U16, n)]
  <2>2. m \in Message
    BY <2>1, StateFacts DEF Message
  <2>3. at' = "payload" /\ got' = m /\ TypeOK' /\ NeverPanics' /\ Fresh'
    <3> HIDE DEF m, n
    <3>1. Read(U16 + n, m, "payload")
      BY <1>6 DEF m
    <3> QED
      BY <1>6, <2>1, <2>2, <3>1, ReadingIsTyped, StateFacts DEF Decoding
  <2>4. /\ m.reply_to = Peek(U16, n) /\ m.msg_type_len = got.msg_type_len
        /\ m.msg_type = got.msg_type /\ m.version = got.version /\ m.flags = got.flags
        /\ m.address_len = got.address_len /\ m.payload_len = got.payload_len
        /\ m.address = got.address
    BY StateFacts DEF Message
  <2>5. CheckedSoFar'
    <3> HIDE DEF m, n
    <3> QED
      BY <1>1, <1>6, <2>1, <2>3, <2>4 DEF IInv, CheckedSoFar, Decoding
  <2> QED
    BY <2>3, <2>5 DEF IInv
<1>7. /\ "MissingReplyToForInOut" \in Errors /\ "ReplyToTooLong" \in Errors
      /\ "IncompleteReplyTo" \in Errors
  BY DEF Errors, Incomplete
<1> QED
  BY <1>3, <1>4, <1>5, <1>6, <1>7 DEF DecodeReplyTo

LEMMA PayloadStep == ASSUME IInv, DecodePayload PROVE IInv'
<1> DEFINE n == got.payload_len
<1>1. n \in Nat /\ at = "payload"
  BY LengthFacts DEF DecodePayload
<1>2. CASE Refuse("IncompletePayload", 0)
  <2>1. pos + 0 <= Len(frame) /\ "IncompletePayload" \in Errors
    BY StateFacts DEF Errors, Incomplete
  <2> QED
    BY <1>2, <2>1, Refusing
<1>3. CASE Remaining >= n /\ Read(n, [got EXCEPT !.payload = Peek(0, n)], "done")
  <2>1. Peek(0, n) \in Seq(Byte) /\ Len(Peek(0, n)) = n
    <3> HIDE DEF n
    <3>1. pos + 0 + n <= Len(frame)
      BY <1>1, <1>3, StateFacts
    <3> QED
      BY <1>1, <3>1, StateFacts, PeekFacts
  <2> DEFINE m == [got EXCEPT !.payload = Peek(0, n)]
  <2>2. m \in Message
    BY <2>1, StateFacts DEF Message
  <2>3. at' = "done" /\ got' = m /\ TypeOK' /\ NeverPanics' /\ Fresh'
    <3> HIDE DEF m, n
    <3>1. Read(n, m, "done")
      BY <1>3 DEF m
    <3> QED
      BY <1>1, <1>3, <2>2, <3>1, ReadingIsTyped, StateFacts DEF Decoding
  <2>4. /\ m.payload = Peek(0, n) /\ m.msg_type_len = got.msg_type_len
        /\ m.msg_type = got.msg_type /\ m.version = got.version /\ m.flags = got.flags
        /\ m.address_len = got.address_len /\ m.payload_len = n
        /\ m.reply_to = got.reply_to /\ m.address = got.address
    BY StateFacts DEF Message
  <2>5. CheckedSoFar'
    <3> HIDE DEF m, n
    <3> QED
      BY <1>1, <1>3, <2>1, <2>3, <2>4 DEF IInv, CheckedSoFar, Decoding, n
  <2> QED
    BY <2>3, <2>5 DEF IInv
<1> QED
  BY <1>2, <1>3 DEF DecodePayload

\* The decoder's invariant.
THEOREM Invariance == Spec => []IInv
<1>1. Init => IInv
  <2>1. ASSUME Init PROVE IInv
    <3>1. 0 \in 0..(Pow(U16) - 1) /\ 0 \in 0..(Pow(U32) - 1) /\ 0 \in Byte
      BY Limits, Widths
    <3>2. NoMessage \in Message /\ NoMessage.flags = 0
      BY <3>1 DEF NoMessage, Message
    <3>3. TypeOK
      BY <2>1, <3>2 DEF Init, TypeOK
    <3> QED
      BY <2>1, <3>2, <3>3 DEF Init, IInv, NeverPanics, Fresh, CheckedSoFar, Decoding
  <2> QED
    BY <2>1
<1>2. IInv /\ [Next]_vars => IInv'
  <2>1. ASSUME IInv, UNCHANGED vars PROVE IInv'
    BY <2>1 DEF vars, IInv, TypeOK, NeverPanics, Fresh, CheckedSoFar, Decoding
  <2>2. ASSUME IInv, Next PROVE IInv'
    BY <2>2, BuildStep, HeaderStep, MsgTypeStep, AddressStep, ReplyToStep, PayloadStep DEF Next
  <2> QED
    BY <2>1, <2>2
<1> QED
  BY <1>1, <1>2, PTL DEF Spec

\* Type correctness of the codec: every length that encode writes or decode
\* reads fits its field.
THEOREM TypeCorrect == Spec => []TypeOK
<1>1. IInv => TypeOK
  BY DEF IInv
<1> QED
  BY <1>1, Invariance, PTL

\* No buffer makes decode read past its end: each get_* and copy_to_bytes is
\* covered by the check of remaining() before it.
THEOREM DecodeNeverPanics == Spec => []NeverPanics
<1>1. IInv => NeverPanics
  BY DEF IInv
<1> QED
  BY <1>1, Invariance, PTL

\* What decode returns, from any buffer, has passed the checks of Message::new:
\* the limits, the addresses and the pairing of the mode bit and reply_to. The
\* reserved bits of flags, which decode does not look at, are left open.
THEOREM DecodedValid == Spec => []DecodedIsValid
<1>1. IInv => DecodedIsValid
  <2>1. SUFFICES ASSUME IInv, at = "done"
                 PROVE  NewAccepts([mode |-> ModeOf(got.flags), msg_type |-> got.msg_type,
                                    address |-> got.address, reply_to |-> got.reply_to,
                                    payload |-> got.payload])
    BY DEF DecodedIsValid
  <2>2. /\ got.payload_len <= MAX_PAYLOAD_LEN /\ got.address_len <= MAX_ADDRESS_LEN
        /\ Len(got.msg_type) = got.msg_type_len /\ Len(got.address) = got.address_len
        /\ IsUtf8(got.address) /\ ValidateAddress(got.address)
        /\ Len(got.payload) = got.payload_len
        /\ IF ModeOf(got.flags) = InOut
           THEN /\ Len(got.reply_to) \in 1..MAX_ADDRESS_LEN
                /\ IsUtf8(got.reply_to) /\ ValidateAddress(got.reply_to)
           ELSE got.reply_to = <<>>
    BY <2>1 DEF IInv, CheckedSoFar, Decoding
  <2>3. got.msg_type_len \in Byte /\ got.reply_to \in Seq(Byte)
    BY <2>1, StateFacts DEF Message
  <2>4. /\ Len(got.msg_type) <= MAX_MSG_TYPE_LEN
        /\ Len(got.reply_to) <= MAX_ADDRESS_LEN
        /\ ModeOf(got.flags) = InOut <=> got.reply_to # <<>>
    BY <2>2, <2>3, Limits, Widths DEF Byte
  <2>5. got.payload_len % Pow(U32) = got.payload_len
    <3>1. ASSUME NEW k \in Nat, NEW l \in Nat, NEW b \in Nat, k <= l, l < b PROVE k % b = k
      BY <3>1
    <3> QED
      BY <2>1, <2>2, <3>1, LengthFacts, Limits
  <2> QED
    BY <2>2, <2>4, <2>5 DEF NewAccepts
<1> QED
  BY <1>1, Invariance, PTL

-----------------------------------------------------------------------------
(* The bytes that were read *)

\* The frame of m up to and including a field.
UpToType(m) == EncodeHeader(m) \o m.msg_type
UpToAddress(m) == UpToType(m) \o m.address
UpToReplyTo(m) == UpToAddress(m) \o EncodeReplyTo(m)

\* The bytes read so far are the encoding of what has been decoded so far.
Consumed ==
    LET read == SubSeq(frame, 1, pos)
    IN  /\ at \in Decoding => Len(got.ident) = IDENT_LEN
        /\ at = "msg_type" => read = EncodeHeader(got)
        /\ at = "address" => read = UpToType(got)
        /\ at = "reply_to" => read = UpToAddress(got)
        /\ at = "payload" => read = UpToReplyTo(got)
        /\ at = "done" => read = Encode(got)

\* A beginning of a buffer and the next bytes.
LEMMA NextBytes ==
    ASSUME NEW f \in Seq(Byte), NEW a \in Nat, NEW n \in Nat, a + n <= Len(f)
    PROVE  SubSeq(f, 1, a + n) = SubSeq(f, 1, a) \o SubSeq(f, a + 1, a + n)
<1>1. a \in Int /\ a + n \in Int /\ 1 \in 1..(Len(f) + 1) /\ a \in 0..Len(f) /\ a + n \in a..Len(f)
  OBVIOUS
<1> QED
  BY <1>1, ConcatAdjacentSubSeq

\* The same for a read at pos.
LEMMA ReadBytes ==
    ASSUME frame \in Seq(Byte), pos \in Nat, NEW from \in Nat, NEW n \in Nat,
           pos + from + n <= Len(frame)
    PROVE  SubSeq(frame, 1, pos + from + n) = SubSeq(frame, 1, pos + from) \o Peek(from, n)
<1>1. pos + from \in Nat
  OBVIOUS
<1> QED
  BY <1>1, NextBytes DEF Peek

\* The bytes of the fixed header are the encoding of the header read from them.
LEMMA HeaderBytes ==
    ASSUME frame \in Seq(Byte), pos = 0, FIXED_HEADER_SIZE <= Len(frame)
    PROVE  SubSeq(frame, 1, FIXED_HEADER_SIZE) = EncodeHeader(Header) /\ Len(Header.ident) = IDENT_LEN
<1> DEFINE o2 == U16 + 1  o3 == o2 + IDENT_LEN  o4 == o3 + 1  o5 == o4 + U16
<1>1. /\ U16 \in 1..4 /\ U32 \in 1..4 /\ U16 \in Nat /\ U32 \in Nat /\ IDENT_LEN \in Nat
      /\ Len(frame) \in Nat /\ o2 \in Nat /\ o3 \in Nat /\ o4 \in Nat /\ o5 \in Nat
      /\ FIXED_HEADER_SIZE = o5 + U32 /\ o5 + U32 <= Len(frame)
  BY Widths
<1>2. pos \in Nat /\ pos + FIXED_HEADER_SIZE <= Len(frame)
  BY <1>1
<1>3. /\ Header.version = GetLe(Peek(0, U16))
      /\ Header.flags = frame[pos + U16 + 1]
      /\ Header.ident = Peek(o2, IDENT_LEN)
      /\ Header.msg_type_len = frame[pos + U16 + 1 + IDENT_LEN + 1]
      /\ Header.address_len = GetLe(Peek(o4, U16))
      /\ Header.payload_len = GetLe(Peek(o5, U32))
  BY <1>2, HeaderFacts
<1>4. Header.flags = frame[U16 + 1] /\ Header.msg_type_len = frame[o3 + 1]
  BY <1>1, <1>3
<1>5. /\ U16 <= o2 /\ o2 <= o3 /\ o3 <= o4 /\ o4 <= o5 /\ o2 = U16 + 1 /\ o4 = o3 + 1
      /\ o3 = o2 + IDENT_LEN /\ o5 = o4 + U16
  BY <1>1
<1> HIDE DEF o2, o3, o4, o5
<1>6. ASSUME NEW from \in Nat, NEW n \in Nat, from + n <= Len(frame)
      PROVE  /\ Peek(from, n) \in Seq(Byte) /\ Len(Peek(from, n)) = n
             /\ \A i \in 1..n : Peek(from, n)[i] = frame[from + i]
             /\ SubSeq(frame, 1, from + n) = SubSeq(frame, 1, from) \o Peek(from, n)
  <2>1. pos \in Nat /\ pos + from + n <= Len(frame) /\ pos + from = from /\ pos + from + n = from + n
    BY <1>6
  <2>2. /\ Peek(from, n) \in Seq(Byte) /\ Len(Peek(from, n)) = n
        /\ \A i \in 1..n : Peek(from, n)[i] = frame[pos + from + i]
    BY <2>1, PeekFacts
  <2>3. SubSeq(frame, 1, pos + from + n) = SubSeq(frame, 1, pos + from) \o Peek(from, n)
    BY <2>1, ReadBytes
  <2> QED
    BY <2>1, <2>2, <2>3
<1>7. SubSeq(frame, 1, U16) = PutLe(Header.version, U16)
  <2>1. U16 <= Len(frame)
    BY <1>1, <1>5
  <2>2. Peek(0, U16) = SubSeq(frame, 1, U16)
    BY <1>1 DEF Peek
  <2>3. Peek(0, U16) \in Seq(Byte) /\ Len(Peek(0, U16)) = U16
    BY <1>1, <1>6, <2>1
  <2> QED
    BY <1>1, <1>3, <2>2, <2>3, PutGet
<1>8. ASSUME NEW from \in Nat, from + 1 <= Len(frame) PROVE Peek(from, 1) = <<frame[from + 1]>>
  <2>1. Peek(from, 1) \in Seq(Byte) /\ Len(Peek(from, 1)) = 1
        /\ \A i \in 1..1 : Peek(from, 1)[i] = frame[from + i]
    BY <1>6, <1>8
  <2>2. Peek(from, 1)[1] = frame[from + 1]
    BY <2>1
  <2> QED
    BY <2>1, <2>2
<1>9. SubSeq(frame, 1, o2) = SubSeq(frame, 1, U16) \o <<Header.flags>>
  <2>1. U16 + 1 <= Len(frame)
    BY <1>1, <1>5
  <2>2. SubSeq(frame, 1, U16 + 1) = SubSeq(frame, 1, U16) \o Peek(U16, 1)
    BY <1>1, <1>6, <2>1
  <2>3. Peek(U16, 1) = <<frame[U16 + 1]>>
    BY <1>1, <1>8, <2>1
  <2> QED
    BY <1>4, <1>5, <2>2, <2>3
<1>10. SubSeq(frame, 1, o3) = SubSeq(frame, 1, o2) \o Header.ident /\ Len(Header.ident) = IDENT_LEN
  <2>1. o2 + IDENT_LEN <= Len(frame)
    BY <1>1, <1>5
  <2>2. /\ Len(Peek(o2, IDENT_LEN)) = IDENT_LEN
        /\ SubSeq(frame, 1, o2 + IDENT_LEN) = SubSeq(frame, 1, o2) \o Peek(o2, IDENT_LEN)
    BY <1>1, <1>6, <2>1
  <2> QED
    BY <1>3, <1>5, <2>2
<1>11. SubSeq(frame, 1, o4) = SubSeq(frame, 1, o3) \o <<Header.msg_type_len>>
  <2>1. o3 + 1 <= Len(frame)
    BY <1>1, <1>5
  <2>2. SubSeq(frame, 1, o3 + 1) = SubSeq(frame, 1, o3) \o Peek(o3, 1)
    BY <1>1, <1>6, <2>1
  <2>3. Peek(o3, 1) = <<frame[o3 + 1]>>
    BY <1>1, <1>8, <2>1
  <2> QED
    BY <1>4, <1>5, <2>2, <2>3
<1>12. SubSeq(frame, 1, o5) = SubSeq(frame, 1, o4) \o PutLe(Header.address_len, U16)
  <2>1. o4 + U16 <= Len(frame)
    BY <1>1, <1>5
  <2>2. /\ Peek(o4, U16) \in Seq(Byte) /\ Len(Peek(o4, U16)) = U16
        /\ SubSeq(frame, 1, o4 + U16) = SubSeq(frame, 1, o4) \o Peek(o4, U16)
    BY <1>1, <1>6, <2>1
  <2>3. PutLe(GetLe(Peek(o4, U16)), U16) = Peek(o4, U16)
    BY <1>1, <2>2, PutGet
  <2> QED
    BY <1>3, <1>5, <2>2, <2>3
<1>13. SubSeq(frame, 1, o5 + U32) = SubSeq(frame, 1, o5) \o PutLe(Header.payload_len, U32)
  <2>1. /\ Peek(o5, U32) \in Seq(Byte) /\ Len(Peek(o5, U32)) = U32
        /\ SubSeq(frame, 1, o5 + U32) = SubSeq(frame, 1, o5) \o Peek(o5, U32)
    BY <1>1, <1>6
  <2>2. PutLe(GetLe(Peek(o5, U32)), U32) = Peek(o5, U32)
    BY <1>1, <2>1, PutGet
  <2> QED
    BY <1>3, <2>1, <2>2
<1> QED
  BY <1>1, <1>7, <1>9, <1>10, <1>11, <1>12, <1>13, Zenon DEF EncodeHeader

\* Bytes after bytes.
LEMMA Joined ==
    ASSUME NEW x \in Seq(Byte), NEW y \in Seq(Byte)
    PROVE  x \o y \in Seq(Byte) /\ Len(x \o y) = Len(x) + Len(y)
BY ConcatProperties

\* The lengths of the parts of a frame.
LEMMA EncodedLengths ==
    ASSUME NEW m \in Message, Len(m.ident) = IDENT_LEN
    PROVE  /\ EncodeHeader(m) \in Seq(Byte) /\ Len(EncodeHeader(m)) = FIXED_HEADER_SIZE
           /\ UpToType(m) \in Seq(Byte) /\ Len(UpToType(m)) = FIXED_HEADER_SIZE + Len(m.msg_type)
           /\ UpToAddress(m) \in Seq(Byte)
           /\ Len(UpToAddress(m)) = FIXED_HEADER_SIZE + Len(m.msg_type) + Len(m.address)
           /\ EncodeReplyTo(m) \in Seq(Byte)
           /\ Len(EncodeReplyTo(m)) = IF ModeOf(m.flags) = InOut THEN U16 + Len(m.reply_to) ELSE 0
           /\ UpToReplyTo(m) \in Seq(Byte)
           /\ Len(UpToReplyTo(m)) = Len(UpToAddress(m)) + Len(EncodeReplyTo(m))
           /\ Encode(m) \in Seq(Byte) /\ Len(Encode(m)) = Len(UpToReplyTo(m)) + Len(m.payload)
<1>1. /\ m.version \in Nat /\ m.address_len \in Nat /\ m.payload_len \in Nat
      /\ m.flags \in Byte /\ m.msg_type_len \in Byte /\ m.ident \in Seq(Byte)
      /\ m.msg_type \in Seq(Byte) /\ m.address \in Seq(Byte)
      /\ m.reply_to \in Seq(Byte) /\ m.payload \in Seq(Byte)
  BY Limits DEF Message
<1>2. EncodeHeader(m) \in Seq(Byte) /\ Len(EncodeHeader(m)) = FIXED_HEADER_SIZE
  <2> DEFINE a == PutLe(m.version, U16)  b == <<m.flags>>  c == <<m.msg_type_len>>
             d == PutLe(m.address_len, U16)  e == PutLe(m.payload_len, U32)
  <2>1. a \in Seq(Byte) /\ Len(a) = U16 /\ d \in Seq(Byte) /\ Len(d) = U16
        /\ e \in Seq(Byte) /\ Len(e) = U32
    BY <1>1, Widths, PutLeType
  <2>2. b \in Seq(Byte) /\ Len(b) = 1 /\ c \in Seq(Byte) /\ Len(c) = 1
    BY <1>1
  <2> DEFINE x1 == a \o b  x2 == x1 \o m.ident  x3 == x2 \o c  x4 == x3 \o d  x5 == x4 \o e
  <2>3. EncodeHeader(m) = x5
    BY DEF EncodeHeader
  <2> HIDE DEF a, b, c, d, e
  <2>4. x1 \in Seq(Byte) /\ Len(x1) = Len(a) + Len(b)
    BY <2>1, <2>2, Joined
  <2> HIDE DEF x1
  <2>5. x2 \in Seq(Byte) /\ Len(x2) = Len(x1) + Len(m.ident)
    BY <1>1, <2>4, Joined
  <2> HIDE DEF x2
  <2>6. x3 \in Seq(Byte) /\ Len(x3) = Len(x2) + Len(c)
    BY <2>2, <2>5, Joined
  <2> HIDE DEF x3
  <2>7. x4 \in Seq(Byte) /\ Len(x4) = Len(x3) + Len(d)
    BY <2>1, <2>6, Joined
  <2> HIDE DEF x4
  <2>8. x5 \in Seq(Byte) /\ Len(x5) = Len(x4) + Len(e)
    BY <2>1, <2>7, Joined
  <2> HIDE DEF x5
  <2> QED
    BY <2>1, <2>2, <2>3, <2>4, <2>5, <2>6, <2>7, <2>8, Widths
<1>3. /\ UpToType(m) \in Seq(Byte) /\ Len(UpToType(m)) = FIXED_HEADER_SIZE + Len(m.msg_type)
  BY <1>1, <1>2, Joined DEF UpToType
<1>4. /\ UpToAddress(m) \in Seq(Byte)
      /\ Len(UpToAddress(m)) = FIXED_HEADER_SIZE + Len(m.msg_type) + Len(m.address)
  BY <1>1, <1>3, Joined DEF UpToAddress
<1>5. /\ EncodeReplyTo(m) \in Seq(Byte)
      /\ Len(EncodeReplyTo(m)) = IF ModeOf(m.flags) = InOut THEN U16 + Len(m.reply_to) ELSE 0
  <2> DEFINE a == PutLe(Len(m.reply_to) % Pow(U16), U16)
  <2>1. Len(m.reply_to) % Pow(U16) \in Nat
    BY <1>1, Limits
  <2>2. a \in Seq(Byte) /\ Len(a) = U16
    BY <2>1, Widths, PutLeType
  <2>3. EncodeReplyTo(m) = IF ModeOf(m.flags) = InOut THEN a \o m.reply_to ELSE <<>>
    BY DEF EncodeReplyTo
  <2> HIDE DEF a
  <2>4. a \o m.reply_to \in Seq(Byte) /\ Len(a \o m.reply_to) = U16 + Len(m.reply_to)
    BY <1>1, <2>2, Joined
  <2> QED
    BY <2>3, <2>4
<1>6. /\ UpToReplyTo(m) \in Seq(Byte)
      /\ Len(UpToReplyTo(m)) = Len(UpToAddress(m)) + Len(EncodeReplyTo(m))
  BY <1>4, <1>5, Joined DEF UpToReplyTo
<1>7. Encode(m) = UpToReplyTo(m) \o m.payload
  BY DEF Encode, UpToReplyTo, UpToAddress, UpToType
<1>8. Encode(m) \in Seq(Byte) /\ Len(Encode(m)) = Len(UpToReplyTo(m)) + Len(m.payload)
  BY <1>1, <1>6, <1>7, Joined
<1> QED
  BY <1>2, <1>3, <1>4, <1>5, <1>6, <1>8

\* A field of n bytes is read and appended to what has been read.
LEMMA FieldRead ==
    ASSUME IInv, NEW n \in Nat, n <= Remaining, NEW m, NEW next, Read(n, m, next)
    PROVE  /\ at' = next /\ pos' = pos + n /\ got' = m /\ UNCHANGED <<msg, frame, origin, error>>
           /\ SubSeq(frame', 1, pos') = SubSeq(frame, 1, pos) \o Peek(0, n)
           /\ SubSeq(frame, 1, pos) \in Seq(Byte)
           /\ Peek(0, n) \in Seq(Byte) /\ Len(Peek(0, n)) = n
<1>1. at' = next /\ pos' = pos + n /\ got' = m /\ UNCHANGED <<msg, frame, origin, error>>
  BY StateFacts, Reading
<1>2. pos + n <= Len(frame) /\ pos + 0 = pos /\ pos \in 0..Len(frame)
  BY StateFacts
<1>3. SubSeq(frame, 1, pos + n) = SubSeq(frame, 1, pos) \o Peek(0, n)
  <2>1. pos + 0 + n <= Len(frame)
    BY <1>2, StateFacts
  <2> QED
    BY <1>2, <2>1, StateFacts, ReadBytes
<1>4. Peek(0, n) \in Seq(Byte) /\ Len(Peek(0, n)) = n
  <2>1. pos + 0 + n <= Len(frame)
    BY <1>2, StateFacts
  <2> QED
    BY <2>1, StateFacts, PeekFacts
<1>5. SubSeq(frame, 1, pos) \in Seq(Byte)
  BY <1>2, StateFacts, FirstElements
<1> QED
  BY <1>1, <1>3, <1>4, <1>5

\* Each read appends to the bytes read what it appends to the encoding.
LEMMA ConsumedStep == ASSUME IInv, Consumed, [Next]_vars PROVE Consumed'
<1>1. CASE UNCHANGED vars
  BY <1>1 DEF vars, Consumed
<1>2. CASE at' \notin Decoding
  BY <1>2 DEF Consumed, Decoding
<1>3. CASE DecodeHeader /\ at' \in Decoding
  <2>1. /\ at = "header" /\ Remaining >= FIXED_HEADER_SIZE
        /\ Read(FIXED_HEADER_SIZE, Header, "msg_type")
    BY <1>3 DEF DecodeHeader, Refuse, Decoding
  <2>2. pos = 0 /\ FIXED_HEADER_SIZE \in Nat
    BY <2>1, Widths DEF IInv, Fresh
  <2>3. at' = "msg_type" /\ pos' = FIXED_HEADER_SIZE /\ got' = Header /\ frame' = frame
    <3>1. FIXED_HEADER_SIZE <= Remaining
      BY <2>1, <2>2, StateFacts
    <3>2. at' = "msg_type" /\ pos' = pos + FIXED_HEADER_SIZE /\ got' = Header /\ frame' = frame
      BY <2>1, <2>2, <3>1, FieldRead
    <3> QED
      BY <2>2, <3>2
  <2>4. FIXED_HEADER_SIZE <= Len(frame)
    BY <2>1, <2>2, StateFacts
  <2>5. SubSeq(frame, 1, FIXED_HEADER_SIZE) = EncodeHeader(Header) /\ Len(Header.ident) = IDENT_LEN
    BY <2>2, <2>4, StateFacts, HeaderBytes
  <2> QED
    BY <2>3, <2>5 DEF Consumed
<1>4. CASE DecodeMsgType /\ at' \in Decoding
  <2> DEFINE n == got.msg_type_len  m == [got EXCEPT !.msg_type = Peek(0, n)]
  <2>1. at = "msg_type" /\ Remaining >= n /\ Read(n, m, "address")
    BY <1>4 DEF DecodeMsgType, Refuse, Decoding
  <2>2. /\ m.msg_type = Peek(0, n) /\ m.ident = got.ident /\ m.version = got.version
        /\ m.flags = got.flags /\ m.msg_type_len = got.msg_type_len
        /\ m.address_len = got.address_len /\ m.payload_len = got.payload_len
    BY StateFacts DEF Message
  <2>3. n \in Nat
    BY LengthFacts
  <2> HIDE DEF n, m
  <2>4. /\ at' = "address" /\ got' = m
        /\ SubSeq(frame', 1, pos') = SubSeq(frame, 1, pos) \o Peek(0, n)
    BY <2>1, <2>3, StateFacts, FieldRead
  <2>5. SubSeq(frame, 1, pos) = EncodeHeader(got) /\ Len(got.ident) = IDENT_LEN
    BY <2>1 DEF Consumed, Decoding
  <2>6. EncodeHeader(m) = EncodeHeader(got)
    BY <2>2 DEF EncodeHeader
  <2>7. SubSeq(frame', 1, pos') = UpToType(m)
    BY <2>2, <2>4, <2>5, <2>6 DEF UpToType
  <2> QED
    BY <2>2, <2>4, <2>5, <2>7 DEF Consumed
<1>5. CASE DecodeAddress /\ at' \in Decoding
  <2> DEFINE n == got.address_len  m == [got EXCEPT !.address = Peek(0, n)]
  <2>1. at = "address" /\ Remaining >= n /\ Read(n, m, AfterAddress(got))
    BY <1>5 DEF DecodeAddress, Refuse, Decoding
  <2>2. /\ m.address = Peek(0, n) /\ m.msg_type = got.msg_type
        /\ m.ident = got.ident /\ m.version = got.version
        /\ m.flags = got.flags /\ m.msg_type_len = got.msg_type_len
        /\ m.address_len = got.address_len /\ m.payload_len = got.payload_len
    BY StateFacts DEF Message
  <2>3. n \in Nat
    BY LengthFacts
  <2> HIDE DEF n, m
  <2>4. /\ at' = AfterAddress(got) /\ got' = m
        /\ SubSeq(frame', 1, pos') = SubSeq(frame, 1, pos) \o Peek(0, n)
        /\ SubSeq(frame, 1, pos) \in Seq(Byte) /\ Peek(0, n) \in Seq(Byte)
    BY <2>1, <2>3, StateFacts, FieldRead
  <2>5. SubSeq(frame, 1, pos) = UpToType(got) /\ Len(got.ident) = IDENT_LEN
    BY <2>1 DEF Consumed, Decoding
  <2>6. UpToType(m) = UpToType(got)
    BY <2>2 DEF UpToType, EncodeHeader
  <2>7. SubSeq(frame', 1, pos') = UpToAddress(m) /\ UpToAddress(m) \in Seq(Byte)
    <3>1. SubSeq(frame', 1, pos') = UpToAddress(m)
      BY <2>2, <2>4, <2>5, <2>6 DEF UpToAddress
    <3>2. SubSeq(frame, 1, pos) \o Peek(0, n) \in Seq(Byte)
      BY <2>4, ConcatProperties
    <3> QED
      BY <2>4, <3>1, <3>2
  <2>8. CASE AfterAddress(got) = "reply_to"
    BY <2>2, <2>4, <2>5, <2>7, <2>8 DEF Consumed
  <2>9. CASE AfterAddress(got) = "payload"
    <3>1. EncodeReplyTo(m) = <<>>
      BY <2>2, <2>9 DEF EncodeReplyTo, AfterAddress
    <3>2. UpToReplyTo(m) = UpToAddress(m)
      BY <2>7, <3>1, ConcatEmptySeq DEF UpToReplyTo
    <3> QED
      BY <2>2, <2>4, <2>5, <2>7, <2>9, <3>2 DEF Consumed
  <2> QED
    BY <2>8, <2>9 DEF AfterAddress
<1>6. CASE DecodeReplyTo /\ at' \in Decoding
  <2> DEFINE n == GetLe(Peek(0, U16))  m == [got EXCEPT !.reply_to = Peek(U16, n)]
  <2>1. /\ at = "reply_to" /\ Remaining >= U16 /\ n \in 1..MAX_ADDRESS_LEN
        /\ Remaining >= U16 + n /\ Read(U16 + n, m, "payload")
    BY <1>6 DEF DecodeReplyTo, Refuse, Decoding
  <2>2. /\ m.reply_to = Peek(U16, n) /\ m.address = got.address /\ m.msg_type = got.msg_type
        /\ m.ident = got.ident /\ m.version = got.version
        /\ m.flags = got.flags /\ m.msg_type_len = got.msg_type_len
        /\ m.address_len = got.address_len /\ m.payload_len = got.payload_len
    BY StateFacts DEF Message
  <2>3. n \in Nat /\ n < Pow(U16) /\ U16 \in Nat /\ U16 \in 1..4
    BY <2>1, Limits, Widths
  <2>4. /\ Peek(0, U16) \in Seq(Byte) /\ Len(Peek(0, U16)) = U16
        /\ SubSeq(frame, 1, pos + U16) = SubSeq(frame, 1, pos) \o Peek(0, U16)
    <3>1. pos + 0 + U16 <= Len(frame) /\ pos + 0 + U16 = pos + U16 /\ pos + 0 = pos
      BY <2>1, <2>3, StateFacts
    <3>2. /\ Peek(0, U16) \in Seq(Byte) /\ Len(Peek(0, U16)) = U16
      BY <2>3, <3>1, StateFacts, PeekFacts
    <3>3. SubSeq(frame, 1, pos + 0 + U16) = SubSeq(frame, 1, pos + 0) \o Peek(0, U16)
      BY <2>3, <3>1, StateFacts, ReadBytes
    <3> QED
      BY <3>1, <3>2, <3>3
  <2>5. PutLe(n, U16) = Peek(0, U16)
    BY <2>3, <2>4, PutGet
  <2> HIDE DEF n, m
  <2>6. /\ Peek(U16, n) \in Seq(Byte) /\ Len(Peek(U16, n)) = n
        /\ SubSeq(frame, 1, pos + (U16 + n)) = SubSeq(frame, 1, pos + U16) \o Peek(U16, n)
    <3>1. pos + U16 + n <= Len(frame) /\ pos + (U16 + n) = pos + U16 + n
      BY <2>1, <2>3, StateFacts
    <3>2. /\ Peek(U16, n) \in Seq(Byte) /\ Len(Peek(U16, n)) = n
      BY <2>3, <3>1, StateFacts, PeekFacts
    <3>3. SubSeq(frame, 1, pos + U16 + n) = SubSeq(frame, 1, pos + U16) \o Peek(U16, n)
      BY <2>3, <3>1, StateFacts, ReadBytes
    <3> QED
      BY <3>1, <3>2, <3>3
  <2>7. at' = "payload" /\ got' = m /\ pos' = pos + (U16 + n) /\ frame' = frame
    <3>1. U16 + n \in Nat /\ U16 + n <= Remaining
      BY <2>1, <2>3, StateFacts
    <3> QED
      BY <2>1, <3>1, FieldRead
  <2>8. SubSeq(frame, 1, pos) = UpToAddress(got) /\ Len(got.ident) = IDENT_LEN
        /\ ModeOf(got.flags) = InOut
    BY <2>1 DEF IInv, CheckedSoFar, Consumed, Decoding
  <2>9. UpToAddress(m) = UpToAddress(got)
    BY <2>2 DEF UpToAddress, UpToType, EncodeHeader
  <2>10. EncodeReplyTo(m) = Peek(0, U16) \o Peek(U16, n)
    <3>1. Len(m.reply_to) % Pow(U16) = n
      BY <2>2, <2>3, <2>6, Limits, SmallMod
    <3> QED
      BY <2>2, <2>5, <2>8, <3>1 DEF EncodeReplyTo
  <2>11. SubSeq(frame', 1, pos') = UpToReplyTo(m)
    <3>1. SubSeq(frame, 1, pos) \in Seq(Byte)
      <4>1. pos \in 0..Len(frame)
        BY StateFacts
      <4> QED
        BY <4>1, StateFacts, FirstElements
    <3>2. (SubSeq(frame, 1, pos) \o Peek(0, U16)) \o Peek(U16, n)
             = SubSeq(frame, 1, pos) \o (Peek(0, U16) \o Peek(U16, n))
      <4>1. ASSUME NEW x \in Seq(Byte), NEW y \in Seq(Byte), NEW z \in Seq(Byte)
            PROVE  (x \o y) \o z = x \o (y \o z)
        BY ONLY <4>1, ConcatAssociative
      <4> QED
        BY <2>4, <2>6, <3>1, <4>1
    <3> QED
      BY <2>4, <2>6, <2>7, <2>8, <2>9, <2>10, <3>2 DEF UpToReplyTo
  <2> QED
    BY <2>2, <2>7, <2>8, <2>11 DEF Consumed
<1>7. CASE DecodePayload /\ at' \in Decoding
  <2> DEFINE n == got.payload_len  m == [got EXCEPT !.payload = Peek(0, n)]
  <2>1. at = "payload" /\ Remaining >= n /\ Read(n, m, "done")
    BY <1>7 DEF DecodePayload, Refuse, Decoding
  <2>2. /\ m.payload = Peek(0, n) /\ m.reply_to = got.reply_to
        /\ m.address = got.address /\ m.msg_type = got.msg_type
        /\ m.ident = got.ident /\ m.version = got.version
        /\ m.flags = got.flags /\ m.msg_type_len = got.msg_type_len
        /\ m.address_len = got.address_len /\ m.payload_len = got.payload_len
    BY StateFacts DEF Message
  <2>3. n \in Nat
    BY LengthFacts
  <2> HIDE DEF n, m
  <2>4. /\ at' = "done" /\ got' = m
        /\ SubSeq(frame', 1, pos') = SubSeq(frame, 1, pos) \o Peek(0, n)
    BY <2>1, <2>3, StateFacts, FieldRead
  <2>5. SubSeq(frame, 1, pos) = UpToReplyTo(got) /\ Len(got.ident) = IDENT_LEN
    BY <2>1 DEF Consumed, Decoding
  <2>6. UpToReplyTo(m) = UpToReplyTo(got)
    BY <2>2 DEF UpToReplyTo, UpToAddress, UpToType, EncodeHeader, EncodeReplyTo
  <2>7. Encode(m) = UpToReplyTo(m) \o m.payload
    BY DEF Encode, UpToReplyTo, UpToAddress, UpToType
  <2>8. SubSeq(frame', 1, pos') = Encode(m)
    BY <2>2, <2>4, <2>5, <2>6, <2>7
  <2> QED
    BY <2>2, <2>4, <2>5, <2>8 DEF Consumed
<1>8. CASE /\ \/ \E in \in Inputs : New(in)
              \/ \E client \in ClientAddresses : Request(client)
              \/ GiveWhole \/ GiveCut \/ GiveDamaged
           /\ at' \in Decoding
  BY <1>8 DEF New, Request, GiveWhole, GiveCut, GiveDamaged, Give, Decoding
<1> QED
  BY <1>1, <1>2, <1>3, <1>4, <1>5, <1>6, <1>7, <1>8 DEF Next

\* The bytes read so far encode what has been decoded.
LEMMA Reads == Spec => []Consumed
<1>1. Init => Consumed
  BY DEF Init, Consumed, Decoding
<1>2. IInv /\ Consumed /\ [Next]_vars => Consumed'
  BY ConsumedStep
<1> QED
  BY <1>1, <1>2, Invariance, PTL DEF Spec

\* A decoded message encodes to the bytes it was read from, and size() says
\* how many they are.
THEOREM FrameIsCanonical == Spec => []CanonicalFrame
<1>1. IInv /\ Consumed => CanonicalFrame
  <2>1. SUFFICES ASSUME IInv, Consumed, at = "done"
                 PROVE  Encode(got) = SubSeq(frame, 1, pos) /\ Size(got) = pos
    BY DEF CanonicalFrame
  <2>2. Encode(got) = SubSeq(frame, 1, pos) /\ Len(got.ident) = IDENT_LEN
    BY <2>1 DEF Consumed, Decoding
  <2>3. Len(Encode(got)) = pos
    <3>1. pos \in 0..Len(frame)
      BY <2>1, StateFacts
    <3> QED
      BY <2>1, <2>2, <3>1, StateFacts, FirstElements
  <2>4. /\ Len(got.msg_type) = got.msg_type_len /\ Len(got.address) = got.address_len
        /\ Len(got.payload) = got.payload_len
    BY <2>1 DEF IInv, CheckedSoFar, Decoding
  <2>5. /\ Len(UpToAddress(got)) = FIXED_HEADER_SIZE + Len(got.msg_type) + Len(got.address)
        /\ Len(EncodeReplyTo(got)) =
              IF ModeOf(got.flags) = InOut THEN U16 + Len(got.reply_to) ELSE 0
        /\ Len(UpToReplyTo(got)) = Len(UpToAddress(got)) + Len(EncodeReplyTo(got))
        /\ Len(Encode(got)) = Len(UpToReplyTo(got)) + Len(got.payload)
    BY <2>1, <2>2, StateFacts, EncodedLengths
  <2>6. /\ FIXED_HEADER_SIZE \in Nat /\ U16 \in Nat /\ got.msg_type_len \in Nat
        /\ got.address_len \in Nat /\ got.payload_len \in Nat /\ Len(got.reply_to) \in Nat
    <3>1. got.reply_to \in Seq(Byte)
      BY <2>1, StateFacts DEF Message
    <3> QED
      BY <2>1, <3>1, Widths, LengthFacts
  <2>7. Size(got) = pos
    <3> DEFINE r == IF ModeOf(got.flags) = InOut THEN U16 + Len(got.reply_to) ELSE 0
    <3>1. Size(got) = FIXED_HEADER_SIZE + (got.msg_type_len + got.address_len + r) + got.payload_len
      BY DEF Size, VariableHeaderSize
    <3>2. r \in Nat
      BY <2>6
    <3>3. pos = FIXED_HEADER_SIZE + got.msg_type_len + got.address_len + r + got.payload_len
      BY <2>3, <2>4, <2>5
    <3> HIDE DEF r
    <3> QED
      BY <2>6, <3>1, <3>2, <3>3
  <2> QED
    BY <2>2, <2>7
<1> QED
  BY <1>1, Invariance, Reads, PTL

-----------------------------------------------------------------------------
(* From the message that was encoded to the one that is decoded *)

\* x is the beginning of y.
Starts(x, y) == Len(x) <= Len(y) /\ \A i \in 1..Len(x) : y[i] = x[i]

\* A message that was built has a header that tells the truth about all but
\* the length of its payload, which is cast.
WellBuilt ==
    at # "new" =>
        /\ msg.version = 1 /\ Len(msg.ident) = IDENT_LEN
        /\ msg.msg_type_len = Len(msg.msg_type)
        /\ msg.address_len = Len(msg.address) /\ Len(msg.address) <= MAX_ADDRESS_LEN
        /\ IsUtf8(msg.address) /\ ValidateAddress(msg.address)
        /\ msg.payload_len = Len(msg.payload) % Pow(U32) /\ msg.payload_len <= MAX_PAYLOAD_LEN
        /\ ModeOf(msg.flags) # InOut => msg.reply_to = <<>>

\* The buffer of a reader holds the whole frame or a proper beginning of it.
Delivered ==
    /\ origin # "none" => at \notin {"new", "built", "requested"}
    /\ origin = "whole" => Starts(Encode(msg), frame)
    /\ origin = "cut" => Starts(frame, Encode(msg)) /\ Len(frame) < Len(Encode(msg))

\* What has been decoded is what was encoded, and decode gives up only where
\* the buffer was cut, for want of bytes.
Agreed ==
    /\ at \in Decoding =>
          /\ got.version = msg.version /\ got.flags = msg.flags /\ got.ident = msg.ident
          /\ got.msg_type_len = msg.msg_type_len /\ got.address_len = msg.address_len
          /\ got.payload_len = msg.payload_len
    /\ at \in Decoding \ {"msg_type"} => got.msg_type = msg.msg_type
    /\ at \in {"reply_to", "payload", "done"} => got.address = msg.address
    /\ at \in {"payload", "done"} => got.reply_to = msg.reply_to
    /\ at = "done" => got.payload = msg.payload
    /\ at = "refused" => origin = "cut" /\ error \in Incomplete

Follows == origin \in {"whole", "cut"} /\ Survives(msg) => Agreed

\* Beginnings of sequences.
LEMMA StartsJoined ==
    ASSUME NEW x \in Seq(Byte), NEW y \in Seq(Byte) PROVE Starts(x, x \o y)
<1>1. /\ Len(x \o y) = Len(x) + Len(y) /\ Len(x) \in Nat /\ Len(y) \in Nat
      /\ \A i \in 1..(Len(x) + Len(y)) : (x \o y)[i] = IF i <= Len(x) THEN x[i] ELSE y[i - Len(x)]
  BY ConcatProperties
<1>2. ASSUME NEW i \in 1..Len(x) PROVE (x \o y)[i] = x[i]
  BY <1>1
<1> QED
  BY <1>1, <1>2 DEF Starts

LEMMA StartsTransitive ==
    ASSUME NEW x \in Seq(Byte), NEW y \in Seq(Byte), NEW z \in Seq(Byte), Starts(x, y), Starts(y, z)
    PROVE  Starts(x, z)
<1>1. /\ Len(x) \in Nat /\ Len(y) \in Nat /\ Len(z) \in Nat /\ Len(x) <= Len(y) /\ Len(y) <= Len(z)
      /\ \A i \in 1..Len(x) : y[i] = x[i]
      /\ \A i \in 1..Len(y) : z[i] = y[i]
  BY DEF Starts
<1>2. ASSUME NEW i \in 1..Len(x) PROVE z[i] = x[i]
  BY <1>1
<1> QED
  BY <1>1, <1>2 DEF Starts

\* What decode sees where the buffer has b after a.
LEMMA PeekSees ==
    ASSUME frame \in Seq(Byte), pos \in Nat, NEW from \in Nat,
           NEW a \in Seq(Byte), NEW b \in Seq(Byte), Len(a) = pos + from, Starts(a \o b, frame)
    PROVE  pos + from + Len(b) <= Len(frame) /\ Peek(from, Len(b)) = b
<1>1. /\ Len(a \o b) = Len(a) + Len(b) /\ Len(b) \in Nat
      /\ \A i \in 1..(Len(a) + Len(b)) : (a \o b)[i] = IF i <= Len(a) THEN a[i] ELSE b[i - Len(a)]
  <2>1. ASSUME NEW x \in Seq(Byte), NEW y \in Seq(Byte)
        PROVE  /\ Len(x \o y) = Len(x) + Len(y) /\ Len(y) \in Nat
               /\ \A i \in 1..(Len(x) + Len(y)) :
                     (x \o y)[i] = IF i <= Len(x) THEN x[i] ELSE y[i - Len(x)]
    BY ONLY <2>1, ConcatProperties
  <2> QED
    BY <2>1
<1>2. /\ Len(a) + Len(b) <= Len(frame)
      /\ \A i \in 1..(Len(a) + Len(b)) : frame[i] = (a \o b)[i]
  BY <1>1 DEF Starts
<1>3. pos + from + Len(b) <= Len(frame)
  BY <1>1, <1>2
<1>4. /\ Peek(from, Len(b)) \in Seq(Byte) /\ Len(Peek(from, Len(b))) = Len(b)
      /\ \A i \in 1..Len(b) : Peek(from, Len(b))[i] = frame[pos + from + i]
  BY <1>1, <1>3, PeekFacts
<1>5. ASSUME NEW i \in 1..Len(b) PROVE Peek(from, Len(b))[i] = b[i]
  <2> DEFINE j == Len(a) + i
  <2>1. j \in 1..(Len(a) + Len(b)) /\ ~(j <= Len(a)) /\ j - Len(a) = i /\ pos + from + i = j
    BY <1>1
  <2> HIDE DEF j
  <2>2. frame[j] = b[j - Len(a)]
    BY <1>1, <1>2, <2>1
  <2> QED
    BY <1>4, <2>1, <2>2
<1>6. Peek(from, Len(b)) = b
  BY <1>4, <1>5, SeqEqual
<1> QED
  BY <1>3, <1>6

\* The parts of a frame begin it.
LEMMA PartsStart ==
    ASSUME NEW m \in Message, Len(m.ident) = IDENT_LEN
    PROVE  /\ Starts(EncodeHeader(m), Encode(m)) /\ Starts(UpToType(m), Encode(m))
           /\ Starts(UpToAddress(m), Encode(m)) /\ Starts(UpToReplyTo(m), Encode(m))
           /\ Starts(Encode(m), Encode(m))
<1>1. /\ EncodeHeader(m) \in Seq(Byte) /\ UpToType(m) \in Seq(Byte) /\ UpToAddress(m) \in Seq(Byte)
      /\ EncodeReplyTo(m) \in Seq(Byte) /\ UpToReplyTo(m) \in Seq(Byte) /\ Encode(m) \in Seq(Byte)
  BY EncodedLengths
<1>2. m.msg_type \in Seq(Byte) /\ m.address \in Seq(Byte) /\ m.payload \in Seq(Byte)
  BY DEF Message
<1>3. Starts(UpToReplyTo(m), Encode(m))
  <2>1. Encode(m) = UpToReplyTo(m) \o m.payload
    BY DEF Encode, UpToReplyTo, UpToAddress, UpToType
  <2> QED
    BY <1>1, <1>2, <2>1, StartsJoined
<1>4. Starts(UpToAddress(m), Encode(m))
  <2>1. Starts(UpToAddress(m), UpToReplyTo(m))
    BY <1>1, StartsJoined DEF UpToReplyTo
  <2> QED
    BY <1>1, <1>3, <2>1, StartsTransitive
<1>5. Starts(UpToType(m), Encode(m))
  <2>1. Starts(UpToType(m), UpToAddress(m))
    BY <1>1, <1>2, StartsJoined DEF UpToAddress
  <2> QED
    BY <1>1, <1>4, <2>1, StartsTransitive
<1>6. Starts(EncodeHeader(m), Encode(m))
  <2>1. Starts(EncodeHeader(m), UpToType(m))
    BY <1>1, <1>2, StartsJoined DEF UpToType
  <2> QED
    BY <1>1, <1>5, <2>1, StartsTransitive
<1>7. Starts(Encode(m), Encode(m))
  BY <1>1 DEF Starts
<1> QED
  BY <1>3, <1>4, <1>5, <1>6, <1>7

\* A part of the frame is in an undamaged buffer, or the buffer was cut.
LEMMA PartInBuffer ==
    ASSUME IInv, Delivered, origin \in {"whole", "cut"}, Encode(msg) \in Seq(Byte),
           NEW x \in Seq(Byte), Starts(x, Encode(msg))
    PROVE  IF Len(x) <= Len(frame) THEN Starts(x, frame) ELSE origin = "cut"
<1>1. frame \in Seq(Byte) /\ Len(frame) \in Nat /\ Len(x) \in Nat
  BY StateFacts
<1>2. CASE origin = "whole"
  <2>1. Starts(Encode(msg), frame)
    BY <1>2 DEF Delivered
  <2>2. Starts(x, frame)
    BY <1>1, <2>1, StartsTransitive
  <2> QED
    BY <2>2 DEF Starts
<1>3. CASE origin = "cut"
  <2>1. Starts(frame, Encode(msg))
    BY <1>3 DEF Delivered
  <2>2. Len(x) <= Len(frame) => Starts(x, frame)
    <3>1. /\ \A i \in 1..Len(x) : Encode(msg)[i] = x[i]
          /\ \A i \in 1..Len(frame) : Encode(msg)[i] = frame[i]
      BY <2>1 DEF Starts
    <3>2. ASSUME Len(x) <= Len(frame), NEW i \in 1..Len(x) PROVE frame[i] = x[i]
      <4>1. i \in 1..Len(frame)
        BY <1>1, <3>2
      <4> QED
        BY <3>1, <4>1
    <3> QED
      BY <3>2 DEF Starts
  <2> QED
    BY <1>3, <2>2
<1> QED
  BY <1>2, <1>3

\* The header read from a buffer that begins with the header of m.
LEMMA HeaderSees ==
    ASSUME frame \in Seq(Byte), pos = 0, NEW m \in Message, Len(m.ident) = IDENT_LEN,
           Starts(EncodeHeader(m), frame)
    PROVE  /\ Header.version = m.version /\ Header.flags = m.flags /\ Header.ident = m.ident
           /\ Header.msg_type_len = m.msg_type_len /\ Header.address_len = m.address_len
           /\ Header.payload_len = m.payload_len
<1> DEFINE x0 == PutLe(m.version, U16)
           b1 == <<m.flags>>  b3 == <<m.msg_type_len>>
           b4 == PutLe(m.address_len, U16)  b5 == PutLe(m.payload_len, U32)
           x1 == x0 \o b1  x2 == x1 \o m.ident  x3 == x2 \o b3  x4 == x3 \o b4  x5 == x4 \o b5
<1>1. /\ m.version \in 0..(Pow(U16) - 1) /\ m.address_len \in 0..(Pow(U16) - 1)
      /\ m.payload_len \in 0..(Pow(U32) - 1) /\ m.ident \in Seq(Byte)
      /\ m.flags \in Byte /\ m.msg_type_len \in Byte
  BY DEF Message
<1>2. /\ U16 \in 1..4 /\ U32 \in 1..4 /\ U16 \in Nat /\ U32 \in Nat /\ IDENT_LEN \in Nat
      /\ Pow(U16) \in Nat /\ Pow(U32) \in Nat
      /\ FIXED_HEADER_SIZE = U16 + 1 + IDENT_LEN + 1 + U16 + U32 /\ FIXED_HEADER_SIZE \in Nat
  BY Widths, Limits
<1>3. m.version \in Nat /\ m.address_len \in Nat /\ m.payload_len \in Nat
  BY <1>1
<1>4. /\ x0 \in Seq(Byte) /\ Len(x0) = U16 /\ b4 \in Seq(Byte) /\ Len(b4) = U16
      /\ b5 \in Seq(Byte) /\ Len(b5) = U32
  BY <1>2, <1>3, PutLeType
<1>5. b1 \in Seq(Byte) /\ Len(b1) = 1 /\ b1[1] = m.flags
      /\ b3 \in Seq(Byte) /\ Len(b3) = 1 /\ b3[1] = m.msg_type_len
  BY <1>1
<1>6. EncodeHeader(m) = x5
  BY DEF EncodeHeader
<1>7. /\ GetLe(x0) = m.version /\ GetLe(b4) = m.address_len /\ GetLe(b5) = m.payload_len
  BY <1>1, <1>2, GetPut
<1> HIDE DEF x0, b1, b3, b4, b5
<1>8. x1 \in Seq(Byte) /\ Len(x1) = Len(x0) + Len(b1) /\ Starts(x0, x1)
  BY <1>4, <1>5, Joined, StartsJoined
<1> HIDE DEF x1
<1>9. x2 \in Seq(Byte) /\ Len(x2) = Len(x1) + Len(m.ident) /\ Starts(x1, x2)
  BY <1>1, <1>8, Joined, StartsJoined
<1> HIDE DEF x2
<1>10. x3 \in Seq(Byte) /\ Len(x3) = Len(x2) + Len(b3) /\ Starts(x2, x3)
  BY <1>5, <1>9, Joined, StartsJoined
<1> HIDE DEF x3
<1>11. x4 \in Seq(Byte) /\ Len(x4) = Len(x3) + Len(b4) /\ Starts(x3, x4)
  BY <1>4, <1>10, Joined, StartsJoined
<1> HIDE DEF x4
<1>12. x5 \in Seq(Byte) /\ Len(x5) = Len(x4) + Len(b5) /\ Starts(x4, x5)
  BY <1>4, <1>11, Joined, StartsJoined
<1> HIDE DEF x5
<1>13. Starts(x5, frame)
  BY <1>6
<1>14. Starts(x4, frame)
  BY <1>11, <1>12, <1>13, StartsTransitive
<1>15. Starts(x3, frame)
  BY <1>10, <1>11, <1>14, StartsTransitive
<1>16. Starts(x2, frame)
  BY <1>9, <1>10, <1>15, StartsTransitive
<1>17. Starts(x1, frame)
  BY <1>8, <1>9, <1>16, StartsTransitive
<1>18. Starts(x0, frame)
  BY <1>4, <1>8, <1>17, StartsTransitive
<1>19. pos \in Nat /\ pos + FIXED_HEADER_SIZE <= Len(frame) /\ Len(frame) \in Nat
  <2>1. Len(x5) = FIXED_HEADER_SIZE
    BY <1>2, <1>4, <1>5, <1>8, <1>9, <1>10, <1>11, <1>12
  <2> QED
    BY <1>2, <1>13, <2>1 DEF Starts
<1>20. ASSUME NEW a \in Seq(Byte), NEW b \in Seq(Byte), Starts(a \o b, frame)
       PROVE  Peek(Len(a), Len(b)) = b
  <2>1. Len(a) \in Nat /\ Len(a) = pos + Len(a)
    OBVIOUS
  <2> QED
    BY <1>19, <1>20, <2>1, PeekSees
<1>21. /\ Header.version = GetLe(Peek(0, U16))
       /\ Header.flags = frame[pos + U16 + 1]
       /\ Header.ident = Peek(U16 + 1, IDENT_LEN)
       /\ Header.msg_type_len = frame[pos + U16 + 1 + IDENT_LEN + 1]
       /\ Header.address_len = GetLe(Peek(U16 + 1 + IDENT_LEN + 1, U16))
       /\ Header.payload_len = GetLe(Peek(U16 + 1 + IDENT_LEN + 1 + U16, U32))
  BY <1>19, HeaderFacts
<1>22. Header.version = m.version
  <2>1. Peek(0, U16) = x0
    <3>1. <<>> \in Seq(Byte) /\ Len(<<>>) = 0 /\ <<>> \o x0 = x0
      BY <1>4, ConcatEmptySeq
    <3>2. Starts(<<>> \o x0, frame)
      BY <1>18, <3>1
    <3>3. Peek(Len(<<>>), Len(x0)) = x0
      BY <1>4, <1>20, <3>1, <3>2
    <3> QED
      BY <1>4, <3>1, <3>3
  <2> QED
    BY <1>7, <1>21, <2>1
<1>23. ASSUME NEW k \in Nat, NEW b \in Seq(Byte), Len(b) = 1, Peek(k, 1) = b,
              pos + k + 1 <= Len(frame)
       PROVE  frame[pos + k + 1] = b[1]
  <2>1. \A i \in 1..1 : Peek(k, 1)[i] = frame[pos + k + i]
    BY <1>19, <1>23, PeekFacts
  <2> QED
    BY <1>23, <2>1
<1>24. Header.flags = m.flags
  <2>1. Peek(Len(x0), Len(b1)) = b1
    BY <1>4, <1>5, <1>17, <1>20 DEF x1
  <2>2. Peek(U16, 1) = b1
    BY <1>4, <1>5, <2>1
  <2>3. pos + U16 + 1 <= Len(frame)
    BY <1>2, <1>19
  <2> QED
    BY <1>2, <1>5, <1>21, <1>23, <2>2, <2>3
<1>25. Header.ident = m.ident
  <2>1. Peek(Len(x1), Len(m.ident)) = m.ident
    BY <1>1, <1>8, <1>16, <1>20 DEF x2
  <2>2. Len(x1) = U16 + 1
    BY <1>4, <1>5, <1>8
  <2> QED
    BY <1>21, <2>1, <2>2
<1>26. Header.msg_type_len = m.msg_type_len
  <2>1. Peek(Len(x2), Len(b3)) = b3
    BY <1>5, <1>9, <1>15, <1>20 DEF x3
  <2>2. Len(x2) = U16 + 1 + IDENT_LEN
    BY <1>4, <1>5, <1>8, <1>9
  <2>3. Len(x2) \in Nat /\ pos + Len(x2) + 1 <= Len(frame)
    BY <1>2, <1>19, <2>2
  <2>4. Peek(Len(x2), 1) = b3
    BY <1>5, <2>1
  <2>5. frame[pos + Len(x2) + 1] = b3[1]
    BY <1>5, <1>23, <2>3, <2>4
  <2>6. pos + Len(x2) + 1 = pos + U16 + 1 + IDENT_LEN + 1
    BY <1>2, <2>2
  <2> QED
    BY <1>5, <1>21, <2>5, <2>6
<1>27. Header.address_len = m.address_len
  <2>1. Peek(Len(x3), Len(b4)) = b4
    BY <1>4, <1>10, <1>14, <1>20 DEF x4
  <2>2. Len(x3) = U16 + 1 + IDENT_LEN + 1
    BY <1>4, <1>5, <1>8, <1>9, <1>10
  <2> QED
    BY <1>4, <1>7, <1>21, <2>1, <2>2
<1>28. Header.payload_len = m.payload_len
  <2>1. Peek(Len(x4), Len(b5)) = b5
    BY <1>4, <1>11, <1>13, <1>20 DEF x5
  <2>2. Len(x4) = U16 + 1 + IDENT_LEN + 1 + U16
    BY <1>4, <1>5, <1>8, <1>9, <1>10, <1>11
  <2> QED
    BY <1>4, <1>7, <1>21, <2>1, <2>2
<1> QED
  BY <1>22, <1>24, <1>25, <1>26, <1>27, <1>28

\* Message::new writes a true header.
LEMMA NewIsWellBuilt ==
    ASSUME NEW in \in Inputs, NewAccepts(in), NEW m, m = NewMessage(in)
    PROVE  /\ m.version = 1 /\ Len(m.ident) = IDENT_LEN
           /\ m.msg_type_len = Len(m.msg_type)
           /\ m.address_len = Len(m.address) /\ Len(m.address) <= MAX_ADDRESS_LEN
           /\ IsUtf8(m.address) /\ ValidateAddress(m.address)
           /\ m.payload_len = Len(m.payload) % Pow(U32) /\ m.payload_len <= MAX_PAYLOAD_LEN
           /\ ModeOf(m.flags) # InOut => m.reply_to = <<>>
<1>1. /\ in.mode \in {0, 1} /\ in.msg_type \in Seq(Byte) /\ in.address \in Seq(Byte)
      /\ in.ident \in [1..IDENT_LEN -> Byte]
  BY InputsAssumption
<1>2. Len(in.ident) = IDENT_LEN
  BY <1>1, Widths
<1>3. /\ in.mode = InOut <=> in.reply_to # <<>>
      /\ IsUtf8(in.address) /\ ValidateAddress(in.address)
      /\ Len(in.msg_type) <= MAX_MSG_TYPE_LEN /\ Len(in.address) <= MAX_ADDRESS_LEN
      /\ Len(in.payload) % Pow(U32) <= MAX_PAYLOAD_LEN
  BY DEF NewAccepts
<1>4. Len(in.msg_type) % Base = Len(in.msg_type)
  <2>1. Len(in.msg_type) \in Nat /\ Base \in Nat /\ Len(in.msg_type) < Base
    BY <1>1, <1>3, Limits, Widths
  <2> QED
    BY <2>1, SmallMod
<1>5. Len(in.address) % Pow(U16) = Len(in.address)
  <2>1. Len(in.address) \in Nat /\ Pow(U16) \in Nat /\ Len(in.address) < Pow(U16)
    BY <1>1, <1>3, Limits
  <2> QED
    BY <2>1, SmallMod
<1>6. ModeOf(in.mode) # InOut => in.reply_to = <<>>
  BY <1>1, <1>3 DEF ModeOf, InOut
<1> QED
  BY <1>2, <1>3, <1>4, <1>5, <1>6 DEF NewMessage

\* A step of decode leaves alone what was sent.
LEMMA DecodeKeeps ==
    ASSUME DecodeHeader \/ DecodeMsgType \/ DecodeAddress \/ DecodeReplyTo \/ DecodePayload
    PROVE  /\ msg' = msg /\ frame' = frame /\ origin' = origin
           /\ at \notin {"new", "built", "requested"} /\ at' \notin {"new", "built", "requested"}
<1>1. ASSUME NEW e, NEW n, Refuse(e, n)
      PROVE  msg' = msg /\ frame' = frame /\ origin' = origin /\ at' = "refused"
  BY <1>1 DEF Refuse
<1>2. ASSUME NEW n, NEW m, NEW next, Read(n, m, next)
      PROVE  msg' = msg /\ frame' = frame /\ origin' = origin /\ at' \in {next, "panicked"}
  BY <1>2 DEF Read
<1>3. CASE DecodeHeader
  BY <1>1, <1>2, <1>3 DEF DecodeHeader
<1>4. CASE DecodeMsgType
  BY <1>1, <1>2, <1>4 DEF DecodeMsgType
<1>5. CASE DecodeAddress
  BY <1>1, <1>2, <1>5 DEF DecodeAddress, AfterAddress
<1>6. CASE DecodeReplyTo
  BY <1>1, <1>2, <1>6 DEF DecodeReplyTo
<1>7. CASE DecodePayload
  BY <1>1, <1>2, <1>7 DEF DecodePayload
<1> QED
  BY <1>3, <1>4, <1>5, <1>6, <1>7

\* New and Request write the message, nobody else touches it.
LEMMA WellBuiltStep == ASSUME IInv, WellBuilt, [Next]_vars PROVE WellBuilt'
<1>1. CASE UNCHANGED vars
  BY <1>1 DEF vars, WellBuilt
<1>2. ASSUME NEW in \in Inputs, New(in) PROVE WellBuilt'
  <2>1. NewAccepts(in) /\ msg' = NewMessage(in)
    BY <1>2 DEF New
  <2> QED
    BY <2>1, NewIsWellBuilt DEF WellBuilt
<1>3. ASSUME NEW client \in ClientAddresses, Request(client) PROVE WellBuilt'
  <2>1. at = "built"
    BY <1>3 DEF Request
  <2>2. msg.flags - ModeOf(msg.flags) + InOut = 1 /\ ModeOf(1) = InOut
    BY DEF IInv, Fresh, ModeOf, InOut
  <2>3. msg' = [msg EXCEPT !.flags = 1, !.reply_to = client]
    BY <1>3, <2>2 DEF Request, ForceInOut
  <2>4. /\ msg'.version = msg.version /\ msg'.ident = msg.ident /\ msg'.flags = 1
        /\ msg'.msg_type_len = msg.msg_type_len /\ msg'.msg_type = msg.msg_type
        /\ msg'.address_len = msg.address_len /\ msg'.address = msg.address
        /\ msg'.payload_len = msg.payload_len /\ msg'.payload = msg.payload
    BY <2>3, StateFacts DEF Message
  <2> QED
    BY <2>1, <2>2, <2>4 DEF WellBuilt
<1>4. CASE GiveWhole \/ GiveCut \/ GiveDamaged
  <2>1. msg' = msg /\ at \in {"built", "requested"}
    BY <1>4 DEF GiveWhole, GiveCut, GiveDamaged, Give
  <2> QED
    BY <2>1 DEF WellBuilt
<1>5. CASE DecodeHeader \/ DecodeMsgType \/ DecodeAddress \/ DecodeReplyTo \/ DecodePayload
  <2>1. msg' = msg /\ at # "new"
    BY <1>5, DecodeKeeps
  <2> QED
    BY <2>1 DEF WellBuilt
<1> QED
  BY <1>1, <1>2, <1>3, <1>4, <1>5 DEF Next

\* The buffer is given once.
LEMMA DeliveredStep == ASSUME IInv, Delivered, [Next]_vars PROVE Delivered'
<1>1. CASE UNCHANGED vars
  BY <1>1 DEF vars, Delivered
<1>2. CASE \/ \E in \in Inputs : New(in)
           \/ \E client \in ClientAddresses : Request(client)
  <2>1. at \in {"new", "built"} /\ origin' = origin
    BY <1>2 DEF New, Request
  <2> QED
    BY <2>1 DEF Delivered
<1>3. Encode(msg) \in Seq(Byte)
  BY StateFacts, EncodeType
<1>4. CASE GiveWhole
  <2>1. PICK tail \in Tails : Give(Encode(msg) \o tail, "whole")
    BY <1>4 DEF GiveWhole
  <2>2. frame' = Encode(msg) \o tail /\ msg' = msg /\ origin' = "whole" /\ at' = "header"
    BY <2>1 DEF Give
  <2>3. Starts(Encode(msg), Encode(msg) \o tail)
    BY <1>3, InputsAssumption, StartsJoined
  <2> QED
    BY <2>2, <2>3 DEF Delivered
<1>5. CASE GiveCut
  <2> DEFINE f == Encode(msg)
  <2>1. PICK n \in 0..(Len(f) - 1) : Give(SubSeq(f, 1, n), "cut")
    BY <1>5 DEF GiveCut
  <2>2. frame' = SubSeq(f, 1, n) /\ msg' = msg /\ origin' = "cut" /\ at' = "header"
    BY <2>1 DEF Give
  <2>3. f \in Seq(Byte)
    BY <1>3
  <2> HIDE DEF f
  <2>4. n \in Nat /\ Len(f) \in Nat /\ n < Len(f) /\ n \in 0..Len(f)
    BY <2>1, <2>3
  <2>5. Len(SubSeq(f, 1, n)) = n /\ \A i \in 1..n : SubSeq(f, 1, n)[i] = f[i]
    BY <2>3, <2>4, FirstElements
  <2>6. Starts(SubSeq(f, 1, n), f) /\ Len(SubSeq(f, 1, n)) < Len(f)
    BY <2>4, <2>5 DEF Starts
  <2>7. Starts(frame', Encode(msg')) /\ Len(frame') < Len(Encode(msg'))
    BY <2>2, <2>6 DEF f
  <2> QED
    BY <2>2, <2>7 DEF Delivered
<1>6. CASE GiveDamaged
  BY <1>6 DEF GiveDamaged, Give, Delivered
<1>7. CASE DecodeHeader \/ DecodeMsgType \/ DecodeAddress \/ DecodeReplyTo \/ DecodePayload
  <2>1. /\ msg' = msg /\ frame' = frame /\ origin' = origin
        /\ at' \notin {"new", "built", "requested"}
    BY <1>7, DecodeKeeps
  <2> QED
    BY <2>1 DEF Delivered
<1> QED
  BY <1>1, <1>2, <1>4, <1>5, <1>6, <1>7 DEF Next

\* A field of the frame, where decode looks for it.
LEMMA FieldInBuffer ==
    ASSUME IInv, Delivered, origin \in {"whole", "cut"}, Encode(msg) \in Seq(Byte),
           NEW a \in Seq(Byte), NEW b \in Seq(Byte), NEW from \in Nat, Len(a) = pos + from,
           Starts(a \o b, Encode(msg))
    PROVE  IF Remaining >= from + Len(b) THEN Peek(from, Len(b)) = b ELSE origin = "cut"
<1>1. a \o b \in Seq(Byte) /\ Len(a \o b) = Len(a) + Len(b)
  BY Joined
<1>2. IF Len(a \o b) <= Len(frame) THEN Starts(a \o b, frame) ELSE origin = "cut"
  BY <1>1, PartInBuffer
<1>3. Len(b) \in Nat /\ (Remaining >= from + Len(b) <=> Len(a \o b) <= Len(frame))
  BY <1>1, StateFacts
<1>4. Starts(a \o b, frame) => Peek(from, Len(b)) = b
  BY StateFacts, PeekSees
<1> QED
  BY <1>2, <1>3, <1>4

\* decode gives up on a cut buffer.
LEMMA GivesUp ==
    ASSUME origin = "cut", NEW e \in Incomplete, NEW n, Refuse(e, n) PROVE Agreed'
BY DEF Refuse, Agreed, Decoding

\* What is known of the message behind an undamaged buffer.
LEMMA MessageFacts ==
    ASSUME IInv, WellBuilt, Delivered, origin \in {"whole", "cut"}
    PROVE  /\ msg \in Message /\ msg.version = 1 /\ Len(msg.ident) = IDENT_LEN
           /\ msg.msg_type_len = Len(msg.msg_type)
           /\ msg.address_len = Len(msg.address) /\ Len(msg.address) <= MAX_ADDRESS_LEN
           /\ IsUtf8(msg.address) /\ ValidateAddress(msg.address)
           /\ msg.payload_len = Len(msg.payload) % Pow(U32) /\ msg.payload_len <= MAX_PAYLOAD_LEN
           /\ ModeOf(msg.flags) # InOut => msg.reply_to = <<>>
           /\ msg.msg_type \in Seq(Byte) /\ msg.address \in Seq(Byte)
           /\ msg.reply_to \in Seq(Byte) /\ msg.payload \in Seq(Byte)
           /\ Encode(msg) \in Seq(Byte)
<1>1. at # "new"
  BY DEF Delivered
<1>2. msg \in Message
  BY StateFacts
<1>3. /\ msg.msg_type \in Seq(Byte) /\ msg.address \in Seq(Byte)
      /\ msg.reply_to \in Seq(Byte) /\ msg.payload \in Seq(Byte)
  BY <1>2 DEF Message
<1>4. Encode(msg) \in Seq(Byte)
  BY <1>2, EncodeType
<1> QED
  BY <1>1, <1>2, <1>3, <1>4 DEF WellBuilt

\* Each part of decode reads the field that encode wrote there, or finds the
\* buffer cut.
LEMMA HeaderFollows ==
    ASSUME IInv, WellBuilt, Delivered, origin \in {"whole", "cut"}, DecodeHeader PROVE Agreed'
<1> DEFINE h == EncodeHeader(msg)
<1>1. h \in Seq(Byte) /\ Len(h) = FIXED_HEADER_SIZE /\ Starts(h, Encode(msg))
  BY MessageFacts, EncodedLengths, PartsStart
<1> HIDE DEF h
<1>2. at = "header" /\ pos = 0 /\ FIXED_HEADER_SIZE \in Nat
  BY Widths DEF DecodeHeader, IInv, Fresh
<1>3. IF Len(h) <= Len(frame) THEN Starts(h, frame) ELSE origin = "cut"
  BY <1>1, MessageFacts, PartInBuffer
<1>4. Remaining >= FIXED_HEADER_SIZE <=> Len(h) <= Len(frame)
  BY <1>1, <1>2, StateFacts
<1>5. CASE Remaining < FIXED_HEADER_SIZE /\ Refuse("IncompleteHeader", 0)
  <2>1. origin = "cut" /\ "IncompleteHeader" \in Incomplete
    BY <1>2, <1>3, <1>4, <1>5, StateFacts DEF Incomplete
  <2> QED
    BY <1>5, <2>1, GivesUp
<1>6. CASE Remaining >= FIXED_HEADER_SIZE
  <2>1. /\ Header.version = msg.version /\ Header.flags = msg.flags /\ Header.ident = msg.ident
        /\ Header.msg_type_len = msg.msg_type_len /\ Header.address_len = msg.address_len
        /\ Header.payload_len = msg.payload_len
    <3>1. Starts(EncodeHeader(msg), frame)
      BY <1>3, <1>4, <1>6 DEF h
    <3> QED
      BY <1>2, <3>1, StateFacts, MessageFacts, HeaderSees
  <2>2. /\ Header.version = 1 /\ Header.address_len <= MAX_ADDRESS_LEN
        /\ Header.payload_len <= MAX_PAYLOAD_LEN
        /\ Header.address_len \in Nat /\ Header.payload_len \in Nat
    <3>1. msg.address_len \in Nat /\ msg.payload_len \in Nat
      BY StateFacts, Limits DEF Message
    <3> QED
      BY <2>1, <3>1, MessageFacts
  <2>3. Read(FIXED_HEADER_SIZE, Header, "msg_type")
    BY <1>2, <1>6, <2>2, Limits, StateFacts DEF DecodeHeader
  <2>4. at' = "msg_type" /\ got' = Header /\ msg' = msg
    <3>1. FIXED_HEADER_SIZE <= Remaining
      BY <1>2, <1>6, StateFacts
    <3> QED
      BY <1>2, <2>3, <3>1, FieldRead
  <2> QED
    BY <2>1, <2>4 DEF Agreed
<1> QED
  BY <1>5, <1>6, <1>2, StateFacts DEF DecodeHeader

\* A field of n bytes that is next in the frame.
LEMMA NextField ==
    ASSUME IInv, Delivered, origin \in {"whole", "cut"}, Encode(msg) \in Seq(Byte),
           NEW a \in Seq(Byte), NEW b \in Seq(Byte), SubSeq(frame, 1, pos) = a,
           Starts(a \o b, Encode(msg))
    PROVE  /\ Len(a) = pos /\ Len(b) \in Nat
           /\ Remaining < Len(b) => origin = "cut"
           /\ Remaining >= Len(b) => Peek(0, Len(b)) = b
<1>1. Len(a) = pos /\ Len(a) = pos + 0
  <2>1. pos \in 0..Len(frame)
    BY StateFacts
  <2>2. Len(SubSeq(frame, 1, pos)) = pos
    BY <2>1, StateFacts, FirstElements
  <2> QED
    BY <2>2, StateFacts
<1>2. IF Remaining >= 0 + Len(b) THEN Peek(0, Len(b)) = b ELSE origin = "cut"
  BY <1>1, FieldInBuffer
<1>3. Len(b) \in Nat /\ 0 + Len(b) = Len(b)
  OBVIOUS
<1> QED
  BY <1>1, <1>2, <1>3, StateFacts

\* The header fields agree while a later field is read.
LEMMA HeaderAgrees ==
    ASSUME IInv, Agreed, at \in Decoding
    PROVE  /\ got.version = msg.version /\ got.flags = msg.flags /\ got.ident = msg.ident
           /\ got.msg_type_len = msg.msg_type_len /\ got.address_len = msg.address_len
           /\ got.payload_len = msg.payload_len
BY DEF Agreed

LEMMA MsgTypeFollows ==
    ASSUME IInv, Consumed, WellBuilt, Delivered, Agreed, origin \in {"whole", "cut"},
           Survives(msg), DecodeMsgType
    PROVE  Agreed'
<1> DEFINE n == got.msg_type_len  a == EncodeHeader(msg)  b == msg.msg_type
           m == [got EXCEPT !.msg_type = Peek(0, n)]
<1>1. at = "msg_type" /\ at \in Decoding
  BY DEF DecodeMsgType, Decoding
<1>2. SubSeq(frame, 1, pos) = a
  BY <1>1, HeaderAgrees DEF Consumed, EncodeHeader
<1>3. a \in Seq(Byte) /\ b \in Seq(Byte) /\ Starts(a \o b, Encode(msg))
  BY MessageFacts, PartsStart, EncodedLengths DEF UpToType
<1>4. n = Len(b)
  BY <1>1, HeaderAgrees, MessageFacts
<1>5. /\ m.msg_type = Peek(0, n) /\ m.version = got.version /\ m.flags = got.flags
      /\ m.ident = got.ident /\ m.msg_type_len = got.msg_type_len
      /\ m.address_len = got.address_len /\ m.payload_len = got.payload_len
  BY StateFacts DEF Message
<1>6. \/ Remaining < n /\ Refuse("IncompleteMsgType", 0)
      \/ Remaining >= n /\ ~IsUtf8(Peek(0, n)) /\ Refuse("InvalidMsgTypeUtf8", n)
      \/ Remaining >= n /\ Read(n, m, "address")
  BY DEF DecodeMsgType
<1>7. IsUtf8(b)
  BY DEF Survives
<1> HIDE DEF a, b, m, n
<1>8. n \in Nat /\ (Remaining < n => origin = "cut") /\ (Remaining >= n => Peek(0, n) = b)
  BY <1>2, <1>3, <1>4, MessageFacts, NextField
<1>9. CASE Remaining < n /\ Refuse("IncompleteMsgType", 0)
  BY <1>8, <1>9, GivesUp DEF Incomplete
<1>10. CASE Remaining >= n /\ Read(n, m, "address")
  <2>1. at' = "address" /\ got' = m /\ msg' = msg
    BY <1>8, <1>10, StateFacts, FieldRead
  <2>2. m.msg_type = msg.msg_type
    BY <1>5, <1>8, <1>10 DEF b
  <2> QED
    BY <1>1, <1>5, <2>1, <2>2, HeaderAgrees DEF Agreed
<1> QED
  BY <1>6, <1>7, <1>8, <1>9, <1>10

LEMMA AddressFollows ==
    ASSUME IInv, Consumed, WellBuilt, Delivered, Agreed, origin \in {"whole", "cut"}, DecodeAddress
    PROVE  Agreed'
<1> DEFINE n == got.address_len  a == UpToType(msg)  b == msg.address
           m == [got EXCEPT !.address = Peek(0, n)]
<1>1. at = "address" /\ at \in Decoding /\ got.msg_type = msg.msg_type /\ got.reply_to = <<>>
  BY DEF DecodeAddress, Decoding, Agreed, IInv, CheckedSoFar
<1>2. SubSeq(frame, 1, pos) = a
  BY <1>1, HeaderAgrees DEF Consumed, UpToType, EncodeHeader
<1>3. a \in Seq(Byte) /\ b \in Seq(Byte) /\ Starts(a \o b, Encode(msg))
  BY MessageFacts, PartsStart, EncodedLengths DEF UpToAddress
<1>4. n = Len(b)
  BY <1>1, HeaderAgrees, MessageFacts
<1>5. /\ m.address = Peek(0, n) /\ m.version = got.version /\ m.flags = got.flags
      /\ m.ident = got.ident /\ m.msg_type_len = got.msg_type_len
      /\ m.address_len = got.address_len /\ m.payload_len = got.payload_len
      /\ m.msg_type = got.msg_type /\ m.reply_to = got.reply_to
  BY StateFacts DEF Message
<1>6. \/ Remaining < n /\ Refuse("IncompleteAddress", 0)
      \/ /\ Remaining >= n /\ ~(IsUtf8(Peek(0, n)) /\ ValidateAddress(Peek(0, n)))
         /\ Refuse("InvalidAddress", n)
      \/ Remaining >= n /\ Read(n, m, AfterAddress(got))
  BY DEF DecodeAddress
<1>7. IsUtf8(b) /\ ValidateAddress(b)
  BY MessageFacts
<1> HIDE DEF a, b, m, n
<1>8. n \in Nat /\ (Remaining < n => origin = "cut") /\ (Remaining >= n => Peek(0, n) = b)
  BY <1>2, <1>3, <1>4, MessageFacts, NextField
<1>9. CASE Remaining < n /\ Refuse("IncompleteAddress", 0)
  BY <1>8, <1>9, GivesUp DEF Incomplete
<1>10. CASE Remaining >= n /\ Read(n, m, AfterAddress(got))
  <2>1. at' = AfterAddress(got) /\ got' = m /\ msg' = msg
    BY <1>8, <1>10, StateFacts, FieldRead
  <2>2. m.address = msg.address
    BY <1>5, <1>8, <1>10 DEF b
  <2>3. AfterAddress(got) = "reply_to" \/ (AfterAddress(got) = "payload" /\ m.reply_to = msg.reply_to)
    BY <1>1, <1>5, HeaderAgrees, MessageFacts DEF AfterAddress
  <2> QED
    BY <1>1, <1>5, <2>1, <2>2, <2>3, HeaderAgrees DEF Agreed
<1> QED
  BY <1>6, <1>7, <1>8, <1>9, <1>10

\* A valid address is UTF-8 and not empty.
LEMMA ValidIsUtf8 ==
    ASSUME NEW s \in Seq(Byte), ValidateAddress(s) PROVE IsUtf8(s) /\ Len(s) >= 1
<1>1. s # <<>> /\ \A i \in DOMAIN s : s[i] \in AddressChars \cup {Colon}
  BY DEF ValidateAddress
<1>2. IsUtf8(s)
  BY <1>1, BytesAssumption DEF IsUtf8
<1> QED
  BY <1>1, <1>2

LEMMA ReplyToFollows ==
    ASSUME IInv, Consumed, WellBuilt, Delivered, Agreed, origin \in {"whole", "cut"},
           Survives(msg), DecodeReplyTo
    PROVE  Agreed'
<1> DEFINE n == GetLe(Peek(0, U16))  r == msg.reply_to  k == Len(r)
           a == UpToAddress(msg)  b == PutLe(k, U16)  ab == a \o b
           m == [got EXCEPT !.reply_to = Peek(U16, n)]
<1>1. /\ at = "reply_to" /\ at \in Decoding /\ got.msg_type = msg.msg_type
      /\ got.address = msg.address /\ ModeOf(got.flags) = InOut
  BY DEF DecodeReplyTo, Decoding, Agreed, IInv, CheckedSoFar
<1>2. SubSeq(frame, 1, pos) = a
  BY <1>1, HeaderAgrees DEF Consumed, UpToAddress, UpToType, EncodeHeader
<1>3. r \in Seq(Byte) /\ k \in Nat /\ k <= MAX_ADDRESS_LEN /\ ValidateAddress(r) /\ ModeOf(msg.flags) = InOut
  BY <1>1, HeaderAgrees, MessageFacts DEF Survives
<1>4. IsUtf8(r) /\ k >= 1
  BY <1>3, ValidIsUtf8
<1>5. U16 \in Nat /\ U16 \in 1..4 /\ Pow(U16) \in Nat /\ k \in 0..(Pow(U16) - 1) /\ MAX_ADDRESS_LEN \in Nat
  BY <1>3, Widths, Limits
<1>6. b \in Seq(Byte) /\ Len(b) = U16 /\ GetLe(b) = k
  <2> HIDE DEF k
  <2>1. b \in Seq(Byte) /\ Len(b) = U16
    BY <1>3, <1>5, PutLeType
  <2>2. GetLe(b) = k
    BY <1>5, GetPut
  <2> QED
    BY <2>1, <2>2
<1>7. EncodeReplyTo(msg) = b \o r
  <2>1. k % Pow(U16) = k
    BY <1>5, SmallMod
  <2> QED
    BY <1>3, <2>1 DEF EncodeReplyTo
<1>8. a \in Seq(Byte) /\ Starts(a \o (b \o r), Encode(msg))
  BY <1>7, MessageFacts, PartsStart, EncodedLengths DEF UpToReplyTo
<1>9. /\ m.reply_to = Peek(U16, n) /\ m.version = got.version /\ m.flags = got.flags
      /\ m.ident = got.ident /\ m.msg_type_len = got.msg_type_len
      /\ m.address_len = got.address_len /\ m.payload_len = got.payload_len
      /\ m.msg_type = got.msg_type /\ m.address = got.address
  BY StateFacts DEF Message
<1>10. \/ Remaining < U16 /\ Refuse("IncompleteReplyTo", 0)
       \/ Remaining >= U16 /\ n = 0
       \/ Remaining >= U16 /\ n > MAX_ADDRESS_LEN
       \/ Remaining >= U16 /\ Remaining < U16 + n /\ Refuse("IncompleteReplyTo", U16)
       \/ /\ Remaining >= U16 + n /\ Remaining >= U16
          /\ ~(IsUtf8(Peek(U16, n)) /\ ValidateAddress(Peek(U16, n)))
       \/ Remaining >= U16 + n /\ Remaining >= U16 /\ Read(U16 + n, m, "payload")
  BY DEF DecodeReplyTo
<1>11. n = GetLe(Peek(0, U16))
  OBVIOUS
<1> HIDE DEF a, b, r, k, m, n
<1>12. a \o (b \o r) = ab \o r /\ ab \in Seq(Byte) /\ Len(ab) = Len(a) + U16
  <2>1. ASSUME NEW x \in Seq(Byte), NEW y \in Seq(Byte), NEW z \in Seq(Byte)
        PROVE  (x \o y) \o z = x \o (y \o z)
    BY ONLY <2>1, ConcatAssociative
  <2>2. (a \o b) \o r = a \o (b \o r)
    BY <1>3, <1>6, <1>8, <2>1
  <2>3. ab \in Seq(Byte) /\ Len(ab) = Len(a) + Len(b)
    BY <1>6, <1>8, Joined
  <2> QED
    BY <1>6, <2>2, <2>3
<1>13. Starts(ab, Encode(msg)) /\ Starts(ab \o r, Encode(msg))
  <2> HIDE DEF ab
  <2>1. Starts(ab \o r, Encode(msg))
    BY <1>8, <1>12
  <2>2. Starts(ab, ab \o r) /\ ab \o r \in Seq(Byte)
    BY <1>3, <1>12, StartsJoined, Joined
  <2> QED
    BY <1>12, <2>1, <2>2, MessageFacts, StartsTransitive
<1>14. Len(a) = pos /\ (Remaining < U16 => origin = "cut") /\ (Remaining >= U16 => Peek(0, U16) = b)
  <2>1. Starts(a \o b, Encode(msg))
    BY <1>13
  <2> QED
    BY <1>2, <1>6, <1>8, <2>1, MessageFacts, NextField
<1> HIDE DEF ab
<1>15. IF Remaining >= U16 + k THEN Peek(U16, k) = r ELSE origin = "cut"
  <2>1. Len(ab) = pos + U16
    BY <1>12, <1>14
  <2> QED
    BY <1>3, <1>5, <1>12, <1>13, <2>1, MessageFacts, FieldInBuffer DEF k
<1>16. Remaining >= U16 => n = k
  BY <1>6, <1>11, <1>14
<1>17. CASE Remaining < U16 /\ Refuse("IncompleteReplyTo", 0)
  BY <1>14, <1>17, GivesUp DEF Incomplete
<1>18. CASE Remaining >= U16 /\ Remaining < U16 + n /\ Refuse("IncompleteReplyTo", U16)
  <2>1. origin = "cut"
    BY <1>3, <1>5, <1>15, <1>16, <1>18, StateFacts
  <2> QED
    BY <1>18, <2>1, GivesUp DEF Incomplete
<1>19. CASE Remaining >= U16 + n /\ Remaining >= U16 /\ Read(U16 + n, m, "payload")
  <2>1. U16 + n \in Nat /\ U16 + n <= Remaining
    BY <1>3, <1>5, <1>16, <1>19, StateFacts
  <2>2. at' = "payload" /\ got' = m /\ msg' = msg
    BY <1>19, <2>1, FieldRead
  <2>3. m.reply_to = msg.reply_to
    BY <1>9, <1>15, <1>16, <1>19 DEF r
  <2> QED
    BY <1>1, <1>9, <2>2, <2>3, HeaderAgrees DEF Agreed
<1>20. ~(Remaining >= U16 /\ n = 0) /\ ~(Remaining >= U16 /\ n > MAX_ADDRESS_LEN)
  BY <1>3, <1>4, <1>5, <1>16
<1>21. ~(/\ Remaining >= U16 + n /\ Remaining >= U16
         /\ ~(IsUtf8(Peek(U16, n)) /\ ValidateAddress(Peek(U16, n))))
  BY <1>3, <1>4, <1>15, <1>16
<1> QED
  BY <1>10, <1>17, <1>18, <1>19, <1>20, <1>21

LEMMA PayloadFollows ==
    ASSUME IInv, Consumed, WellBuilt, Delivered, Agreed, origin \in {"whole", "cut"},
           Survives(msg), DecodePayload
    PROVE  Agreed'
<1> DEFINE n == got.payload_len  a == UpToReplyTo(msg)  b == msg.payload
           m == [got EXCEPT !.payload = Peek(0, n)]
<1>1. /\ at = "payload" /\ at \in Decoding /\ got.msg_type = msg.msg_type
      /\ got.address = msg.address /\ got.reply_to = msg.reply_to
  BY DEF DecodePayload, Decoding, Agreed
<1>2. SubSeq(frame, 1, pos) = a
  BY <1>1, HeaderAgrees
     DEF Consumed, UpToReplyTo, UpToAddress, UpToType, EncodeHeader, EncodeReplyTo
<1>3. a \in Seq(Byte) /\ b \in Seq(Byte) /\ Starts(a \o b, Encode(msg))
  <2>1. Encode(msg) = a \o b
    BY DEF Encode, UpToReplyTo, UpToAddress, UpToType
  <2> QED
    BY <2>1, MessageFacts, PartsStart, EncodedLengths
<1>4. n = Len(b)
  <2>1. Len(b) \in Nat /\ Len(b) < Pow(U32)
    BY <1>3 DEF Survives
  <2>2. Len(b) % Pow(U32) = Len(b)
    BY <2>1, Limits, SmallMod
  <2> QED
    BY <1>1, <2>2, HeaderAgrees, MessageFacts
<1>5. /\ m.payload = Peek(0, n) /\ m.version = got.version /\ m.flags = got.flags
      /\ m.ident = got.ident /\ m.msg_type_len = got.msg_type_len
      /\ m.address_len = got.address_len /\ m.payload_len = got.payload_len
      /\ m.msg_type = got.msg_type /\ m.reply_to = got.reply_to /\ m.address = got.address
  BY StateFacts DEF Message
<1>6. \/ Remaining < n /\ Refuse("IncompletePayload", 0)
      \/ Remaining >= n /\ Read(n, m, "done")
  BY DEF DecodePayload
<1> HIDE DEF a, b, m, n
<1>7. n \in Nat /\ (Remaining < n => origin = "cut") /\ (Remaining >= n => Peek(0, n) = b)
  BY <1>2, <1>3, <1>4, MessageFacts, NextField
<1>8. CASE Remaining < n /\ Refuse("IncompletePayload", 0)
  BY <1>7, <1>8, GivesUp DEF Incomplete
<1>9. CASE Remaining >= n /\ Read(n, m, "done")
  <2>1. at' = "done" /\ got' = m /\ msg' = msg
    BY <1>7, <1>9, StateFacts, FieldRead
  <2>2. m.payload = msg.payload
    BY <1>5, <1>7, <1>9 DEF b
  <2> QED
    BY <1>1, <1>5, <2>1, <2>2, HeaderAgrees DEF Agreed
<1> QED
  BY <1>6, <1>8, <1>9

\* Every step keeps the agreement.
LEMMA FollowsStep ==
    ASSUME IInv, Consumed, WellBuilt, Delivered, Follows, [Next]_vars PROVE Follows'
<1>1. CASE UNCHANGED vars
  BY <1>1 DEF vars, Follows, Agreed, Survives
<1>2. CASE \/ \E in \in Inputs : New(in)
           \/ \E client \in ClientAddresses : Request(client)
  <2>1. origin' = origin /\ at \in {"new", "built", "requested"}
    BY <1>2 DEF New, Request
  <2>2. origin \notin {"whole", "cut"}
    BY <2>1 DEF Delivered
  <2> QED
    BY <2>1, <2>2 DEF Follows
<1>3. CASE GiveWhole \/ GiveCut \/ GiveDamaged
  <2>1. at' = "header"
    BY <1>3 DEF GiveWhole, GiveCut, GiveDamaged, Give
  <2> QED
    BY <2>1 DEF Follows, Agreed, Decoding
<1>4. CASE DecodeHeader \/ DecodeMsgType \/ DecodeAddress \/ DecodeReplyTo \/ DecodePayload
  <2>1. msg' = msg /\ origin' = origin
    BY <1>4, DecodeKeeps
  <2>2. Survives(msg)' <=> Survives(msg)
    BY <2>1 DEF Survives
  <2>3. SUFFICES ASSUME origin \in {"whole", "cut"}, Survives(msg) PROVE Agreed'
    BY <2>1, <2>2 DEF Follows
  <2>4. Agreed
    BY <2>3 DEF Follows
  <2> QED
    BY <1>4, <2>3, <2>4, HeaderFollows, MsgTypeFollows, AddressFollows, ReplyToFollows, PayloadFollows
<1> QED
  BY <1>1, <1>2, <1>3, <1>4 DEF Next

\* decode follows encode.
LEMMA Following == Spec => [](WellBuilt /\ Delivered /\ Follows)
<1>1. Init => WellBuilt /\ Delivered /\ Follows
  BY DEF Init, WellBuilt, Delivered, Follows
<1>2. IInv /\ Consumed /\ WellBuilt /\ Delivered /\ Follows /\ [Next]_vars
         => (WellBuilt /\ Delivered /\ Follows)'
  BY WellBuiltStep, DeliveredStep, FollowsStep
<1> QED
  BY <1>1, <1>2, Invariance, Reads, PTL DEF Spec

\* A message that was decoded from an undamaged buffer is the one encoded, and
\* its frame ends where decode stopped.
LEMMA DoneIsWhole ==
    ASSUME IInv, Consumed, Agreed, at = "done" PROVE got = msg /\ pos = Len(Encode(msg))
<1>1. /\ got.version = msg.version /\ got.flags = msg.flags /\ got.ident = msg.ident
      /\ got.msg_type_len = msg.msg_type_len /\ got.address_len = msg.address_len
      /\ got.payload_len = msg.payload_len /\ got.msg_type = msg.msg_type
      /\ got.address = msg.address /\ got.reply_to = msg.reply_to /\ got.payload = msg.payload
  BY DEF Agreed, Decoding
<1>2. got = msg
  <2> DEFINE r(m) == [version |-> m.version, flags |-> m.flags, ident |-> m.ident,
                      msg_type_len |-> m.msg_type_len, address_len |-> m.address_len,
                      payload_len |-> m.payload_len, msg_type |-> m.msg_type,
                      address |-> m.address, reply_to |-> m.reply_to, payload |-> m.payload]
  <2>1. ASSUME NEW m \in Message PROVE m = r(m)
    BY DEF Message
  <2>2. r(got) = r(msg)
    BY <1>1
  <2> HIDE DEF r
  <2> QED
    BY <2>1, <2>2, StateFacts
<1>3. Encode(got) = SubSeq(frame, 1, pos)
  BY DEF Consumed
<1>4. Len(SubSeq(frame, 1, pos)) = pos
  <2>1. pos \in 0..Len(frame)
    BY StateFacts
  <2> QED
    BY <2>1, StateFacts, FirstElements
<1> QED
  BY <1>2, <1>3, <1>4

\* decode returns the message that encode wrote, and stops at the end of its
\* frame, exactly for the messages that survive, whatever follows in the buffer.
THEOREM RoundTripHolds == Spec => []RoundTrip
<1>1. IInv /\ Consumed /\ Follows => RoundTrip
  <2>1. SUFFICES ASSUME IInv, Consumed, Follows, origin = "whole", at \in {"done", "refused"}
                 PROVE  Survives(msg) <=> at = "done" /\ got = msg /\ pos = Len(Encode(msg))
    BY DEF RoundTrip
  <2>2. ASSUME Survives(msg) PROVE at = "done" /\ got = msg /\ pos = Len(Encode(msg))
    <3>1. Agreed
      BY <2>1, <2>2 DEF Follows
    <3>2. at = "done"
      BY <2>1, <3>1 DEF Agreed
    <3> QED
      BY <2>1, <3>1, <3>2, DoneIsWhole
  <2>3. ASSUME at = "done", got = msg PROVE Survives(msg)
    <3>1. /\ IsUtf8(got.msg_type) /\ got.payload_len <= MAX_PAYLOAD_LEN
          /\ Len(got.payload) = got.payload_len
          /\ ModeOf(got.flags) = InOut =>
                Len(got.reply_to) \in 1..MAX_ADDRESS_LEN /\ ValidateAddress(got.reply_to)
      BY <2>1, <2>3 DEF IInv, CheckedSoFar, Decoding
    <3>2. Len(got.payload) < Pow(U32)
      BY <2>1, <3>1, LengthFacts, Limits
    <3>3. ModeOf(got.flags) = InOut => Len(got.reply_to) <= MAX_ADDRESS_LEN
      BY <3>1, Limits
    <3> QED
      BY <2>3, <3>1, <3>2, <3>3 DEF Survives
  <2> QED
    BY <2>2, <2>3
<1> QED
  BY <1>1, Invariance, Reads, Following, PTL

\* decode refuses a frame that was cut, anywhere, and calls it incomplete.
THEOREM CutFrameIsIncomplete == Spec => []CutIsIncomplete
<1>1. IInv /\ Consumed /\ Delivered /\ Follows => CutIsIncomplete
  <2>1. SUFFICES ASSUME IInv, Consumed, Delivered, Follows, origin = "cut", Survives(msg)
                 PROVE  at # "done" /\ (at = "refused" => error \in Incomplete)
    BY DEF CutIsIncomplete
  <2>2. Agreed
    BY <2>1 DEF Follows
  <2>3. at # "done"
    <3>1. SUFFICES ASSUME at = "done" PROVE FALSE
      OBVIOUS
    <3>2. pos = Len(Encode(msg)) /\ Len(frame) < Len(Encode(msg))
      BY <2>1, <2>2, <3>1, DoneIsWhole DEF Delivered
    <3> QED
      BY <2>1, <3>2, StateFacts
  <2> QED
    BY <2>2, <2>3 DEF Agreed
<1> QED
  BY <1>1, Invariance, Reads, Following, PTL
=============================================================================
