-------------------------- MODULE Framing_proofs --------------------------
(***************************************************************************)
(* Proofs about Framing, for any number of values of a byte and any        *)
(* messages: what one side frames the other cuts out again, whole and only *)
(* when it is whole, and no reader leaves its buffer, as long as no piece  *)
(* tears a message apart in the way the module describes; what it hands    *)
(* over is then what was written, and with a torn header all of it but the *)
(* type.                                                                   *)
(***************************************************************************)
EXTENDS Framing, TLAPS

-----------------------------------------------------------------------------
(* Headers.                                                                *)

LEMMA Boundaries ==
  /\ Base \in Nat /\ Base > 3
  /\ Marker \in Byte /\ 0 \in Byte /\ 1 \in Byte
  /\ Wide \in Nat /\ Wide > 14 /\ Wide = Capacity - 1 /\ Capacity \in Nat
<1>1. Base \in Nat /\ Base > 3
  BY BaseAssumption DEF BaseAssumption
<1>2. Base * Base \in Nat /\ Base * Base > 15
  BY <1>1
<1>. QED  BY <1>1, <1>2 DEF Marker, Byte, Wide, Capacity

(* A length below Wide has two digits.                                     *)
LEMMA TwoDigits ==
  ASSUME NEW n \in Nat, n < Wide
  PROVE  /\ n % Base \in Byte
         /\ n \div Base \in Byte
         /\ (n % Base) + Base * (n \div Base) = n
<1>1. Base \in Nat /\ Base > 3
  BY Boundaries
<1>2. n % Base \in 0 .. Base - 1 /\ n \div Base \in Nat
  BY <1>1
<1>3. n = Base * (n \div Base) + (n % Base)
  BY <1>1
<1>4. n \div Base < Base
  <2>. DEFINE q == n \div Base
  <2>1. q \in Nat /\ Base * q <= n /\ n < Base * Base
    BY <1>1, <1>2, <1>3 DEF Wide
  <2>. HIDE DEF q
  <2>2. q >= Base => Base * q >= Base * Base
    BY <1>1, <2>1
  <2>3. Base * q \in Nat /\ Base * Base \in Nat
    BY <1>1, <2>1
  <2>. QED  BY <1>1, <2>1, <2>2, <2>3 DEF q
<1>. QED  BY <1>1, <1>2, <1>3, <1>4 DEF Byte

LEMMA ShortSequences ==
  ASSUME NEW D, NEW a \in D, NEW b \in D, NEW c \in D
  PROVE  <<a>> \in Seq(D) /\ <<a, b, c>> \in Seq(D)
OBVIOUS

LEMMA Concatenated ==
  ASSUME NEW D, NEW a \in D, NEW s \in Seq(D), NEW c \in Seq(D), NEW f, f = <<a>> \o s \o c
  PROVE  /\ f \in Seq(D)
         /\ Len(f) = 1 + Len(s) + Len(c)
         /\ f[1] = a
         /\ \A i \in 1 .. Len(s) : f[1 + i] = s[i]
         /\ \A i \in 1 .. Len(c) : f[1 + Len(s) + i] = c[i]
<1>. DEFINE front == <<a>> \o s
<1>1. /\ front \in Seq(D) /\ Len(front) = 1 + Len(s) /\ front[1] = a
      /\ \A i \in 1 .. Len(s) : front[1 + i] = s[i]
  <2>1. <<a>> \in Seq(D) /\ Len(<<a>>) = 1 /\ <<a>>[1] = a
    OBVIOUS
  <2>. DEFINE one == <<a>>
  <2>. HIDE DEF one
  <2>2. one \in Seq(D) /\ Len(one) = 1 /\ one[1] = a
    BY <2>1 DEF one
  <2>3. front = one \o s
    BY DEF one
  <2>. QED  BY <2>2, <2>3
<1>2. f = front \o c
  OBVIOUS
<1>. HIDE DEF front
<1>. QED  BY <1>1, <1>2

LEMMA Joined ==
  ASSUME NEW D, NEW s \in Seq(D), NEW c \in Seq(D)
  PROVE  s \o c \in Seq(D) /\ Len(s \o c) = Len(s) + Len(c)
OBVIOUS

LEMMA CutOut ==
  ASSUME NEW D, NEW w \in Seq(D), NEW a \in Nat, NEW b \in Nat, a + b <= Len(w)
  PROVE  /\ SubSeq(w, a + 1, a + b) \in Seq(D)
         /\ Len(SubSeq(w, a + 1, a + b)) = b
         /\ \A i \in 1 .. b : SubSeq(w, a + 1, a + b)[i] = w[a + i]
OBVIOUS

(* The contents of a framed message that needs at most two length bytes.   *)
LEMMA FramedIs ==
  ASSUME NEW type \in Byte, NEW contents \in Seq(Byte), Len(contents) < Wide, NEW long
  PROVE  /\ SizeBytes(Len(contents), long) \in Seq(Byte)
         /\ Framed(type, contents, long) \in Seq(Byte)
         /\ Len(Framed(type, contents, long)) =
              1 + Len(SizeBytes(Len(contents), long)) + Len(contents)
         /\ Len(contents) < Marker =>
              SizeBytes(Len(contents), long) = <<Len(contents)>>
         /\ Len(contents) >= Marker =>
              SizeBytes(Len(contents), long) =
                <<Marker, Len(contents) % Base, Len(contents) \div Base>>
<1>. DEFINE n == Len(contents)
            size == SizeBytes(n, long)
<1>1. n \in Nat /\ Base \in Nat /\ Base > 3 /\ Wide \in Nat
  BY Boundaries
<1>2. n < Marker => size = <<n>>
  BY <1>1 DEF SizeBytes
<1>3. n >= Marker => size = <<Marker, n % Base, n \div Base>>
  BY <1>1 DEF SizeBytes, Marker
<1>4. n % Base \in Byte /\ n \div Base \in Byte
  BY <1>1, TwoDigits
<1>5. n < Marker => n \in Byte
  BY <1>1 DEF Marker, Byte
<1>. HIDE DEF size, n
<1>6. size \in Seq(Byte)
  <2>1. CASE n < Marker
    <3>1. n \in Byte /\ size = <<n>>
      BY <2>1, <1>2, <1>5
    <3>. QED  BY <3>1, ShortSequences
  <2>2. CASE n >= Marker
    <3>1. Marker \in Byte
      BY Boundaries
    <3>. QED  BY <2>2, <3>1, <1>3, <1>4, ShortSequences
  <2>. QED  BY <2>1, <2>2, <1>1 DEF Marker
<1>7. Framed(type, contents, long) = <<type>> \o size \o contents
  BY DEF Framed, size, n
<1>8. <<type>> \in Seq(Byte) /\ Len(<<type>>) = 1
  OBVIOUS
<1>. QED  BY <1>2, <1>3, <1>6, <1>7, <1>8 DEF size, n

(* How many bytes of length two digits or less take.                       *)
HeaderLength(n) == IF n < Marker THEN 1 ELSE 3

LEMMA HeaderLengths ==
  ASSUME NEW n \in Nat
  PROVE  /\ HeaderLength(n) \in Nat
         /\ n < Marker => HeaderLength(n) = 1
         /\ ~(n < Marker) => HeaderLength(n) = 3
BY DEF HeaderLength

(* Where type, length and contents are in the bytes of a message.          *)
LaidOut(w, type, contents) ==
  LET n == Len(contents)
      h == HeaderLength(n)
  IN  /\ w[1] = type
      /\ n < Marker => w[2] = n
      /\ ~(n < Marker) => w[2] = Marker /\ w[3] = n % Base /\ w[4] = n \div Base
      /\ \A i \in 1 .. n : w[1 + h + i] = contents[i]

LEMMA Layout ==
  ASSUME NEW type \in Byte, NEW contents \in Seq(Byte), Len(contents) < Wide, NEW long,
         NEW rest \in Seq(Byte)
  PROVE  /\ Framed(type, contents, long) \in Seq(Byte)
         /\ Len(Framed(type, contents, long)) =
              1 + HeaderLength(Len(contents)) + Len(contents)
         /\ LaidOut(Framed(type, contents, long) \o rest, type, contents)
<1>. DEFINE n == Len(contents)
            size == SizeBytes(n, long)
            h == HeaderLength(n)
            framed == Framed(type, contents, long)
            w == framed \o rest
<1>1. n \in Nat /\ Marker \in Nat
  BY Boundaries DEF Marker
<1>2. /\ size \in Seq(Byte)
      /\ framed \in Seq(Byte)
      /\ n < Marker => size = <<n>>
      /\ ~(n < Marker) => size = <<Marker, n % Base, n \div Base>>
  BY <1>1, FramedIs
<1>3. framed = <<type>> \o size \o contents
  BY DEF Framed
<1>4. h \in Nat /\ (n < Marker => h = 1) /\ (~(n < Marker) => h = 3)
  BY <1>1, HeaderLengths
<1>. HIDE DEF size, h, n, framed
<1>5. Len(size) = h
  <2>1. CASE n < Marker
    BY <2>1, <1>2, <1>4
  <2>2. CASE ~(n < Marker)
    BY <2>2, <1>2, <1>4
  <2>. QED  BY <2>1, <2>2
<1>6. /\ Len(framed) = 1 + h + n
      /\ framed[1] = type
      /\ \A i \in 1 .. h : framed[1 + i] = size[i]
      /\ \A i \in 1 .. n : framed[1 + h + i] = contents[i]
  <2>1. /\ Len(framed) = 1 + Len(size) + Len(contents)
        /\ framed[1] = type
        /\ \A i \in 1 .. Len(size) : framed[1 + i] = size[i]
        /\ \A i \in 1 .. Len(contents) : framed[1 + Len(size) + i] = contents[i]
    BY <1>2, <1>3, Concatenated
  <2>2. Len(contents) = n
    BY DEF n
  <2>. QED  BY <2>1, <2>2, <1>5
<1>7. /\ w \in Seq(Byte)
      /\ Len(w) = Len(framed) + Len(rest)
      /\ \A i \in 1 .. Len(framed) : w[i] = framed[i]
  BY <1>2
<1>. HIDE DEF w
<1>8. /\ w[1] = type
      /\ \A i \in 1 .. h : w[1 + i] = size[i]
      /\ \A i \in 1 .. n : w[1 + h + i] = contents[i]
  BY <1>1, <1>4, <1>6, <1>7
<1>9. n < Marker => LaidOut(w, type, contents)
  <2>. SUFFICES ASSUME n < Marker
                PROVE  LaidOut(w, type, contents)
    OBVIOUS
  <2>1. size[1] = n /\ 1 \in 1 .. h
    BY <1>2, <1>4
  <2>2. w[1 + 1] = size[1]
    BY <2>1, <1>8, Zenon
  <2>3. w[2] = n
    <3>1. 1 + 1 = 2
      OBVIOUS
    <3>. QED  BY <2>1, <2>2, <3>1
  <2>. QED  BY <1>8, <2>3 DEF h, n, LaidOut
<1>10. ~(n < Marker) => LaidOut(w, type, contents)
  <2>. SUFFICES ASSUME ~(n < Marker)
                PROVE  LaidOut(w, type, contents)
    OBVIOUS
  <2>1. size[1] = Marker /\ size[2] = n % Base /\ size[3] = n \div Base
    BY <1>2
  <2>2. 1 \in 1 .. h /\ 2 \in 1 .. h /\ 3 \in 1 .. h
    BY <1>4
  <2>3. w[1 + 1] = size[1] /\ w[1 + 2] = size[2] /\ w[1 + 3] = size[3]
    BY <1>8, <2>2
  <2>4. 1 + 1 = 2 /\ 1 + 2 = 3 /\ 1 + 3 = 4
    OBVIOUS
  <2>5. w[2] = Marker /\ w[3] = n % Base /\ w[4] = n \div Base
    BY <2>1, <2>3, <2>4
  <2>. QED  BY <1>8, <2>5 DEF h, n, LaidOut
<1>11. LaidOut(w, type, contents)
  BY <1>9, <1>10
<1>. QED  BY <1>2, <1>6, <1>11 DEF framed, w, h, n

(* The first size bytes of w are taken for a message.                      *)
TakenFor(w, type, contents, size) ==
  /\ MessageReady(w)
  /\ Taken(w) = size
  /\ w[1] = type
  /\ SubSeq(w, SizeOffset(w) + 2, Taken(w)) = contents

(* What one side frames, the other cuts out of whatever follows: the same  *)
(* type, the same contents, and not a byte more (SizeBytes and SizeOffset, *)
(* MessageSize, MessageReady).                                             *)
THEOREM ReadsWhatIsWritten ==
  ASSUME NEW type \in Byte, NEW contents \in Seq(Byte), Len(contents) < Wide, NEW long,
         NEW rest \in Seq(Byte)
  PROVE  TakenFor(Framed(type, contents, long) \o rest, type, contents,
                  Len(Framed(type, contents, long)))
<1>. DEFINE n == Len(contents)
            h == HeaderLength(n)
            framed == Framed(type, contents, long)
            w == framed \o rest
<1>1. n \in Nat /\ n < Wide /\ Base \in Nat /\ Base > 3 /\ Marker \in Nat
  BY Boundaries DEF Marker
<1>2. /\ w \in Seq(Byte)
      /\ Len(framed) = 1 + h + n
      /\ Len(w) = 1 + h + n + Len(rest)
      /\ w[1] = type
      /\ n < Marker => w[2] = n
      /\ ~(n < Marker) => w[2] = Marker /\ w[3] = n % Base /\ w[4] = n \div Base
      /\ \A i \in 1 .. n : w[1 + h + i] = contents[i]
  <2>1. /\ framed \in Seq(Byte)
        /\ Len(framed) = 1 + h + n
        /\ LaidOut(framed \o rest, type, contents)
    BY Layout
  <2>2. w = framed \o rest
    OBVIOUS
  <2>. HIDE DEF framed, w
  <2>3. w \in Seq(Byte) /\ Len(w) = Len(framed) + Len(rest)
    <3>1. framed \o rest \in Seq(Byte) /\ Len(framed \o rest) = Len(framed) + Len(rest)
      BY <2>1, Joined, Zenon
    <3>. QED  BY <2>2, <3>1, Zenon
  <2>. QED  BY <2>1, <2>2, <2>3 DEF LaidOut
<1>3. (n % Base) + Base * (n \div Base) = n
  BY <1>1, TwoDigits
<1>4. h \in Nat /\ (n < Marker => h = 1) /\ (~(n < Marker) => h = 3)
  BY <1>1, HeaderLengths
<1>. HIDE DEF n, h, framed, w
<1>5. Len(w) \in Nat /\ Len(w) > h + n
  BY <1>1, <1>2, <1>4
<1>6. SizeOffset(w) = h
  BY <1>1, <1>2, <1>4, <1>5 DEF SizeOffset
<1>7. MessageSize(w) = n
  <2>1. CASE n < Marker
    BY <2>1, <1>1, <1>2, <1>4, <1>5 DEF MessageSize
  <2>2. CASE ~(n < Marker)
    <3>1. Len(w) > 3 /\ w[2] = Marker
      BY <2>2, <1>1, <1>2, <1>4, <1>5
    <3>2. MessageSize(w) = w[3] + Base * w[4]
      BY <3>1, <1>1 DEF MessageSize
    <3>. QED  BY <3>2, <2>2, <1>2, <1>3
  <2>. QED  BY <2>1, <2>2
<1>8. MessageReady(w) /\ Taken(w) = 1 + h + n
  BY <1>1, <1>4, <1>5, <1>6, <1>7 DEF MessageReady, Taken
<1>9. SubSeq(w, h + 2, 1 + h + n) = contents
  <2>1. (1 + h) + 1 = h + 2
    BY <1>4
  <2>2. /\ SubSeq(w, (1 + h) + 1, (1 + h) + n) \in Seq(Byte)
        /\ Len(SubSeq(w, (1 + h) + 1, (1 + h) + n)) = n
        /\ \A i \in 1 .. n : SubSeq(w, (1 + h) + 1, (1 + h) + n)[i] = w[(1 + h) + i]
    <3>1. w \in Seq(Byte) /\ n \in Nat /\ 1 + h \in Nat /\ (1 + h) + n <= Len(w)
      BY <1>1, <1>2, <1>4, <1>5
    <3>. HIDE DEF h
    <3>. DEFINE a == 1 + h
    <3>2. a \in Nat /\ a + n <= Len(w)
      BY <3>1
    <3>. HIDE DEF a
    <3>3. /\ SubSeq(w, a + 1, a + n) \in Seq(Byte)
          /\ Len(SubSeq(w, a + 1, a + n)) = n
          /\ \A i \in 1 .. n : SubSeq(w, a + 1, a + n)[i] = w[a + i]
      BY <3>1, <3>2, CutOut, Zenon
    <3>. QED  BY <3>3 DEF a
  <2>. DEFINE cut == SubSeq(w, h + 2, 1 + h + n)
  <2>3. cut \in Seq(Byte) /\ Len(cut) = n /\ \A i \in 1 .. n : cut[i] = w[1 + h + i]
    BY <2>1, <2>2
  <2>. HIDE DEF cut
  <2>4. \A i \in 1 .. n : cut[i] = contents[i]
    BY <2>3, <1>2
  <2>5. Len(contents) = n
    BY DEF n
  <2>6. cut = contents
    BY <2>3, <2>4, <2>5, <1>1
  <2>. QED  BY <2>6 DEF cut
<1>10. SizeOffset(w) + 2 = h + 2 /\ Taken(w) = 1 + h + n /\ Taken(w) = Len(framed)
  BY <1>2, <1>6, <1>8
<1>. QED  BY <1>2, <1>8, <1>9, <1>10 DEF framed, w, TakenFor

(* As long as a byte is missing, nothing is taken out: what has come so    *)
(* far is never mistaken for a shorter message (MessageReady).             *)
THEOREM WaitsForTheRest ==
  ASSUME NEW type \in Byte, NEW contents \in Seq(Byte), Len(contents) < Wide, NEW long,
         NEW k \in Nat, k < Len(Framed(type, contents, long))
  PROVE  ~MessageReady(SubSeq(Framed(type, contents, long), 1, k))
<1>. DEFINE n == Len(contents)
            h == HeaderLength(n)
            f == Framed(type, contents, long)
            w == SubSeq(f, 1, k)
<1>1. n \in Nat /\ n < Wide /\ Base \in Nat /\ Base > 3 /\ Marker \in Nat /\ Wide \in Nat
  BY Boundaries DEF Marker
<1>2. f \in Seq(Byte) /\ <<>> \in Seq(Byte) /\ f \o <<>> = f
  <2>1. f \in Seq(Byte)
    BY FramedIs
  <2>. HIDE DEF f
  <2>. QED  BY <2>1
<1>3. /\ Len(f) = 1 + h + n
      /\ n < Marker => f[2] = n
      /\ ~(n < Marker) => f[2] = Marker /\ f[3] = n % Base /\ f[4] = n \div Base
  <2>1. Len(f) = 1 + h + n /\ LaidOut(f \o <<>>, type, contents)
    BY <1>2, Layout
  <2>2. LaidOut(f, type, contents)
    BY <2>1, <1>2
  <2>. HIDE DEF f
  <2>. QED  BY <2>1, <2>2 DEF LaidOut
<1>4. (n % Base) + Base * (n \div Base) = n
  BY <1>1, TwoDigits
<1>5. h \in Nat /\ (n < Marker => h = 1) /\ (~(n < Marker) => h = 3)
  BY <1>1, HeaderLengths
<1>6. k < 1 + h + n
  BY <1>3
<1>. HIDE DEF f, n, h
<1>7. w \in Seq(Byte) /\ Len(w) = k /\ \A i \in 1 .. k : w[i] = f[i]
  BY <1>1, <1>2, <1>3, <1>5, <1>6
<1>. HIDE DEF w
<1>. SUFFICES ~MessageReady(w)
  BY DEF w, f
<1>8. CASE k < 2
  <2>1. SizeOffset(w) = 0 /\ MessageSize(w) = Wide
    BY <1>8, <1>7 DEF MessageSize, SizeOffset
  <2>2. Wide > 14
    BY Boundaries
  <2>. QED  BY <1>8, <2>1, <2>2, <1>1, <1>7 DEF MessageReady
<1>9. CASE k >= 2 /\ n < Marker
  <2>1. w[2] = n
    BY <1>9, <1>3, <1>7
  <2>2. SizeOffset(w) = 1 /\ MessageSize(w) = n
    BY <1>9, <2>1, <1>7 DEF MessageSize, SizeOffset
  <2>. QED  BY <1>9, <2>2, <1>1, <1>5, <1>6, <1>7 DEF MessageReady
<1>10. CASE k \in 2 .. 3 /\ ~(n < Marker)
  <2>1. w[2] = Marker
    BY <1>10, <1>3, <1>7
  <2>2. SizeOffset(w) = 3 /\ MessageSize(w) = Wide
    BY <1>10, <2>1, <1>1, <1>7 DEF MessageSize, SizeOffset
  <2>3. Wide > 14
    BY Boundaries
  <2>. QED  BY <1>10, <2>2, <2>3, <1>1, <1>7 DEF MessageReady
<1>11. CASE k > 3 /\ ~(n < Marker)
  <2>1. w[2] = Marker /\ w[3] = n % Base /\ w[4] = n \div Base
    BY <1>11, <1>3, <1>7
  <2>2. MessageSize(w) = n
    <3>1. MessageSize(w) = w[3] + Base * w[4]
      BY <1>11, <2>1, <1>1, <1>7 DEF MessageSize
    <3>. QED  BY <3>1, <2>1, <1>4
  <2>3. SizeOffset(w) = 3
    BY <1>11, <2>1, <1>1, <1>7 DEF SizeOffset
  <2>. QED  BY <1>11, <2>2, <2>3, <1>1, <1>5, <1>6, <1>7 DEF MessageReady
<1>. QED  BY <1>1, <1>8, <1>9, <1>10, <1>11

-----------------------------------------------------------------------------
(* What is written is bytes, what is read is sizes.                        *)

LEMMA BytesOfNumbers ==
  ASSUME NEW n \in Nat
  PROVE  n % Base \in Byte /\ n \div Base \in Nat /\ n \div (Base * Base) \in Nat
         /\ n \div (Base * Base * Base) \in Nat
<1>1. Base \in Nat /\ Base > 3
  BY Boundaries
<1>. DEFINE a == Base * Base
            b == Base * Base * Base
<1>2. a \in Nat /\ a > 0 /\ b \in Nat /\ b > 0
  <2>1. a \in Nat /\ a > 0
    BY <1>1
  <2>2. b = a * Base
    OBVIOUS
  <2>. HIDE DEF a, b
  <2>. QED  BY <1>1, <2>1, <2>2
<1>. HIDE DEF a, b
<1>3. n \div a \in Nat /\ n \div b \in Nat
  BY <1>2
<1>. QED  BY <1>1, <1>3 DEF Byte, a, b

LEMMA SizeBytesType ==
  ASSUME NEW n \in Nat, NEW long \in Byte
  PROVE  SizeBytes(n, long) \in Seq(Byte)
<1>1. Marker \in Byte /\ n % Base \in Byte /\ (n \div Base) % Base \in Byte
  BY Boundaries, BytesOfNumbers
<1>2. (n \div (Base * Base)) % Base \in Byte /\ (n \div (Base * Base * Base)) % Base \in Byte
  <2>. DEFINE a == n \div (Base * Base)
              b == n \div (Base * Base * Base)
  <2>1. a \in Nat /\ b \in Nat
    BY BytesOfNumbers
  <2>. HIDE DEF a, b
  <2>2. a % Base \in Byte /\ b % Base \in Byte
    BY <2>1, BytesOfNumbers
  <2>. QED  BY <2>2 DEF a, b
<1>3. CASE n < Marker
  <2>1. n \in Byte
    BY <1>3, Boundaries DEF Marker, Byte
  <2>2. SizeBytes(n, long) = <<n>>
    BY <1>3 DEF SizeBytes
  <2>. QED  BY <2>1, <2>2
<1>4. CASE ~(n < Marker) /\ n < Wide
  <2>1. n \div Base \in Byte
    BY <1>4, TwoDigits
  <2>2. SizeBytes(n, long) = <<Marker, n % Base, n \div Base>>
    BY <1>4 DEF SizeBytes
  <2>. QED  BY <1>1, <2>1, <2>2, ShortSequences
<1>5. CASE ~(n < Marker) /\ ~(n < Wide)
  <2>. DEFINE a == n % Base
              b == (n \div Base) % Base
              c == (n \div (Base * Base)) % Base
              d == (n \div (Base * Base * Base)) % Base
  <2>1. SizeBytes(n, long) = <<long, a, b, c, d>>
    BY <1>5 DEF SizeBytes
  <2>2. a \in Byte /\ b \in Byte /\ c \in Byte /\ d \in Byte
    BY <1>1, <1>2
  <2>. HIDE DEF a, b, c, d
  <2>. QED  BY <2>1, <2>2
<1>. QED  BY <1>3, <1>4, <1>5

LEMMA EncodedType ==
  ASSUME NEW m \in ToServer \cup ToClient
  PROVE  /\ m.type \in Byte /\ Contents(m) \in Seq(Byte)
         /\ Encoded(m) \in Seq(Byte) /\ Len(Encoded(m)) \in Nat
<1>1. /\ m \in Message
      /\ m.via = "channel" => m.size >= 3
      /\ m.via = "peer" => m.size >= 5
  BY MessagesAssumption, Boundaries DEF MessagesAssumption, Message
<1>2. m.type \in Byte /\ m.size \in Nat /\ m.via \in {"packet", "channel", "peer"}
  BY <1>1 DEF Message
<1>3. Body(m) \in Seq(Byte) /\ Len(Body(m)) = m.size
  <2>1. ASSUME NEW i \in 1 .. m.size
        PROVE  (i + m.type) % Base \in Byte
    <3>1. i + m.type \in Nat
      BY <1>2, Boundaries DEF Byte
    <3>. QED  BY <3>1, BytesOfNumbers
  <2>2. Body(m) \in [1 .. m.size -> Byte]
    BY <2>1 DEF Body
  <2>. QED  BY <1>2, <2>2
<1>4. Contents(m) \in Seq(Byte)
  <2>1. Sender \in Seq(Byte)
    BY Boundaries, ShortSequences DEF Sender
  <2>2. CASE m.via = "packet"
    BY <2>2, <1>3 DEF Contents
  <2>. DEFINE first == SubSeq(Body(m), 1, 3)
  <2>3. CASE m.via = "channel"
    <3>. DEFINE rest == SubSeq(Body(m), 4, m.size)
    <3>1. first \in Seq(Byte) /\ rest \in Seq(Byte)
      BY <2>3, <1>1, <1>2, <1>3
    <3>2. Contents(m) = first \o Sender \o rest
      BY <2>3 DEF Contents
    <3>. HIDE DEF first, rest
    <3>. QED  BY <3>1, <3>2, <2>1
  <2>4. CASE m.via = "peer"
    <3>. DEFINE rest == SubSeq(Body(m), 6, m.size)
    <3>1. first \in Seq(Byte) /\ rest \in Seq(Byte)
      BY <2>4, <1>1, <1>2, <1>3
    <3>2. Contents(m) = first \o Sender \o rest
      BY <2>4 DEF Contents
    <3>. HIDE DEF first, rest
    <3>. QED  BY <3>1, <3>2, <2>1
  <2>. QED  BY <1>2, <2>2, <2>3, <2>4
<1>5. LongForm(m) \in Byte
  BY Boundaries DEF LongForm, LongMarker, Byte
<1>6. SizeBytes(Len(Contents(m)), LongForm(m)) \in Seq(Byte)
  BY <1>4, <1>5, SizeBytesType
<1>. DEFINE size == SizeBytes(Len(Contents(m)), LongForm(m))
            contents == Contents(m)
<1>7. Encoded(m) = <<m.type>> \o size \o contents
  BY DEF Encoded, Framed
<1>. HIDE DEF size, contents
<1>8. size \in Seq(Byte) /\ contents \in Seq(Byte)
  BY <1>4, <1>6 DEF size, contents
<1>9. Encoded(m) \in Seq(Byte) /\ Len(Encoded(m)) \in Nat
  BY <1>2, <1>7, <1>8, Concatenated
<1>. QED  BY <1>2, <1>4, <1>9

LEMMA Products ==
  ASSUME NEW x \in Nat, NEW y \in Nat
  PROVE  x * y \in Nat
OBVIOUS

(* What the header says is a size, and needs a header that has come.       *)
LEMMA Sizes ==
  ASSUME NEW w \in Seq(Byte)
  PROVE  /\ SizeOffset(w) \in {0, 1, 3, 5}
         /\ MessageSize(w) \in Nat
         /\ Taken(w) \in Nat /\ Taken(w) > 0
         /\ MessageReady(w) => Taken(w) <= Len(w) /\ SizeOffset(w) > 0
<1>1. SizeOffset(w) \in {0, 1, 3, 5} /\ (Len(w) >= 2 => SizeOffset(w) > 0)
  BY DEF SizeOffset
<1>2. MessageSize(w) \in Nat /\ (Len(w) < 2 => MessageSize(w) = Wide)
  <2>1. \A i \in 1 .. Len(w) : w[i] \in Nat
    BY Boundaries DEF Byte
  <2>2. Base \in Nat /\ Base * Base \in Nat /\ Base * Base * Base \in Nat /\ Wide \in Nat
    BY Boundaries
  <2>. DEFINE a == Base * Base
              b == Base * Base * Base
  <2>3. CASE Len(w) > 1 /\ w[2] < Marker
    BY <2>1, <2>3 DEF MessageSize
  <2>4. CASE ~(Len(w) > 1 /\ w[2] < Marker) /\ Len(w) > 3 /\ w[2] = Marker
    <3>1. MessageSize(w) = w[3] + Base * w[4]
      BY <2>4 DEF MessageSize
    <3>2. w[3] \in Nat /\ w[4] \in Nat
      BY <2>1, <2>4
    <3>3. Base * w[4] \in Nat
      BY <3>2, <2>2
    <3>. QED  BY <2>4, <3>1, <3>2, <3>3
  <2>5. CASE /\ ~(Len(w) > 1 /\ w[2] < Marker)
             /\ ~(Len(w) > 3 /\ w[2] = Marker)
             /\ Len(w) > 5
    <3>1. MessageSize(w) = w[3] + Base * w[4] + a * w[5] + b * w[6]
      BY <2>5 DEF MessageSize
    <3>. HIDE DEF a, b
    <3>2. w[3] \in Nat /\ w[4] \in Nat /\ w[5] \in Nat /\ w[6] \in Nat
      BY <2>1, <2>5
    <3>3. a \in Nat /\ b \in Nat
      BY <2>2 DEF a, b
    <3>4. Base * w[4] \in Nat /\ a * w[5] \in Nat /\ b * w[6] \in Nat
      BY <3>2, <3>3, <2>2, Products, Zenon
    <3>. DEFINE o == w[3]
                p == Base * w[4]
                q == a * w[5]
                r == b * w[6]
    <3>5. o \in Nat /\ p \in Nat /\ q \in Nat /\ r \in Nat /\ MessageSize(w) = o + p + q + r
      BY <3>1, <3>2, <3>4
    <3>. HIDE DEF o, p, q, r
    <3>6. MessageSize(w) \in Nat
      BY <3>5
    <3>7. ~(Len(w) < 2)
      BY <2>5
    <3>. QED  BY <3>6, <3>7
  <2>6. CASE /\ ~(Len(w) > 1 /\ w[2] < Marker)
             /\ ~(Len(w) > 3 /\ w[2] = Marker)
             /\ ~(Len(w) > 5)
    BY <2>2, <2>6 DEF MessageSize
  <2>7. Len(w) < 2 => MessageSize(w) = Wide
    BY DEF MessageSize
  <2>. QED  BY <2>3, <2>4, <2>5, <2>6, <2>7
<1>3. Wide > 14
  BY Boundaries
<1>. QED  BY <1>1, <1>2, <1>3 DEF Taken, MessageReady

(* Once more is there than the header, its first bytes tell the size.      *)
LEMMA HeaderSuffices ==
  ASSUME NEW w \in Seq(Byte), NEW v \in Seq(Byte), MessageReady(w),
         SizeOffset(w) < Len(v), Len(v) <= Len(w), \A i \in 1 .. Len(v) : v[i] = w[i]
  PROVE  Taken(v) = Taken(w)
<1>1. SizeOffset(w) \in {1, 3, 5} /\ Len(w) >= 2
  BY Sizes
<1>2. Len(v) >= 2 /\ v[2] = w[2]
  BY <1>1
<1>3. CASE w[2] < Marker
  <2>1. /\ SizeOffset(v) = 1 /\ SizeOffset(w) = 1
        /\ MessageSize(v) = v[2] /\ MessageSize(w) = w[2]
    BY <1>1, <1>2, <1>3 DEF SizeOffset, MessageSize
  <2>. QED  BY <1>2, <2>1 DEF Taken
<1>4. CASE ~(w[2] < Marker) /\ w[2] = Marker
  <2>1. SizeOffset(w) = 3 /\ SizeOffset(v) = 3 /\ Len(v) > 3 /\ Len(w) > 3
    BY <1>1, <1>2, <1>4 DEF SizeOffset
  <2>2. MessageSize(v) = v[3] + Base * v[4] /\ MessageSize(w) = w[3] + Base * w[4]
    BY <1>2, <1>4, <2>1 DEF MessageSize
  <2>3. v[3] = w[3] /\ v[4] = w[4]
    BY <2>1
  <2>. QED  BY <2>1, <2>2, <2>3 DEF Taken
<1>5. CASE ~(w[2] < Marker) /\ w[2] # Marker
  <2>1. SizeOffset(w) = 5 /\ SizeOffset(v) = 5 /\ Len(v) > 5 /\ Len(w) > 5
    BY <1>1, <1>2, <1>5 DEF SizeOffset
  <2>2. /\ MessageSize(v) = v[3] + Base * v[4] + Base * Base * v[5] + Base * Base * Base * v[6]
        /\ MessageSize(w) = w[3] + Base * w[4] + Base * Base * w[5] + Base * Base * Base * w[6]
    BY <1>2, <1>5, <2>1 DEF MessageSize
  <2>3. v[3] = w[3] /\ v[4] = w[4] /\ v[5] = w[5] /\ v[6] = w[6]
    BY <2>1
  <2>. QED  BY <2>1, <2>2, <2>3 DEF Taken
<1>. QED  BY <1>3, <1>4, <1>5

-----------------------------------------------------------------------------
(* The inductive invariant: between two reads, the buffer holds what has   *)
(* not been handed over, from its start on; the client moves it there as   *)
(* soon as no whole message is left.                                       *)
Front ==
  /\ ~reading => begin = 0 /\ Len(buffer) = packetsize
  /\ side = "client" /\ reading /\ ~MessageReady(Here) => Len(buffer) = packetsize

IInv == TypeOK /\ Front /\ WithinBuffer

LEMMA WindowType ==
  ASSUME buffer \in Seq(Byte), NEW at \in Nat, NEW n \in Nat
  PROVE  /\ Window(at, n) \in Seq(Byte)
         /\ Len(Window(at, n)) = n
         /\ at + n <= Len(buffer) => \A i \in 1 .. n : Window(at, n)[i] = buffer[at + i]
<1>1. CASE at + n <= Len(buffer)
  <2>1. Window(at, n) = SubSeq(buffer, at + 1, at + n)
    BY <1>1 DEF Window
  <2>2. /\ SubSeq(buffer, at + 1, at + n) \in Seq(Byte)
        /\ Len(SubSeq(buffer, at + 1, at + n)) = n
        /\ \A i \in 1 .. n : SubSeq(buffer, at + 1, at + n)[i] = buffer[at + i]
    BY <1>1, CutOut, Zenon
  <2>. QED  BY <2>1, <2>2
<1>2. CASE ~(at + n <= Len(buffer))
  <2>1. Window(at, n) = [i \in 1 .. n |-> 0]
    BY <1>2 DEF Window
  <2>2. [i \in 1 .. n |-> 0] \in Seq(Byte) /\ Len([i \in 1 .. n |-> 0]) = n
    BY Boundaries
  <2>. QED  BY <1>2, <2>1, <2>2
<1>. QED  BY <1>1, <1>2

LEMMA InitIInv == Init => IInv
<1>. SUFFICES ASSUME Init PROVE IInv
  OBVIOUS
<1>1. Capacity \in Nat /\ InitialCapacity \in Nat
  BY Boundaries, MessagesAssumption DEF MessagesAssumption
<1>2. TypeOK
  <2>1. /\ <<>> \in Seq([message : ToServer \cup ToClient, whole : BOOLEAN])
        /\ <<>> \in Seq(Byte) /\ <<>> \in Seq([type : Byte, body : Seq(Byte)])
        /\ Len(<<>>) = 0
    OBVIOUS
  <2>2. capacity \in Nat /\ (side = "server" => capacity = Capacity)
    BY <1>1 DEF Init
  <2>3. Len(buffer) = 0 /\ packetsize = 0 /\ begin = 0
    BY <2>1 DEF Init
  <2>4. packetsize <= Len(buffer) /\ Len(buffer) <= capacity
    BY <2>2, <2>3
  <2>5. reading \in BOOLEAN /\ torn \in BOOLEAN
    BY DEF Init
  <2>6. /\ side \in {"server", "client"}
        /\ status \in {"open", "dropped", "undefined"}
        /\ begin \in Nat /\ packetsize \in Nat
    BY <2>3 DEF Init
  <2>7. /\ written \in Seq([message : ToServer \cup ToClient, whole : BOOLEAN])
        /\ stream \in Seq(Byte) /\ buffer \in Seq(Byte)
        /\ handed \in Seq([type : Byte, body : Seq(Byte)])
    BY <2>1 DEF Init
  <2>. QED  BY <2>2, <2>4, <2>5, <2>6, <2>7 DEF TypeOK
<1>3. Front /\ WithinBuffer
  BY DEF Init, Front, WithinBuffer
<1>. QED  BY <1>2, <1>3 DEF IInv

LEMMA SendKeeps ==
  ASSUME IInv, NEW m \in ToServer \cup ToClient, Write(m) \/ WritePart(m)
  PROVE  IInv'
<1>1. PICK bytes \in Seq(Byte), whole \in BOOLEAN : Send(m, bytes, whole)
  <2>1. Encoded(m) \in Seq(Byte) /\ Len(Encoded(m)) \in Nat
    BY EncodedType
  <2>2. CASE Write(m)
    BY <2>1, <2>2 DEF Write
  <2>3. CASE WritePart(m)
    <3>1. PICK k \in 1 .. Len(Encoded(m)) - 1 : Send(m, SubSeq(Encoded(m), 1, k), FALSE)
      BY <2>3 DEF WritePart
    <3>2. SubSeq(Encoded(m), 1, k) \in Seq(Byte)
      BY <2>1, <3>1
    <3>. QED  BY <3>1, <3>2
  <2>. QED  BY <2>2, <2>3
<1>2. TypeOK
  BY DEF IInv
<1>3. written' \in Seq([message : ToServer \cup ToClient, whole : BOOLEAN])
  <2>1. [message |-> m, whole |-> whole] \in [message : ToServer \cup ToClient, whole : BOOLEAN]
    OBVIOUS
  <2>2. /\ written \in Seq([message : ToServer \cup ToClient, whole : BOOLEAN])
        /\ written' = Append(written, [message |-> m, whole |-> whole])
    BY <1>1, <1>2 DEF Send, TypeOK
  <2>. QED  BY <2>1, <2>2
<1>4. stream' \in Seq(Byte)
  BY <1>1, <1>2 DEF Send, TypeOK
<1>5. UNCHANGED <<side, buffer, capacity, begin, packetsize, reading, handed, torn, status>>
  BY <1>1 DEF Send
<1>6. TypeOK'
  BY <1>2, <1>3, <1>4, <1>5 DEF TypeOK
<1>7. Front' /\ WithinBuffer'
  BY <1>5 DEF IInv, Front, WithinBuffer, Here, Window
<1>. QED  BY <1>6, <1>7 DEF IInv

LEMMA ReceiveKeeps ==
  ASSUME IInv, NEW k \in 1 .. Len(stream), Receive(k)
  PROVE  IInv'
<1>1. TypeOK /\ begin = 0 /\ Len(buffer) = packetsize /\ packetsize \in Nat /\ capacity \in Nat
  BY DEF IInv, Front, Receive, TypeOK
<1>2. stream \in Seq(Byte) /\ buffer \in Seq(Byte) /\ k \in Nat /\ k > 0 /\ k <= Len(stream)
  BY <1>1 DEF TypeOK
<1>. DEFINE piece == SubSeq(stream, 1, k)
<1>3. piece \in Seq(Byte) /\ Len(piece) = k /\ SubSeq(stream, k + 1, Len(stream)) \in Seq(Byte)
  BY <1>2
<1>. HIDE DEF piece
<1>4. buffer' = buffer \o piece /\ stream' = SubSeq(stream, k + 1, Len(stream))
  BY DEF Receive, piece
<1>5. buffer' \in Seq(Byte) /\ Len(buffer') = packetsize + k /\ packetsize' = packetsize + k
  <2>1. packetsize' = packetsize + k
    BY DEF Receive
  <2>2. buffer' \in Seq(Byte) /\ Len(buffer') = Len(buffer) + Len(piece)
    <3>1. buffer \o piece \in Seq(Byte) /\ Len(buffer \o piece) = Len(buffer) + Len(piece)
      BY <1>2, <1>3, Joined, Zenon
    <3>2. buffer' = buffer \o piece
      BY <1>4
    <3>. QED  BY <3>1, <3>2, Zenon
  <2>. QED  BY <1>1, <1>3, <2>1, <2>2
<1>6. capacity' \in Nat /\ Len(buffer') <= capacity' /\ (side = "server" => capacity' = capacity)
  BY <1>1, <1>2, <1>5 DEF Receive, Room, CheckBounds
<1>7. UNCHANGED <<side, written, begin, handed, torn, status>> /\ reading' = TRUE
  BY DEF Receive
<1>8. TypeOK'
  BY <1>1, <1>2, <1>3, <1>4, <1>5, <1>6, <1>7 DEF TypeOK
<1>9. Front' /\ WithinBuffer'
  BY <1>1, <1>2, <1>5, <1>7 DEF IInv, Front, WithinBuffer
<1>. QED  BY <1>8, <1>9 DEF IInv

LEMMA OverflowKeeps ==
  ASSUME IInv, Overflow
  PROVE  IInv'
<1>1. TypeOK'
  BY DEF IInv, TypeOK, Overflow
<1>2. Front' /\ WithinBuffer'
  BY DEF IInv, Front, WithinBuffer, Overflow, Here, Window
<1>. QED  BY <1>1, <1>2 DEF IInv

(* What both readers do with a message.                                    *)
LEMMA HandingOver ==
  ASSUME IInv, HandOver
  PROVE  /\ Rest \in Nat /\ Rest < packetsize
         /\ NextBegin \in Nat
         /\ handed' \in Seq([type : Byte, body : Seq(Byte)])
         /\ packetsize' = Rest
         /\ torn' \in BOOLEAN
         /\ status' \in {"open", "undefined"}
         /\ ~torn' => status' # "undefined"
         /\ ~torn' /\ Rest # 0 => NextBegin + Rest <= Len(buffer)
         /\ UNCHANGED <<side, written, stream, capacity, reading>>
<1>1. TypeOK /\ WithinBuffer
  BY DEF IInv
<1>2. buffer \in Seq(Byte) /\ begin \in Nat /\ packetsize \in Nat /\ packetsize <= Len(buffer)
  BY <1>1 DEF TypeOK
<1>3. Here \in Seq(Byte) /\ Len(Here) = packetsize
  BY <1>2, WindowType DEF Here
<1>4. MessageReady(Here)
  BY DEF HandOver
<1>5. /\ SizeOffset(Here) \in {1, 3, 5}
      /\ MessageSize(Here) \in Nat
      /\ Taken(Here) \in Nat /\ Taken(Here) > 0 /\ Taken(Here) <= packetsize
  BY <1>3, <1>4, Sizes
<1>6. Rest \in Nat /\ Rest < packetsize /\ Rest + Taken(Here) = packetsize
  BY <1>2, <1>5 DEF Rest
<1>. DEFINE w == Window(begin, Rest)
<1>7. w \in Seq(Byte) /\ Len(w) = Rest
  BY <1>2, <1>6, WindowType
<1>8. NextBegin \in Nat /\ NextBegin = begin + Taken(w)
  BY <1>2, <1>7, Sizes DEF NextBegin
<1>9. handed' \in Seq([type : Byte, body : Seq(Byte)])
  <2>1. Here[1] \in Byte
    BY <1>3, <1>5
  <2>2. SubSeq(Here, SizeOffset(Here) + 2, Taken(Here)) \in Seq(Byte)
    BY <1>3, <1>5
  <2>3. NextMessage \in [type : Byte, body : Seq(Byte)]
    BY <2>1, <2>2 DEF NextMessage
  <2>4. handed \in Seq([type : Byte, body : Seq(Byte)]) /\ handed' = Append(handed, NextMessage)
    BY <1>1 DEF TypeOK, HandOver
  <2>. QED  BY <2>3, <2>4
<1>10. ~torn' /\ Rest # 0 => NextBegin + Rest <= Len(buffer)
  <2>. SUFFICES ASSUME ~torn', Rest # 0
                PROVE  NextBegin + Rest <= Len(buffer)
    OBVIOUS
  <2>1. ~torn /\ Rest > SizeOffset(Here)
    <3>1. torn' = (torn \/ Rest \in 1 .. SizeOffset(Here))
      BY DEF HandOver
    <3>2. ~torn /\ ~(Rest \in 1 .. SizeOffset(Here))
      BY <3>1, Zenon
    <3>. QED  BY <1>5, <1>6, <3>2
  <2>2. begin + packetsize <= Len(buffer)
    BY <1>1, <1>2, <1>6, <2>1 DEF WithinBuffer
  <2>3. \A i \in 1 .. packetsize : Here[i] = buffer[begin + i]
    BY <1>2, <2>2, WindowType DEF Here
  <2>4. \A i \in 1 .. Rest : w[i] = buffer[begin + i]
    <3>1. begin + Rest <= Len(buffer)
      BY <1>2, <1>6, <2>2
    <3>. QED  BY <1>2, <1>6, <3>1, WindowType
  <2>5. \A i \in 1 .. Len(w) : w[i] = Here[i]
    BY <1>2, <1>6, <1>7, <2>3, <2>4
  <2>. HIDE DEF w
  <2>6. Taken(w) = Taken(Here)
    BY <1>3, <1>4, <1>6, <1>7, <2>1, <2>5, HeaderSuffices
  <2>. QED  BY <1>2, <1>5, <1>6, <1>8, <2>2, <2>6
<1>11. torn' \in BOOLEAN
  BY DEF HandOver
<1>12. status' \in {"open", "undefined"} /\ (~torn' => status' # "undefined")
  <2>1. status = "open" /\ status' = IF Beyond /\ Rest > 1 THEN "undefined" ELSE status
    BY DEF HandOver
  <2>2. ~torn' /\ Rest > 1 => ~Beyond
    BY <1>2, <1>6, <1>8, <1>10 DEF Beyond
  <2>. QED  BY <2>1, <2>2
<1>. QED  BY <1>6, <1>8, <1>9, <1>10, <1>11, <1>12 DEF HandOver

LEMMA HandleNextKeeps ==
  ASSUME IInv, HandleNext
  PROVE  IInv'
<1>1. HandOver /\ begin' = NextBegin /\ buffer' = buffer /\ side = "server"
  BY DEF HandleNext
<1>2. /\ Rest \in Nat /\ Rest < packetsize
      /\ NextBegin \in Nat
      /\ handed' \in Seq([type : Byte, body : Seq(Byte)])
      /\ packetsize' = Rest
      /\ torn' \in BOOLEAN
      /\ status' \in {"open", "undefined"}
      /\ ~torn' => status' # "undefined"
      /\ ~torn' /\ Rest # 0 => NextBegin + Rest <= Len(buffer)
      /\ UNCHANGED <<side, written, stream, capacity, reading>>
  BY <1>1, HandingOver
<1>3. TypeOK /\ reading
  BY <1>1 DEF IInv, HandOver
<1>4. TypeOK'
  BY <1>1, <1>2, <1>3 DEF TypeOK
<1>5. Front' /\ WithinBuffer'
  BY <1>1, <1>2, <1>3 DEF Front, WithinBuffer
<1>. QED  BY <1>4, <1>5 DEF IInv

LEMMA NextPacketKeeps ==
  ASSUME IInv, NextPacket
  PROVE  IInv'
<1>1. HandOver /\ side = "client"
  BY DEF NextPacket
<1>2. /\ Rest \in Nat /\ Rest < packetsize
      /\ NextBegin \in Nat
      /\ handed' \in Seq([type : Byte, body : Seq(Byte)])
      /\ packetsize' = Rest
      /\ torn' \in BOOLEAN
      /\ status' \in {"open", "undefined"}
      /\ ~torn' => status' # "undefined"
      /\ ~torn' /\ Rest # 0 => NextBegin + Rest <= Len(buffer)
      /\ UNCHANGED <<side, written, stream, capacity, reading>>
  BY <1>1, HandingOver
<1>3. TypeOK /\ reading /\ buffer \in Seq(Byte) /\ packetsize \in Nat /\ packetsize <= Len(buffer)
      /\ Len(buffer) <= capacity /\ capacity \in Nat
  BY <1>1 DEF IInv, HandOver, TypeOK
<1>4. CASE MessageReady(Window(NextBegin, Rest))
  <2>1. begin' = NextBegin /\ buffer' = buffer
    BY <1>4 DEF NextPacket
  <2>2. Here' = Window(NextBegin, Rest)
    BY <1>2, <2>1 DEF Here, Window
  <2>3. TypeOK'
    BY <1>2, <1>3, <2>1 DEF TypeOK
  <2>4. Front' /\ WithinBuffer'
    BY <1>2, <1>3, <1>4, <2>1, <2>2 DEF Front, WithinBuffer
  <2>. QED  BY <2>3, <2>4 DEF IInv
<1>5. CASE ~MessageReady(Window(NextBegin, Rest))
  <2>1. begin' = 0 /\ (IF Beyond THEN buffer' \in [1 .. Rest -> Byte]
                                 ELSE buffer' = Window(NextBegin, Rest))
    BY <1>5 DEF NextPacket
  <2>2. buffer' \in Seq(Byte) /\ Len(buffer') = Rest
    <3>1. CASE Beyond
      BY <1>2, <2>1, <3>1
    <3>2. CASE ~Beyond
      BY <1>2, <1>3, <2>1, <3>2, WindowType
    <3>. QED  BY <3>1, <3>2
  <2>3. TypeOK'
    BY <1>1, <1>2, <1>3, <2>1, <2>2 DEF TypeOK
  <2>4. Front' /\ WithinBuffer'
    BY <1>2, <1>3, <2>1, <2>2 DEF Front, WithinBuffer
  <2>. QED  BY <2>3, <2>4 DEF IInv
<1>. QED  BY <1>4, <1>5

LEMMA EndReadKeeps ==
  ASSUME IInv, EndRead
  PROVE  IInv'
<1>1. /\ TypeOK /\ Front /\ WithinBuffer
      /\ buffer \in Seq(Byte) /\ begin \in Nat /\ packetsize \in Nat
      /\ packetsize <= Len(buffer) /\ Len(buffer) <= capacity /\ capacity \in Nat
      /\ side \in {"server", "client"}
  BY DEF IInv, TypeOK
<1>2. /\ reading /\ ~MessageReady(Here) /\ ~reading'
      /\ reading' \in BOOLEAN
      /\ buffer' = IF side = "server" THEN Compacted ELSE buffer
      /\ begin' = 0
      /\ UNCHANGED <<side, written, stream, capacity, packetsize, handed, torn, status>>
  BY DEF EndRead
<1>3. buffer' \in Seq(Byte) /\ Len(buffer') = packetsize
  <2>1. Here \in Seq(Byte) /\ Len(Here) = packetsize
    BY <1>1, WindowType DEF Here
  <2>2. SubSeq(buffer, 1, packetsize) \in Seq(Byte) /\ Len(SubSeq(buffer, 1, packetsize)) = packetsize
    BY <1>1
  <2>3. Compacted \in Seq(Byte) /\ Len(Compacted) = packetsize
    BY <2>1, <2>2 DEF Compacted
  <2>4. CASE side = "client"
    BY <1>1, <1>2, <2>4 DEF Front
  <2>5. CASE side = "server"
    BY <1>2, <2>3, <2>5
  <2>. QED  BY <1>1, <2>4, <2>5
<1>4. TypeOK'
  BY <1>1, <1>2, <1>3 DEF TypeOK
<1>5. Front' /\ WithinBuffer'
  BY <1>1, <1>2, <1>3 DEF Front, WithinBuffer
<1>. QED  BY <1>4, <1>5 DEF IInv

LEMMA Inductive == Spec => []IInv
<1>1. IInv /\ [Next]_vars => IInv'
  <2>. SUFFICES ASSUME IInv, [Next]_vars
                PROVE  IInv'
    OBVIOUS
  <2>1. ASSUME NEW m \in ToServer \cup ToClient, Write(m) \/ WritePart(m)
        PROVE  IInv'
    BY <2>1, SendKeeps
  <2>2. ASSUME NEW k \in 1 .. Len(stream), Receive(k)
        PROVE  IInv'
    BY <2>2, ReceiveKeeps
  <2>3. CASE Overflow
    BY <2>3, OverflowKeeps
  <2>4. CASE HandleNext
    BY <2>4, HandleNextKeeps
  <2>5. CASE NextPacket
    BY <2>5, NextPacketKeeps
  <2>6. CASE EndRead
    BY <2>6, EndReadKeeps
  <2>7. CASE UNCHANGED vars
    BY <2>7 DEF vars, IInv, TypeOK, Front, WithinBuffer, Here, Window
  <2>. QED  BY <2>1, <2>2, <2>3, <2>4, <2>5, <2>6, <2>7 DEF Next
<1>. QED  BY <1>1, InitIInv, PTL DEF Spec

(* Bytes stay bytes, and neither reader receives more than its buffer has  *)
(* room for, whatever comes (ReceiveTcp, CheckBounds).                     *)
THEOREM TypesKept == Spec => []TypeOK
<1>1. IInv => TypeOK
  BY DEF IInv
<1>. QED  BY <1>1, Inductive, PTL

(* No reader looks at bytes it has not received, unless less was left of a *)
(* piece than the last header had (ReceiveTcp, NextPacket).                *)
THEOREM StaysWithinBuffer == Spec => []WithinBuffer
<1>1. IInv => WithinBuffer
  BY DEF IInv
<1>. QED  BY <1>1, Inductive, PTL

-----------------------------------------------------------------------------
(* What is taken out of the buffer.                                        *)

(* Arithmetic of positions: j bytes into what lies between b and c is      *)
(* within the q bytes behind a.                                            *)
LEMMA Between ==
  ASSUME NEW a \in Nat, NEW b \in Nat, NEW c \in Nat, NEW d \in Nat, NEW q \in Nat,
         a <= b, c <= d, d = a + q, NEW j \in 1 .. c - b
  PROVE  b + (j - a) \in 1 .. q
OBVIOUS

(* Seen from b, l bytes behind a, position p of r bytes less l.            *)
OneOn(a, b, c, j, r, l, p) ==
  /\ p \in 1 .. r - l
  /\ c + (j - a) = l + p
  /\ p = 1 => c + j = b + 1
  /\ c + j # a + 1

LEMMA OneMessageOn ==
  ASSUME NEW a \in Nat, NEW b \in Nat, NEW c \in Nat, NEW d \in Nat, NEW e \in Nat,
         NEW r \in Nat, NEW l \in Nat, l > 0, b = a + l, e = a + r, b <= c, d <= e,
         NEW j \in 1 .. d - c, NEW p, p = c + (j - b)
  PROVE  OneOn(a, b, c, j, r, l, p)
<1>. USE DEF OneOn
<1>1. p \in 1 .. r - l
  OBVIOUS
<1>2. c + (j - a) = l + p /\ (p = 1 => c + j = b + 1) /\ c + j # a + 1
  OBVIOUS
<1>. QED  BY <1>1, <1>2

LEMMA PositionBehind ==
  ASSUME NEW x \in Nat, NEW q \in Nat, NEW j \in Nat
  PROVE  (x + q) + (j - x) = q + j
OBVIOUS

(* The header of a message does not depend on its type.                    *)
LEMMA TypeAside ==
  ASSUME NEW w \in Seq(Byte), NEW v \in Seq(Byte), Len(v) = Len(w),
         \A j \in 2 .. Len(w) : v[j] = w[j]
  PROVE  /\ SizeOffset(v) = SizeOffset(w)
         /\ MessageReady(v) <=> MessageReady(w)
         /\ Taken(v) = Taken(w)
<1>1. /\ Len(w) > 1 => v[2] = w[2]
      /\ Len(w) > 3 => v[3] = w[3] /\ v[4] = w[4]
      /\ Len(w) > 5 => v[5] = w[5] /\ v[6] = w[6]
  OBVIOUS
<1>2. SizeOffset(v) = SizeOffset(w)
  BY <1>1 DEF SizeOffset
<1>3. MessageSize(v) = MessageSize(w)
  BY <1>1 DEF MessageSize
<1>. QED  BY <1>2, <1>3 DEF MessageReady, Taken

LEMMA Appending ==
  ASSUME NEW s \in Seq(Byte), NEW c \in Seq(Byte)
  PROVE  \E f : /\ f = s \o c
                /\ f \in Seq(Byte) /\ Len(f) = Len(s) + Len(c)
                /\ \A j \in 1 .. Len(s) : f[j] = s[j]
                /\ \A j \in 1 .. Len(c) : f[Len(s) + j] = c[j]
<1>1. PICK f : f = s \o c
  OBVIOUS
<1>2. /\ f \in Seq(Byte) /\ Len(f) = Len(s) + Len(c)
      /\ \A j \in 1 .. Len(s) : f[j] = s[j]
      /\ \A j \in 1 .. Len(c) : f[Len(s) + j] = c[j]
  BY <1>1
<1>. QED  BY <1>1, <1>2

(* The bytes of e, then those of w behind them.                            *)
LEMMA Spliced ==
  ASSUME NEW e \in Seq(Byte), NEW w \in Seq(Byte), Len(e) <= Len(w)
  PROVE  \E rest \in Seq(Byte) :
           /\ e \o rest \in Seq(Byte) /\ Len(e \o rest) = Len(w)
           /\ \A j \in 1 .. Len(e) : (e \o rest)[j] = e[j]
           /\ \A j \in Len(e) + 1 .. Len(w) : (e \o rest)[j] = w[j]
<1>1. PICK rest : rest = SubSeq(w, Len(e) + 1, Len(w))
  OBVIOUS
<1>2. /\ rest \in Seq(Byte) /\ Len(rest) = Len(w) - Len(e)
      /\ \A j \in 1 .. Len(rest) : rest[j] = w[Len(e) + j]
  BY <1>1
<1>3. PICK v : v = e \o rest
  OBVIOUS
<1>4. /\ v \in Seq(Byte) /\ Len(v) = Len(w)
      /\ \A j \in 1 .. Len(e) : v[j] = e[j]
      /\ \A j \in 1 .. Len(rest) : v[Len(e) + j] = rest[j]
  BY <1>2, <1>3
<1>5. ASSUME NEW j \in Len(e) + 1 .. Len(w)
      PROVE  v[j] = w[j]
  <2>1. j - Len(e) \in 1 .. Len(rest) /\ Len(e) + (j - Len(e)) = j
    BY <1>2
  <2>. QED  BY <1>2, <1>4, <2>1
<1>. QED  BY <1>2, <1>3, <1>4, <1>5

LEMMA SameCut ==
  ASSUME NEW w \in Seq(Byte), NEW v \in Seq(Byte), Len(v) = Len(w),
         \A j \in 2 .. Len(w) : v[j] = w[j],
         NEW a \in Nat, a > 0, NEW b \in Nat, a + b <= Len(w)
  PROVE  SubSeq(v, a + 1, a + b) = SubSeq(w, a + 1, a + b)
<1>1. PICK x, y : x = SubSeq(w, a + 1, a + b) /\ y = SubSeq(v, a + 1, a + b)
  OBVIOUS
<1>2. x \in Seq(Byte) /\ Len(x) = b /\ \A i \in 1 .. b : x[i] = w[a + i]
  BY <1>1, CutOut
<1>3. y \in Seq(Byte) /\ Len(y) = b /\ \A i \in 1 .. b : y[i] = v[a + i]
  BY <1>1, CutOut
<1>4. \A i \in 1 .. b : x[i] = y[i]
  BY <1>2, <1>3
<1>. QED  BY <1>1, <1>2, <1>3, <1>4

(* The first size bytes of w are taken for a message of any type.          *)
CutAs(w, contents, size) ==
  /\ MessageReady(w)
  /\ Taken(w) = size
  /\ SizeOffset(w) \in {1, 3}
  /\ SizeOffset(w) = 3 => w[2] = Marker
  /\ SubSeq(w, SizeOffset(w) + 2, Taken(w)) = contents

(* What a reader makes of the front of its buffer when that is a message   *)
(* of at most two length bytes, or a part of one, but for the type.        *)
LEMMA CutsOut ==
  ASSUME NEW type \in Byte, NEW contents \in Seq(Byte), Len(contents) < Wide, NEW long,
         NEW e, e = Framed(type, contents, long), NEW w \in Seq(Byte),
         \A j \in 2 .. Len(e) : j <= Len(w) => w[j] = e[j]
  PROVE  /\ e \in Seq(Byte) /\ Len(e) \in Nat /\ Len(e) > 1 /\ Len(e) < 4 + Wide
         /\ LaidOut(e, type, contents)
         /\ Len(w) < Len(e) => ~MessageReady(w)
         /\ Len(w) >= Len(e) => CutAs(w, contents, Len(e))
<1>0. <<>> \in Seq(Byte)
  OBVIOUS
<1>1. e \in Seq(Byte) /\ Len(e) = 1 + HeaderLength(Len(contents)) + Len(contents)
      /\ HeaderLength(Len(contents)) \in {1, 3} /\ Len(contents) \in Nat
      /\ Len(e) < 4 + Wide
  <2>1. Wide \in Nat /\ HeaderLength(Len(contents)) \in {1, 3}
    BY Boundaries DEF HeaderLength
  <2>. QED  BY <1>0, <2>1, Layout
<1>2. e[1] = type /\ LaidOut(e, type, contents)
  <2>1. LaidOut(e \o <<>>, type, contents)
    BY <1>0, Layout
  <2>2. e \o <<>> = e
    BY <1>1
  <2>. QED  BY <2>1, <2>2 DEF LaidOut
<1>3. ASSUME Len(w) < Len(e)
      PROVE  ~MessageReady(w)
  <2>1. PICK v : v = SubSeq(e, 1, Len(w))
    OBVIOUS
  <2>2. v \in Seq(Byte) /\ Len(v) = Len(w) /\ \A j \in 1 .. Len(w) : v[j] = e[j]
    BY <1>1, <1>3, <2>1
  <2>3. ~MessageReady(v)
    BY <1>3, <2>1, WaitsForTheRest
  <2>4. \A j \in 2 .. Len(w) : v[j] = w[j]
    BY <1>1, <1>3, <2>2
  <2>. QED  BY <2>2, <2>3, <2>4, TypeAside
<1>4. ASSUME Len(w) >= Len(e)
      PROVE  CutAs(w, contents, Len(e))
  <2>1. PICK rest \in Seq(Byte) :
          /\ e \o rest \in Seq(Byte) /\ Len(e \o rest) = Len(w)
          /\ \A j \in 1 .. Len(e) : (e \o rest)[j] = e[j]
          /\ \A j \in Len(e) + 1 .. Len(w) : (e \o rest)[j] = w[j]
    BY <1>1, <1>4, Spliced
  <2>2. MessageReady(e \o rest) /\ Taken(e \o rest) = Len(e)
        /\ SubSeq(e \o rest, SizeOffset(e \o rest) + 2, Taken(e \o rest)) = contents
    <3>1. TakenFor(e \o rest, type, contents, Len(e))
      BY ReadsWhatIsWritten
    <3>. QED  BY <3>1 DEF TakenFor
  <2>3. PICK v : v = e \o rest
    OBVIOUS
  <2>4. /\ v \in Seq(Byte) /\ Len(v) = Len(w)
        /\ \A j \in 1 .. Len(e) : v[j] = e[j]
        /\ \A j \in Len(e) + 1 .. Len(w) : v[j] = w[j]
    BY <2>1, <2>3
  <2>5. \A j \in 2 .. Len(w) : v[j] = w[j]
    BY <1>1, <1>4, <2>4
  <2>6. /\ MessageReady(v) /\ Taken(v) = Len(e)
        /\ SubSeq(v, SizeOffset(v) + 2, Taken(v)) = contents
    BY <2>2, <2>3
  <2>7. SizeOffset(v) = SizeOffset(w) /\ MessageReady(w) /\ Taken(v) = Taken(w)
    BY <2>4, <2>5, <2>6, TypeAside
  <2>8. SizeOffset(w) \in {1, 3}
    <3>1. v[2] = e[2]
      BY <1>1, <2>4
    <3>2. LaidOut(e, type, contents)
      BY <1>2
    <3>3. 2 \in 1 .. Len(w) /\ w[2] = e[2]
      BY <1>1, <1>4, <2>5, <3>1
    <3>4. w[2] < Marker \/ w[2] = Marker
      BY <1>1, <3>2, <3>3, Boundaries DEF LaidOut, Marker
    <3>. QED  BY <3>3, <3>4 DEF SizeOffset
  <2>9. SizeOffset(w) = 3 => w[2] = Marker
    BY DEF SizeOffset
  <2>10. SubSeq(w, SizeOffset(w) + 2, Taken(w)) = SubSeq(v, SizeOffset(w) + 2, Taken(w))
    <3>1. PICK a, b : a = SizeOffset(w) + 1 /\ b = Taken(w) - a
      OBVIOUS
    <3>2. a \in Nat /\ a > 0 /\ b \in Nat /\ a + b = Taken(w) /\ a + 1 = SizeOffset(w) + 2
          /\ a + b <= Len(w)
      <4>1. Taken(w) = 1 + SizeOffset(w) + MessageSize(w) /\ MessageSize(w) \in Nat
            /\ Taken(w) <= Len(w)
        BY <2>7, Sizes DEF Taken
      <4>. QED  BY <2>8, <3>1, <4>1
    <3>3. SubSeq(v, a + 1, a + b) = SubSeq(w, a + 1, a + b)
      BY <2>4, <2>5, <3>2, SameCut
    <3>. QED  BY <3>2, <3>3
  <2>. QED  BY <2>6, <2>7, <2>8, <2>9, <2>10 DEF CutAs
<1>. QED  BY <1>1, <1>2, <1>3, <1>4

-----------------------------------------------------------------------------
(* Where the reader is in what was written.                                *)

(* The first n messages went out whole and need no four-byte length.       *)
Fine(n) == \A i \in 1 .. n : written[i].whole /\ Len(Contents(written[i].message)) < Wide

Sent(i) == Encoded(written[i].message)

(* The bytes nobody has taken out yet, received or on their way.           *)
Remaining == packetsize + Len(stream)
Coming(p) == IF p <= packetsize THEN Here[p] ELSE stream[p - packetsize]

(* Message i begins behind the first start[i] bytes that were written.     *)
Starts(start) ==
  /\ start \in [1 .. Len(written) + 1 -> Nat]
  /\ \A i, j \in 1 .. Len(written) + 1 : i <= j => start[i] <= start[j]
  /\ \A i \in 1 .. Len(written) :
       /\ start[i + 1] <= start[i] + Len(Sent(i))
       /\ written[i].whole => start[i + 1] = start[i] + Len(Sent(i))

(* What is coming is the messages that were not handed over, but for one   *)
(* byte when a message has been torn.                                      *)
Follows(start) ==
  /\ Starts(start)
  /\ start[Len(written) + 1] = start[Len(handed) + 1] + Remaining
  /\ \A i \in Len(handed) + 1 .. Len(written) : \A j \in 1 .. start[i + 1] - start[i] :
       \/ torn /\ start[i] + j = start[Len(handed) + 1] + 1
       \/ Coming(start[i] + j - start[Len(handed) + 1]) = Sent(i)[j]

LEMMA SentNow == \A i : Sent(i)' = Encoded(written'[i].message)
  BY Zenon DEF Sent, Encoded, Framed, Contents, SizeBytes, LongForm, Body, Sender, Marker,
               LongMarker, Wide

LEMMA ContentsNow ==
  \A i : Contents(written[i].message)' = Contents(written'[i].message)
  BY Zenon DEF Contents, Body, Sender

LEMMA FineNow ==
  \A n : Fine(n)' <=> \A i \in 1 .. n : /\ written'[i].whole
                                        /\ Len(Contents(written'[i].message)) < Wide
  BY Zenon DEF Fine, Contents, Body, Sender, Wide

LEMMA Sendings ==
  ASSUME TypeOK, NEW i \in 1 .. Len(written)
  PROVE  /\ written[i].message.type \in Byte
         /\ Contents(written[i].message) \in Seq(Byte)
         /\ Sent(i) \in Seq(Byte) /\ Len(Sent(i)) \in Nat
         /\ Sent(i) = Framed(written[i].message.type, Contents(written[i].message),
                             LongForm(written[i].message))
<1>1. written[i].message \in ToServer \cup ToClient
  <2>1. written[i] \in [message : ToServer \cup ToClient, whole : BOOLEAN]
    <3>1. written \in Seq([message : ToServer \cup ToClient, whole : BOOLEAN])
      BY DEF TypeOK
    <3>2. \A S : \A s \in Seq(S) : \A n \in 1 .. Len(s) : s[n] \in S
      OBVIOUS
    <3>. QED  BY <3>1, <3>2, Zenon
  <2>. QED  BY <2>1
<1>. QED  BY <1>1, EncodedType DEF Sent, Encoded

LEMMA Counters ==
  ASSUME TypeOK
  PROVE  /\ Len(written) \in Nat /\ Len(handed) \in Nat /\ packetsize \in Nat
         /\ Len(stream) \in Nat /\ Remaining \in Nat
         /\ Here \in Seq(Byte) /\ Len(Here) = packetsize
  <1>1. buffer \in Seq(Byte) /\ begin \in Nat /\ packetsize \in Nat
    BY DEF TypeOK
  <1>2. Here \in Seq(Byte) /\ Len(Here) = packetsize
    BY <1>1, WindowType DEF Here
  <1>. QED  BY <1>1, <1>2 DEF TypeOK, Remaining

(* The reader goes on following as long as what is coming stays the same.  *)
LEMMA FollowsOn ==
  ASSUME TypeOK, TypeOK', NEW start, Follows(start), UNCHANGED <<written, handed>>,
         Remaining' = Remaining, torn => torn',
         \A p \in 1 .. Remaining : (torn' /\ p = 1) \/ Coming(p)' = Coming(p)
  PROVE  Follows(start)'
<1>1. /\ Len(written) \in Nat /\ Len(handed) \in Nat /\ Remaining \in Nat
      /\ Len(written') = Len(written) /\ Len(handed') = Len(handed)
  BY Counters
<1>2. \A i : Sent(i)' = Sent(i)
  BY DEF Sent
<1>3. Starts(start)'
  BY <1>2 DEF Follows, Starts
<1>4. ASSUME NEW i \in Len(handed) + 1 .. Len(written), NEW j \in 1 .. start[i + 1] - start[i]
      PROVE  \/ torn' /\ start[i] + j = start[Len(handed) + 1] + 1
             \/ Coming(start[i] + j - start[Len(handed) + 1])' = Sent(i)[j]
  <2>. DEFINE p == start[i] + j - start[Len(handed) + 1]
  <2>1. /\ Len(handed) + 1 \in 1 .. Len(written) + 1 /\ i \in 1 .. Len(written) + 1
        /\ i + 1 \in 1 .. Len(written) + 1 /\ Len(written) + 1 \in 1 .. Len(written) + 1
    BY <1>1
  <2>2. /\ start[Len(handed) + 1] \in Nat /\ start[i] \in Nat /\ start[i + 1] \in Nat
        /\ start[Len(written) + 1] \in Nat
        /\ start[Len(handed) + 1] <= start[i] /\ start[i + 1] <= start[Len(written) + 1]
    <3>1. Starts(start)
      BY DEF Follows
    <3>2. start \in [1 .. Len(written) + 1 -> Nat]
      BY <3>1 DEF Starts
    <3>3. \A a, b \in 1 .. Len(written) + 1 : a <= b => start[a] <= start[b]
      BY <3>1 DEF Starts
    <3>. QED  BY <1>1, <2>1, <3>2, <3>3
  <2>3. p \in 1 .. Remaining
    <3>1. start[Len(written) + 1] = start[Len(handed) + 1] + Remaining
      BY DEF Follows
    <3>. QED  BY <1>1, <2>2, <3>1, Between, Zenon
  <2>4. \/ torn /\ start[i] + j = start[Len(handed) + 1] + 1
        \/ Coming(p) = Sent(i)[j]
    BY DEF Follows
  <2>5. (torn' /\ p = 1) \/ Coming(p)' = Coming(p)
    BY <2>3
  <2>6. p = 1 => start[i] + j = start[Len(handed) + 1] + 1
    BY <2>2
  <2>. QED  BY <2>4, <2>5, <2>6
<1>. QED  BY <1>1, <1>2, <1>3, <1>4 DEF Follows

LEMMA Starting ==
  ASSUME TypeOK, NEW start, Starts(start)
  PROVE  /\ \A i \in 1 .. Len(written) + 1 : start[i] \in Nat
         /\ \A i, j \in 1 .. Len(written) + 1 : i <= j => start[i] <= start[j]
         /\ \A i \in 1 .. Len(written) :
              /\ start[i + 1] \in Nat
              /\ start[i + 1] <= start[i] + Len(Sent(i))
              /\ written[i].whole => start[i + 1] = start[i] + Len(Sent(i))
<1>1. start \in [1 .. Len(written) + 1 -> Nat] /\ Len(written) \in Nat
  BY Counters DEF Starts
<1>2. \A i \in 1 .. Len(written) : i + 1 \in 1 .. Len(written) + 1
  BY <1>1
<1>. QED  BY <1>1, <1>2 DEF Starts

(* The received bytes are those of the next message, as far as they go.    *)
LEMMA NextIsDue ==
  ASSUME TypeOK, NEW start, Follows(start), NEW k, k = Len(handed) + 1, k <= Len(written),
         written[k].whole, Len(Contents(written[k].message)) < Wide
  PROVE  /\ Len(Sent(k)) \in Nat /\ Len(Sent(k)) > 1 /\ Len(Sent(k)) < 4 + Wide
         /\ Remaining > 0
         /\ \A j \in 1 .. Len(Sent(k)) :
              j <= packetsize => (torn /\ j = 1) \/ Here[j] = Sent(k)[j]
         /\ packetsize < Len(Sent(k)) => ~MessageReady(Here)
         /\ packetsize >= Len(Sent(k)) =>
              /\ MessageReady(Here)
              /\ Taken(Here) = Len(Sent(k))
              /\ SizeOffset(Here) \in {1, 3}
              /\ SizeOffset(Here) = 3 => Here[2] = Marker
              /\ NextMessage.body = Contents(written[k].message)
              /\ torn \/ NextMessage.type = written[k].message.type
<1>1. /\ k \in 1 .. Len(written) /\ k \in Nat /\ packetsize \in Nat /\ Remaining \in Nat
      /\ Here \in Seq(Byte) /\ Len(Here) = packetsize /\ Len(written) \in Nat
  BY Counters
<1>2. /\ written[k].message.type \in Byte
      /\ Contents(written[k].message) \in Seq(Byte)
      /\ Sent(k) \in Seq(Byte) /\ Len(Sent(k)) \in Nat
      /\ Sent(k) = Framed(written[k].message.type, Contents(written[k].message),
                          LongForm(written[k].message))
  BY <1>1, Sendings
<1>3. /\ start[k] \in Nat /\ start[k + 1] \in Nat /\ start[Len(written) + 1] \in Nat
      /\ start[k + 1] = start[k] + Len(Sent(k))
      /\ start[k + 1] <= start[Len(written) + 1]
  <2>1. Starts(start)
    BY DEF Follows
  <2>2. /\ k \in 1 .. Len(written) + 1 /\ k + 1 \in 1 .. Len(written) + 1
        /\ Len(written) + 1 \in 1 .. Len(written) + 1 /\ k + 1 <= Len(written) + 1
    BY <1>1
  <2>. QED  BY <1>1, <2>1, <2>2, Starting
<1>4. ASSUME NEW j \in 1 .. Len(Sent(k)), j <= packetsize
      PROVE  (torn /\ j = 1) \/ Here[j] = Sent(k)[j]
  <2>1. \/ torn /\ start[k] + j = start[k] + 1
        \/ Coming(start[k] + j - start[k]) = Sent(k)[j]
    <3>1. k \in Len(handed) + 1 .. Len(written) /\ j \in 1 .. start[k + 1] - start[k]
      BY <1>1, <1>2, <1>3
    <3>. QED  BY <3>1 DEF Follows
  <2>2. start[k] + j - start[k] = j /\ (start[k] + j = start[k] + 1 => j = 1)
    BY <1>2, <1>3
  <2>3. Coming(j) = Here[j]
    BY <1>4 DEF Coming
  <2>. QED  BY <2>1, <2>2, <2>3
<1>5. \A j \in 2 .. Len(Sent(k)) : j <= Len(Here) => Here[j] = Sent(k)[j]
  <2>1. TAKE j \in 2 .. Len(Sent(k))
  <2>2. j \in 1 .. Len(Sent(k)) /\ j # 1
    BY <1>2
  <2>. QED  BY <1>1, <1>4, <2>2
<1>6. PICK e, contents, type, long :
        /\ e = Sent(k) /\ contents = Contents(written[k].message)
        /\ type = written[k].message.type /\ long = LongForm(written[k].message)
  OBVIOUS
<1>7. /\ type \in Byte /\ contents \in Seq(Byte) /\ Len(contents) < Wide
      /\ e = Framed(type, contents, long)
      /\ \A j \in 2 .. Len(e) : j <= Len(Here) => Here[j] = e[j]
  BY <1>2, <1>5, <1>6
<1>8. /\ e \in Seq(Byte) /\ Len(e) \in Nat /\ Len(e) > 1 /\ Len(e) < 4 + Wide
      /\ LaidOut(e, type, contents)
      /\ Len(Here) < Len(e) => ~MessageReady(Here)
      /\ Len(Here) >= Len(e) => CutAs(Here, contents, Len(e))
  BY <1>1, <1>7, CutsOut
<1>9. Remaining > 0
  <2>1. start[Len(written) + 1] = start[k] + Remaining
    BY DEF Follows
  <2>2. start[Len(written) + 1] > start[k]
    BY <1>3, <1>6, <1>8
  <2>. QED  BY <1>1, <1>3, <2>1, <2>2
<1>10. packetsize >= Len(e) => torn \/ Here[1] = type
  BY <1>1, <1>4, <1>6, <1>8 DEF LaidOut
<1>11. NextMessage.type = Here[1]
       /\ NextMessage.body = SubSeq(Here, SizeOffset(Here) + 2, Taken(Here))
  BY DEF NextMessage
<1>. QED  BY <1>1, <1>4, <1>6, <1>8, <1>9, <1>10, <1>11 DEF CutAs

-----------------------------------------------------------------------------
(* The inductive invariant of what is handed over.                         *)

(* Nothing is written behind a message that is not fine.                   *)
OnlyLastUnfine == Fine(Len(written) - 1)

NoneMadeUp == Len(handed) > Len(written) => ~Fine(Len(written))

Kept ==
  status # "undefined" =>
    \A i \in DOMAIN handed : i <= Len(written) /\ Fine(i) =>
      /\ handed[i].body = Contents(written[i].message)
      /\ torn \/ handed[i].type = written[i].message.type

(* What is received ends where the buffer ends, unless it is only the one  *)
(* byte a torn message leaves.                                             *)
Aligned == packetsize > 1 => begin + packetsize = Len(buffer)

Waiting == ~reading => ~MessageReady(Here)

Following ==
  status # "undefined" /\ Len(handed) <= Len(written) /\ Fine(Len(handed)) =>
    /\ Aligned
    /\ Waiting
    /\ \E start : Follows(start)

Handing == OnlyLastUnfine /\ NoneMadeUp /\ Kept /\ Following /\ DroppedForCause

LEMMA NothingReady ==
  ASSUME NEW w \in Seq(Byte), Len(w) = 0
  PROVE  ~MessageReady(w)
<1>1. Taken(w) \in Nat /\ Taken(w) > 0 /\ (MessageReady(w) => Taken(w) <= Len(w))
  BY Sizes
<1>. QED  BY <1>1

LEMMA FineUpTo ==
  ASSUME NEW n \in Int, Fine(n), NEW i \in Int, i <= n
  PROVE  Fine(i)
BY DEF Fine

LEMMA InitHanding == Init => Handing
<1>. SUFFICES ASSUME Init PROVE Handing
  OBVIOUS
<1>1. TypeOK
  BY InitIInv DEF IInv
<1>2. /\ Len(written) = 0 /\ Len(handed) = 0 /\ packetsize = 0 /\ Len(stream) = 0
      /\ DOMAIN handed = {} /\ status = "open" /\ begin = 0
  BY DEF Init
<1>3. OnlyLastUnfine
  BY <1>2 DEF OnlyLastUnfine, Fine
<1>4. Waiting
  <2>1. Here \in Seq(Byte) /\ Len(Here) = 0
    BY <1>1, <1>2, Counters
  <2>. QED  BY <2>1, NothingReady DEF Waiting
<1>5. Follows([i \in {1} |-> 0])
  <2>1. 1 .. Len(written) + 1 = {1} /\ Remaining = 0
    BY <1>2 DEF Remaining
  <2>. DEFINE start == [i \in {1} |-> 0]
  <2>2. start \in [{1} -> Nat] /\ start[1] = 0
    OBVIOUS
  <2>. HIDE DEF start
  <2>3. Starts(start)
    BY <1>2, <2>1, <2>2 DEF Starts
  <2>. QED  BY <1>2, <2>1, <2>2, <2>3 DEF Follows
<1>6. Aligned
  BY <1>2 DEF Aligned
<1>. QED  BY <1>2, <1>3, <1>4, <1>5, <1>6
          DEF Handing, NoneMadeUp, Kept, Following, DroppedForCause

SendingsOK == \A i \in 1 .. Len(written) : Sent(i) \in Seq(Byte) /\ Len(Sent(i)) \in Nat

LEMMA SendingsKnown == TypeOK => SendingsOK
BY Sendings DEF SendingsOK

(* These bytes of a message come behind what is on its way already.        *)
Behind(bytes, r) ==
  /\ Len(written') = Len(written) + 1 /\ written'[Len(written) + 1] = r
  /\ \A i \in 1 .. Len(written) : written'[i] = written[i]
  /\ Len(stream') = Len(stream) + Len(bytes)
  /\ \A j \in 1 .. Len(stream) : stream'[j] = stream[j]
  /\ \A j \in 1 .. Len(bytes) : stream'[Len(stream) + j] = bytes[j]
  /\ UNCHANGED <<buffer, begin, packetsize, handed, torn>>
  /\ Len(bytes) <= Len(Encoded(r.message))
  /\ r.whole => Len(bytes) = Len(Encoded(r.message))
  /\ \A j \in 1 .. Len(bytes) : bytes[j] = Encoded(r.message)[j]

LEMMA FollowsWritten ==
  ASSUME TypeOK, TypeOK', NEW start, Follows(start), Len(handed) <= Len(written),
         NEW bytes \in Seq(Byte), NEW r, Behind(bytes, r)
  PROVE  \E s : Follows(s)'
<1>0. PICK n, k, q : n = Len(written) /\ k = Len(handed) /\ q = Remaining
  OBVIOUS
<1>1. /\ n \in Nat /\ k \in Nat /\ k <= n /\ packetsize \in Nat /\ Len(stream) \in Nat
      /\ q \in Nat /\ q = packetsize + Len(stream) /\ Len(bytes) \in Nat
  BY <1>0, Counters DEF Remaining
<1>2. /\ Len(written') = n + 1
      /\ \A i \in 1 .. n : written'[i] = written[i]
      /\ written'[n + 1] = r
      /\ Len(handed') = k
  BY <1>0 DEF Behind
<1>3. /\ Len(stream') = Len(stream) + Len(bytes)
      /\ \A j \in 1 .. Len(stream) : stream'[j] = stream[j]
      /\ \A j \in 1 .. Len(bytes) : stream'[Len(stream) + j] = bytes[j]
      /\ packetsize' = packetsize /\ torn' = torn
      /\ Len(bytes) <= Len(Encoded(r.message))
      /\ r.whole => Len(bytes) = Len(Encoded(r.message))
      /\ \A j \in 1 .. Len(bytes) : bytes[j] = Encoded(r.message)[j]
  BY DEF Behind
<1>4. Here' = Here
  BY DEF Here, Window, Behind
<1>5. Remaining' = q + Len(bytes)
  BY <1>1, <1>3 DEF Remaining
<1>6. Starts(start)
  BY DEF Follows
<1>7. /\ \A i \in 1 .. n + 1 : start[i] \in Nat
      /\ \A i, j \in 1 .. n + 1 : i <= j => start[i] <= start[j]
      /\ \A i \in 1 .. n : /\ start[i + 1] \in Nat
                           /\ start[i + 1] <= start[i] + Len(Sent(i))
                           /\ written[i].whole => start[i + 1] = start[i] + Len(Sent(i))
  BY <1>0, <1>6, Starting
<1>. DEFINE table == [i \in 1 .. n + 2 |-> IF i <= n + 1 THEN start[i]
                                           ELSE start[n + 1] + Len(bytes)]
<1>8. PICK s :
      /\ \A i \in 1 .. n + 1 : s[i] = start[i]
      /\ s[n + 2] = start[n + 1] + Len(bytes)
      /\ s[n + 2] \in Nat
      /\ s \in [1 .. n + 2 -> Nat]
  <2>1. n + 1 \in 1 .. n + 1 /\ start[n + 1] \in Nat
    BY <1>1, <1>7
  <2>2. /\ \A i \in 1 .. n + 1 : table[i] = start[i]
        /\ table[n + 2] = start[n + 1] + Len(bytes)
        /\ table[n + 2] \in Nat
        /\ table \in [1 .. n + 2 -> Nat]
    BY <1>1, <1>7, <2>1
  <2>. HIDE DEF table
  <2>. QED  BY <2>2
<1>9. (\A i \in 1 .. n : Sent(i)' = Sent(i)) /\ Sent(n + 1)' = Encoded(r.message)
  <2>1. ASSUME NEW i \in 1 .. n
        PROVE  Sent(i)' = Sent(i)
    <3>1. written'[i] = written[i]
      BY <1>2
    <3>. QED  BY <3>1, SentNow, Zenon DEF Sent
  <2>2. Sent(n + 1)' = Encoded(r.message)
    BY <1>2, SentNow, Zenon
  <2>. QED  BY <2>1, <2>2, Zenon
<1>10. Starts(s)'
  <2>1. s \in [1 .. Len(written') + 1 -> Nat]
    <3>1. Len(written') + 1 = n + 2
      BY <1>1, <1>2
    <3>. QED  BY <1>8, <3>1
  <2>2. ASSUME NEW i \in 1 .. n + 2, NEW j \in 1 .. n + 2, i <= j
        PROVE  s[i] <= s[j]
    <3>1. n + 1 \in 1 .. n + 1 /\ start[n + 1] \in Nat
      BY <1>1, <1>7
    <3>2. CASE j <= n + 1
      <4>1. i \in 1 .. n + 1 /\ j \in 1 .. n + 1
        BY <1>1, <2>2, <3>2
      <4>. QED  BY <1>7, <1>8, <2>2, <4>1
    <3>3. CASE i <= n + 1 /\ j = n + 2
      <4>1. i \in 1 .. n + 1 /\ i <= n + 1
        BY <1>1, <3>3
      <4>2. start[i] <= start[n + 1] /\ start[i] \in Nat
        BY <1>7, <3>1, <4>1
      <4>3. s[i] = start[i] /\ s[j] = start[n + 1] + Len(bytes)
        BY <1>8, <3>3, <4>1
      <4>. QED  BY <1>1, <3>1, <4>2, <4>3
    <3>4. CASE i = n + 2 /\ j = n + 2
      BY <1>8, <3>4
    <3>. QED  BY <1>1, <2>2, <3>2, <3>3, <3>4
  <2>3. ASSUME NEW i \in 1 .. n + 1
        PROVE  /\ s[i + 1] <= s[i] + Len(Sent(i)')
               /\ written'[i].whole => s[i + 1] = s[i] + Len(Sent(i)')
    <3>1. CASE i \in 1 .. n
      <4>1. i + 1 \in 1 .. n + 1 /\ i \in 1 .. n + 1
        BY <1>1, <3>1
      <4>2. s[i + 1] = start[i + 1] /\ s[i] = start[i]
        BY <1>8, <4>1
      <4>. QED  BY <1>2, <1>7, <1>9, <3>1, <4>2
    <3>2. CASE i = n + 1
      <4>1. n + 1 \in 1 .. n + 1 /\ i + 1 = n + 2
        BY <1>1, <3>2
      <4>2. s[i + 1] = start[n + 1] + Len(bytes) /\ s[i] = start[n + 1] /\ start[n + 1] \in Nat
        BY <1>7, <1>8, <3>2, <4>1
      <4>3. Sent(i)' = Encoded(r.message) /\ written'[i] = r
        BY <1>2, <1>9, <3>2
      <4>4. Sent(i)' \in Seq(Byte) /\ Len(Sent(i)') \in Nat
        <5>1. i \in 1 .. Len(written')
          BY <1>1, <1>2, <3>2
        <5>2. \A x \in 1 .. Len(written') : Sent(x)' \in Seq(Byte) /\ Len(Sent(x)') \in Nat
          <6>1. SendingsOK'
            BY SendingsKnown, PTL
          <6>. QED  BY <6>1 DEF SendingsOK
        <5>. QED  BY <5>1, <5>2
      <4>5. Len(Encoded(r.message)) \in Nat
        BY <4>3, <4>4
      <4>. QED  BY <1>1, <1>3, <4>2, <4>3, <4>5
    <3>. QED  BY <1>1, <3>1, <3>2
  <2>4. Len(written') = n + 1 /\ Len(written') + 1 = n + 2
    BY <1>1, <1>2
  <2>5. \A i, j \in 1 .. Len(written') + 1 : i <= j => s[i] <= s[j]
    BY <2>2, <2>4
  <2>6. \A i \in 1 .. Len(written') :
          /\ s[i + 1] <= s[i] + Len(Sent(i)')
          /\ written'[i].whole => s[i + 1] = s[i] + Len(Sent(i)')
    BY <2>3, <2>4, Zenon
  <2>. QED  BY <2>1, <2>5, <2>6, Zenon DEF Starts
<1>11. s[Len(written') + 1] = s[Len(handed') + 1] + Remaining'
  <2>1. n + 1 \in 1 .. n + 1 /\ k + 1 \in 1 .. n + 1 /\ Len(written') + 1 = n + 2
    BY <1>1, <1>2
  <2>2. start[n + 1] = start[k + 1] + q
    BY <1>0 DEF Follows
  <2>3. PICK x, b, m : x = start[k + 1] /\ b = Len(bytes) /\ m = Remaining'
    OBVIOUS
  <2>4. s[n + 2] = (x + q) + b /\ s[k + 1] = x /\ x \in Nat /\ b \in Nat /\ m = q + b
    BY <1>1, <1>5, <1>7, <1>8, <2>1, <2>2, <2>3
  <2>5. s[n + 2] = s[k + 1] + m
    BY <1>1, <2>4
  <2>. QED  BY <1>2, <2>1, <2>3, <2>5
<1>12. ASSUME NEW i \in k + 1 .. n + 1, NEW j \in 1 .. s[i + 1] - s[i]
       PROVE  \/ torn' /\ s[i] + j = s[k + 1] + 1
              \/ Coming(s[i] + j - s[k + 1])' = Sent(i)'[j]
  <2>1. k + 1 \in 1 .. n + 1 /\ n + 1 \in 1 .. n + 1 /\ i \in 1 .. n + 1
    BY <1>1
  <2>2. /\ s[k + 1] = start[k + 1] /\ s[i] = start[i]
        /\ start[k + 1] \in Nat /\ start[i] \in Nat /\ start[n + 1] \in Nat
        /\ start[k + 1] <= start[i]
        /\ start[n + 1] = start[k + 1] + q
    <3>1. start[n + 1] = start[k + 1] + q
      BY <1>0 DEF Follows
    <3>. QED  BY <1>7, <1>8, <2>1, <3>1
  <2>3. CASE i <= n
    <3>1. i \in k + 1 .. n /\ i \in 1 .. n /\ i + 1 \in 1 .. n + 1
      BY <1>1, <2>3
    <3>2. s[i + 1] = start[i + 1] /\ start[i + 1] \in Nat /\ start[i + 1] <= start[n + 1]
      BY <1>7, <1>8, <2>1, <3>1
    <3>3. \/ torn /\ start[i] + j = start[k + 1] + 1
          \/ Coming(start[i] + j - start[k + 1]) = Sent(i)[j]
      BY <1>0, <2>2, <3>1, <3>2 DEF Follows
    <3>4. PICK p : p = start[i] + j - start[k + 1]
      OBVIOUS
    <3>5. p \in 1 .. q
      <4>1. j \in 1 .. start[i + 1] - start[i]
        BY <2>2, <3>2
      <4>2. start[i] + j - start[k + 1] \in 1 .. q
        BY <1>1, <2>2, <3>2, <4>1, Between, Zenon
      <4>. QED  BY <3>4, <4>2
    <3>6. Coming(p)' = Coming(p)
      <4>1. CASE p <= packetsize
        BY <1>3, <1>4, <4>1 DEF Coming
      <4>2. CASE ~(p <= packetsize)
        <5>1. p - packetsize \in 1 .. Len(stream)
          BY <1>1, <3>5, <4>2
        <5>. QED  BY <1>3, <4>2, <5>1 DEF Coming
      <4>. QED  BY <4>1, <4>2
    <3>7. Sent(i)' = Sent(i) /\ p = s[i] + j - s[k + 1]
      BY <1>9, <2>2, <3>1, <3>4
    <3>8. \/ torn /\ s[i] + j = s[k + 1] + 1
          \/ Coming(p) = Sent(i)[j]
      BY <2>2, <3>3, <3>4
    <3>. QED  BY <1>3, <3>6, <3>7, <3>8, Zenon
  <2>4. CASE i = n + 1
    <3>1. s[i + 1] = start[n + 1] + Len(bytes) /\ s[i] = start[n + 1]
      <4>1. i + 1 = n + 2
        BY <1>1, <2>4
      <4>. QED  BY <1>8, <2>2, <2>4, <4>1
    <3>2. j \in 1 .. Len(bytes)
      BY <1>1, <2>2, <3>1
    <3>3. s[i] + j - s[k + 1] = q + j
      <4>1. PICK x : x = start[k + 1]
        OBVIOUS
      <4>2. s[i] = x + q /\ s[k + 1] = x /\ x \in Nat /\ j \in Nat
        BY <2>2, <3>1, <3>2, <4>1
      <4>. QED  BY <1>1, <4>2, PositionBehind
    <3>4. Coming(q + j)' = bytes[j]
      <4>1. ~(q + j <= packetsize) /\ q + j - packetsize = Len(stream) + j
        BY <1>1, <3>2
      <4>2. ~(q + j <= packetsize')
        BY <1>3, <4>1
      <4>3. (q + j) - packetsize' = Len(stream) + j
        BY <1>1, <1>3, <3>2, <4>1
      <4>4. stream'[Len(stream) + j] = bytes[j]
        BY <1>3, <3>2
      <4>5. PICK x : x = q + j
        OBVIOUS
      <4>6. Coming(x)' = stream'[x - packetsize']
        BY <4>2, <4>5 DEF Coming
      <4>7. Coming(q + j)' = Coming(x)'
        BY <4>5
      <4>8. x - packetsize' = Len(stream) + j
        BY <4>3, <4>5, Zenon
      <4>. QED  BY <4>4, <4>6, <4>7, <4>8, Zenon
    <3>5. Sent(i)'[j] = bytes[j]
      BY <1>3, <1>9, <2>4, <3>2
    <3>. QED  BY <3>3, <3>4, <3>5
  <2>. QED  BY <1>1, <2>3, <2>4
<1>13. Follows(s)'
  <2>1. Len(written') = n + 1 /\ Len(handed') = k
    BY <1>2
  <2>2. \A i \in Len(handed') + 1 .. Len(written') : \A j \in 1 .. s[i + 1] - s[i] :
          \/ torn' /\ s[i] + j = s[Len(handed') + 1] + 1
          \/ Coming(s[i] + j - s[Len(handed) + 1])' = Sent(i)'[j]
    BY <1>12, <2>1, Zenon
  <2>. QED  BY <1>10, <1>11, <2>2, Zenon DEF Follows
<1>. QED  BY <1>13, Zenon

LEMMA SendHands ==
  ASSUME IInv, IInv', Handing, NEW m \in ToServer \cup ToClient, Write(m) \/ WritePart(m)
  PROVE  Handing'
<1>1. PICK bytes, whole :
        /\ Send(m, bytes, whole)
        /\ bytes \in Seq(Byte) /\ Len(bytes) \in Nat /\ whole \in BOOLEAN
        /\ Len(bytes) <= Len(Encoded(m))
        /\ whole => Len(bytes) = Len(Encoded(m))
        /\ \A j \in 1 .. Len(bytes) : bytes[j] = Encoded(m)[j]
  <2>1. Encoded(m) \in Seq(Byte) /\ Len(Encoded(m)) \in Nat
    BY EncodedType
  <2>2. CASE Write(m)
    <3>1. PICK b : b = Encoded(m)
      OBVIOUS
    <3>2. Send(m, b, TRUE)
      BY <2>2, <3>1 DEF Write
    <3>3. /\ b \in Seq(Byte) /\ Len(b) \in Nat /\ Len(b) = Len(Encoded(m))
          /\ \A j \in 1 .. Len(b) : b[j] = Encoded(m)[j]
      BY <2>1, <3>1
    <3>4. PICK w : w = TRUE
      OBVIOUS
    <3>5. /\ Send(m, b, w)
          /\ b \in Seq(Byte) /\ Len(b) \in Nat /\ w \in BOOLEAN
          /\ Len(b) <= Len(Encoded(m))
          /\ w => Len(b) = Len(Encoded(m))
          /\ \A j \in 1 .. Len(b) : b[j] = Encoded(m)[j]
      <4>1. Send(m, b, w) /\ w \in BOOLEAN
        BY <3>2, <3>4, Zenon
      <4>. QED  BY <2>1, <3>3, <4>1
    <3>. QED  BY <3>5
  <2>3. CASE WritePart(m)
    <3>1. PICK k \in 1 .. Len(Encoded(m)) - 1 : Send(m, SubSeq(Encoded(m), 1, k), FALSE)
      BY <2>3 DEF WritePart
    <3>2. PICK b : b = SubSeq(Encoded(m), 1, k)
      OBVIOUS
    <3>3. b \in Seq(Byte) /\ Len(b) = k /\ k \in Nat /\ \A j \in 1 .. k : b[j] = Encoded(m)[j]
      BY <2>1, <3>2
    <3>4. k <= Len(Encoded(m))
      BY <2>1
    <3>5. Send(m, b, FALSE)
      BY <3>1, <3>2
    <3>. QED  BY <3>3, <3>4, <3>5
  <2>. QED  BY <2>2, <2>3
<1>2. TypeOK /\ TypeOK' /\ Len(written) \in Nat /\ Len(handed) \in Nat
  BY Counters DEF IInv
<1>3. /\ status = "open" /\ Fine(Len(written))
      /\ written' = Append(written, [message |-> m, whole |-> whole])
      /\ stream' = stream \o bytes
      /\ UNCHANGED <<side, buffer, capacity, begin, packetsize, reading, handed, torn, status>>
  <2>1. Readable => Fine(Len(written))
    <3>1. DOMAIN written = 1 .. Len(written)
      BY <1>2 DEF TypeOK
    <3>. QED  BY <3>1 DEF Readable, Fine
  <2>. QED  BY <1>1, <2>1 DEF Send
<1>4. PICK n, k, r : n = Len(written) /\ k = Len(handed) /\ r = [message |-> m, whole |-> whole]
  OBVIOUS
<1>5. /\ n \in Nat /\ k \in Nat /\ k <= n
      /\ Len(written') = n + 1 /\ Len(handed') = k /\ DOMAIN handed = 1 .. k
      /\ \A i \in 1 .. n : written'[i] = written[i]
      /\ written'[n + 1] = r /\ r.message = m /\ r.whole = whole
  <2>1. k <= n
    BY <1>2, <1>3, <1>4 DEF Handing, NoneMadeUp
  <2>2. /\ Len(written') = Len(written) + 1 /\ written'[Len(written) + 1] = r
        /\ \A i \in 1 .. Len(written) : written'[i] = written[i]
    BY <1>2, <1>3, <1>4 DEF TypeOK
  <2>3. DOMAIN handed = 1 .. k
    BY <1>2, <1>4 DEF TypeOK
  <2>. QED  BY <1>2, <1>3, <1>4, <2>1, <2>2, <2>3
<1>6. \A i : i <= n /\ i \in Int => (Fine(i)' <=> Fine(i))
  <2>1. ASSUME NEW i \in Int, i <= n
        PROVE  Fine(i)' <=> Fine(i)
    <3>1. \A j \in 1 .. i : j \in 1 .. n
      BY <1>5, <2>1
    <3>2. \A j \in 1 .. i : written'[j] = written[j]
      BY <1>5, <3>1
    <3>. QED  BY <3>2, FineNow, Zenon DEF Fine
  <2>. QED  BY <2>1
<1>7. OnlyLastUnfine'
  <2>1. (Len(written) - 1)' = n
    BY <1>5
  <2>2. Fine(n)'
    BY <1>3, <1>4, <1>5, <1>6
  <2>3. \A i \in 1 .. Len(written') - 1 : /\ written'[i].whole
                                          /\ Len(Contents(written'[i].message)) < Wide
    BY <2>1, <2>2, FineNow
  <2>. QED  BY <2>3, Zenon DEF OnlyLastUnfine, Fine, Contents, Body, Sender, Wide
<1>8. NoneMadeUp'
  BY <1>5 DEF NoneMadeUp
<1>9. Kept'
  <2>. SUFFICES ASSUME NEW i \in 1 .. k, Fine(i)'
                PROVE  /\ handed'[i].body = Contents(written[i].message)'
                       /\ torn' \/ handed'[i].type = written'[i].message.type
    BY <1>3, <1>5 DEF Kept
  <2>1. i \in 1 .. n /\ i \in Int /\ i <= n
    BY <1>5
  <2>2. Fine(i) /\ written'[i] = written[i]
    BY <1>5, <1>6, <2>1
  <2>3. handed[i].body = Contents(written[i].message) /\ (torn \/ handed[i].type = written[i].message.type)
    BY <1>3, <1>4, <1>5, <2>1, <2>2 DEF Handing, Kept
  <2>4. Contents(written[i].message)' = Contents(written[i].message)
    BY <2>2, ContentsNow, Zenon
  <2>. QED  BY <1>3, <2>2, <2>3, <2>4
<1>10. Following'
  <2>1. Aligned /\ Waiting /\ \E start : Follows(start)
    <3>1. k \in Int /\ n \in Int /\ Fine(n)
      BY <1>3, <1>4, <1>5
    <3>2. Fine(k)
      BY <1>5, <3>1, FineUpTo
    <3>. QED  BY <1>3, <1>4, <1>5, <3>2 DEF Handing, Following
  <2>2. Aligned' /\ Waiting'
    BY <1>3, <2>1 DEF Aligned, Waiting, Here, Window
  <2>3. \E s : Follows(s)'
    <3>1. PICK start : Follows(start)
      BY <2>1
    <3>2. Behind(bytes, r)
      <4>1. /\ Len(stream') = Len(stream) + Len(bytes)
            /\ \A j \in 1 .. Len(stream) : stream'[j] = stream[j]
            /\ \A j \in 1 .. Len(bytes) : stream'[Len(stream) + j] = bytes[j]
        BY <1>1, <1>2, <1>3 DEF TypeOK
      <4>. QED  BY <1>1, <1>3, <1>4, <1>5, <4>1 DEF Behind
    <3>. QED  BY <1>1, <1>2, <1>4, <1>5, <3>1, <3>2, FollowsWritten
  <2>. QED  BY <2>2, <2>3 DEF Following
<1>11. DroppedForCause'
  BY <1>3 DEF DroppedForCause
<1>. QED  BY <1>7, <1>8, <1>9, <1>10, <1>11 DEF Handing

(* What a step leaves alone.                                               *)
LEMMA HandedStays ==
  ASSUME Handing, UNCHANGED <<written, handed, status>>, torn => torn'
  PROVE  OnlyLastUnfine' /\ NoneMadeUp' /\ Kept'
<1>1. \A i : Fine(i)' <=> Fine(i)
  BY FineNow, Zenon DEF Fine
<1>2. \A i : Contents(written[i].message)' = Contents(written[i].message)
  BY ContentsNow, Zenon
<1>3. OnlyLastUnfine'
  BY DEF Handing, OnlyLastUnfine, Fine
<1>4. NoneMadeUp'
  BY DEF Handing, NoneMadeUp, Fine
<1>5. Kept'
  BY <1>1, <1>2 DEF Handing, Kept
<1>. QED  BY <1>3, <1>4, <1>5

LEMMA SoundIsFine ==
  ASSUME Sound(Len(written))
  PROVE  Fine(Len(written))
BY DEF Sound, Fine

LEMMA HereHolds ==
  ASSUME TypeOK, begin + packetsize <= Len(buffer)
  PROVE  \A p \in 1 .. packetsize : Here[p] = buffer[begin + p]
BY WindowType DEF TypeOK, Here

HereInBuffer ==
  begin + packetsize <= Len(buffer) => \A p \in 1 .. packetsize : Here[p] = buffer[begin + p]

LEMMA HereInBufferHolds == TypeOK => HereInBuffer
BY HereHolds DEF HereInBuffer

LEMMA HereHeld ==
  ASSUME TypeOK', begin' + packetsize' <= Len(buffer')
  PROVE  \A p \in 1 .. packetsize' : Here'[p] = buffer'[begin' + p]
<1>1. HereInBuffer'
  BY HereInBufferHolds, PTL
<1>. QED  BY <1>1 DEF HereInBuffer

HereTyped == Here \in Seq(Byte) /\ Len(Here) = packetsize

LEMMA HereIsTyped == TypeOK => HereTyped
BY Counters DEF HereTyped

LEMMA Tracked ==
  ASSUME TypeOK, Handing, status # "undefined", Len(handed) <= Len(written), Fine(Len(handed))
  PROVE  Aligned /\ Waiting /\ \E start : Follows(start)
BY DEF Handing, Following

LEMMA ReceiveHands ==
  ASSUME IInv, IInv', Handing, NEW k \in 1 .. Len(stream), Receive(k)
  PROVE  Handing'
<1>1. /\ TypeOK /\ TypeOK' /\ Front /\ status = "open" /\ ~reading
      /\ begin = 0 /\ Len(buffer) = packetsize /\ packetsize \in Nat
      /\ stream \in Seq(Byte) /\ buffer \in Seq(Byte) /\ k \in Nat /\ k <= Len(stream)
  BY DEF IInv, Front, Receive, TypeOK
<1>2. /\ UNCHANGED <<side, written, begin, handed, torn, status>> /\ reading' = TRUE
      /\ packetsize' = packetsize + k
  BY DEF Receive
<1>3. /\ buffer' \in Seq(Byte) /\ Len(buffer') = packetsize + k
      /\ \A p \in 1 .. packetsize : buffer'[p] = buffer[p]
      /\ \A p \in 1 .. k : buffer'[packetsize + p] = stream[p]
  <2>1. PICK piece : piece = SubSeq(stream, 1, k)
    OBVIOUS
  <2>2. piece \in Seq(Byte) /\ Len(piece) = k /\ \A p \in 1 .. k : piece[p] = stream[p]
    BY <1>1, <2>1
  <2>3. PICK b : /\ b = buffer \o piece
                 /\ b \in Seq(Byte) /\ Len(b) = Len(buffer) + Len(piece)
                 /\ \A p \in 1 .. Len(buffer) : b[p] = buffer[p]
                 /\ \A p \in 1 .. Len(piece) : b[Len(buffer) + p] = piece[p]
    <3>1. buffer \in Seq(Byte) /\ piece \in Seq(Byte)
      BY <1>1, <2>2
    <3>. QED  BY <3>1, Appending, Zenon
  <2>4. /\ b \in Seq(Byte) /\ Len(b) = packetsize + k
        /\ \A p \in 1 .. packetsize : b[p] = buffer[p]
        /\ \A p \in 1 .. k : b[packetsize + p] = piece[p]
    BY <1>1, <2>2, <2>3, Zenon
  <2>5. buffer' = b
    BY <2>1, <2>3 DEF Receive
  <2>. QED  BY <2>2, <2>4, <2>5
<1>4. /\ Len(stream') = Len(stream) - k
      /\ \A p \in 1 .. Len(stream) - k : stream'[p] = stream[k + p]
  <2>1. PICK t : t = SubSeq(stream, k + 1, Len(stream))
    OBVIOUS
  <2>2. Len(t) = Len(stream) - k /\ \A p \in 1 .. Len(stream) - k : t[p] = stream[k + p]
    BY <1>1, <2>1
  <2>3. stream' = t
    BY <2>1 DEF Receive
  <2>. QED  BY <2>2, <2>3
<1>5. OnlyLastUnfine' /\ NoneMadeUp' /\ Kept'
  BY <1>2, HandedStays
<1>6. Following'
  <2>. SUFFICES ASSUME Len(handed) <= Len(written), Fine(Len(handed))
                PROVE  Aligned' /\ Waiting' /\ \E start : Follows(start)'
    BY <1>2, FineNow, Zenon DEF Following, Fine
  <2>1. PICK start : Follows(start)
    BY <1>1, Tracked
  <2>2. Aligned' /\ Waiting'
    BY <1>1, <1>2, <1>3 DEF Aligned, Waiting
  <2>3. Remaining' = Remaining
    BY <1>1, <1>2, <1>4 DEF Remaining
  <2>4. \A p \in 1 .. packetsize : Here[p] = buffer[p]
    <3>1. begin + packetsize <= Len(buffer) /\ \A p \in Int : begin + p = p
      BY <1>1
    <3>. QED  BY <1>1, <3>1, HereHolds
  <2>5. \A p \in 1 .. packetsize' : Here'[p] = buffer'[p]
    <3>1. (begin + packetsize)' <= Len(buffer') /\ \A p \in Int : begin' + p = p
      BY <1>1, <1>2, <1>3
    <3>2. \A p \in 1 .. packetsize' : Here'[p] = buffer'[begin' + p]
      BY <1>1, <3>1, HereHeld
    <3>. QED  BY <3>1, <3>2
  <2>6. ASSUME NEW p \in 1 .. Remaining
        PROVE  Coming(p)' = Coming(p)
    <3>1. CASE p \in 1 .. packetsize
      <4>1. Coming(p)' = buffer'[p] /\ p \in 1 .. packetsize'
        BY <1>1, <1>2, <2>5, <3>1 DEF Coming
      <4>2. Coming(p) = buffer[p]
        BY <1>1, <2>4, <3>1 DEF Coming
      <4>. QED  BY <1>3, <3>1, <4>1, <4>2
    <3>2. CASE p \in packetsize + 1 .. packetsize + k
      <4>1. p \in 1 .. packetsize' /\ ~(p <= packetsize) /\ p - packetsize \in 1 .. k
            /\ packetsize + (p - packetsize) = p
        BY <1>1, <1>2, <3>2
      <4>2. Coming(p)' = buffer'[p]
        BY <2>5, <4>1 DEF Coming
      <4>3. Coming(p) = stream[p - packetsize]
        BY <4>1 DEF Coming
      <4>4. buffer'[packetsize + (p - packetsize)] = stream[p - packetsize]
        BY <1>3, <4>1, Zenon
      <4>. QED  BY <4>1, <4>2, <4>3, <4>4, Zenon
    <3>3. CASE p > packetsize + k
      <4>1. /\ ~(p <= packetsize') /\ ~(p <= packetsize)
            /\ p - packetsize' \in 1 .. Len(stream) - k
            /\ k + (p - packetsize') = p - packetsize
        BY <1>1, <1>2, <3>3 DEF Remaining
      <4>2. Coming(p)' = stream'[p - packetsize'] /\ Coming(p) = stream[p - packetsize]
        BY <4>1 DEF Coming
      <4>3. stream'[p - packetsize'] = stream[k + (p - packetsize')]
        BY <1>4, <4>1, Zenon
      <4>. QED  BY <4>1, <4>2, <4>3, Zenon
    <3>. QED  BY <1>1, <3>1, <3>2, <3>3
  <2>7. Follows(start)'
    BY <1>1, <1>2, <2>1, <2>3, <2>6, FollowsOn
  <2>. QED  BY <2>2, <2>7
<1>7. DroppedForCause'
  BY <1>1, <1>2 DEF DroppedForCause
<1>. QED  BY <1>5, <1>6, <1>7 DEF Handing

LEMMA OverflowHands ==
  ASSUME IInv, IInv', Handing, Overflow
  PROVE  Handing'
<1>1. /\ TypeOK /\ TypeOK' /\ status = "open" /\ ~reading /\ side = "server"
      /\ packetsize = Capacity /\ status' = "dropped"
      /\ UNCHANGED <<side, written, stream, buffer, capacity, begin, packetsize, reading, handed, torn>>
  BY DEF IInv, TypeOK, Overflow
<1>2. \A i : Fine(i)' <=> Fine(i)
  BY <1>1, FineNow, Zenon DEF Fine
<1>3. OnlyLastUnfine' /\ NoneMadeUp'
  BY <1>1 DEF Handing, OnlyLastUnfine, NoneMadeUp, Fine
<1>4. Kept'
  <2>1. \A i : Contents(written[i].message)' = Contents(written[i].message)
    BY <1>1, ContentsNow, Zenon
  <2>. QED  BY <1>1, <1>2, <2>1 DEF Handing, Kept
<1>5. Following'
  <2>. SUFFICES ASSUME Len(handed) <= Len(written), Fine(Len(handed))
                PROVE  Aligned' /\ Waiting' /\ \E start : Follows(start)'
    BY <1>1, FineNow, Zenon DEF Following, Fine
  <2>1. PICK start : Follows(start)
    BY <1>1, Tracked
  <2>2. Aligned /\ Waiting
    BY <1>1, Tracked
  <2>3. Aligned' /\ Waiting'
    BY <1>1, <2>2 DEF Aligned, Waiting, Here, Window
  <2>4. Remaining' = Remaining /\ \A p \in 1 .. Remaining : Coming(p)' = Coming(p)
    BY <1>1 DEF Remaining, Coming, Here, Window
  <2>5. Follows(start)'
    BY <1>1, <2>1, <2>4, FollowsOn
  <2>. QED  BY <2>3, <2>5
<1>6. DroppedForCause'
  <2>. SUFFICES ASSUME Sound(Len(written))  PROVE FALSE
    <3>1. Sound(Len(written))' => Sound(Len(written))
      BY <1>1 DEF Sound
    <3>. QED  BY <3>1 DEF DroppedForCause
  <2>1. PICK n, k : n = Len(written) /\ k = Len(handed) + 1
    OBVIOUS
  <2>2. n \in Nat /\ Len(handed) \in Nat /\ packetsize \in Nat /\ Fine(n)
        /\ Remaining \in Nat /\ Remaining >= packetsize
    <3>1. Len(stream) \in Nat
      BY <1>1, Counters
    <3>. QED  BY <1>1, <2>1, <3>1, Counters, SoundIsFine DEF Remaining
  <2>3. Len(handed) <= n /\ Fine(Len(handed))
    <3>1. Len(handed) <= n
      BY <2>1, <2>2 DEF Handing, NoneMadeUp
    <3>. QED  BY <2>2, <3>1, FineUpTo
  <2>4. PICK start : Follows(start)
    BY <1>1, <2>1, <2>3, Tracked
  <2>5. ~MessageReady(Here)
    BY <1>1, <2>1, <2>3, Tracked DEF Waiting
  <2>6. k <= n
    <3>1. start[n + 1] = start[Len(handed) + 1] + Remaining
      BY <2>1, <2>4 DEF Follows
    <3>2. CASE Len(handed) = n
      <4>1. start[n + 1] \in Nat
        <5>1. Starts(start) /\ n + 1 \in 1 .. n + 1
          BY <2>2, <2>4 DEF Follows
        <5>. QED  BY <1>1, <2>1, <5>1, Starting
      <4>2. Remaining = 0
        BY <2>2, <3>1, <3>2, <4>1
      <4>3. Capacity > 0
        BY Boundaries
      <4>. QED  BY <1>1, <2>2, <4>2, <4>3
    <3>. QED  BY <2>1, <2>2, <2>3, <3>2
  <2>7. k \in 1 .. n /\ written[k].whole /\ Len(Contents(written[k].message)) < Wide
        /\ Len(Sent(k)) <= Capacity
    <3>1. k \in 1 .. n
      BY <2>1, <2>2, <2>6
    <3>. QED  BY <1>1, <2>1, <2>2, <3>1 DEF Fine, Sound, Sent
  <2>8. packetsize >= Len(Sent(k)) => MessageReady(Here)
    BY <1>1, <2>1, <2>4, <2>6, <2>7, NextIsDue
  <2>. QED  BY <1>1, <2>5, <2>7, <2>8
<1>. QED  BY <1>3, <1>4, <1>5, <1>6 DEF Handing

LEMMA EndReadHands ==
  ASSUME IInv, IInv', Handing, EndRead
  PROVE  Handing'
<1>1. /\ TypeOK /\ TypeOK' /\ Front /\ WithinBuffer /\ status = "open" /\ reading
      /\ ~MessageReady(Here)
      /\ buffer \in Seq(Byte) /\ begin \in Nat /\ packetsize \in Nat /\ packetsize <= Len(buffer)
      /\ Len(buffer) <= capacity /\ (side = "server" => capacity = Capacity)
      /\ side \in {"server", "client"}
  BY DEF IInv, TypeOK, EndRead
<1>2. /\ UNCHANGED <<side, written, stream, capacity, packetsize, handed, torn, status>>
      /\ begin' = 0 /\ ~reading'
      /\ buffer' = IF side = "server" THEN Compacted ELSE buffer
  BY DEF EndRead
<1>3. OnlyLastUnfine' /\ NoneMadeUp' /\ Kept'
  BY <1>2, HandedStays
<1>4. DroppedForCause'
  BY <1>1, <1>2 DEF DroppedForCause
<1>5. Following'
  <2>. SUFFICES ASSUME Len(handed) <= Len(written), Fine(Len(handed))
                PROVE  Aligned' /\ Waiting' /\ \E start : Follows(start)'
    BY <1>2, FineNow, Zenon DEF Following, Fine
  <2>1. PICK start : Follows(start)
    BY <1>1, Tracked
  <2>2. packetsize > 1 => begin + packetsize = Len(buffer)
    BY <1>1, Tracked DEF Aligned
  <2>3. Len(buffer') = packetsize
    BY <1>2 DEF IInv, Front
  <2>4. Aligned'
    BY <1>1, <1>2, <2>3 DEF Aligned
  <2>5. packetsize > 1 \/ (~torn /\ packetsize = 1) => begin + packetsize <= Len(buffer)
    BY <1>1, <2>2 DEF WithinBuffer
  <2>6. \A p \in 1 .. packetsize : (torn /\ p = 1) \/ Here'[p] = Here[p]
    <3>. SUFFICES ASSUME NEW p \in 1 .. packetsize, ~(torn /\ p = 1)
                  PROVE  Here'[p] = Here[p]
      OBVIOUS
    <3>1. begin + packetsize <= Len(buffer)
      <4>1. CASE torn
        <5>1. packetsize > 1
          BY <1>1, <4>1
        <5>. QED  BY <2>5, <5>1
      <4>2. CASE ~torn
        <5>1. packetsize > 1 \/ packetsize = 1
          BY <1>1
        <5>. QED  BY <2>5, <4>2, <5>1
      <4>. QED  BY <4>1, <4>2
    <3>2. Here[p] = buffer[begin + p]
      BY <1>1, <3>1, HereHolds
    <3>3. Here'[p] = buffer'[p]
      <4>1. begin' + packetsize' <= Len(buffer') /\ begin' + p = p /\ p \in 1 .. packetsize'
        BY <1>1, <1>2, <2>3
      <4>2. Here'[p] = buffer'[begin' + p]
        BY <1>1, <4>1, HereHeld
      <4>. QED  BY <4>1, <4>2
    <3>4. CASE side = "client"
      <4>1. Len(buffer) = packetsize
        BY <1>1, <3>4 DEF Front
      <4>2. begin + p = p
        BY <1>1, <3>1, <4>1
      <4>. QED  BY <1>2, <3>2, <3>3, <3>4, <4>2
    <3>5. CASE side = "server"
      <4>1. CASE begin \in 1 .. Capacity - 1
        BY <1>2, <3>3, <3>5, <4>1 DEF Compacted
      <4>2. CASE begin \notin 1 .. Capacity - 1
        <5>1. begin = 0
          BY <1>1, <3>1, <3>5, <4>2, Boundaries
        <5>2. Compacted = SubSeq(buffer, 1, packetsize)
          BY <4>2 DEF Compacted
        <5>3. SubSeq(buffer, 1, packetsize)[p] = buffer[p]
          BY <1>1
        <5>4. begin + p = p
          BY <5>1
        <5>. QED  BY <1>2, <3>2, <3>3, <3>5, <5>2, <5>3, <5>4
      <4>. QED  BY <4>1, <4>2
    <3>. QED  BY <1>1, <3>4, <3>5
  <2>7. Waiting'
    <3>1. PICK w, v : w = Here /\ v = Here'
      OBVIOUS
    <3>2. w \in Seq(Byte) /\ Len(w) = packetsize /\ v \in Seq(Byte) /\ Len(v) = packetsize
      <4>1. Here \in Seq(Byte) /\ Len(Here) = packetsize
        BY <1>1, Counters
      <4>2. Here' \in Seq(Byte) /\ Len(Here') = packetsize'
        <5>1. HereTyped'
          BY <1>1, HereIsTyped, PTL
        <5>. QED  BY <5>1 DEF HereTyped
      <4>. QED  BY <1>2, <3>1, <4>1, <4>2
    <3>3. \A j \in 2 .. Len(w) : v[j] = w[j]
      BY <1>1, <2>6, <3>1, <3>2
    <3>4. ~MessageReady(v)
      BY <1>1, <3>1, <3>2, <3>3, TypeAside
    <3>. QED  BY <3>1, <3>4 DEF Waiting
  <2>8. Remaining' = Remaining
    BY <1>2 DEF Remaining
  <2>9. \A p \in 1 .. Remaining : (torn' /\ p = 1) \/ Coming(p)' = Coming(p)
    BY <1>1, <1>2, <2>6 DEF Coming
  <2>10. Follows(start)'
    BY <1>1, <1>2, <2>1, <2>8, <2>9, FollowsOn
  <2>. QED  BY <2>4, <2>7, <2>10
<1>. QED  BY <1>3, <1>4, <1>5 DEF Handing

(* One message less is coming.                                             *)
LEMMA FollowsNext ==
  ASSUME TypeOK, TypeOK', NEW start, Follows(start), NEW k, k = Len(handed) + 1,
         k <= Len(written), written[k].whole, NEW l, l = Len(Sent(k)), l \in Nat, l > 0,
         written' = written, Len(handed') = k, Remaining' = Remaining - l, torn => torn',
         \A p \in 1 .. Remaining - l : (torn' /\ p = 1) \/ Coming(p)' = Coming(l + p)
  PROVE  Follows(start)'
<1>1. /\ Len(written) \in Nat /\ Len(handed) \in Nat /\ Remaining \in Nat /\ k \in 1 .. Len(written)
      /\ k \in Nat
  BY Counters
<1>2. \A i : Sent(i)' = Sent(i)
  BY DEF Sent
<1>3. Starts(start)'
  BY <1>2 DEF Follows, Starts
<1>4. /\ start[k] \in Nat /\ start[k + 1] = start[k] + l /\ start[k + 1] \in Nat
      /\ start[Len(written) + 1] = start[k] + Remaining /\ start[Len(written) + 1] \in Nat
  <2>1. Starts(start) /\ start[Len(written) + 1] = start[k] + Remaining
    BY DEF Follows
  <2>2. k \in 1 .. Len(written) + 1 /\ k + 1 \in 1 .. Len(written) + 1
        /\ Len(written) + 1 \in 1 .. Len(written) + 1
    BY <1>1
  <2>. QED  BY <1>1, <2>1, <2>2, Starting
<1>5. ASSUME NEW i \in k + 1 .. Len(written), NEW j \in 1 .. start[i + 1] - start[i]
      PROVE  \/ torn' /\ start[i] + j = start[k + 1] + 1
             \/ Coming(start[i] + j - start[k + 1])' = Sent(i)[j]
  <2>1. /\ k + 1 \in 1 .. Len(written) + 1 /\ i \in 1 .. Len(written) + 1
        /\ i + 1 \in 1 .. Len(written) + 1 /\ Len(written) + 1 \in 1 .. Len(written) + 1
        /\ k + 1 <= i /\ i + 1 <= Len(written) + 1 /\ i \in k .. Len(written)
    BY <1>1
  <2>2. /\ start[i] \in Nat /\ start[i + 1] \in Nat
        /\ start[k + 1] <= start[i] /\ start[i + 1] <= start[Len(written) + 1]
    <3>1. Starts(start)
      BY DEF Follows
    <3>. QED  BY <2>1, <3>1, Starting
  <2>3. PICK p : p = start[i] + (j - start[k + 1])
    OBVIOUS
  <2>4. /\ p \in 1 .. Remaining - l
        /\ start[i] + (j - start[k]) = l + p
        /\ p = 1 => start[i] + j = start[k + 1] + 1
        /\ start[i] + j # start[k] + 1
    <3>1. PICK a, b, c, d, e : /\ a = start[k] /\ b = start[k + 1] /\ c = start[i]
                               /\ d = start[i + 1] /\ e = start[Len(written) + 1]
      OBVIOUS
    <3>2. /\ a \in Nat /\ b \in Nat /\ c \in Nat /\ d \in Nat /\ e \in Nat
          /\ b = a + l /\ e = a + Remaining /\ b <= c /\ d <= e /\ j \in 1 .. d - c
          /\ p = c + (j - b)
      BY <1>4, <2>2, <2>3, <3>1
    <3>3. OneOn(a, b, c, j, Remaining, l, p)
      BY <1>1, <3>2, OneMessageOn
    <3>. QED  BY <3>1, <3>3 DEF OneOn
  <2>5. \/ torn /\ start[i] + j = start[k] + 1
        \/ Coming(start[i] + j - start[k]) = Sent(i)[j]
    BY <2>1 DEF Follows
  <2>6. Coming(l + p) = Sent(i)[j]
    BY <2>4, <2>5
  <2>7. (torn' /\ p = 1) \/ Coming(p)' = Coming(l + p)
    BY <2>4
  <2>. QED  BY <2>3, <2>4, <2>6, <2>7
<1>6. start[Len(written) + 1] = start[k + 1] + (Remaining - l)
  <2>1. PICK a, b, c, d : a = start[k] /\ b = start[k + 1] /\ c = start[Len(written) + 1]
                          /\ d = Remaining
    OBVIOUS
  <2>2. a \in Nat /\ b = a + l /\ c = a + d /\ d \in Nat
    BY <1>1, <1>4, <2>1
  <2>3. c = b + (d - l)
    BY <2>2
  <2>. QED  BY <2>1, <2>3
<1>. QED  BY <1>1, <1>2, <1>3, <1>5, <1>6 DEF Follows

(* What is left of a piece after a message has been taken out of it.       *)
LEMMA RestIsHere ==
  ASSUME IInv, IInv', HandleNext \/ NextPacket, NextBegin + Rest = Len(buffer)
  PROVE  /\ begin' + packetsize' = Len(buffer')
         /\ \A p \in 1 .. Rest : Here'[p] = buffer[NextBegin + p]
<1>1. HandOver
  BY DEF HandleNext, NextPacket
<1>2. Rest \in Nat /\ NextBegin \in Nat /\ packetsize' = Rest
  BY <1>1, HandingOver
<1>3. TypeOK /\ TypeOK' /\ buffer \in Seq(Byte)
  BY DEF IInv, TypeOK
<1>4. CASE begin' = NextBegin /\ buffer' = buffer
  <2>1. begin' + packetsize' = Len(buffer') /\ begin' + packetsize' <= Len(buffer')
    BY <1>2, <1>3, <1>4
  <2>2. \A p \in 1 .. packetsize' : Here'[p] = buffer'[begin' + p]
    BY <1>3, <2>1, HereHeld
  <2>. QED  BY <1>2, <1>4, <2>1, <2>2
<1>5. CASE begin' = 0 /\ ~Beyond /\ buffer' = Window(NextBegin, Rest)
  <2>1. PICK w, b, r : w = Window(NextBegin, Rest) /\ b = NextBegin /\ r = Rest
    OBVIOUS
  <2>2. b \in Nat /\ r \in Nat /\ b + r <= Len(buffer) /\ w = Window(b, r) /\ packetsize' = r
        /\ buffer' = w
    BY <1>2, <1>3, <1>5, <2>1
  <2>3. Len(w) = r /\ \A p \in 1 .. r : w[p] = buffer[b + p]
    BY <1>3, <2>2, WindowType
  <2>4. begin' + packetsize' = Len(buffer') /\ begin' + packetsize' <= Len(buffer')
    BY <1>5, <2>2, <2>3
  <2>5. \A p \in 1 .. packetsize' : Here'[p] = buffer'[begin' + p]
    BY <1>3, <2>4, HereHeld
  <2>6. \A p \in 1 .. r : begin' + p = p
    BY <1>5, <2>2
  <2>7. \A p \in 1 .. r : Here'[p] = buffer[b + p]
    BY <2>2, <2>3, <2>5, <2>6
  <2>. QED  BY <2>1, <2>4, <2>7
<1>6. ~Beyond
  BY <1>2, <1>3 DEF Beyond
<1>. QED  BY <1>4, <1>5, <1>6 DEF HandleNext, NextPacket

(* With more left than the header, begin moves on by what was taken.       *)
LEMMA MovesOn ==
  ASSUME TypeOK, MessageReady(Here), begin + packetsize = Len(buffer), Rest > SizeOffset(Here)
  PROVE  NextBegin = begin + Taken(Here)
<1>1. /\ buffer \in Seq(Byte) /\ begin \in Nat /\ packetsize \in Nat
      /\ Here \in Seq(Byte) /\ Len(Here) = packetsize
  BY Counters DEF TypeOK
<1>2. SizeOffset(Here) \in {0, 1, 3, 5} /\ Taken(Here) \in Nat /\ Taken(Here) > 0
  BY <1>1, Sizes
<1>3. Rest \in Nat /\ Rest < packetsize
  BY <1>1, <1>2 DEF Rest
<1>4. PICK w : w = Window(begin, Rest)
  OBVIOUS
<1>5. w \in Seq(Byte) /\ Len(w) = Rest /\ \A p \in 1 .. Rest : w[p] = buffer[begin + p]
  <2>1. begin + Rest <= Len(buffer)
    BY <1>1, <1>3
  <2>. QED  BY <1>1, <1>3, <1>4, <2>1, WindowType
<1>6. \A p \in 1 .. packetsize : Here[p] = buffer[begin + p]
  <2>1. begin + packetsize <= Len(buffer)
    BY <1>1
  <2>. QED  BY <2>1, HereHolds
<1>7. \A p \in 1 .. Len(w) : w[p] = Here[p]
  BY <1>1, <1>3, <1>5, <1>6
<1>8. Taken(w) = Taken(Here)
  BY <1>1, <1>3, <1>5, <1>7, HeaderSuffices
<1>. QED  BY <1>4, <1>8 DEF NextBegin

(* With less than the header left, but two of its bytes, begin moves       *)
(* beyond the buffer.                                                      *)
LEMMA MovesBeyond ==
  ASSUME TypeOK, begin + packetsize = Len(buffer), Rest \in 2 .. 3, Rest < packetsize,
         Here[2] = Marker, Taken(Here) \in Nat, Taken(Here) < 4 + Wide
  PROVE  Beyond
<1>1. buffer \in Seq(Byte) /\ begin \in Nat /\ packetsize \in Nat /\ Rest \in Nat
  BY DEF TypeOK
<1>2. PICK w : w = Window(begin, Rest)
  OBVIOUS
<1>3. begin + Rest <= Len(buffer)
  BY <1>1
<1>4. w \in Seq(Byte) /\ Len(w) = Rest /\ \A p \in 1 .. Rest : w[p] = buffer[begin + p]
  BY <1>1, <1>2, <1>3, WindowType
<1>5. Here[2] = buffer[begin + 2]
  <2>1. begin + packetsize <= Len(buffer) /\ 2 \in 1 .. packetsize
    BY <1>1
  <2>. QED  BY <2>1, HereHolds
<1>6. w[2] = Marker
  <2>1. 2 \in 1 .. Rest
    BY <1>1
  <2>. QED  BY <1>4, <1>5, <2>1
<1>7. ~(w[2] < Marker) /\ Marker \in Int /\ Wide \in Nat
  BY <1>6, Boundaries DEF Byte
<1>8. SizeOffset(w) = 3
  BY <1>4, <1>6, <1>7 DEF SizeOffset
<1>9. MessageSize(w) = Wide
  BY <1>4, <1>6, <1>7 DEF MessageSize
<1>10. NextBegin = begin + (4 + Wide)
  BY <1>2, <1>7, <1>8, <1>9 DEF NextBegin, Taken
<1>11. packetsize = Rest + Taken(Here)
  BY <1>1 DEF Rest
<1>. QED  BY <1>1, <1>7, <1>10, <1>11 DEF Beyond

LEMMA HandOverFollows ==
  ASSUME IInv, IInv', HandleNext \/ NextPacket, NEW start, Follows(start), Aligned,
         NEW k, k = Len(handed) + 1, k <= Len(written), written[k].whole,
         Len(Contents(written[k].message)) < Wide, status' # "undefined"
  PROVE  Aligned' /\ Follows(start)'
<1>1. HandOver
  BY DEF HandleNext, NextPacket
<1>2. /\ TypeOK /\ TypeOK' /\ buffer \in Seq(Byte) /\ begin \in Nat /\ packetsize \in Nat
      /\ Here \in Seq(Byte) /\ Len(Here) = packetsize /\ Len(stream) \in Nat
      /\ Len(handed) \in Nat /\ MessageReady(Here) /\ status = "open"
  BY <1>1, Counters DEF IInv, TypeOK, HandOver
<1>3. /\ Rest \in Nat /\ Rest < packetsize /\ NextBegin \in Nat /\ packetsize' = Rest
      /\ written' = written /\ stream' = stream
  BY <1>1, HandingOver
<1>4. PICK l : l = Len(Sent(k))
  OBVIOUS
<1>5. /\ l \in Nat /\ l > 1 /\ l < 4 + Wide /\ packetsize >= l /\ Taken(Here) = l
      /\ SizeOffset(Here) \in {1, 3} /\ (SizeOffset(Here) = 3 => Here[2] = Marker)
  BY <1>2, <1>4, NextIsDue
<1>6. Rest = packetsize - l /\ begin + packetsize = Len(buffer)
  BY <1>2, <1>5 DEF Rest, Aligned
<1>7. /\ Len(handed') = k
      /\ Rest \in 1 .. SizeOffset(Here) => torn'
      /\ torn => torn'
      /\ status' = IF Beyond /\ Rest > 1 THEN "undefined" ELSE status
  <2>1. Len(handed') = k
    BY <1>1, <1>2 DEF HandOver, TypeOK
  <2>2. torn' = (torn \/ Rest \in 1 .. SizeOffset(Here))
        /\ status' = IF Beyond /\ Rest > 1 THEN "undefined" ELSE status
    BY <1>1 DEF HandOver
  <2>. QED  BY <2>1, <2>2, Zenon
<1>8. ~(Rest \in 2 .. SizeOffset(Here))
  <2>. SUFFICES ASSUME Rest \in 2 .. SizeOffset(Here)  PROVE FALSE
    OBVIOUS
  <2>1. Rest \in 2 .. 3 /\ SizeOffset(Here) = 3 /\ Here[2] = Marker
    BY <1>3, <1>5
  <2>2. Beyond
    BY <1>2, <1>3, <1>5, <1>6, <2>1, MovesBeyond
  <2>. QED  BY <1>7, <2>1, <2>2
<1>9. Aligned' /\ \A p \in 1 .. Rest : (torn' /\ p = 1) \/ Here'[p] = Here[l + p]
  <2>1. CASE Rest > SizeOffset(Here)
    <3>1. NextBegin = begin + l
      BY <1>2, <1>5, <1>6, <2>1, MovesOn
    <3>2. NextBegin + Rest = Len(buffer)
      BY <1>2, <1>3, <1>5, <1>6, <3>1
    <3>3. /\ begin' + packetsize' = Len(buffer')
          /\ \A p \in 1 .. Rest : Here'[p] = buffer[NextBegin + p]
      BY <3>2, RestIsHere
    <3>4. ASSUME NEW p \in 1 .. Rest
          PROVE  Here'[p] = Here[l + p]
      <4>1. /\ begin + packetsize <= Len(buffer) /\ l + p \in 1 .. packetsize
            /\ begin + (l + p) = NextBegin + p
        BY <1>2, <1>3, <1>5, <1>6, <3>1
      <4>2. Here[l + p] = buffer[begin + (l + p)]
        BY <1>2, <4>1, HereHolds
      <4>. QED  BY <3>3, <4>1, <4>2
    <3>. QED  BY <3>3, <3>4 DEF Aligned
  <2>2. CASE Rest = 0
    BY <1>3, <2>2 DEF Aligned
  <2>3. CASE Rest = 1
    <3>1. Rest \in 1 .. SizeOffset(Here)
      BY <1>5, <2>3
    <3>2. torn'
      BY <1>7, <3>1
    <3>3. \A p \in 1 .. Rest : p = 1
      BY <2>3
    <3>. QED  BY <1>3, <2>3, <3>2, <3>3 DEF Aligned
  <2>. QED  BY <1>3, <1>5, <1>8, <2>1, <2>2, <2>3
<1>10. PICK q : q = Remaining
  OBVIOUS
<1>11. q = packetsize + Len(stream) /\ Remaining' = q - l
  BY <1>2, <1>3, <1>5, <1>6, <1>10 DEF Remaining
<1>12. ASSUME NEW p \in 1 .. q - l
       PROVE  (torn' /\ p = 1) \/ Coming(p)' = Coming(l + p)
  <2>1. CASE p <= Rest
    <3>1. p \in 1 .. Rest /\ l + p <= packetsize /\ p <= packetsize'
      BY <1>2, <1>3, <1>5, <1>6, <2>1
    <3>2. Coming(p)' = Here'[p]
      BY <3>1 DEF Coming
    <3>3. Coming(l + p) = Here[l + p]
      BY <3>1 DEF Coming
    <3>. QED  BY <1>9, <3>1, <3>2, <3>3
  <2>2. CASE ~(p <= Rest)
    <3>1. /\ ~(p <= packetsize') /\ ~(l + p <= packetsize)
          /\ p - packetsize' = (l + p) - packetsize
      BY <1>2, <1>3, <1>5, <1>6, <2>2
    <3>2. Coming(p)' = stream'[p - packetsize']
      BY <3>1 DEF Coming
    <3>3. Coming(l + p) = stream[(l + p) - packetsize]
      BY <3>1 DEF Coming
    <3>. QED  BY <1>3, <3>1, <3>2, <3>3
  <2>. QED  BY <2>1, <2>2
<1>13. Follows(start)'
  <2>1. torn => torn'
    BY <1>7
  <2>2. Remaining' = Remaining - l /\ l > 0
    BY <1>5, <1>10, <1>11
  <2>3. \A p \in 1 .. Remaining - l : (torn' /\ p = 1) \/ Coming(p)' = Coming(l + p)
    BY <1>10, <1>12
  <2>. QED  BY <1>2, <1>3, <1>4, <1>5, <1>7, <2>1, <2>2, <2>3, FollowsNext
<1>. QED  BY <1>9, <1>13

LEMMA HandOverHands ==
  ASSUME IInv, IInv', Handing, HandleNext \/ NextPacket
  PROVE  Handing'
<1>1. HandOver
  BY DEF HandleNext, NextPacket
<1>2. /\ TypeOK /\ TypeOK' /\ Here \in Seq(Byte) /\ Len(Here) = packetsize /\ packetsize \in Nat
      /\ MessageReady(Here) /\ status = "open" /\ reading
      /\ handed \in Seq([type : Byte, body : Seq(Byte)])
  BY <1>1, Counters DEF IInv, TypeOK, HandOver
<1>3. /\ status' \in {"open", "undefined"}
      /\ UNCHANGED <<side, written, stream, capacity, reading>>
  BY <1>1, HandingOver
<1>4. PICK n, h, k : n = Len(written) /\ h = Len(handed) /\ k = h + 1
  OBVIOUS
<1>5. /\ n \in Nat /\ h \in Nat /\ k \in Nat /\ k = Len(handed) + 1 /\ k > h
      /\ Len(written') = n /\ Len(handed') = k /\ DOMAIN handed' = 1 .. k /\ DOMAIN handed = 1 .. h
      /\ \A i \in 1 .. h : handed'[i] = handed[i]
      /\ handed'[k] = NextMessage
      /\ torn => torn'
  <2>1. n \in Nat /\ h \in Nat /\ Len(written') = n
    BY <1>2, <1>3, <1>4, Counters
  <2>2. handed' = Append(handed, NextMessage) /\ torn' = (torn \/ Rest \in 1 .. SizeOffset(Here))
    BY <1>1 DEF HandOver
  <2>3. torn => torn'
    BY <2>2
  <2>4. PICK m : m = NextMessage
    OBVIOUS
  <2>5. handed' = Append(handed, m)
    BY <2>2, <2>4
  <2>6. /\ Len(handed') = h + 1 /\ handed'[h + 1] = m /\ DOMAIN handed' = 1 .. h + 1
        /\ DOMAIN handed = 1 .. h /\ \A i \in 1 .. h : handed'[i] = handed[i]
    BY <1>2, <1>4, <2>1, <2>5
  <2>. QED  BY <1>4, <2>1, <2>3, <2>4, <2>6
<1>6. \A i : /\ Fine(i)' <=> Fine(i)
             /\ Contents(written[i].message)' = Contents(written[i].message)
  <2>1. \A i : Fine(i)' <=> Fine(i)
    BY <1>3, FineNow, Zenon DEF Fine
  <2>2. \A i : Contents(written[i].message)' = Contents(written[i].message)
    BY <1>3, ContentsNow, Zenon
  <2>. QED  BY <2>1, <2>2, Zenon
<1>7. ASSUME Fine(h), h <= n
      PROVE  Aligned /\ \E start : Follows(start)
  BY <1>2, <1>4, <1>7, Tracked
<1>8. OnlyLastUnfine'
  <2>1. Fine(Len(written) - 1)
    BY DEF Handing, OnlyLastUnfine
  <2>. QED  BY <1>3, <2>1 DEF OnlyLastUnfine, Fine
<1>9. NoneMadeUp'
  <2>. SUFFICES ASSUME k > n, Fine(n)  PROVE FALSE
    <3>1. Fine(Len(written))' => Fine(n)
      BY <1>3, <1>4 DEF Fine
    <3>. QED  BY <1>5, <3>1 DEF NoneMadeUp
  <2>1. h = n
    BY <1>4, <1>5 DEF Handing, NoneMadeUp
  <2>2. PICK start : Follows(start)
    BY <1>5, <1>7, <2>1
  <2>3. Remaining = 0
    <3>1. start[n + 1] = start[n + 1] + Remaining
      BY <1>4, <2>1, <2>2 DEF Follows
    <3>2. start[n + 1] \in Nat
      <4>1. Starts(start) /\ n + 1 \in 1 .. n + 1
        BY <1>5, <2>2 DEF Follows
      <4>. QED  BY <1>2, <1>4, <4>1, Starting
    <3>. QED  BY <1>2, <3>1, <3>2, Counters
  <2>4. packetsize = 0
    BY <1>2, <2>3, Counters DEF Remaining
  <2>. QED  BY <1>2, <2>4, NothingReady
<1>10. ASSUME k <= n, Fine(k)
       PROVE  /\ Aligned /\ \E start : Follows(start)
              /\ written[k].whole /\ Len(Contents(written[k].message)) < Wide
  <2>1. h <= n /\ Fine(h)
    BY <1>5, <1>10, FineUpTo
  <2>2. k \in 1 .. k
    BY <1>5
  <2>. QED  BY <1>7, <1>10, <2>1, <2>2 DEF Fine
<1>11. Kept'
  <2>. SUFFICES ASSUME NEW i \in 1 .. k, i <= n, Fine(i)
                PROVE  /\ handed'[i].body = Contents(written[i].message)
                       /\ torn' \/ handed'[i].type = written[i].message.type
    BY <1>3, <1>5, <1>6, Zenon DEF Kept
  <2>1. CASE i \in 1 .. h
    <3>1. /\ handed[i].body = Contents(written[i].message)
          /\ torn \/ handed[i].type = written[i].message.type
      BY <1>2, <1>4, <1>5, <2>1 DEF Handing, Kept
    <3>. QED  BY <1>5, <2>1, <3>1
  <2>2. CASE i = k
    <3>1. k <= n /\ Fine(k)
      BY <2>2
    <3>2. PICK start : Follows(start)
      BY <1>10, <3>1
    <3>3. written[k].whole /\ Len(Contents(written[k].message)) < Wide
      BY <1>10, <3>1
    <3>4. k <= Len(written)
      BY <1>4, <3>1
    <3>5. /\ Len(Sent(k)) \in Nat
          /\ packetsize < Len(Sent(k)) => ~MessageReady(Here)
          /\ packetsize >= Len(Sent(k)) =>
               /\ NextMessage.body = Contents(written[k].message)
               /\ torn \/ NextMessage.type = written[k].message.type
      BY <1>2, <1>5, <3>2, <3>3, <3>4, NextIsDue
    <3>6. /\ NextMessage.body = Contents(written[k].message)
          /\ torn \/ NextMessage.type = written[k].message.type
      BY <1>2, <3>5
    <3>. QED  BY <1>5, <2>2, <3>6
  <2>. QED  BY <1>5, <2>1, <2>2
<1>12. Following'
  <2>. SUFFICES ASSUME status' # "undefined", k <= n, Fine(k)
                PROVE  Aligned' /\ Waiting' /\ \E start : Follows(start)'
    <3>1. Fine(Len(handed))' => Fine(k)
      BY <1>3, <1>5 DEF Fine
    <3>. QED  BY <1>5, <3>1 DEF Following
  <2>1. Waiting'
    BY <1>2, <1>3 DEF Waiting
  <2>2. PICK start : Follows(start)
    BY <1>10
  <2>3. /\ Aligned /\ written[k].whole /\ Len(Contents(written[k].message)) < Wide
        /\ k <= Len(written)
    BY <1>4, <1>10
  <2>4. Aligned' /\ Follows(start)'
    BY <1>5, <2>2, <2>3, HandOverFollows
  <2>. QED  BY <2>1, <2>4
<1>13. DroppedForCause'
  BY <1>3 DEF DroppedForCause
<1>. QED  BY <1>8, <1>9, <1>11, <1>12, <1>13 DEF Handing

LEMMA StutterHands ==
  ASSUME IInv, IInv', Handing, UNCHANGED vars
  PROVE  Handing'
<1>1. UNCHANGED <<side, written, stream, buffer, capacity, begin, packetsize, reading, handed,
                  torn, status>>
  BY DEF vars
<1>2. OnlyLastUnfine' /\ NoneMadeUp' /\ Kept'
  BY <1>1, HandedStays
<1>3. Following'
  <2>. SUFFICES ASSUME status # "undefined", Len(handed) <= Len(written), Fine(Len(handed))
                PROVE  Aligned' /\ Waiting' /\ \E start : Follows(start)'
    BY <1>1, FineNow, Zenon DEF Following, Fine
  <2>1. Aligned /\ Waiting
    BY Tracked DEF IInv
  <2>2. PICK start : Follows(start)
    BY Tracked DEF IInv
  <2>3. Aligned' /\ Waiting'
    BY <1>1, <2>1 DEF Aligned, Waiting, Here, Window
  <2>4. Remaining' = Remaining /\ \A p \in 1 .. Remaining : Coming(p)' = Coming(p)
    BY <1>1 DEF Remaining, Coming, Here, Window
  <2>5. Follows(start)'
    BY <1>1, <2>2, <2>4, FollowsOn DEF IInv
  <2>. QED  BY <2>3, <2>5
<1>4. DroppedForCause'
  BY <1>1 DEF Handing, DroppedForCause, Sound
<1>. QED  BY <1>2, <1>3, <1>4 DEF Handing

(* Sound as far as written, a message that was handed over was written.    *)
LEMMA SoundUpTo ==
  ASSUME TypeOK, Handing, NEW i \in DOMAIN handed, Sound(Lowest(i, Len(written)))
  PROVE  i <= Len(written) /\ Fine(i)
<1>1. i \in Nat /\ i <= Len(handed) /\ Len(handed) \in Nat /\ Len(written) \in Nat
  BY Counters DEF TypeOK
<1>2. CASE i <= Len(written)
  <2>1. Lowest(i, Len(written)) = i
    BY <1>1, <1>2 DEF Lowest
  <2>2. Sound(i)
    BY <2>1
  <2>. QED  BY <1>2, <2>2 DEF Sound, Fine
<1>3. CASE ~(i <= Len(written))
  <2>1. Lowest(i, Len(written)) = Len(written)
    BY <1>1, <1>3 DEF Lowest
  <2>2. Sound(Len(written))
    BY <2>1
  <2>. QED  BY <1>1, <1>3, <2>2, SoundIsFine DEF Handing, NoneMadeUp
<1>. QED  BY <1>2, <1>3

LEMMA InductiveHanding == Spec => [](IInv /\ Handing)
<1>1. Init => Handing
  BY InitHanding
<1>2. IInv /\ IInv' /\ Handing /\ [Next]_vars => Handing'
  <2>. SUFFICES ASSUME IInv, IInv', Handing, [Next]_vars
                PROVE  Handing'
    OBVIOUS
  <2>1. ASSUME NEW m \in ToServer \cup ToClient, Write(m) \/ WritePart(m)
        PROVE  Handing'
    BY <2>1, SendHands
  <2>2. ASSUME NEW k \in 1 .. Len(stream), Receive(k)
        PROVE  Handing'
    BY <2>2, ReceiveHands
  <2>3. CASE Overflow
    BY <2>3, OverflowHands
  <2>4. CASE HandleNext \/ NextPacket
    BY <2>4, HandOverHands
  <2>5. CASE EndRead
    BY <2>5, EndReadHands
  <2>6. CASE UNCHANGED vars
    BY <2>6, StutterHands
  <2>. QED  BY <2>1, <2>2, <2>3, <2>4, <2>5, <2>6 DEF Next
<1>. QED  BY <1>1, <1>2, Inductive, PTL DEF Spec

(* However the stream is cut, sound messages come out as they went in, in  *)
(* order, none twice and none left out, as long as no piece tore a header. *)
THEOREM MessagesComeAsWritten == Spec => []HandedAsWritten
<1>1. IInv /\ Handing => HandedAsWritten
  <2>. SUFFICES ASSUME IInv, Handing, ~torn, NEW i \in DOMAIN handed,
                       Sound(Lowest(i, Len(written)))
                PROVE  /\ i <= Len(written)
                       /\ handed[i] = [type |-> written[i].message.type,
                                       body |-> Contents(written[i].message)]
    BY DEF HandedAsWritten
  <2>1. i <= Len(written) /\ Fine(i)
    BY SoundUpTo DEF IInv
  <2>2. /\ handed[i].body = Contents(written[i].message)
        /\ handed[i].type = written[i].message.type
    <3>1. status # "undefined"
      BY DEF IInv, WithinBuffer
    <3>. QED  BY <2>1, <3>1 DEF Handing, Kept
  <2>3. handed[i] \in [type : Byte, body : Seq(Byte)]
    <3>1. handed \in Seq([type : Byte, body : Seq(Byte)])
      BY DEF IInv, TypeOK
    <3>2. \A S : \A s \in Seq(S) : \A j \in DOMAIN s : s[j] \in S
      OBVIOUS
    <3>. QED  BY <3>1, <3>2, Zenon
  <2>4. handed[i] = [type |-> handed[i].type, body |-> handed[i].body]
    BY <2>3
  <2>. QED  BY <2>1, <2>2, <2>4
<1>. QED  BY <1>1, InductiveHanding, PTL

(* A torn header costs a message its type, never its contents, as long as  *)
(* the reader stays within its buffer.                                     *)
THEOREM ContentsAreKept == Spec => []ContentsKept
<1>1. IInv /\ Handing => ContentsKept
  <2>. SUFFICES ASSUME IInv, Handing, status # "undefined", NEW i \in DOMAIN handed,
                       Sound(Lowest(i, Len(written)))
                PROVE  i <= Len(written) /\ handed[i].body = Contents(written[i].message)
    BY DEF ContentsKept
  <2>1. i <= Len(written) /\ Fine(i)
    BY SoundUpTo DEF IInv
  <2>. QED  BY <2>1 DEF Handing, Kept
<1>. QED  BY <1>1, InductiveHanding, PTL

(* The server takes a peer for gone only when something it wrote did not   *)
(* fit in the buffer, was cut off or needs a length of four bytes.         *)
THEOREM NoneIsDroppedWithoutCause == Spec => []DroppedForCause
<1>1. Handing => DroppedForCause
  BY DEF Handing
<1>. QED  BY <1>1, InductiveHanding, PTL
=============================================================================
