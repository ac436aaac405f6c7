----------------------------- MODULE SmsPduProofs -----------------------------
(***************************************************************************)
(* Proof that a PDU line from which one run of characters is missing, or   *)
(* into which one was inserted, never decodes to another message, for any  *)
(* messages and any such run; and that a message which arrives intact is   *)
(* reported with its sender and its text, for any message of the kinds     *)
(* that the decoder supports.                                              *)
(***************************************************************************)
EXTENDS SmsPdu, SequenceTheorems, WellFoundedInduction, TLAPS

\* The number of octets of a line, and the first, the length of the service
\* centre.
Count(s) == Len(Octets(s))
Smsc(s) == Octets(s)[1]

\* The line a PDU arrives in: an even number of digits, and the length that
\* the header announces is that of what follows the service centre.
WellFormed(s, L) ==
  /\ s \in Seq(Nat) /\ IsHex(s)
  /\ Len(s) % 2 = 0
  /\ Smsc(s) \in Nat
  /\ Count(s) = Smsc(s) + 1 + L

\* r is s with k characters missing, or j inserted, after the first a.
Shifted(r, s, a, j, k) ==
  /\ Len(r) = Len(s) - k + j
  /\ \A i \in 1..a : r[i] = s[i]
  /\ \A i \in (a + j + 1)..Len(r) : r[i] = s[i - j + k]

\* Two digits make an octet.
LEMMA OctetsType ==
  ASSUME NEW s \in Seq(Nat)
  PROVE  /\ Octets(s) \in Seq(Nat)
         /\ Count(s) = Len(s) \div 2
         /\ \A i \in 1..Count(s) : Octets(s)[i] = 16 * s[2*i - 1] + s[2*i]
<1>1. Len(s) \div 2 \in Nat
  OBVIOUS
<1>2. \A i \in 1..(Len(s) \div 2) : 16 * s[2*i - 1] + s[2*i] \in Nat
  <2>1. TAKE i \in 1..(Len(s) \div 2)
  <2>2. 2*i - 1 \in 1..Len(s) /\ 2*i \in 1..Len(s)
    OBVIOUS
  <2> DEFINE high == s[2*i - 1]
             low  == s[2*i]
  <2>3. high \in Nat /\ low \in Nat
    BY <2>2
  <2>4. 16 * high + low \in Nat
    <3> HIDE DEF high, low
    <3> QED BY <2>3
  <2> QED BY <2>4
<1>3. Octets(s) = [i \in 1..(Len(s) \div 2) |-> 16 * s[2*i - 1] + s[2*i]]
  BY DEF Octets
<1>4. Octets(s) \in Seq(Nat)
  BY <1>1, <1>2, <1>3
<1>5. Count(s) = Len(s) \div 2
  BY <1>1, <1>3 DEF Count
<1> QED BY <1>3, <1>4, <1>5

\* A line of even length has two digits for each octet.
LEMMA EvenCount ==
  ASSUME NEW s \in Seq(Nat), Len(s) % 2 = 0
  PROVE  Len(s) = 2 * Count(s) /\ Count(s) \in Nat
<1>1. Len(s) = 2 * (Len(s) \div 2) /\ Len(s) \div 2 \in Nat
  OBVIOUS
<1> QED BY <1>1, OctetsType

\* The first octet comes from the first two digits.
LEMMA SmscType ==
  ASSUME NEW s \in Seq(Nat), Count(s) >= 1
  PROVE  Smsc(s) \in Nat /\ Smsc(s) = 16 * s[1] + s[2]
<1>1. Count(s) \in Nat
  BY OctetsType DEF Count
<1>2. 1 \in 1..Count(s)
  BY <1>1
<1>3. Octets(s)[1] = 16 * s[2*1 - 1] + s[2*1]
  BY <1>2, OctetsType
<1>4. Octets(s)[1] \in Nat
  BY <1>2, OctetsType DEF Count
<1> QED BY <1>3, <1>4 DEF Smsc

\* What an accepted line has, and what is decoded of it.
LEMMA Accepted ==
  ASSUME NEW r \in Seq(Nat), NEW L \in Nat, DecodePDU(r, L) # Fail
  PROVE  /\ Len(r) % 2 = 0
         /\ Smsc(r) \in Nat
         /\ Count(r) = Smsc(r) + 1 + L
         /\ DecodePDU(r, L) = DecodeTPDU(SubSeq(Octets(r), Smsc(r) + 2, Count(r)))
<1>1. ~(Len(r) % 2 # 0 \/ Octets(r) = <<>> \/ Count(r) < Smsc(r) + 1 \/ Count(r) - 1 - Smsc(r) # L)
  BY DEF DecodePDU, Count, Smsc
<1>2. DecodePDU(r, L) = DecodeTPDU(SubSeq(Octets(r), Smsc(r) + 2, Count(r)))
  BY DEF DecodePDU, Count, Smsc
<1>3. Count(r) \in Nat /\ Count(r) # 0
  BY <1>1, OctetsType DEF Count
<1>4. Smsc(r) \in Nat
  BY <1>3, SmscType
<1>5. Count(r) - 1 - Smsc(r) = L
  BY <1>1
<1>6. Count(r) = Smsc(r) + 1 + L
  BY <1>3, <1>4, <1>5
<1> QED BY <1>1, <1>2, <1>4, <1>6

\* DecodePDU accepts the framing of a well-formed line and decodes its TPDU.
LEMMA Accepts ==
  ASSUME NEW s, NEW L \in Nat, WellFormed(s, L)
  PROVE  DecodePDU(s, L) = DecodeTPDU(SubSeq(Octets(s), Smsc(s) + 2, Count(s)))
<1>1. s \in Seq(Nat) /\ Len(s) % 2 = 0 /\ Smsc(s) \in Nat /\ Count(s) = Smsc(s) + 1 + L
  BY DEF WellFormed
<1>2. Octets(s) \in Seq(Nat) /\ Count(s) = Len(Octets(s))
  BY <1>1, OctetsType DEF Count
<1>3. Count(s) # 0
  BY <1>1
<1>4. Octets(s) # <<>>
  BY <1>2, <1>3
<1>5. ~(Count(s) < Smsc(s) + 1) /\ Count(s) - 1 - Smsc(s) = L
  BY <1>1
<1> QED BY <1>1, <1>4, <1>5 DEF DecodePDU, Count, Smsc

\* The pairs of digits of a line, as DecodePDU sees them.
Pairs(s, o) ==
  /\ s \in Seq(Nat) /\ o \in Seq(Nat)
  /\ Len(s) = 2 * Len(o)
  /\ \A i \in 1..Len(o) : o[i] = 16 * s[2*i - 1] + s[2*i]

\* A line with its octets o, of which the first is c and L follow those that
\* c counts.
Split(s, o, c, L) == Pairs(s, o) /\ c \in Nat /\ Len(o) = c + 1 + L

\* The octets of a line are its pairs of digits.
LEMMA OctetsPairs ==
  ASSUME NEW s \in Seq(Nat), Len(s) % 2 = 0
  PROVE  Pairs(s, Octets(s))
<1>1. Len(s) = 2 * Len(Octets(s))
  BY EvenCount DEF Count
<1>2. \A i \in 1..Len(Octets(s)) : Octets(s)[i] = 16 * s[2*i - 1] + s[2*i]
  BY OctetsType DEF Count
<1> QED BY <1>1, <1>2, OctetsType DEF Pairs

\* What is decoded when the service centre has c octets.
Tpdu(o, c) == SubSeq(o, c + 2, Len(o))

\* One run, which leaves the length of the service centre alone when it comes
\* after it.
Moved(r, s, a, j, k, c, d) ==
  (a >= 2 => c = d) /\ (j = 0 \/ k = 0) /\ Shifted(r, s, a, j, k)

\* The L octets after the first and the c that follow it.
IsTail(o, c, L) ==
  /\ SubSeq(o, c + 2, Len(o)) \in Seq(Nat)
  /\ Len(SubSeq(o, c + 2, Len(o))) = L
  /\ \A i \in 1..L : SubSeq(o, c + 2, Len(o))[i] = o[c + 1 + i]

\* The TPDU is the last L octets.
LEMMA TailOf ==
  ASSUME NEW o \in Seq(Nat), NEW c \in Nat, NEW L \in Nat, Len(o) = c + 1 + L
  PROVE  IsTail(o, c, L)
<1>1. \A i \in (c + 2)..Len(o) : o[i] \in Nat
  OBVIOUS
<1>2. Len(o) - (c + 2) + 1 = L /\ (c + 2 <= Len(o) \/ L = 0)
  OBVIOUS
<1>3. c + 2 \in Int /\ Len(o) \in Int
  OBVIOUS
<1>4. /\ SubSeq(o, c + 2, Len(o)) \in Seq(Nat)
      /\ Len(SubSeq(o, c + 2, Len(o))) = IF c + 2 <= Len(o) THEN Len(o) - (c + 2) + 1 ELSE 0
      /\ \A i \in 1..(Len(o) - (c + 2) + 1) :
           SubSeq(o, c + 2, Len(o))[i] = o[(c + 2) + i - 1]
  BY <1>1, <1>3, SubSeqProperties
<1>5. \A i \in 1..L : (c + 2) + i - 1 = c + 1 + i
  OBVIOUS
<1> QED BY <1>2, <1>4, <1>5 DEF IsTail

\* The heart of the argument.  A run after the first octet leaves the length of
\* the service centre as it was, and the count is wrong; a run that begins in
\* the first octet is accepted only where it lies before the TPDU.  Here c and d
\* are the two lengths of the service centre.
LEMMA SameTPDU ==
  ASSUME NEW s, NEW o, NEW r, NEW p, NEW c, NEW d, NEW L \in Nat,
         NEW a \in Nat, NEW j \in Nat, NEW k \in Nat,
         Split(s, o, c, L), Split(r, p, d, L), Moved(r, s, a, j, k, c, d)
  PROVE  Tpdu(p, d) = Tpdu(o, c)
<1> SUFFICES ASSUME s \in Seq(Nat), o \in Seq(Nat), r \in Seq(Nat), p \in Seq(Nat),
                    c \in Nat, d \in Nat, Pairs(s, o), Pairs(r, p),
                    Len(o) = c + 1 + L, Len(p) = d + 1 + L,
                    a >= 2 => c = d, j = 0 \/ k = 0, Shifted(r, s, a, j, k)
             PROVE  SubSeq(p, d + 2, Len(p)) = SubSeq(o, c + 2, Len(o))
  BY DEF Split, Pairs, Moved, Tpdu
<1>0. /\ s \in Seq(Nat) /\ o \in Seq(Nat) /\ Len(s) = 2 * Len(o)
      /\ r \in Seq(Nat) /\ p \in Seq(Nat) /\ Len(r) = 2 * Len(p)
      /\ Len(o) \in Nat /\ Len(p) \in Nat /\ Len(s) \in Nat /\ Len(r) \in Nat
  BY DEF Pairs
<1>a. /\ \A x \in 1..Len(o) : o[x] = 16 * s[2*x - 1] + s[2*x]
      /\ \A x \in 1..Len(p) : p[x] = 16 * r[2*x - 1] + r[2*x]
  BY DEF Pairs
<1>c. Len(r) = Len(s) - k + j
  BY DEF Shifted
<1>b. /\ \A x \in 1..a : r[x] = s[x]
      /\ \A x \in (a + j + 1)..Len(r) : r[x] = s[x - j + k]
  BY DEF Shifted
<1>1. 2 * d = 2 * c + j - k
  <2>1. Len(s) = 2 * (c + 1 + L) /\ Len(r) = 2 * (d + 1 + L)
    BY <1>0
  <2>2. 2 * (d + 1 + L) = 2 * (c + 1 + L) - k + j
    BY <2>1, <1>c
  <2> QED BY <2>2
<1>2. CASE a >= 2
  <2>5. c = d
    BY <1>2
  <2>6. j = 0 /\ k = 0
    BY <2>5, <1>1
  <2>7. Len(r) = Len(s)
    BY <2>6, <1>0, <1>c
  <2>8. \A x \in 1..Len(r) : r[x] = s[x]
    <3>1. TAKE x \in 1..Len(r)
    <3>2. x \in 1..a \/ x \in (a + j + 1)..Len(r)
      BY <2>6, <1>0
    <3>3. x - j + k = x
      BY <2>6
    <3> QED BY <3>2, <3>3, <1>b
  <2>9. r = s
    BY <2>7, <2>8, <1>0, SeqEqual
  <2>10. Len(p) = Len(o)
    BY <2>7, <1>0
  <2>11. \A x \in 1..Len(p) : p[x] = o[x]
    BY <2>9, <2>10, <1>a
  <2>12. p = o
    BY <2>10, <2>11, <1>0, SeqEqual
  <2> QED BY <2>5, <2>12
<1>3. CASE a <= 1
  <2>1. ASSUME NEW i \in 1..L
        PROVE  p[d + 1 + i] = o[c + 1 + i]
    <3> DEFINE x == 2 * (d + 1 + i)
               y == 2 * (c + 1 + i)
    <3>1. d + 1 + i \in 1..Len(p) /\ c + 1 + i \in 1..Len(o)
      BY <1>0
    <3>2. p[d + 1 + i] = 16 * r[x - 1] + r[x]
      BY <3>1, <1>a
    <3>3. o[c + 1 + i] = 16 * s[y - 1] + s[y]
      BY <3>1, <1>a
    <3>4. 2 * d >= j
      BY <1>1
    <3>5. x \in (a + j + 1)..Len(r) /\ x - 1 \in (a + j + 1)..Len(r)
      <4>1. x - 1 >= a + j + 1
        BY <3>4, <1>3
      <4>2. x <= Len(r)
        BY <3>1, <1>0
      <4>3. x \in Int /\ a + j + 1 \in Int /\ Len(r) \in Int
        BY <1>0
      <4> HIDE DEF x
      <4> QED BY <4>1, <4>2, <4>3
    <3>6. x - j + k = y /\ (x - 1) - j + k = y - 1
      BY <1>1
    <3>7. r[x] = s[x - j + k] /\ r[x - 1] = s[(x - 1) - j + k]
      BY <3>5, <1>b
    <3> HIDE DEF x, y
    <3> QED BY <3>2, <3>3, <3>6, <3>7
  <2>2. /\ SubSeq(p, d + 2, Len(p)) \in Seq(Nat) /\ Len(SubSeq(p, d + 2, Len(p))) = L
        /\ \A i \in 1..L : SubSeq(p, d + 2, Len(p))[i] = p[d + 1 + i]
    <3>1. IsTail(p, d, L)
      BY TailOf
    <3> QED BY <3>1 DEF IsTail
  <2>3. /\ SubSeq(o, c + 2, Len(o)) \in Seq(Nat) /\ Len(SubSeq(o, c + 2, Len(o))) = L
        /\ \A i \in 1..L : SubSeq(o, c + 2, Len(o))[i] = o[c + 1 + i]
    <3>1. IsTail(o, c, L)
      BY TailOf
    <3> QED BY <3>1 DEF IsTail
  <2>4. \A i \in 1..L : SubSeq(p, d + 2, Len(p))[i] = SubSeq(o, c + 2, Len(o))[i]
    BY <2>1, <2>2, <2>3
  <2> DEFINE u == SubSeq(p, d + 2, Len(p))
             v == SubSeq(o, c + 2, Len(o))
  <2>5. /\ u \in Seq(Nat) /\ v \in Seq(Nat) /\ Len(u) = Len(v)
        /\ \A i \in 1..Len(u) : u[i] = v[i]
    BY <2>2, <2>3, <2>4
  <2> HIDE DEF u, v
  <2>6. u = v
    BY <2>5, SeqEqual
  <2> QED BY <2>6 DEF u, v
<1>4. a >= 2 \/ a <= 1
  OBVIOUS
<1> QED BY <1>2, <1>3, <1>4

\* If DecodePDU accepts a line with one run lost or inserted, the result is that of
\* the line that was sent.
LEMMA ShiftedDecodesSame ==
  ASSUME NEW s, NEW L \in Nat, WellFormed(s, L),
         NEW r \in Seq(Nat),
         NEW a \in Nat, NEW j \in Nat, NEW k \in Nat,
         j = 0 \/ k = 0, Shifted(r, s, a, j, k),
         DecodePDU(r, L) # Fail
  PROVE  DecodePDU(r, L) = DecodePDU(s, L)
<1>1. s \in Seq(Nat) /\ Len(s) % 2 = 0 /\ Smsc(s) \in Nat /\ Count(s) = Smsc(s) + 1 + L
  BY DEF WellFormed
<1>2. Len(r) % 2 = 0 /\ Smsc(r) \in Nat /\ Count(r) = Smsc(r) + 1 + L
  BY Accepted
<1>3. Pairs(s, Octets(s)) /\ Pairs(r, Octets(r))
  BY <1>1, <1>2, OctetsPairs
<1>4. ASSUME a >= 2 PROVE Smsc(s) = Smsc(r)
  <2>1. 1 \in 1..a /\ 2 \in 1..a
    BY <1>4
  <2>2. r[1] = s[1] /\ r[2] = s[2]
    BY <2>1 DEF Shifted
  <2>3. Count(s) >= 1 /\ Count(r) >= 1
    BY <1>1, <1>2
  <2> QED BY <2>2, <2>3, <1>1, SmscType
<1>5. Octets(s) \in Seq(Nat) /\ Octets(r) \in Seq(Nat)
  BY <1>3 DEF Pairs
<1>6. SubSeq(Octets(r), Smsc(r) + 2, Count(r)) = SubSeq(Octets(s), Smsc(s) + 2, Count(s))
  <2>1. Len(Octets(s)) = Smsc(s) + 1 + L /\ Len(Octets(r)) = Smsc(r) + 1 + L
    BY <1>1, <1>2 DEF Count
  <2>2. SubSeq(Octets(r), Smsc(r) + 2, Len(Octets(r)))
          = SubSeq(Octets(s), Smsc(s) + 2, Len(Octets(s)))
    <3>1. a >= 2 => Smsc(s) = Smsc(r)
      BY <1>4
    <3> DEFINE o == Octets(s)
               p == Octets(r)
               c == Smsc(s)
               d == Smsc(r)
    <3>2. Split(s, o, c, L) /\ Split(r, p, d, L) /\ Moved(r, s, a, j, k, c, d)
      BY <1>1, <1>2, <1>3, <2>1, <3>1 DEF Split, Moved
    <3> HIDE DEF o, p, c, d
    <3>3. Tpdu(p, d) = Tpdu(o, c)
      BY <3>2, SameTPDU
    <3> QED BY <3>3 DEF o, p, c, d, Tpdu
  <2> QED BY <2>2 DEF Count
<1> QED BY <1>6, Accepted, Accepts

-----------------------------------------------------------------------------
(* The lines of the specification.                                         *)

\* An octet is its two halves.
LEMMA OctetHalves ==
  ASSUME NEW n \in Octet
  PROVE  /\ n \in Nat /\ n \div 16 \in Digit /\ n % 16 \in Digit
         /\ 16 * (n \div 16) + (n % 16) = n
<1>1. n \in Nat /\ n <= 255
  BY DEF Octet
<1>2. n \div 16 \in 0..15 /\ n % 16 \in 0..15
  BY <1>1
<1>3. 16 * (n \div 16) + (n % 16) = n
  BY <1>1
<1> QED BY <1>1, <1>2, <1>3 DEF Digit

\* A function on 1..n with values in Nat is a sequence of length n.
LEMMA FunctionIsSeq ==
  ASSUME NEW n \in Nat, NEW f, f = [i \in 1..n |-> f[i]], \A i \in 1..n : f[i] \in Nat
  PROVE  f \in Seq(Nat) /\ Len(f) = n
<1>1. f \in [1..n -> Nat]
  OBVIOUS
<1> QED BY <1>1

\* Reading the hex that was written for octets gives the octets back.
LEMMA NibblesOfOctets ==
  ASSUME NEW o \in Seq(Octet)
  PROVE  /\ Nibbles(o) \in Seq(Nat) /\ Len(Nibbles(o)) = 2 * Len(o)
         /\ \A i \in 1..(2 * Len(o)) : Nibbles(o)[i] \in Digit
         /\ Octets(Nibbles(o)) = o
<1>1. 2 * Len(o) \in Nat /\ (2 * Len(o)) \div 2 = Len(o)
  OBVIOUS
<1>2. Nibbles(o) = [i \in 1..(2 * Len(o)) |->
                     IF i % 2 = 1 THEN o[(i + 1) \div 2] \div 16 ELSE o[i \div 2] % 16]
  BY DEF Nibbles
<1>3. ASSUME NEW i \in 1..(2 * Len(o)) PROVE Nibbles(o)[i] \in Digit
  <2>1. CASE i % 2 = 1
    <3>1. (i + 1) \div 2 \in 1..Len(o)
      BY <2>1
    <3>2. o[(i + 1) \div 2] \in Octet
      BY <3>1
    <3>3. o[(i + 1) \div 2] \div 16 \in Digit
      BY <3>2, OctetHalves
    <3> QED BY <1>2, <2>1, <3>3
  <2>2. CASE i % 2 # 1
    <3>1. i \div 2 \in 1..Len(o)
      BY <2>2
    <3>2. o[i \div 2] \in Octet
      BY <3>1
    <3>3. o[i \div 2] % 16 \in Digit
      BY <3>2, OctetHalves
    <3> QED BY <1>2, <2>2, <3>3
  <2> QED BY <2>1, <2>2
<1>4. Nibbles(o) \in Seq(Nat) /\ Len(Nibbles(o)) = 2 * Len(o)
  <2>1. \A i \in 1..(2 * Len(o)) : Nibbles(o)[i] \in Nat
    <3>1. \A d \in Digit : d \in Nat
      BY DEF Digit
    <3> QED BY <1>3, <3>1
  <2>2. Nibbles(o) = [i \in 1..(2 * Len(o)) |-> Nibbles(o)[i]]
    BY <1>2, Zenon
  <2> QED BY <1>1, <2>1, <2>2, FunctionIsSeq
<1>5. ASSUME NEW i \in 1..Len(o) PROVE 16 * Nibbles(o)[2*i - 1] + Nibbles(o)[2*i] = o[i]
  <2>1. 2*i - 1 \in 1..(2 * Len(o)) /\ 2*i \in 1..(2 * Len(o))
    OBVIOUS
  <2>2. /\ (2*i - 1) % 2 = 1 /\ ((2*i - 1) + 1) \div 2 = i
        /\ (2*i) % 2 = 0 /\ (2*i) \div 2 = i
    OBVIOUS
  <2>3. Nibbles(o)[2*i - 1] = o[i] \div 16
    BY <1>2, <2>1, <2>2
  <2>4. Nibbles(o)[2*i] = o[i] % 16
    BY <1>2, <2>1, <2>2
  <2>5. o[i] \in Octet
    OBVIOUS
  <2>6. 16 * (o[i] \div 16) + (o[i] % 16) = o[i]
    BY <2>5, OctetHalves
  <2> QED BY <2>3, <2>4, <2>6
<1>6. Count(Nibbles(o)) = Len(o)
  BY <1>1, <1>4, OctetsType
<1>7. \A i \in 1..Len(o) : Octets(Nibbles(o))[i] = o[i]
  BY <1>4, <1>5, <1>6, OctetsType
<1>8. Octets(Nibbles(o)) \in Seq(Nat) /\ Len(Octets(Nibbles(o))) = Len(o)
  BY <1>4, <1>6, OctetsType DEF Count
<1>9. o \in Seq(Nat)
  <2>1. \A i \in 1..Len(o) : o[i] \in Nat
    BY OctetHalves
  <2> QED BY <2>1
<1>10. Octets(Nibbles(o)) = o
  BY <1>7, <1>8, <1>9, SeqEqual
<1> QED BY <1>3, <1>4, <1>10

\* The modem announces what it sends.
LEMMA SentIsWellFormed ==
  ASSUME NEW m \in Messages, m.mode # "text"
  PROVE  /\ WellFormed(BodyLine(m), Len(EncodeTPDU(m)))
         /\ HeaderLine(m) = [mode |-> "pdu", length |-> Len(EncodeTPDU(m))]
<1> DEFINE n == Len(m.smsc)
           t == EncodeTPDU(m)
           o == <<n>> \o m.smsc \o t
<1>1. m.smsc \in Seq(Octet) /\ n <= 255 /\ t \in Seq(Octet)
  BY MessageAssumption
<1>2. BodyLine(m) = Nibbles(o)
  <2> HIDE DEF o
  <2> QED BY DEF BodyLine, o
<1> HIDE DEF t
<1>3. n \in Octet
  <2>1. n \in Nat
    BY <1>1
  <2> HIDE DEF n
  <2> QED BY <1>1, <2>1 DEF Octet
<1> HIDE DEF n
<1>4. <<n>> \in Seq(Octet) /\ Len(<<n>>) = 1
  BY <1>3
<1>5. o \in Seq(Octet) /\ Len(o) = n + 1 + Len(t) /\ o[1] = n
  BY <1>1, <1>4 DEF n
<1> HIDE DEF o
<1>6. /\ Nibbles(o) \in Seq(Nat) /\ Len(Nibbles(o)) = 2 * Len(o)
      /\ \A i \in 1..(2 * Len(o)) : Nibbles(o)[i] \in Digit
      /\ Octets(Nibbles(o)) = o
  BY <1>5, NibblesOfOctets
<1>7. Smsc(Nibbles(o)) = n /\ Count(Nibbles(o)) = n + 1 + Len(t) /\ n \in Nat
  BY <1>3, <1>5, <1>6 DEF Smsc, Count, Octet
<1>8. Len(Nibbles(o)) % 2 = 0 /\ Len(Nibbles(o)) # 0
  <2>1. Len(o) \in Nat /\ Len(o) # 0
    BY <1>1, <1>3, <1>5 DEF Octet
  <2> QED BY <2>1, <1>6
<1>9. IsHex(Nibbles(o))
  BY <1>6, <1>8 DEF IsHex
<1>10. WellFormed(Nibbles(o), Len(t))
  BY <1>6, <1>7, <1>8, <1>9 DEF WellFormed
<1>11. HeaderLine(m) = [mode |-> "pdu", length |-> Len(t)]
  BY DEF HeaderLine, t
<1> QED BY <1>2, <1>10, <1>11 DEF t

\* Counting down ends: every set of numbers has a least one.
LEMMA LeastNumber ==
  ASSUME NEW T, T \in SUBSET Nat, T # {}
  PROVE  \E n \in T : \A m \in T : n <= m
<1> DEFINE R == {p \in Nat \X Nat : p[1] < p[2]}
<1>1. IsWellFoundedOn(R, Nat)
  <2>1. R = OpToRel(<, Nat)
    BY DEF OpToRel
  <2> QED  BY <2>1, NatLessThanWellFounded
<1>2. \A m, n \in Nat : m < n => <<m, n>> \in R
  <2> SUFFICES ASSUME NEW m \in Nat, NEW n \in Nat, m < n PROVE <<m, n>> \in R
    OBVIOUS
  <2>1. <<m, n>> \in Nat \X Nat /\ <<m, n>>[1] = m /\ <<m, n>>[2] = n
    OBVIOUS
  <2> QED  BY <2>1
<1> HIDE DEF R
<1>3. PICK n \in T : \A m \in T : <<m, n>> \notin R
  BY <1>1, WFMin
<1>4. \A m \in T : m \in Nat /\ n \in Nat /\ ~(m < n)
  BY <1>2, <1>3
<1> QED  BY <1>4

-----------------------------------------------------------------------------
(* What the line makes of the body, and what TrimSpace leaves of it.       *)

\* Digits are neither blanks nor line breaks.
LEMMA DigitsArePlain ==
  ASSUME NEW d \in Digit
  PROVE  d \in Nat /\ d \notin Blank /\ d # LineBreak
BY DEF Digit, Blank, Space, LineBreak

\* The least of the numbers of a set, and of one that bounds them.
LEMMA LeastOf ==
  ASSUME NEW T, T \in SUBSET Nat, T # {}
  PROVE  Min(T) \in T /\ \A i \in T : Min(T) <= i
<1>1. \E n \in T : \A i \in T : n <= i
  BY LeastNumber
<1> QED  BY <1>1 DEF Min

\* The greatest of some of the numbers up to n, and 0.
LEMMA GreatestOf ==
  ASSUME NEW n \in Nat, NEW T, T \in SUBSET (0..n), T # {}
  PROVE  Max(T) \in T /\ \A i \in T : i <= Max(T)
<1> DEFINE U == {n - i : i \in T}
<1>1. U \in SUBSET Nat /\ U # {}
  <2>1. \A i \in T : n - i \in Nat
    OBVIOUS
  <2>2. PICK i \in T : TRUE
    OBVIOUS
  <2>3. n - i \in U
    BY <2>2
  <2> QED  BY <2>1, <2>3
<1>2. PICK u \in U : \A w \in U : u <= w
  BY <1>1, LeastNumber
<1>3. PICK k \in T : u = n - k
  BY <1>2
<1>4. \A i \in T : i <= k
  <2> SUFFICES ASSUME NEW i \in T PROVE i <= k
    OBVIOUS
  <2>1. n - i \in U /\ i \in Nat /\ k \in Nat
    BY <1>3
  <2>2. n - k <= n - i
    BY <1>2, <1>3, <2>1
  <2> QED  BY <2>1, <2>2
<1>5. \E m \in T : \A i \in T : m >= i
  BY <1>3, <1>4
<1>6. Max(T) \in T /\ \A i \in T : Max(T) >= i
  BY <1>5 DEF Max
<1> QED  BY <1>6

\* A line without a line break is its first line.
LEMMA WholeLine ==
  ASSUME NEW s \in Seq(Nat), \A i \in 1..Len(s) : s[i] # LineBreak
  PROVE  FirstLine(s) = s
<1> DEFINE T == {i \in DOMAIN s : s[i] = LineBreak} \cup {Len(s) + 1}
<1>1. T = {Len(s) + 1} /\ Len(s) \in Nat
  OBVIOUS
<1>2. Min(T) = Len(s) + 1
  BY <1>1, LeastOf
<1> HIDE DEF T
<1>3. FirstLine(s) = SubSeq(s, 1, Min(T) - 1)
  BY DEF FirstLine, T
<1> QED  BY <1>1, <1>2, <1>3

\* TrimSpace takes what lies between the first and the last character that is
\* not blank.
LEMMA TrimIs ==
  ASSUME NEW s \in Seq(Nat), NEW i \in 1..Len(s), s[i] \notin Blank
  PROVE  \E p, q \in 1..Len(s) :
           /\ TrimSpace(s) = SubSeq(s, p, q)
           /\ s[p] \notin Blank /\ s[q] \notin Blank
           /\ \A k \in 1..Len(s) : s[k] \notin Blank => p <= k /\ k <= q
<1> DEFINE kept == {k \in DOMAIN s : s[k] \notin Blank}
           P == kept \cup {Len(s) + 1}
           Q == kept \cup {0}
           p == Min(P)
           q == Max(Q)
<1>1. DOMAIN s = 1..Len(s) /\ Len(s) \in Nat /\ i \in kept
  OBVIOUS
<1>2. P \in SUBSET Nat /\ P # {} /\ Q \in SUBSET (0..Len(s)) /\ Q # {}
  BY <1>1
<1>3. p \in P /\ (\A k \in P : p <= k) /\ q \in Q /\ (\A k \in Q : k <= q)
  BY <1>1, <1>2, LeastOf, GreatestOf
<1>4. TrimSpace(s) = SubSeq(s, p, q)
  BY DEF TrimSpace
<1> HIDE DEF p, q
<1>5. p <= i /\ i <= q
  BY <1>3
<1>6. p \in kept /\ q \in kept
  BY <1>1, <1>3, <1>5
<1>7. \A k \in 1..Len(s) : s[k] \notin Blank => p <= k /\ k <= q
  BY <1>1, <1>3
<1> QED  BY <1>1, <1>4, <1>6, <1>7

\* Where neither end is blank TrimSpace changes nothing.
LEMMA TrimNothing ==
  ASSUME NEW s \in Seq(Nat), s # <<>> => s[1] \notin Blank /\ s[Len(s)] \notin Blank
  PROVE  TrimSpace(s) = s
<1>1. CASE s = <<>>
  <2>1. DOMAIN s = {} /\ Len(s) = 0
    BY <1>1
  <2> DEFINE kept == {k \in DOMAIN s : s[k] \notin Blank}
  <2>2. kept \cup {Len(s) + 1} = {1} /\ kept \cup {0} = {0}
    BY <2>1
  <2>3. Min({1}) = 1 /\ Max({0}) = 0
    <3>1. Min({1}) \in {1}
      BY LeastOf
    <3>2. Max({0}) \in {0}
      <4>1. {0} \in SUBSET (0..0)
        OBVIOUS
      <4> QED  BY <4>1, GreatestOf
    <3> QED  BY <3>1, <3>2
  <2>4. TrimSpace(s) = SubSeq(s, 1, 0)
    BY <2>2, <2>3 DEF TrimSpace
  <2> QED  BY <1>1, <2>4
<1>2. CASE s # <<>>
  <2>1. 1 \in 1..Len(s) /\ Len(s) \in 1..Len(s)
    BY <1>2
  <2>2. s[1] \notin Blank /\ s[Len(s)] \notin Blank
    BY <1>2
  <2>3. PICK p, q \in 1..Len(s) :
          /\ TrimSpace(s) = SubSeq(s, p, q)
          /\ \A k \in 1..Len(s) : s[k] \notin Blank => p <= k /\ k <= q
    BY <2>1, <2>2, TrimIs
  <2>4. p = 1 /\ q = Len(s)
    BY <2>1, <2>2, <2>3
  <2> QED  BY <2>3, <2>4
<1> QED  BY <1>1, <1>2

\* Of digits TrimSpace takes none.
LEMMA TrimDigits ==
  ASSUME NEW s \in Seq(Nat), \A i \in 1..Len(s) : s[i] \in Digit
  PROVE  TrimSpace(s) = s /\ FirstLine(s) = s
<1>1. s # <<>> => 1 \in 1..Len(s) /\ Len(s) \in 1..Len(s)
  OBVIOUS
<1>2. TrimSpace(s) = s
  BY <1>1, DigitsArePlain, TrimNothing
<1>3. \A i \in 1..Len(s) : s[i] # LineBreak
  BY DigitsArePlain
<1> QED  BY <1>2, <1>3, WholeLine

\* What the line does to s is one run.
Damaged(s, r) ==
  \/ r = s
  \/ /\ r \in Seq(Nat)
     /\ \E a, j, k \in Nat : (j = 0 \/ k = 0) /\ Shifted(r, s, a, j, k)

\* A run of characters lost on the line is damage in that sense.
LEMMA CutIsDamage ==
  ASSUME NEW s \in Seq(Nat), NEW a \in 0..Len(s), NEW k \in 1..(Len(s) - a)
  PROVE  Damaged(s, Without(s, a, k))
<1> DEFINE r == Without(s, a, k)
<1>1. r = [i \in 1..(Len(s) - k) |-> IF i <= a THEN s[i] ELSE s[i + k]]
  BY DEF Without
<1>2. Len(s) - k \in Nat /\ a \in Nat /\ k \in Nat /\ Len(s) \in Nat
  OBVIOUS
<1>3. \A i \in 1..(Len(s) - k) : i \in 1..Len(s) /\ i + k \in 1..Len(s)
  BY <1>2
<1>4. \A i \in 1..(Len(s) - k) : (IF i <= a THEN s[i] ELSE s[i + k]) \in Nat
  BY <1>3
<1> HIDE DEF r
<1>5. r \in Seq(Nat) /\ Len(r) = Len(s) - k
  BY <1>1, <1>2, <1>4
<1>6. Len(r) = Len(s) - k + 0
  BY <1>2, <1>5
<1>7. ASSUME NEW i \in 1..a PROVE r[i] = s[i]
  <2>1. i \in 1..(Len(s) - k) /\ i <= a
    BY <1>2
  <2> QED BY <2>1, <1>1
<1>8. ASSUME NEW i \in (a + 0 + 1)..Len(r) PROVE r[i] = s[i - 0 + k]
  <2>1. i \in 1..(Len(s) - k) /\ ~(i <= a) /\ i - 0 + k = i + k
    BY <1>2, <1>5
  <2> QED BY <2>1, <1>1
<1>9. Shifted(r, s, a, 0, k)
  BY <1>6, <1>7, <1>8 DEF Shifted
<1> QED BY <1>2, <1>5, <1>9 DEF Damaged, r

\* The characters of a line with a run inserted.
LEMMA WithIs ==
  ASSUME NEW s \in Seq(Nat), NEW a \in 0..Len(s), NEW junk \in Seq(Nat)
  PROVE  LET r == With(s, a, junk)
             j == Len(junk)
         IN  /\ r \in Seq(Nat) /\ Len(r) = Len(s) + j
             /\ \A i \in 1..a : r[i] = s[i]
             /\ \A i \in (a + 1)..(a + j) : r[i] = junk[i - a]
             /\ \A i \in (a + j + 1)..(Len(s) + j) : r[i] = s[i - j]
<1> DEFINE r == With(s, a, junk)
           j == Len(junk)
<1>1. r = [i \in 1..(Len(s) + j) |->
            IF i <= a THEN s[i] ELSE IF i <= a + j THEN junk[i - a] ELSE s[i - j]]
  BY DEF With
<1>2. j \in Nat /\ a \in Nat /\ Len(s) \in Nat /\ Len(s) + j \in Nat
  OBVIOUS
<1>3. ASSUME NEW i \in 1..(Len(s) + j)
      PROVE  (IF i <= a THEN s[i] ELSE IF i <= a + j THEN junk[i - a] ELSE s[i - j]) \in Nat
  <2>1. CASE i <= a
    BY <2>1, <1>2
  <2>2. CASE ~(i <= a) /\ i <= a + j
    <3>1. i - a \in 1..j
      BY <2>2, <1>2
    <3>2. junk[i - a] \in Nat
      BY <3>1
    <3> QED BY <2>2, <3>2
  <2>3. CASE ~(i <= a) /\ ~(i <= a + j)
    <3>1. i - j \in 1..Len(s)
      BY <2>3, <1>2
    <3>2. s[i - j] \in Nat
      BY <3>1
    <3> QED BY <2>3, <3>2
  <2> QED BY <2>1, <2>2, <2>3
<1> HIDE DEF r
<1>4. r \in Seq(Nat) /\ Len(r) = Len(s) + j
  BY <1>1, <1>2, <1>3
<1> HIDE DEF j
<1>5. ASSUME NEW i \in 1..a PROVE r[i] = s[i]
  <2>1. i \in 1..(Len(s) + j) /\ i <= a
    BY <1>2
  <2> QED BY <2>1, <1>1
<1>6. ASSUME NEW i \in (a + 1)..(a + j) PROVE r[i] = junk[i - a]
  <2>1. i \in 1..(Len(s) + j) /\ ~(i <= a) /\ i <= a + j
    BY <1>2
  <2> QED BY <2>1, <1>1
<1>7. ASSUME NEW i \in (a + j + 1)..(Len(s) + j) PROVE r[i] = s[i - j]
  <2>1. i \in 1..(Len(s) + j) /\ ~(i <= a) /\ ~(i <= a + j)
    BY <1>2
  <2> QED BY <2>1, <1>1
<1> QED BY <1>4, <1>5, <1>6, <1>7 DEF r, j

\* A run of characters inserted is damage too.
LEMMA ShiftIsDamage ==
  ASSUME NEW s \in Seq(Nat), NEW a \in 0..Len(s), NEW junk \in Seq(Nat)
  PROVE  Damaged(s, With(s, a, junk))
<1> DEFINE r == With(s, a, junk)
           j == Len(junk)
<1>1. /\ r \in Seq(Nat) /\ Len(r) = Len(s) + j
      /\ \A i \in 1..a : r[i] = s[i]
      /\ \A i \in (a + j + 1)..(Len(s) + j) : r[i] = s[i - j]
  BY WithIs
<1>2. j \in Nat /\ a \in Nat /\ Len(s) \in Nat
  OBVIOUS
<1> HIDE DEF r, j
<1>3. Len(r) = Len(s) - 0 + j
  BY <1>1, <1>2
<1>4. ASSUME NEW i \in (a + j + 1)..Len(r) PROVE r[i] = s[i - j + 0]
  <2>1. i \in (a + j + 1)..(Len(s) + j) /\ i - j + 0 = i - j
    BY <1>1, <1>2
  <2> QED BY <1>1, <2>1
<1>5. Shifted(r, s, a, j, 0)
  BY <1>1, <1>3, <1>4 DEF Shifted
<1> QED BY <1>1, <1>2, <1>5 DEF Damaged, r

\* Damage is noticed by DecodePDU, or makes no difference to it.
LEMMA DamageIsHarmless ==
  ASSUME NEW s, NEW L \in Nat, WellFormed(s, L), NEW r, Damaged(s, r),
         DecodePDU(r, L) # Fail
  PROVE  DecodePDU(r, L) = DecodePDU(s, L)
<1>1. CASE r = s
  BY <1>1
<1>2. ASSUME r \in Seq(Nat), NEW a \in Nat, NEW j \in Nat, NEW k \in Nat,
             j = 0 \/ k = 0, Shifted(r, s, a, j, k)
      PROVE  DecodePDU(r, L) = DecodePDU(s, L)
  BY <1>2, ShiftedDecodesSame
<1> QED BY <1>1, <1>2 DEF Damaged

\* What SubSeq takes of a sequence.
LEMMA SubSeqIs ==
  ASSUME NEW r \in Seq(Nat), NEW p \in 1..Len(r), NEW q \in 1..Len(r), p <= q
  PROVE  /\ SubSeq(r, p, q) \in Seq(Nat) /\ Len(SubSeq(r, p, q)) = q - p + 1
         /\ \A i \in 1..(q - p + 1) : SubSeq(r, p, q)[i] = r[p + i - 1]
<1>1. Len(SubSeq(r, p, q)) = q - p + 1
  OBVIOUS
<1>2. \A i \in 1..(q - p + 1) : SubSeq(r, p, q)[i] = r[p + i - 1]
  OBVIOUS
<1>3. SubSeq(r, p, q) \in Seq(Nat)
  <2>1. \A i \in p..q : r[i] \in Nat
    OBVIOUS
  <2> QED  BY <2>1
<1> QED  BY <1>1, <1>2, <1>3

\* Blanks that were inserted and then trimmed make the inserted run shorter.
LEMMA TrimmedShift ==
  ASSUME NEW s \in Seq(Nat), s # <<>>, \A i \in 1..Len(s) : s[i] \in Digit,
         NEW a \in 0..Len(s), NEW junk \in Seq(Nat)
  PROVE  Damaged(s, TrimSpace(With(s, a, junk)))
<1> DEFINE r == With(s, a, junk)
           j == Len(junk)
           n == Len(s)
<1>0. /\ r \in Seq(Nat) /\ Len(r) = Len(s) + j
      /\ \A i \in 1..a : r[i] = s[i]
      /\ \A i \in (a + j + 1)..(Len(s) + j) : r[i] = s[i - j]
  BY WithIs
<1>1. r \in Seq(Nat) /\ Len(r) = n + j /\ n \in Nat \ {0} /\ j \in Nat /\ a \in 0..n
  <2>1. n \in Nat /\ n # 0 /\ j \in Nat
    OBVIOUS
  <2> QED  BY <1>0, <2>1
<1> HIDE DEF r, j
<1>2. \A i \in 1..a : i \in 1..Len(r) /\ r[i] = s[i] /\ i \in 1..n
  BY <1>0, <1>1
<1>3. \A i \in (a + j + 1)..(n + j) : i \in 1..Len(r) /\ r[i] = s[i - j] /\ i - j \in 1..n
  BY <1>0, <1>1
<1> HIDE DEF n
<1>4. \A i \in 1..a : r[i] \notin Blank
  BY <1>2, DigitsArePlain DEF n
<1>5. \A i \in (a + j + 1)..(n + j) : r[i] \notin Blank
  BY <1>3, DigitsArePlain DEF n
<1>6. \E i \in 1..Len(r) : r[i] \notin Blank
  <2>1. CASE a >= 1
    <3>1. 1 \in 1..a
      BY <1>1, <2>1
    <3> QED  BY <1>2, <1>4, <3>1
  <2>2. CASE a = 0
    <3>1. n + j \in (a + j + 1)..(n + j)
      BY <1>1, <2>2
    <3> QED  BY <1>3, <1>5, <3>1
  <2> QED  BY <1>1, <2>1, <2>2
<1>7. PICK p, q \in 1..Len(r) :
        /\ TrimSpace(r) = SubSeq(r, p, q)
        /\ r[p] \notin Blank /\ r[q] \notin Blank
        /\ \A k \in 1..Len(r) : r[k] \notin Blank => p <= k /\ k <= q
  BY <1>1, <1>6, TrimIs
<1>8. p <= q
  BY <1>7
<1>9. p = 1 \/ (a = 0 /\ p <= j + 1)
  <2>1. CASE a >= 1
    <3>1. 1 \in 1..a /\ 1 \in 1..Len(r)
      BY <1>1, <1>2, <2>1
    <3>2. p <= 1
      BY <1>4, <1>7, <3>1
    <3> QED  BY <1>1, <1>7, <3>2
  <2>2. CASE a = 0
    <3>1. j + 1 \in (a + j + 1)..(n + j)
      BY <1>1, <2>2
    <3>2. p <= j + 1
      BY <1>3, <1>5, <1>7, <3>1
    <3> QED  BY <2>2, <3>2
  <2> QED  BY <1>1, <2>1, <2>2
<1>10. q = n + j \/ (a = n /\ a <= q)
  <2>1. CASE a < n
    <3>1. n + j \in (a + j + 1)..(n + j)
      BY <1>1, <2>1
    <3>2. n + j <= q
      BY <1>3, <1>5, <1>7, <3>1
    <3> QED  BY <1>1, <1>7, <3>2
  <2>2. CASE a = n
    <3>1. a \in 1..a /\ a \in 1..Len(r)
      BY <1>1, <1>2, <2>2
    <3>2. a <= q
      BY <1>4, <1>7, <3>1
    <3> QED  BY <2>2, <3>2
  <2> QED  BY <1>1, <2>1, <2>2
<1> DEFINE t == SubSeq(r, p, q)
<1>11. /\ t \in Seq(Nat) /\ Len(t) = q - p + 1
       /\ \A i \in 1..(q - p + 1) : t[i] = r[p + i - 1]
  BY <1>1, <1>8, SubSeqIs
<1>15. p \in 1..(n + j) /\ q \in 1..(n + j) /\ p <= q
  BY <1>1, <1>7, <1>8
<1> HIDE DEF t
<1>12. CASE p = 1 /\ q = n + j
  <2>1. t = r
    BY <1>1, <1>12 DEF t
  <2> QED  BY <1>7, <2>1, ShiftIsDamage DEF t, r
<1>13. CASE p = 1 /\ a = n /\ a <= q
  <2>1. q - a \in Nat /\ a \in Nat /\ Len(t) = n - 0 + (q - a)
    BY <1>1, <1>15, <1>11, <1>13
  <2>2. \A i \in 1..a : t[i] = s[i]
    <3> SUFFICES ASSUME NEW i \in 1..a PROVE t[i] = s[i]
      OBVIOUS
    <3>1. i \in 1..(q - p + 1) /\ p + i - 1 = i
      BY <1>1, <1>7, <1>13
    <3> QED  BY <1>2, <1>11, <3>1
  <2>3. \A i \in (a + (q - a) + 1)..Len(t) : t[i] = s[i - (q - a) + 0]
    BY <1>1, <1>7, <1>11, <1>13
  <2>4. Shifted(t, s, a, q - a, 0)
    BY <2>1, <2>2, <2>3 DEF Shifted, n
  <2> QED  BY <1>7, <1>11, <2>1, <2>4 DEF Damaged, t, r
<1>14. CASE a = 0 /\ p <= j + 1 /\ q = n + j
  <2> DEFINE h == j + 1 - p
  <2>1. h \in Nat /\ a \in Nat /\ Len(t) = n - 0 + h
    BY <1>1, <1>15, <1>11, <1>14
  <2>2. \A i \in 1..a : t[i] = s[i]
    BY <1>14
  <2>3. \A i \in (a + h + 1)..Len(t) : t[i] = s[i - h + 0]
    <3> SUFFICES ASSUME NEW i \in (a + h + 1)..Len(t) PROVE t[i] = s[i - h + 0]
      OBVIOUS
    <3>1. i \in Nat /\ h + 1 <= i /\ i <= n + h /\ h = j + 1 - p /\ q = n + j /\ a = 0
      <4>1. h = j + 1 - p /\ q = n + j /\ a = 0
        BY <1>14
      <4> HIDE DEF h
      <4>2. n - 0 + h = n + h /\ h \in Nat /\ n \in Nat
        BY <1>1, <2>1
      <4>3. i \in (h + 1)..(n + h)
        <5>1. a + h + 1 = h + 1 /\ Len(t) = n + h
          BY <2>1, <4>1, <4>2
        <5> QED  BY <5>1
      <4> QED  BY <4>1, <4>2, <4>3
    <3> HIDE DEF h
    <3>2. n \in Nat /\ j \in Nat /\ p \in Nat /\ h \in Nat
      BY <1>1, <1>15, <2>1
    <3>3. PICK k : k = p + i - 1
      OBVIOUS
    <3>4. i \in 1..(q - p + 1) /\ k \in (a + j + 1)..(n + j) /\ k - j = i - h + 0
      BY <3>1, <3>2, <3>3
    <3>5. t[i] = r[k]
      BY <1>11, <3>3, <3>4
    <3>6. r[k] = s[k - j]
      BY <1>3, <3>4
    <3> QED  BY <3>4, <3>5, <3>6
  <2> HIDE DEF h
  <2>4. Shifted(t, s, a, h, 0)
    BY <2>1, <2>2, <2>3 DEF Shifted, n
  <2> QED  BY <1>7, <1>11, <2>1, <2>4 DEF Damaged, t, r
<1> QED  BY <1>1, <1>9, <1>10, <1>12, <1>13, <1>14

-----------------------------------------------------------------------------
\* The lines are those of the message, up to the damage, and the event is what
\* the parser makes of them.
IndInv ==
  /\ pc \in {"idle", "sent", "received", "parsed"}
  /\ message \in Messages
  /\ pc # "idle" => header = HeaderLine(message) /\ sent = BodyLine(message)
  /\ pc \in {"received", "parsed"} /\ message.mode # "text" => Damaged(sent, TrimSpace(body))
  /\ pc = "parsed" => event = ParseCMTIndication(<<header, body>>)

\* What the modem writes in PDU mode are digits.
LEMMA DigitsSent ==
  ASSUME NEW m \in Messages, m.mode # "text"
  PROVE  /\ BodyLine(m) \in Seq(Nat) /\ BodyLine(m) # <<>>
         /\ \A i \in 1..Len(BodyLine(m)) : BodyLine(m)[i] \in Digit
  BY SentIsWellFormed DEF WellFormed, IsHex

\* A line with a run lost reaches the parser as it is.
LEMMA CutArrives ==
  ASSUME NEW s \in Seq(Nat), \A i \in 1..Len(s) : s[i] \in Digit,
         NEW a \in 0..Len(s), NEW k \in 1..(Len(s) - a)
  PROVE  Damaged(s, TrimSpace(FirstLine(Without(s, a, k))))
<1> DEFINE r == Without(s, a, k)
<1>1. r = [i \in 1..(Len(s) - k) |-> IF i <= a THEN s[i] ELSE s[i + k]]
  BY DEF Without
<1>2. Len(s) - k \in Nat /\ \A i \in 1..(Len(s) - k) : i \in 1..Len(s) /\ i + k \in 1..Len(s)
  OBVIOUS
<1>3. \A i \in 1..(Len(s) - k) : (IF i <= a THEN s[i] ELSE s[i + k]) \in Digit
  BY <1>2
<1> HIDE DEF r
<1>4. r \in Seq(Nat) /\ \A i \in 1..Len(r) : r[i] \in Digit
  <2> DEFINE n == Len(s) - k
             x(i) == IF i <= a THEN s[i] ELSE s[i + k]
  <2>1. n \in Nat /\ r = [i \in 1..n |-> x(i)] /\ \A i \in 1..n : x(i) \in Digit
    BY <1>1, <1>2, <1>3
  <2> HIDE DEF n, x
  <2>2. r \in [1..n -> Digit]
    BY <2>1
  <2>3. r \in [1..n -> Nat]
    <3>1. Digit \subseteq Nat
      BY DEF Digit
    <3> QED  BY <2>1, <3>1
  <2>4. Len(r) = n
    BY <2>1, <2>3
  <2>5. r \in Seq(Nat)
    BY <2>1, <2>3
  <2> QED  BY <2>2, <2>4, <2>5
<1>5. TrimSpace(r) = r /\ FirstLine(r) = r
  BY <1>4, TrimDigits
<1> QED  BY <1>5, CutIsDamage DEF r

\* A line with a run inserted reaches it without the blanks at its ends.
LEMMA ShiftArrives ==
  ASSUME NEW s \in Seq(Nat), s # <<>>, \A i \in 1..Len(s) : s[i] \in Digit,
         NEW a \in 0..Len(s), NEW junk \in Seq(Nat \ {LineBreak})
  PROVE  Damaged(s, TrimSpace(FirstLine(With(s, a, junk))))
<1> DEFINE r == With(s, a, junk)
           j == Len(junk)
<1>1. junk \in Seq(Nat) /\ j \in Nat /\ \A i \in 1..j : junk[i] # LineBreak
  OBVIOUS
<1>2. /\ r \in Seq(Nat) /\ Len(r) = Len(s) + j
      /\ \A i \in 1..a : r[i] = s[i]
      /\ \A i \in (a + 1)..(a + j) : r[i] = junk[i - a]
      /\ \A i \in (a + j + 1)..(Len(s) + j) : r[i] = s[i - j]
  BY <1>1, WithIs
<1> HIDE DEF r, j
<1>3. ASSUME NEW i \in 1..Len(r) PROVE r[i] # LineBreak
  <2>1. CASE i \in 1..a
    <3>1. i \in 1..Len(s)
      BY <2>1
    <3> QED  BY <1>2, <2>1, <3>1, DigitsArePlain
  <2>2. CASE i \in (a + 1)..(a + j)
    <3>1. i - a \in 1..j
      BY <1>1, <2>2
    <3> QED  BY <1>1, <1>2, <2>2, <3>1
  <2>3. CASE i \in (a + j + 1)..(Len(s) + j)
    <3>1. i - j \in 1..Len(s)
      BY <1>1, <2>3
    <3> QED  BY <1>2, <2>3, <3>1, DigitsArePlain
  <2> QED  BY <1>1, <1>2, <2>1, <2>2, <2>3
<1>4. FirstLine(r) = r
  BY <1>2, <1>3, WholeLine
<1> QED  BY <1>1, <1>4, TrimmedShift DEF r

\* A parsed event is what ParseCMTIndication makes of a line that is the message's
\* or carries one run of damage.
THEOREM PduInvariant == Spec => []IndInv
<1> USE DEF IndInv
<1>1. Init => IndInv
  BY DEF Init
<1>2. IndInv /\ [Next]_vars => IndInv'
  <2> SUFFICES ASSUME IndInv, [Next]_vars PROVE IndInv'
    OBVIOUS
  <2>1. CASE Send
    BY <2>1 DEF Send
  <2>2. ASSUME NEW line, Arrive(line),
               message.mode # "text" => Damaged(sent, TrimSpace(FirstLine(line)))
        PROVE  IndInv'
    BY <2>2 DEF Arrive
  <2>3. CASE ArriveIntact
    <3>1. Arrive(sent)
      BY <2>3 DEF ArriveIntact
    <3>2. message.mode # "text" => TrimSpace(FirstLine(sent)) = sent
      BY <3>1, DigitsSent, TrimDigits DEF Arrive
    <3> QED BY <2>2, <3>1, <3>2 DEF Damaged
  <2>4. CASE ArriveCut
    <3>1. PICK a \in 0..Len(sent) : \E k \in 1..(Len(sent) - a) : Arrive(Without(sent, a, k))
      BY <2>4 DEF ArriveCut
    <3>2. PICK k \in 1..(Len(sent) - a) : Arrive(Without(sent, a, k))
      BY <3>1
    <3>3. message.mode # "text" => Damaged(sent, TrimSpace(FirstLine(Without(sent, a, k))))
      BY <3>2, DigitsSent, CutArrives DEF Arrive
    <3> QED BY <2>2, <3>2, <3>3
  <2>5. CASE ArriveShifted
    <3>1. PICK a \in 0..Len(sent), junk \in Junk : Arrive(With(sent, a, junk))
      BY <2>5 DEF ArriveShifted
    <3>2. junk \in Seq(Nat \ {LineBreak})
      BY MessageAssumption
    <3>3. message.mode # "text" => Damaged(sent, TrimSpace(FirstLine(With(sent, a, junk))))
      BY <3>1, <3>2, DigitsSent, ShiftArrives DEF Arrive
    <3> QED BY <2>2, <3>1, <3>3
  <2>6. CASE Parse
    BY <2>6 DEF Parse
  <2>7. CASE UNCHANGED vars \/ Done
    BY <2>7 DEF vars, Done
  <2> QED BY <2>1, <2>3, <2>4, <2>5, <2>6, <2>7 DEF Next
<1> QED BY <1>1, <1>2, PTL DEF Spec

\* What ParseCMTIndication makes of a line behind the header of a PDU.
LEMMA PduIndication ==
  ASSUME NEW L, NEW line
  PROVE  ParseCMTIndication(<<[mode |-> "pdu", length |-> L], line>>)
           = IF IsHex(TrimSpace(line)) THEN DecodePDU(TrimSpace(line), L) ELSE Fail
<1> DEFINE h == [mode |-> "pdu", length |-> L]
           lines == <<h, line>>
<1>1. lines[1] = h /\ lines[2] = line /\ ~(Len(lines) < 2) /\ h.mode = "pdu" /\ h.length = L
  OBVIOUS
<1> HIDE DEF lines, h
<1>2. ParseCMTIndication(lines)
        = IF IsHex(TrimSpace(line)) THEN DecodePDU(TrimSpace(line), L) ELSE Fail
  BY <1>1 DEF ParseCMTIndication
<1> QED  BY <1>2 DEF lines, h

\* In PDU mode no single run of lost or inserted characters makes the program
\* report a message that was not sent.
THEOREM PartialReads == Spec => []PartialReadSafe
<1>1. IndInv => PartialReadSafe
  <2> SUFFICES ASSUME IndInv, pc = "parsed", header.mode = "pdu", event.ok
               PROVE  event = ParseCMTIndication(<<header, sent>>)
    BY DEF PartialReadSafe
  <2>1. /\ message \in Messages /\ header = HeaderLine(message) /\ sent = BodyLine(message)
        /\ event = ParseCMTIndication(<<header, body>>)
    BY DEF IndInv
  <2>2. message.mode # "text"
    BY <2>1 DEF HeaderLine
  <2>3. Damaged(sent, TrimSpace(body))
    BY <2>2 DEF IndInv
  <2> DEFINE L == Len(EncodeTPDU(message))
             r == TrimSpace(body)
  <2>4. WellFormed(sent, L) /\ header = [mode |-> "pdu", length |-> L]
    BY <2>1, <2>2, SentIsWellFormed
  <2>5. L \in Nat
    BY <2>1, <2>2, MessageAssumption
  <2> HIDE DEF L
  <2>6. \A line : ParseCMTIndication(<<header, line>>)
                    = IF IsHex(TrimSpace(line)) THEN DecodePDU(TrimSpace(line), L) ELSE Fail
    BY <2>4, PduIndication
  <2>7. event # Fail
    BY DEF Fail
  <2>8. event = DecodePDU(r, L)
    BY <2>1, <2>6, <2>7
  <2>9. DecodePDU(r, L) = DecodePDU(sent, L)
    BY <2>3, <2>4, <2>5, <2>7, <2>8, DamageIsHarmless
  <2>10. IsHex(sent) /\ TrimSpace(sent) = sent
    BY <2>1, <2>2, <2>4, DigitsSent, TrimDigits DEF WellFormed
  <2> QED BY <2>6, <2>8, <2>9, <2>10
<1> QED BY <1>1, PduInvariant, PTL

-----------------------------------------------------------------------------
(* Sequences in a row.                                                     *)

\* Counting up from 0 to n.
LEMMA UpTo ==
  ASSUME NEW n \in Nat, NEW P, 0 \in P, \A i \in 1..n : i - 1 \in P => i \in P
  PROVE  \A i \in 0..n : i \in P
<1> DEFINE T == {i \in 0..n : i \notin P}
<1> SUFFICES ASSUME T # {} PROVE FALSE
  OBVIOUS
<1>1. PICK i \in T : \A j \in T : i <= j
  <2>1. T \in SUBSET Nat
    OBVIOUS
  <2> QED  BY <2>1, LeastNumber
<1>2. i \in 1..n /\ i - 1 \in 0..n /\ i - 1 \in P
  BY <1>1
<1> QED  BY <1>2

\* f[m] is the first m of the sequences q in a row.
Joins(f, q, m) == DOMAIN f = 0..m /\ f[0] = <<>> /\ \A i \in 1..m : f[i] = f[i - 1] \o q[i]

\* Sequences can be joined one after the other.
LEMMA JoinsExist ==
  ASSUME NEW q \in Seq(Seq(Nat)), NEW n \in Nat, n <= Len(q)
  PROVE  \E f \in [0..n -> Seq(Nat)] : Joins(f, q, n)
<1> DEFINE P == {m \in 0..n : \E f \in [0..m -> Seq(Nat)] : Joins(f, q, m)}
<1>1. 0 \in P
  <2> DEFINE f == [k \in 0..0 |-> <<>>]
  <2>1. f \in [0..0 -> Seq(Nat)] /\ Joins(f, q, 0)
    BY DEF Joins
  <2> HIDE DEF f
  <2> QED  BY <2>1
<1>2. ASSUME NEW m \in 1..n, m - 1 \in P PROVE m \in P
  <2>1. PICK f \in [0..(m - 1) -> Seq(Nat)] : Joins(f, q, m - 1)
    BY <1>2
  <2>2. m \in 1..Len(q) /\ m - 1 \in 0..(m - 1)
    OBVIOUS
  <2>3. q[m] \in Seq(Nat) /\ f[m - 1] \in Seq(Nat)
    BY <2>2
  <2> DEFINE last == f[m - 1] \o q[m]
             g == [k \in 0..m |-> IF k = m THEN last ELSE f[k]]
  <2>4. last \in Seq(Nat)
    BY <2>3
  <2> HIDE DEF last
  <2>5. g \in [0..m -> Seq(Nat)]
    <3> SUFFICES ASSUME NEW k \in 0..m, k # m PROVE f[k] \in Seq(Nat)
      BY <2>4
    <3>1. k \in 0..(m - 1)
      OBVIOUS
    <3> QED  BY <3>1
  <2>6. g[m] = last /\ \A k \in 0..(m - 1) : g[k] = f[k]
    OBVIOUS
  <2> HIDE DEF g
  <2>7. DOMAIN g = 0..m
    BY <2>5
  <2>8. g[0] = <<>>
    <3>1. 0 \in 0..(m - 1)
      OBVIOUS
    <3> QED  BY <2>1, <2>6, <3>1 DEF Joins
  <2>9. ASSUME NEW i \in 1..m PROVE g[i] = g[i - 1] \o q[i]
    <3>1. CASE i = m
      BY <2>2, <2>6, <3>1 DEF last
    <3>2. CASE i # m
      <4>1. i \in 1..(m - 1) /\ i \in 0..(m - 1) /\ i - 1 \in 0..(m - 1)
        BY <3>2
      <4>2. f[i] = f[i - 1] \o q[i]
        BY <2>1, <4>1 DEF Joins
      <4> QED  BY <2>6, <4>1, <4>2
    <3> QED  BY <3>1, <3>2
  <2>10. Joins(g, q, m)
    BY <2>7, <2>8, <2>9 DEF Joins
  <2> QED  BY <2>5, <2>10
<1>3. \A m \in 0..n : m \in P
  <2> HIDE DEF P
  <2> QED  BY <1>1, <1>2, UpTo
<1> QED  BY <1>3

\* FlattenSeq joins all of them.
LEMMA FlattenJoins ==
  ASSUME NEW q \in Seq(Seq(Nat)), NEW f \in [0..Len(q) -> Seq(Nat)], Joins(f, q, Len(q))
  PROVE  FlattenSeq(q) = f[Len(q)]
<1> DEFINE n == Len(q)
<1>a. f[0] = <<>>
  BY DEF Joins
<1>b. \A i \in 1..n : f[i] = f[i - 1] \o q[i]
  BY DEF Joins
<1>c. \A i \in 1..n : q[i] \in Seq(Nat)
  OBVIOUS
<1>d. ASSUME 1 \in 1..n PROVE f[1] = q[1]
  <2>1. f[1] = f[1 - 1] \o q[1]
    BY <1>b, <1>d
  <2>2. f[1] = <<>> \o q[1]
    <3>1. 1 - 1 = 0
      OBVIOUS
    <3> QED  BY <2>1, <3>1, <1>a, Zenon
  <2>3. <<>> \o q[1] = q[1]
    BY <1>c, <1>d, ConcatEmptySeq
  <2> QED  BY <2>2, <2>3
<1>1. CASE n = 0
  <2>1. q = <<>>
    BY <1>1
  <2> QED  BY <1>1, <2>1 DEF FlattenSeq, Joins
<1>2. CASE n # 0
  <2> DEFINE flatten[i \in 1..n] == IF i = 1 THEN q[i] ELSE flatten[i - 1] \o q[i]
             g == [i \in 1..n |-> f[i]]
  <2>1. n \in Nat
    OBVIOUS
  <2>2. g = [i \in 1..n |-> IF i = 1 THEN q[i] ELSE g[i - 1] \o q[i]]
    <3>1. ASSUME NEW i \in 1..n PROVE f[i] = IF i = 1 THEN q[i] ELSE g[i - 1] \o q[i]
      <4>1. f[i] = f[i - 1] \o q[i]
        BY <1>b
      <4>2. CASE i = 1
        BY <4>2, <1>d
      <4>3. CASE i # 1
        <5>1. i - 1 \in 1..n
          BY <2>1, <4>3
        <5>2. g[i - 1] = f[i - 1]
          BY <5>1
        <5> QED  BY <4>1, <4>3, <5>2
      <4> QED  BY <4>2, <4>3
    <3> QED  BY <3>1
  <2>3. flatten = [i \in 1..n |-> IF i = 1 THEN q[i] ELSE flatten[i - 1] \o q[i]]
    <3> HIDE DEF g, n
    <3> QED  BY <2>2
  <2> HIDE DEF g
  <2>4. \A i \in 1..n : flatten[i] = IF i = 1 THEN q[i] ELSE flatten[i - 1] \o q[i]
    <3> HIDE DEF flatten
    <3> QED  BY <2>3
  <2>5. FlattenSeq(q) = flatten[n]
    BY <1>2 DEF FlattenSeq
  <2> HIDE DEF flatten
  <2>6. \A i \in 0..n : i \in {k \in 0..n : k = 0 \/ flatten[k] = f[k]}
    <3> DEFINE P == {k \in 0..n : k = 0 \/ flatten[k] = f[k]}
    <3>1. 0 \in P
      BY <2>1
    <3>2. ASSUME NEW i \in 1..n, i - 1 \in P PROVE i \in P
      <4>1. f[i] = f[i - 1] \o q[i]
        BY <1>b
      <4>2. flatten[i] = f[i]
        <5>1. CASE i = 1
          BY <2>4, <5>1, <1>d
        <5>2. CASE i # 1
          <6>1. i - 1 # 0
            BY <5>2
          <6>2. flatten[i - 1] = f[i - 1]
            BY <3>2, <6>1
          <6> QED  BY <2>4, <4>1, <5>2, <6>2
        <5> QED  BY <5>1, <5>2
      <4> QED  BY <2>1, <4>2
    <3> HIDE DEF P
    <3>3. \A i \in 0..n : i \in P
      BY <2>1, <3>1, <3>2, UpTo
    <3> QED  BY <3>3 DEF P
  <2>7. n \in 0..n
    BY <2>1
  <2> QED  BY <1>2, <2>5, <2>6, <2>7
<1> QED  BY <1>1, <1>2

\* Where the parts of two sequences in a row are.
LEMMA Joined ==
  ASSUME NEW s \in Seq(Nat), NEW t \in Seq(Nat)
  PROVE  /\ s \o t \in Seq(Nat) /\ Len(s \o t) = Len(s) + Len(t)
         /\ \A i \in 1..Len(s) : (s \o t)[i] = s[i]
         /\ \A i \in 1..Len(t) : (s \o t)[Len(s) + i] = t[i]
<1>1. s \o t \in Seq(Nat) /\ Len(s \o t) = Len(s) + Len(t)
  OBVIOUS
<1>2. \A i \in 1..Len(s) : (s \o t)[i] = s[i]
  OBVIOUS
<1>3. \A i \in 1..Len(t) : (s \o t)[Len(s) + i] = t[i]
  OBVIOUS
<1> QED  BY <1>1, <1>2, <1>3

\* What is cut out of a sequence behind place g.
LEMMA PartOf ==
  ASSUME NEW o \in Seq(Nat), NEW g \in Nat, NEW m \in Nat, g + m <= Len(o)
  PROVE  /\ SubSeq(o, g + 1, g + m) \in Seq(Nat) /\ Len(SubSeq(o, g + 1, g + m)) = m
         /\ \A i \in 1..m : SubSeq(o, g + 1, g + m)[i] = o[g + i]
<1> DEFINE a == g + 1
           b == g + m
           v == SubSeq(o, a, b)
<1>1. a \in Int /\ b \in Int /\ \A i \in a..b : o[i] \in Nat
  OBVIOUS
<1>2. b - a + 1 = m /\ (a <= b \/ m = 0) /\ \A i \in 1..m : a + i - 1 = g + i
  OBVIOUS
<1> HIDE DEF a, b
<1>3. /\ v \in Seq(Nat) /\ Len(v) = IF a <= b THEN b - a + 1 ELSE 0
      /\ \A i \in 1..(b - a + 1) : v[i] = o[a + i - 1]
  BY <1>1, SubSeqProperties
<1> HIDE DEF v
<1>4. v \in Seq(Nat) /\ Len(v) = m /\ \A i \in 1..m : v[i] = o[g + i]
  BY <1>1, <1>2, <1>3
<1> QED  BY <1>4 DEF v, a, b

\* A place among l behind a is at most b when a + l is.
LEMMA PlaceWithin ==
  ASSUME NEW a \in Nat, NEW l \in Nat, NEW b \in Nat, a + l <= b, NEW j \in 1..l
  PROVE  a + j \in 1..b
  OBVIOUS

\* What lies behind place g, when the elements of u do.
LEMMA PartIs ==
  ASSUME NEW o \in Seq(Nat), NEW g \in Nat, NEW u \in Seq(Nat), g + Len(u) <= Len(o),
         \A i \in 1..Len(u) : o[g + i] = u[i]
  PROVE  SubSeq(o, g + 1, g + Len(u)) = u
<1> DEFINE n == Len(u)
           v == SubSeq(o, g + 1, g + n)
<1>1. n \in Nat /\ g + n <= Len(o)
  OBVIOUS
<1>2. v \in Seq(Nat) /\ Len(v) = n /\ \A i \in 1..n : v[i] = o[g + i]
  <2> HIDE DEF n
  <2>1. /\ SubSeq(o, g + 1, g + n) \in Seq(Nat) /\ Len(SubSeq(o, g + 1, g + n)) = n
        /\ \A i \in 1..n : SubSeq(o, g + 1, g + n)[i] = o[g + i]
    BY <1>1, PartOf, Zenon
  <2> QED  BY <2>1
<1> HIDE DEF v
<1>3. Len(v) = Len(u) /\ \A i \in 1..Len(v) : v[i] = u[i]
  BY <1>2
<1>4. v = u
  BY <1>2, <1>3, SeqEqual
<1> QED  BY <1>4 DEF v

\* The same of the end of a sequence.
LEMMA RestIs ==
  ASSUME NEW o \in Seq(Nat), NEW g \in Nat, NEW u \in Seq(Nat), Len(o) = g + Len(u),
         \A i \in 1..Len(u) : o[g + i] = u[i]
  PROVE  SubSeq(o, g + 1, Len(o)) = u
<1>1. g + Len(u) <= Len(o)
  OBVIOUS
<1>2. SubSeq(o, g + 1, g + Len(u)) = u
  BY <1>1, PartIs
<1> QED  BY <1>2

\* t is the sequences q in a row, the i-th of them behind place p[i - 1].
InARow(t, q, p) ==
  /\ t \in Seq(Nat) /\ p \in [0..Len(q) -> Nat]
  /\ p[0] = 0 /\ Len(t) = p[Len(q)]
  /\ \A i \in 1..Len(q) : p[i] = p[i - 1] + Len(q[i])
  /\ \A i \in 1..Len(q) : \A j \in 1..Len(q[i]) :
       p[i - 1] + j \in 1..Len(t) /\ t[p[i - 1] + j] = q[i][j]

\* Every element of every sequence has its place in what FlattenSeq makes of them.
LEMMA FlattenPlaces ==
  ASSUME NEW q \in Seq(Seq(Nat))
  PROVE  \E p : InARow(FlattenSeq(q), q, p)
<1> DEFINE n == Len(q)
<1>1. n \in Nat /\ \A i \in 1..n : q[i] \in Seq(Nat)
  OBVIOUS
<1>2. PICK f \in [0..n -> Seq(Nat)] : Joins(f, q, n)
  BY <1>1, JoinsExist
<1>3. f[0] = <<>> /\ \A i \in 1..n : f[i] = f[i - 1] \o q[i]
  BY <1>2 DEF Joins
<1>4. FlattenSeq(q) = f[n]
  BY <1>2, FlattenJoins
<1> DEFINE p == [i \in 0..n |-> Len(f[i])]
<1> HIDE DEF n
<1>5. p \in [0..n -> Nat] /\ p[0] = 0 /\ \A i \in 0..n : p[i] = Len(f[i])
  <2>1. ASSUME NEW i \in 0..n PROVE Len(f[i]) \in Nat
    <3>1. f[i] \in Seq(Nat)
      OBVIOUS
    <3> QED  BY <3>1, LenProperties
  <2>2. 0 \in 0..n
    BY <1>1
  <2>3. Len(f[0]) = 0
    BY <1>3
  <2> QED  BY <2>1, <2>2, <2>3
<1> HIDE DEF p
<1>6. ASSUME NEW i \in 1..n
      PROVE  /\ p[i] = p[i - 1] + Len(q[i]) /\ p[i] \in Nat /\ p[i - 1] \in Nat
             /\ \A k \in 1..p[i - 1] : f[i][k] = f[i - 1][k]
             /\ \A j \in 1..Len(q[i]) : f[i][p[i - 1] + j] = q[i][j]
  <2>1. i \in 0..n /\ i - 1 \in 0..n
    BY <1>1
  <2> DEFINE a == f[i - 1]
             b == q[i]
             c == f[i]
  <2>2. a \in Seq(Nat) /\ b \in Seq(Nat) /\ c = a \o b
    BY <1>1, <1>3, <2>1
  <2>3. p[i] = Len(c) /\ p[i - 1] = Len(a) /\ p[i] \in Nat /\ p[i - 1] \in Nat
    BY <1>5, <2>1
  <2> HIDE DEF a, b, c
  <2>4. /\ Len(c) = Len(a) + Len(b)
        /\ \A k \in 1..Len(a) : c[k] = a[k]
        /\ \A j \in 1..Len(b) : c[Len(a) + j] = b[j]
    BY <2>2, Joined
  <2> QED  BY <2>3, <2>4 DEF a, b, c
<1>7. ASSUME NEW i \in 1..n
      PROVE  \A j \in 1..Len(q[i]) : p[i - 1] + j \in 1..p[n] /\ f[n][p[i - 1] + j] = q[i][j]
  <2> DEFINE Kept(m) == p[i] <= p[m] /\ \A j \in 1..Len(q[i]) : f[m][p[i - 1] + j] = q[i][j]
             P == {m \in 0..n : m >= i => Kept(m)}
  <2>1. i \in Nat /\ i # 0 /\ n \in Nat /\ n >= i /\ n \in 0..n
    BY <1>1
  <2>2. 0 \in P
    BY <2>1
  <2>3. ASSUME NEW m \in 1..n, m - 1 \in P, m >= i PROVE Kept(m)
    <3>1. CASE m = i
      BY <1>6, <3>1
    <3>2. CASE m # i
      <4>1. m - 1 >= i
        BY <2>1, <2>3, <3>2
      <4>2. Kept(m - 1)
        BY <2>3, <4>1
      <4>3. p[i] \in Nat /\ p[m] \in Nat /\ p[m - 1] \in Nat /\ p[i - 1] \in Nat /\ p[m - 1] <= p[m]
        <5>1. Len(q[m]) \in Nat
          BY <1>1, LenProperties
        <5>2. p[m] = p[m - 1] + Len(q[m]) /\ p[m - 1] \in Nat
          BY <1>6
        <5>3. p[i] \in Nat /\ p[i - 1] \in Nat
          BY <1>6
        <5> QED  BY <5>1, <5>2, <5>3
      <4>4. p[i] <= p[m]
        BY <4>2, <4>3
      <4>5. ASSUME NEW j \in 1..Len(q[i]) PROVE f[m][p[i - 1] + j] = q[i][j]
        <5>1. Len(q[i]) \in Nat /\ p[i] = p[i - 1] + Len(q[i])
          BY <1>1, <1>6, LenProperties
        <5>2. p[i - 1] + j \in 1..p[m - 1]
          <6>1. p[i - 1] + Len(q[i]) <= p[m - 1]
            BY <4>2, <5>1
          <6> QED  BY <4>3, <5>1, <6>1, PlaceWithin
        <5>3. f[m][p[i - 1] + j] = f[m - 1][p[i - 1] + j]
          BY <1>6, <5>2
        <5> QED  BY <4>2, <5>3
      <4> QED  BY <4>4, <4>5
    <3> QED  BY <3>1, <3>2
  <2>4. \A m \in 1..n : m - 1 \in P => m \in P
    <3> HIDE DEF Kept
    <3>1. \A m \in 1..n : m \in 0..n
      OBVIOUS
    <3> QED  BY <2>3, <3>1
  <2> HIDE DEF P
  <2>5. \A m \in 0..n : m \in P
    BY <2>1, <2>2, <2>4, UpTo
  <2>6. Kept(n)
    <3> HIDE DEF Kept
    <3> QED  BY <2>1, <2>5 DEF P
  <2>7. Len(q[i]) \in Nat /\ p[i] = p[i - 1] + Len(q[i]) /\ p[i - 1] \in Nat
    BY <1>1, <1>6, LenProperties
  <2>8. p[n] \in Nat
    BY <1>5, <2>1
  <2>9. p[i - 1] + Len(q[i]) <= p[n]
    BY <2>6, <2>7
  <2>10. \A j \in 1..Len(q[i]) : p[i - 1] + j \in 1..p[n]
    BY <2>7, <2>8, <2>9, PlaceWithin
  <2> QED  BY <2>6, <2>10
<1>8. n \in 0..n
  BY <1>1
<1>9. FlattenSeq(q) \in Seq(Nat) /\ Len(FlattenSeq(q)) = p[n]
  BY <1>2, <1>4, <1>5, <1>8
<1>10. InARow(FlattenSeq(q), q, p)
  <2> DEFINE t == FlattenSeq(q)
  <2>1. t \in Seq(Nat) /\ Len(t) = p[n] /\ t = f[n]
    BY <1>4, <1>9
  <2> HIDE DEF t
  <2>2. InARow(t, q, p)
    BY <1>5, <1>6, <1>7, <2>1 DEF InARow, n
  <2> QED  BY <2>2 DEF t
<1> QED  BY <1>10

-----------------------------------------------------------------------------
(* Bits and octets.                                                        *)

\* Sequences of one element in a row are those elements.
LEMMA FlattenSingles ==
  ASSUME NEW s \in Seq(Nat)
  PROVE  FlattenSeq([i \in 1..Len(s) |-> <<s[i]>>]) = s
<1> DEFINE n == Len(s)
           q == [i \in 1..n |-> <<s[i]>>]
<1>1. n \in Nat /\ \A i \in 1..n : s[i] \in Nat
  OBVIOUS
<1>2. q \in Seq(Seq(Nat)) /\ Len(q) = n
  <2>1. ASSUME NEW i \in 1..n PROVE <<s[i]>> \in Seq(Nat)
    BY <1>1
  <2>2. q \in [1..n -> Seq(Nat)]
    BY <2>1
  <2> HIDE DEF q, n
  <2> QED  BY <1>1, <2>2
<1>3. \A i \in 1..n : q[i] = <<s[i]>> /\ Len(q[i]) = 1 /\ q[i][1] = s[i]
  OBVIOUS
<1> HIDE DEF q, n
<1>4. PICK p : InARow(FlattenSeq(q), q, p)
  BY <1>2, FlattenPlaces
<1> DEFINE t == FlattenSeq(q)
<1>5. /\ t \in Seq(Nat) /\ p \in [0..n -> Nat] /\ p[0] = 0 /\ Len(t) = p[n]
      /\ \A i \in 1..n : p[i] = p[i - 1] + 1 /\ t[p[i - 1] + 1] = s[i]
  <2>1. InARow(t, q, p)
    BY <1>4
  <2> HIDE DEF t
  <2>2. \A i \in 1..n : 1 \in 1..Len(q[i])
    BY <1>3
  <2> QED  BY <1>2, <1>3, <2>1, <2>2 DEF InARow
<1> HIDE DEF t
<1> DEFINE P == {i \in 0..n : p[i] = i}
<1>6. \A i \in 0..n : i \in P
  <2>1. 0 \in P
    BY <1>1, <1>5
  <2>2. ASSUME NEW i \in 1..n, i - 1 \in P PROVE i \in P
    BY <1>5, <2>2
  <2> HIDE DEF P
  <2> QED  BY <1>1, <2>1, <2>2, UpTo
<1>7. Len(t) = n
  BY <1>1, <1>5, <1>6
<1>8. ASSUME NEW i \in 1..n PROVE t[i] = s[i]
  <2>1. i - 1 \in 0..n
    BY <1>1
  <2>2. p[i - 1] + 1 = i
    BY <1>6, <2>1
  <2> QED  BY <1>5, <2>2
<1>9. t = s
  BY <1>5, <1>7, <1>8, SeqEqual DEF n
<1> QED  BY <1>9 DEF t, q, n

-----------------------------------------------------------------------------
(* Bits.                                                                   *)

\* The powers of two that Bit divides by.
LEMMA Powers ==
  /\ 2^0 = 1 /\ 2^1 = 2 /\ 2^2 = 4 /\ 2^3 = 8
  /\ 2^4 = 16 /\ 2^5 = 32 /\ 2^6 = 64 /\ 2^7 = 128
  OBVIOUS

\* Each bit of an octet is what is left of it, halved that often.
LEMMA EightBits ==
  ASSUME NEW n \in Nat
  PROVE  /\ Bit(n, 0) = n % 2 /\ Bit(n, 1) = (n \div 2) % 2
         /\ Bit(n, 2) = (n \div 4) % 2 /\ Bit(n, 3) = (n \div 8) % 2
         /\ Bit(n, 4) = (n \div 16) % 2 /\ Bit(n, 5) = (n \div 32) % 2
         /\ Bit(n, 6) = (n \div 64) % 2 /\ Bit(n, 7) = (n \div 128) % 2
<1>1. n \div 1 = n
  OBVIOUS
<1> QED  BY <1>1, Powers DEF Bit

\* An octet is the sum of its bits' values.
LEMMA SumOfBits ==
  ASSUME NEW n \in Octet
  PROVE  n = Bit(n, 0) + 2 * Bit(n, 1) + 4 * Bit(n, 2) + 8 * Bit(n, 3)
             + 16 * Bit(n, 4) + 32 * Bit(n, 5) + 64 * Bit(n, 6) + 128 * Bit(n, 7)
<1>1. n \in Nat /\ n <= 255
  BY DEF Octet
<1>2. n = (n % 2) + 2 * ((n \div 2) % 2) + 4 * ((n \div 4) % 2) + 8 * ((n \div 8) % 2)
          + 16 * ((n \div 16) % 2) + 32 * ((n \div 32) % 2) + 64 * ((n \div 64) % 2)
          + 128 * ((n \div 128) % 2)
  <2>1. /\ n = 2 * (n \div 2) + (n % 2)
        /\ n \div 2 = 2 * (n \div 4) + ((n \div 2) % 2)
        /\ n \div 4 = 2 * (n \div 8) + ((n \div 4) % 2)
        /\ n \div 8 = 2 * (n \div 16) + ((n \div 8) % 2)
    BY <1>1
  <2>2. /\ n \div 16 = 2 * (n \div 32) + ((n \div 16) % 2)
        /\ n \div 32 = 2 * (n \div 64) + ((n \div 32) % 2)
        /\ n \div 64 = 2 * (n \div 128) + ((n \div 64) % 2)
    BY <1>1
  <2>3. n \div 128 = (n \div 128) % 2
    BY <1>1
  <2> DEFINE h1 == n \div 2
             h2 == n \div 4
             h3 == n \div 8
             h4 == n \div 16
             h5 == n \div 32
             h6 == n \div 64
             h7 == n \div 128
  <2>4. /\ h1 \in Nat /\ h2 \in Nat /\ h3 \in Nat /\ h4 \in Nat
        /\ h5 \in Nat /\ h6 \in Nat /\ h7 \in Nat
    BY <1>1
  <2> HIDE DEF h1, h2, h3, h4, h5, h6, h7
  <2>5. /\ n = 2 * h1 + (n % 2) /\ h1 = 2 * h2 + (h1 % 2) /\ h2 = 2 * h3 + (h2 % 2)
        /\ h3 = 2 * h4 + (h3 % 2) /\ h4 = 2 * h5 + (h4 % 2) /\ h5 = 2 * h6 + (h5 % 2)
        /\ h6 = 2 * h7 + (h6 % 2) /\ h7 = (h7 % 2)
    BY <2>1, <2>2, <2>3 DEF h1, h2, h3, h4, h5, h6, h7
  <2>6. n = (n % 2) + 2 * (h1 % 2) + 4 * (h2 % 2) + 8 * (h3 % 2) + 16 * (h4 % 2)
            + 32 * (h5 % 2) + 64 * (h6 % 2) + 128 * (h7 % 2)
    BY <1>1, <2>4, <2>5
  <2> QED  BY <2>6, Zenon DEF h1, h2, h3, h4, h5, h6, h7
<1>3. /\ Bit(n, 0) = n % 2 /\ Bit(n, 1) = (n \div 2) % 2
      /\ Bit(n, 2) = (n \div 4) % 2 /\ Bit(n, 3) = (n \div 8) % 2
      /\ Bit(n, 4) = (n \div 16) % 2 /\ Bit(n, 5) = (n \div 32) % 2
      /\ Bit(n, 6) = (n \div 64) % 2 /\ Bit(n, 7) = (n \div 128) % 2
  BY <1>1, EightBits
<1> QED  BY ONLY <1>2, <1>3, Zenon

\* Octets with the same bits are the same.
LEMMA SameBits ==
  ASSUME NEW n \in Octet, NEW k \in Octet, \A b \in 0..7 : Bit(n, b) = Bit(k, b)
  PROVE  n = k
<1>1. /\ Bit(n, 0) = Bit(k, 0) /\ Bit(n, 1) = Bit(k, 1) /\ Bit(n, 2) = Bit(k, 2)
      /\ Bit(n, 3) = Bit(k, 3) /\ Bit(n, 4) = Bit(k, 4) /\ Bit(n, 5) = Bit(k, 5)
      /\ Bit(n, 6) = Bit(k, 6) /\ Bit(n, 7) = Bit(k, 7)
  OBVIOUS
<1> QED  BY <1>1, SumOfBits

\* Any eight bits are those of an octet.
LEMMA OctetOf ==
  ASSUME NEW c \in [0..7 -> 0..1]
  PROVE  \E n \in Octet : \A b \in 0..7 : Bit(n, b) = c[b]
<1> DEFINE n == c[0] + 2 * c[1] + 4 * c[2] + 8 * c[3]
                + 16 * c[4] + 32 * c[5] + 64 * c[6] + 128 * c[7]
<1>1. \A b \in 0..7 : c[b] = 0 \/ c[b] = 1
  OBVIOUS
<1>2. /\ c[0] \in 0..1 /\ c[1] \in 0..1 /\ c[2] \in 0..1 /\ c[3] \in 0..1
      /\ c[4] \in 0..1 /\ c[5] \in 0..1 /\ c[6] \in 0..1 /\ c[7] \in 0..1
  OBVIOUS
<1>3. n \in Octet /\ n \in Nat
  BY <1>2 DEF Octet
<1>4. /\ n % 2 = c[0] /\ (n \div 2) % 2 = c[1] /\ (n \div 4) % 2 = c[2]
      /\ (n \div 8) % 2 = c[3] /\ (n \div 16) % 2 = c[4] /\ (n \div 32) % 2 = c[5]
      /\ (n \div 64) % 2 = c[6] /\ (n \div 128) % 2 = c[7]
  BY <1>2
<1> HIDE DEF n
<1>5. /\ Bit(n, 0) = c[0] /\ Bit(n, 1) = c[1] /\ Bit(n, 2) = c[2] /\ Bit(n, 3) = c[3]
      /\ Bit(n, 4) = c[4] /\ Bit(n, 5) = c[5] /\ Bit(n, 6) = c[6] /\ Bit(n, 7) = c[7]
  BY <1>3, <1>4, EightBits
<1>6. \A b \in 0..7 : Bit(n, b) = c[b]
  BY <1>5
<1> QED  BY <1>3, <1>6

\* FromBits finds the octet that has the bits.
LEMMA FromBitsIs ==
  ASSUME NEW D, D \subseteq 0..7, NEW bits \in [D -> 0..1]
  PROVE  /\ FromBits(bits) \in Octet
         /\ \A b \in 0..7 : Bit(FromBits(bits), b) = IF b \in D THEN bits[b] ELSE 0
<1> DEFINE c == [b \in 0..7 |-> IF b \in D THEN bits[b] ELSE 0]
<1>1. c \in [0..7 -> 0..1]
  OBVIOUS
<1>2. PICK n \in Octet : \A b \in 0..7 : Bit(n, b) = c[b]
  <2> HIDE DEF c
  <2> QED  BY <1>1, OctetOf
<1>3. \A b \in 0..7 : Bit(n, b) = IF b \in D THEN bits[b] ELSE 0
  BY <1>2
<1>4. DOMAIN bits = D
  OBVIOUS
<1> QED  BY <1>3, <1>4 DEF FromBits

\* A bit is 0 or 1.
LEMMA BitType ==
  ASSUME NEW n \in Nat, NEW b \in 0..7
  PROVE  Bit(n, b) \in 0..1
<1>1. /\ n % 2 \in 0..1 /\ (n \div 2) % 2 \in 0..1 /\ (n \div 4) % 2 \in 0..1
      /\ (n \div 8) % 2 \in 0..1 /\ (n \div 16) % 2 \in 0..1 /\ (n \div 32) % 2 \in 0..1
      /\ (n \div 64) % 2 \in 0..1 /\ (n \div 128) % 2 \in 0..1
  OBVIOUS
<1>2. /\ Bit(n, 0) \in 0..1 /\ Bit(n, 1) \in 0..1 /\ Bit(n, 2) \in 0..1 /\ Bit(n, 3) \in 0..1
      /\ Bit(n, 4) \in 0..1 /\ Bit(n, 5) \in 0..1 /\ Bit(n, 6) \in 0..1 /\ Bit(n, 7) \in 0..1
  <2>1. /\ Bit(n, 0) = n % 2 /\ Bit(n, 1) = (n \div 2) % 2
        /\ Bit(n, 2) = (n \div 4) % 2 /\ Bit(n, 3) = (n \div 8) % 2
        /\ Bit(n, 4) = (n \div 16) % 2 /\ Bit(n, 5) = (n \div 32) % 2
        /\ Bit(n, 6) = (n \div 64) % 2 /\ Bit(n, 7) = (n \div 128) % 2
    BY EightBits, Zenon
  <2> QED  BY <1>1, <2>1, Zenon
<1>3. b = 0 \/ b = 1 \/ b = 2 \/ b = 3 \/ b = 4 \/ b = 5 \/ b = 6 \/ b = 7
  OBVIOUS
<1> QED  BY ONLY <1>2, <1>3, Zenon

\* A septet is an octet whose last bit is 0.
LEMMA SeptetType ==
  \A c \in 0..127 : c \in Octet /\ c \in Nat /\ c <= 127
  BY DEF Octet

\* Bit k of a packed text, counted from the first octet on, is bit k % 7 of
\* septet k \div 7.
LEMMA PackedBits ==
  ASSUME NEW s \in Seq(0..127)
  PROVE  /\ Pack(s, 0) \in Seq(Octet)
         /\ \A k \in 0..(7 * Len(s) - 1) :
              /\ (k \div 8) + 1 \in 1..Len(Pack(s, 0))
              /\ Bit(Pack(s, 0)[(k \div 8) + 1], k % 8) = Bit(s[(k \div 7) + 1], k % 7)
<1> DEFINE n == Len(s)
           h == (0 + 7 * n + 7) \div 8
           At(i, b) == 8 * (i - 1) + b - 0
           Row(i) == [b \in 0..7 |-> IF At(i, b) \in 0..(7 * n - 1)
                                     THEN Bit(s[(At(i, b) \div 7) + 1], At(i, b) % 7) ELSE 0]
           data == Pack(s, 0)
<1>1. n \in Nat /\ h \in Nat
  OBVIOUS
<1>2. data = [i \in 1..h |-> FromBits(Row(i))]
  BY DEF Pack
<1>3. ASSUME NEW k \in 0..(7 * n - 1)
      PROVE  (k \div 7) + 1 \in 1..n /\ k % 7 \in 0..7 /\ k % 8 \in 0..7 /\ (k \div 8) + 1 \in 1..h
  <2>1. k \in Nat /\ k <= 7 * n - 1
    BY <1>1
  <2>2. k % 7 \in 0..7 /\ k % 8 \in 0..7 /\ k \div 7 \in Nat /\ k \div 8 \in Nat
    BY <2>1
  <2>3. (k \div 7) + 1 <= n
    BY <1>1, <2>1
  <2>4. (k \div 8) + 1 <= h
    BY <1>1, <2>1
  <2> HIDE DEF h, n
  <2> QED  BY <1>1, <2>2, <2>3, <2>4
<1>4. ASSUME NEW k \in 0..(7 * n - 1) PROVE Bit(s[(k \div 7) + 1], k % 7) \in 0..1
  <2>1. s[(k \div 7) + 1] \in 0..127
    BY <1>3, ElementOfSeq
  <2>2. s[(k \div 7) + 1] \in Nat
    BY <2>1, SeptetType
  <2> QED  BY <1>3, <2>2, BitType
<1>5. ASSUME NEW i \in 1..h PROVE Row(i) \in [0..7 -> 0..1]
  <2>1. ASSUME NEW b \in 0..7
        PROVE  (IF At(i, b) \in 0..(7 * n - 1)
                THEN Bit(s[(At(i, b) \div 7) + 1], At(i, b) % 7) ELSE 0) \in 0..1
    <3> DEFINE k == At(i, b)
    <3> HIDE DEF k
    <3>1. (IF k \in 0..(7 * n - 1) THEN Bit(s[(k \div 7) + 1], k % 7) ELSE 0) \in 0..1
      BY <1>4
    <3> QED  BY <3>1 DEF k
  <2> HIDE DEF At, n
  <2> QED  BY <2>1
<1>6. ASSUME NEW i \in 1..h
      PROVE  /\ FromBits(Row(i)) \in Octet
             /\ \A b \in 0..7 : Bit(FromBits(Row(i)), b) = Row(i)[b]
  <2> DEFINE r == Row(i)
  <2>1. r \in [0..7 -> 0..1]
    BY <1>5
  <2> HIDE DEF r
  <2>2. /\ FromBits(r) \in Octet
        /\ \A b \in 0..7 : Bit(FromBits(r), b) = IF b \in 0..7 THEN r[b] ELSE 0
    BY <2>1, FromBitsIs
  <2> QED  BY <2>2 DEF r
<1>7. data \in Seq(Octet) /\ Len(data) = h
  <2>1. data \in [1..h -> Octet]
    <3> HIDE DEF h, Row, data
    <3> QED  BY <1>2, <1>6
  <2> HIDE DEF h, data
  <2> QED  BY <1>1, <2>1
<1>8. ASSUME NEW k \in 0..(7 * n - 1)
      PROVE  Bit(data[(k \div 8) + 1], k % 8) = Bit(s[(k \div 7) + 1], k % 7)
  <2> DEFINE i == (k \div 8) + 1
             b == k % 8
  <2>1. i \in 1..h /\ b \in 0..7
    BY <1>3
  <2>2. At(i, b) = k
    BY <1>1
  <2>3. data[i] = FromBits(Row(i))
    <3> HIDE DEF data, Row, h, i
    <3> QED  BY <1>2, <2>1
  <2>4. Row(i)[b] = Bit(s[(k \div 7) + 1], k % 7)
    <3> HIDE DEF At, i, b, n
    <3> QED  BY <2>1, <2>2
  <2> HIDE DEF data, Row, h, i, b
  <2>5. Bit(FromBits(Row(i)), b) = Row(i)[b]
    BY <1>6, <2>1
  <2>6. Bit(data[i], b) = Bit(s[(k \div 7) + 1], k % 7)
    BY <2>3, <2>4, <2>5
  <2> QED  BY <2>6 DEF i, b
<1> QED  BY <1>3, <1>7, <1>8

\* What is unpacked is what was packed.
LEMMA Unpacks ==
  ASSUME NEW s \in Seq(0..127)
  PROVE  decodeGSM7(Pack(s, 0), Len(s), FALSE) = Text("gsm7", s)
<1> DEFINE n == Len(s)
           data == Pack(s, 0)
           Septet(first) == [b \in 0..6 |->
             Bit(Padded(data, ((first + b) \div 8) + 1), (first + b) % 8)]
           Value(first) == FromBits(Septet(first))
<1>1. n \in Nat /\ s = [j \in 1..n |-> s[j]] /\ \A j \in 1..n : s[j] \in 0..127
  BY LenProperties, ElementOfSeq
<1>2. decodeGSM7(data, n, FALSE) = Text("gsm7", [j \in 1..n |-> Value(0 * 8 + (j - 1) * 7)])
  <2>1. HeaderBytes(data, FALSE) = 0 /\ ~HeaderCut(data, FALSE)
    BY DEF HeaderBytes, HeaderCut
  <2> HIDE DEF data, n
  <2> QED  BY <2>1 DEF decodeGSM7
<1>3. ASSUME NEW j \in 1..n PROVE Value(0 * 8 + (j - 1) * 7) = s[j]
  <2> DEFINE first == 0 * 8 + (j - 1) * 7
             bits == Septet(first)
  <2>1. first = 7 * (j - 1) /\ j \in Nat /\ j <= n /\ j >= 1 /\ first \in Nat
    BY <1>1
  <2>2. s[j] \in Octet /\ s[j] \in Nat /\ s[j] <= 127
    BY <1>1, SeptetType
  <2>3. ASSUME NEW b \in 0..6 PROVE bits[b] = Bit(s[j], b)
    <3> DEFINE k == first + b
    <3>1. k \in 0..(7 * n - 1)
      BY <1>1, <2>1
    <3>2. k \div 7 = j - 1 /\ k % 7 = b
      <4> DEFINE a == j - 1
      <4>1. a \in Nat /\ k = 7 * a + b /\ b \in Nat /\ b <= 6
        BY <2>1
      <4> HIDE DEF a, k
      <4>2. k \div 7 = a /\ k % 7 = b
        BY ONLY <4>1
      <4> QED  BY <4>2 DEF a
    <3>3. (k \div 7) + 1 = j
      BY <2>1, <3>2
    <3> HIDE DEF k, first, data
    <3>4. /\ (k \div 8) + 1 \in 1..Len(data)
          /\ Bit(data[(k \div 8) + 1], k % 8) = Bit(s[(k \div 7) + 1], k % 7)
      BY <3>1, PackedBits DEF data, n
    <3>5. Padded(data, (k \div 8) + 1) = data[(k \div 8) + 1]
      <4>1. Len(data) \in Nat
        BY PackedBits, LenProperties DEF data
      <4> QED  BY <3>4, <4>1 DEF Padded
    <3>6. bits[b] = Bit(Padded(data, (k \div 8) + 1), k % 8)
      BY DEF k
    <3> QED  BY <3>2, <3>3, <3>4, <3>5, <3>6
  <2> HIDE DEF first
  <2>4. DOMAIN bits = 0..6 /\ bits \in [0..6 -> 0..1]
    <3>1. \A b \in 0..6 : Bit(s[j], b) \in 0..1
      BY <2>2, BitType
    <3>2. bits = [b \in 0..6 |-> bits[b]]
      OBVIOUS
    <3> HIDE DEF bits
    <3> QED  BY <2>3, <3>1, <3>2
  <2> HIDE DEF bits
  <2>5. /\ FromBits(bits) \in Octet
        /\ \A b \in 0..7 : Bit(FromBits(bits), b) = IF b \in 0..6 THEN bits[b] ELSE 0
    <3>1. 0..6 \subseteq 0..7
      OBVIOUS
    <3> QED  BY <2>4, <3>1, FromBitsIs
  <2>6. Bit(s[j], 7) = 0
    <3> DEFINE v == s[j]
    <3>1. v \in Nat /\ (v \div 128) % 2 = 0
      BY <2>2
    <3> HIDE DEF v
    <3>2. Bit(v, 7) = (v \div 128) % 2
      BY <3>1, EightBits
    <3> QED  BY <3>1, <3>2 DEF v
  <2>7. \A b \in 0..7 : Bit(FromBits(bits), b) = Bit(s[j], b)
    <3> SUFFICES ASSUME NEW b \in 0..7 PROVE Bit(FromBits(bits), b) = Bit(s[j], b)
      OBVIOUS
    <3>1. CASE b \in 0..6
      BY <2>3, <2>5, <3>1
    <3>2. CASE b = 7
      <4>1. 7 \notin 0..6
        OBVIOUS
      <4> QED  BY <2>5, <2>6, <3>2, <4>1
    <3> QED  BY <3>1, <3>2
  <2>8. FromBits(bits) = s[j]
    BY <2>2, <2>5, <2>7, SameBits
  <2> QED  BY <2>8 DEF bits, first
<1>4. [j \in 1..n |-> Value(0 * 8 + (j - 1) * 7)] = s
  <2> HIDE DEF Value, n
  <2> QED  BY <1>1, <1>3
<1> QED  BY <1>2, <1>4

-----------------------------------------------------------------------------
(* UTF-16.                                                                 *)

\* The halves of a character beyond the basic plane.
HighHalf(c) == 55296 + ((c - 65536) \div 1024)
LowHalf(c) == 56320 + ((c - 65536) % 1024)

\* They are surrogates, and the character is computed from them.
LEMMA Surrogates ==
  ASSUME NEW c \in Nat, Scalar(c), ~(c < 65536)
  PROVE  /\ HighHalf(c) \in Nat /\ LowHalf(c) \in Nat
         /\ HighHalf(c) < 65536 /\ LowHalf(c) < 65536
         /\ High(HighHalf(c)) /\ Low(LowHalf(c)) /\ ~High(LowHalf(c))
         /\ 65536 + (HighHalf(c) - 55296) * 1024 + (LowHalf(c) - 56320) = c
<1> DEFINE d == c - 65536
           h == d \div 1024
           l == d % 1024
<1>1. d \in Nat /\ d <= 1048575
  BY DEF Scalar
<1>2. h \in 0..1023 /\ l \in 0..1023 /\ d = h * 1024 + l
  <2> HIDE DEF d
  <2> QED  BY <1>1
<1>3. HighHalf(c) = 55296 + h /\ LowHalf(c) = 56320 + l /\ c = 65536 + d
  BY DEF HighHalf, LowHalf
<1> HIDE DEF d, h, l
<1> QED  BY <1>1, <1>2, <1>3 DEF High, Low

\* What Utf16 makes of one character.
Words(c) == IF c < 65536 THEN <<c>> ELSE <<HighHalf(c), LowHalf(c)>>

\* Places p of the words w of the characters: one word, or two that are halves.
Encoded(w, chars, p) ==
  /\ w \in Seq(Nat) /\ p \in [0..Len(chars) -> Nat]
  /\ p[0] = 0 /\ Len(w) = p[Len(chars)]
  /\ \A i \in 1..Len(chars) :
       IF chars[i] < 65536
         THEN /\ p[i] = p[i - 1] + 1 /\ p[i - 1] + 1 \in 1..Len(w)
              /\ w[p[i - 1] + 1] = chars[i]
         ELSE /\ p[i] = p[i - 1] + 2
              /\ p[i - 1] + 1 \in 1..Len(w) /\ p[i - 1] + 2 \in 1..Len(w)
              /\ w[p[i - 1] + 1] = HighHalf(chars[i])
              /\ w[p[i - 1] + 2] = LowHalf(chars[i])

\* That is how Utf16 encodes.
LEMMA Utf16Places ==
  ASSUME NEW chars \in Seq(Nat), \A i \in 1..Len(chars) : Scalar(chars[i])
  PROVE  \E p : Encoded(Utf16(chars), chars, p)
<1> DEFINE n == Len(chars)
           q == [i \in 1..n |-> Words(chars[i])]
           w == FlattenSeq(q)
<1>1. n \in Nat /\ \A i \in 1..n : chars[i] \in Nat /\ Scalar(chars[i])
  OBVIOUS
<1>2. Utf16(chars) = w
  BY DEF Utf16, Words, HighHalf, LowHalf
<1>3. ASSUME NEW i \in 1..n
      PROVE  /\ q[i] \in Seq(Nat)
             /\ chars[i] < 65536 => Len(q[i]) = 1 /\ q[i][1] = chars[i]
             /\ ~(chars[i] < 65536) => /\ Len(q[i]) = 2 /\ q[i][1] = HighHalf(chars[i])
                                       /\ q[i][2] = LowHalf(chars[i])
  <2>1. q[i] = Words(chars[i])
    OBVIOUS
  <2>2. CASE chars[i] < 65536
    <3>1. q[i] = <<chars[i]>> /\ chars[i] \in Nat
      BY <1>1, <2>1, <2>2 DEF Words
    <3> HIDE DEF q, n
    <3> QED  BY <2>2, <3>1
  <2>3. CASE ~(chars[i] < 65536)
    <3>1. q[i] = <<HighHalf(chars[i]), LowHalf(chars[i])>>
      BY <2>1, <2>3 DEF Words
    <3>2. HighHalf(chars[i]) \in Nat /\ LowHalf(chars[i]) \in Nat
      BY <1>1, <2>3, Surrogates
    <3> HIDE DEF q, n
    <3> QED  BY <2>3, <3>1, <3>2
  <2> QED  BY <2>2, <2>3
<1>4. q \in Seq(Seq(Nat)) /\ Len(q) = n
  <2>1. q \in [1..n -> Seq(Nat)]
    <3>1. q = [i \in 1..n |-> q[i]]
      OBVIOUS
    <3> HIDE DEF q, n
    <3> QED  BY <1>3, <3>1
  <2> HIDE DEF q, n
  <2> QED  BY <1>1, <2>1
<1> HIDE DEF q, n
<1>5. PICK p : InARow(w, q, p)
  BY <1>4, FlattenPlaces
<1> HIDE DEF w
<1>6. /\ w \in Seq(Nat) /\ p \in [0..n -> Nat] /\ p[0] = 0 /\ Len(w) = p[n]
      /\ \A i \in 1..n : p[i] = p[i - 1] + Len(q[i])
      /\ \A i \in 1..n : \A j \in 1..Len(q[i]) :
           p[i - 1] + j \in 1..Len(w) /\ w[p[i - 1] + j] = q[i][j]
  BY <1>4, <1>5 DEF InARow
<1>7. ASSUME NEW i \in 1..n, chars[i] < 65536
      PROVE  /\ p[i] = p[i - 1] + 1 /\ p[i - 1] + 1 \in 1..Len(w)
             /\ w[p[i - 1] + 1] = chars[i]
  <2>1. Len(q[i]) = 1 /\ q[i][1] = chars[i] /\ 1 \in 1..Len(q[i])
    BY <1>3, <1>7
  <2> QED  BY <1>6, <2>1
<1>8. ASSUME NEW i \in 1..n, ~(chars[i] < 65536)
      PROVE  /\ p[i] = p[i - 1] + 2
             /\ p[i - 1] + 1 \in 1..Len(w) /\ p[i - 1] + 2 \in 1..Len(w)
             /\ w[p[i - 1] + 1] = HighHalf(chars[i])
             /\ w[p[i - 1] + 2] = LowHalf(chars[i])
  <2>1. /\ Len(q[i]) = 2 /\ q[i][1] = HighHalf(chars[i]) /\ q[i][2] = LowHalf(chars[i])
        /\ 1 \in 1..Len(q[i]) /\ 2 \in 1..Len(q[i])
    BY <1>3, <1>8
  <2>2. /\ p[i - 1] + 1 \in 1..Len(w) /\ w[p[i - 1] + 1] = q[i][1]
        /\ p[i - 1] + 2 \in 1..Len(w) /\ w[p[i - 1] + 2] = q[i][2]
    BY <1>6, <2>1, Zenon
  <2>3. p[i] = p[i - 1] + Len(q[i])
    BY <1>6
  <2> QED  BY <2>1, <2>2, <2>3
<1>9. Encoded(w, chars, p)
  BY <1>6, <1>7, <1>8 DEF Encoded, n
<1> QED  BY <1>2, <1>9

\* Every word is the first or the second of a character.
LEMMA WordsCovered ==
  ASSUME NEW chars \in Seq(Nat), NEW w, NEW p, Encoded(w, chars, p)
  PROVE  \A k \in 1..Len(w) : \E i \in 1..Len(chars) :
           k = p[i - 1] + 1 \/ (~(chars[i] < 65536) /\ k = p[i - 1] + 2)
<1> DEFINE n == Len(chars)
           Of(k, i) == k = p[i - 1] + 1 \/ (~(chars[i] < 65536) /\ k = p[i - 1] + 2)
           P == {m \in 0..n : \A k \in 1..p[m] : \E i \in 1..n : Of(k, i)}
<1>1. /\ n \in Nat /\ p \in [0..n -> Nat] /\ p[0] = 0 /\ Len(w) = p[n]
      /\ \A i \in 1..n : p[i] = IF chars[i] < 65536 THEN p[i - 1] + 1 ELSE p[i - 1] + 2
  BY DEF Encoded
<1>2. 0 \in P
  BY <1>1
<1>3. ASSUME NEW m \in 1..n, m - 1 \in P PROVE m \in P
  <2> SUFFICES ASSUME NEW k \in 1..p[m] PROVE \E i \in 1..n : Of(k, i)
    BY <1>1
  <2>a. m \in 0..n /\ m - 1 \in 0..n
    BY <1>1
  <2>b. p[m - 1] \in Nat /\ p[m] \in Nat
    <3>1. p \in [0..n -> Nat]
      BY <1>1
    <3> HIDE DEF n, P
    <3> QED  BY <2>a, <3>1
  <2>1. p[m - 1] \in Nat /\ p[m] \in Nat /\ k \in Nat /\ k >= 1 /\ k <= p[m]
    BY <2>b
  <2>2. CASE k <= p[m - 1]
    <3>1. k \in 1..p[m - 1]
      BY <2>1, <2>2
    <3> HIDE DEF Of
    <3> QED  BY <1>3, <3>1
  <2>3. CASE ~(k <= p[m - 1])
    <3>1. p[m] = IF chars[m] < 65536 THEN p[m - 1] + 1 ELSE p[m - 1] + 2
      BY <1>1
    <3>2. Of(k, m)
      <4> DEFINE a == p[m - 1]
                 b == p[m]
                 single == chars[m] < 65536
      <4>1. a \in Nat /\ b \in Nat /\ k \in Nat /\ k <= b /\ ~(k <= a)
        BY <2>1, <2>3
      <4>2. (single => b = a + 1) /\ (~single => b = a + 2)
        BY <3>1
      <4> HIDE DEF a, b, single
      <4>3. k = a + 1 \/ (~single /\ k = a + 2)
        BY ONLY <4>1, <4>2
      <4> QED  BY <4>3 DEF a, single
    <3> QED  BY <3>2
  <2> QED  BY <2>2, <2>3
<1>4. \A m \in 0..n : m \in P
  <2>1. n \in Nat
    BY <1>1
  <2> HIDE DEF P, n
  <2> QED  BY <2>1, <1>2, <1>3, UpTo
<1> QED  BY <1>1, <1>4

\* The parts of utf16Decode.
PairAt(w, i) == i \in 1..(Len(w) - 1) /\ High(w[i]) /\ Low(w[i + 1])
RuneAt(w, i) ==
  IF PairAt(w, i) THEN <<65536 + (w[i] - 55296) * 1024 + (w[i + 1] - 56320)>>
  ELSE IF PairAt(w, i - 1) THEN <<>>
  ELSE IF High(w[i]) \/ Low(w[i]) THEN <<65533>>
  ELSE <<w[i]>>

\* The first word of a character yields the character, the second nothing.
LEMMA RunesOfWords ==
  ASSUME NEW chars \in Seq(Nat), \A i \in 1..Len(chars) : Scalar(chars[i]),
         NEW w, NEW p, Encoded(w, chars, p)
  PROVE  \A i \in 1..Len(chars) :
           /\ RuneAt(w, p[i - 1] + 1) = <<chars[i]>>
           /\ ~(chars[i] < 65536) => RuneAt(w, p[i - 1] + 2) = <<>>
<1> TAKE i \in 1..Len(chars)
<1> DEFINE c == chars[i]
           k == p[i - 1] + 1
<1>1. c \in Nat /\ Scalar(c) /\ Len(w) \in Nat
  <2>1. w \in Seq(Nat)
    BY DEF Encoded
  <2> QED  BY <2>1
<1>2. p[i - 1] \in Nat
  <2>1. i - 1 \in 0..Len(chars)
    OBVIOUS
  <2>2. p \in [0..Len(chars) -> Nat]
    BY DEF Encoded
  <2> QED  BY <2>1, <2>2
<1>3. CASE c < 65536
  <2>1. k \in 1..Len(w) /\ w[k] = c
    BY <1>3 DEF Encoded
  <2>2. ~High(c) /\ ~Low(c)
    BY <1>1 DEF Scalar
  <2>3. (k - 1) + 1 = k
    BY <1>2
  <2> HIDE DEF c, k
  <2>4. ~PairAt(w, k) /\ ~PairAt(w, k - 1)
    BY <2>1, <2>2, <2>3 DEF PairAt
  <2>5. RuneAt(w, k) = <<c>>
    BY <2>1, <2>2, <2>4 DEF RuneAt
  <2> QED  BY <1>3, <2>5 DEF c, k
<1>4. CASE ~(c < 65536)
  <2>1. /\ k \in 1..Len(w) /\ p[i - 1] + 2 \in 1..Len(w)
        /\ w[k] = HighHalf(c) /\ w[p[i - 1] + 2] = LowHalf(c)
    BY <1>4 DEF Encoded
  <2>2. p[i - 1] + 2 = k + 1 /\ k \in 1..(Len(w) - 1) /\ (k + 1) - 1 = k
    <3> DEFINE a == p[i - 1]
               n == Len(w)
    <3>1. a \in Nat /\ n \in Nat /\ a + 2 \in 1..n /\ k = a + 1
      BY <1>1, <1>2, <2>1
    <3> HIDE DEF a, n, k
    <3>2. a + 2 = k + 1 /\ k \in 1..(n - 1) /\ (k + 1) - 1 = k
      BY ONLY <3>1
    <3> QED  BY <3>2 DEF a, n
  <2>3. /\ High(w[k]) /\ Low(w[k + 1]) /\ ~High(w[k + 1])
        /\ 65536 + (w[k] - 55296) * 1024 + (w[k + 1] - 56320) = c
    <3>1. w[k] = HighHalf(c) /\ w[k + 1] = LowHalf(c)
      BY <2>1, <2>2
    <3>2. /\ High(HighHalf(c)) /\ Low(LowHalf(c)) /\ ~High(LowHalf(c))
          /\ 65536 + (HighHalf(c) - 55296) * 1024 + (LowHalf(c) - 56320) = c
      <4> HIDE DEF c
      <4> QED  BY <1>1, <1>4, Surrogates
    <3> HIDE DEF c, k
    <3> QED  BY <3>1, <3>2
  <2> HIDE DEF c, k
  <2>4. PairAt(w, k) /\ ~PairAt(w, k + 1)
    BY <2>2, <2>3 DEF PairAt
  <2>5. RuneAt(w, k) = <<c>>
    BY <2>3, <2>4 DEF RuneAt
  <2>6. PairAt(w, (k + 1) - 1)
    BY <2>2, <2>4
  <2>7. RuneAt(w, k + 1) = <<>>
    BY <2>4, <2>6 DEF RuneAt
  <2>8. RuneAt(w, p[i - 1] + 2) = <<>>
    BY <2>2, <2>7
  <2> QED  BY <2>5, <2>8 DEF c, k
<1> QED  BY <1>3, <1>4

\* What utf16Decode yields is what Utf16 encoded.
LEMMA Utf16Decodes ==
  ASSUME NEW chars \in Seq(Nat), \A i \in 1..Len(chars) : Scalar(chars[i])
  PROVE  utf16Decode(Utf16(chars)) = chars
<1> DEFINE n == Len(chars)
           w == Utf16(chars)
           r == [k \in 1..Len(w) |-> RuneAt(w, k)]
           t == FlattenSeq(r)
<1>1. PICK p : Encoded(w, chars, p)
  BY Utf16Places
<1>b. \A i \in 1..Len(chars) :
        /\ RuneAt(w, p[i - 1] + 1) = <<chars[i]>>
        /\ ~(chars[i] < 65536) => RuneAt(w, p[i - 1] + 2) = <<>>
  <2>1. /\ chars \in Seq(Nat) /\ \A i \in 1..Len(chars) : Scalar(chars[i])
        /\ Encoded(w, chars, p)
    BY <1>1
  <2> HIDE DEF w, r, t, n
  <2> QED  BY ONLY <2>1, RunesOfWords
<1>2. /\ n \in Nat /\ w \in Seq(Nat) /\ Len(w) \in Nat
      /\ p \in [0..n -> Nat] /\ p[0] = 0 /\ Len(w) = p[n]
  <2>1. w \in Seq(Nat)
    BY <1>1 DEF Encoded
  <2> HIDE DEF w
  <2>2. Len(w) \in Nat
    BY <2>1
  <2> QED  BY <1>1, <2>1, <2>2 DEF Encoded
<1>a. \A i \in 1..n : chars[i] \in Nat
  OBVIOUS
<1> HIDE DEF n
<1>3. utf16Decode(w) = t
  <2> HIDE DEF w
  <2> QED  BY DEF utf16Decode, RuneAt, PairAt
<1> HIDE DEF w
<1>4. ASSUME NEW i \in 1..n
      PROVE  /\ chars[i] \in Nat /\ p[i - 1] \in Nat /\ p[i] \in Nat
             /\ p[i - 1] + 1 \in 1..Len(w) /\ r[p[i - 1] + 1] = <<chars[i]>>
             /\ chars[i] < 65536 => p[i] = p[i - 1] + 1
             /\ ~(chars[i] < 65536) => /\ p[i] = p[i - 1] + 2 /\ p[i - 1] + 2 \in 1..Len(w)
                                       /\ r[p[i - 1] + 2] = <<>>
  <2>1. i \in 0..n /\ i - 1 \in 0..n
    BY <1>2
  <2>2. p[i] \in Nat /\ p[i - 1] \in Nat /\ chars[i] \in Nat
    <3>1. p \in [0..n -> Nat]
      BY <1>2
    <3> QED  BY <1>a, <2>1, <3>1
  <2>3. /\ p[i - 1] + 1 \in 1..Len(w)
        /\ chars[i] < 65536 => p[i] = p[i - 1] + 1
        /\ ~(chars[i] < 65536) => p[i] = p[i - 1] + 2 /\ p[i - 1] + 2 \in 1..Len(w)
    BY <1>1 DEF Encoded, n
  <2>4. /\ RuneAt(w, p[i - 1] + 1) = <<chars[i]>>
        /\ ~(chars[i] < 65536) => RuneAt(w, p[i - 1] + 2) = <<>>
    BY <1>b DEF n
  <2> QED  BY <2>2, <2>3, <2>4
<1>5. r \in Seq(Seq(Nat)) /\ Len(r) = Len(w)
  <2>1. ASSUME NEW k \in 1..Len(w) PROVE r[k] \in Seq(Nat)
    <3>1. PICK i \in 1..n : k = p[i - 1] + 1 \/ (~(chars[i] < 65536) /\ k = p[i - 1] + 2)
      BY <1>1, WordsCovered DEF n
    <3>2. r[k] = <<chars[i]>> \/ r[k] = <<>>
      <4> HIDE DEF r
      <4>1. r[p[i - 1] + 1] = <<chars[i]>>
        BY <1>4
      <4>2. ~(chars[i] < 65536) => r[p[i - 1] + 2] = <<>>
        BY <1>4
      <4> QED  BY <3>1, <4>1, <4>2
    <3>3. chars[i] \in Nat
      BY <1>a
    <3> HIDE DEF r
    <3>4. <<chars[i]>> \in Seq(Nat) /\ <<>> \in Seq(Nat)
      BY <3>3
    <3> QED  BY <3>2, <3>4, Zenon
  <2>2. r = [k \in 1..Len(w) |-> r[k]]
    OBVIOUS
  <2> HIDE DEF r
  <2>3. r \in [1..Len(w) -> Seq(Nat)]
    BY <2>1, <2>2
  <2> DEFINE l == Len(w)
  <2>4. l \in Nat /\ r \in [1..l -> Seq(Nat)]
    BY <1>2, <2>3
  <2> HIDE DEF l
  <2>5. r \in Seq(Seq(Nat)) /\ Len(r) = l
    BY <2>4
  <2> QED  BY <2>5 DEF l
<1> HIDE DEF r
<1>6. PICK z : InARow(t, r, z)
  BY <1>5, FlattenPlaces
<1> HIDE DEF t
<1>7. /\ t \in Seq(Nat) /\ z \in [0..Len(w) -> Nat] /\ z[0] = 0 /\ Len(t) = z[Len(w)]
      /\ \A k \in 1..Len(w) : z[k] = z[k - 1] + Len(r[k])
      /\ \A k \in 1..Len(w) : \A j \in 1..Len(r[k]) : t[z[k - 1] + j] = r[k][j]
  BY <1>5, <1>6 DEF InARow
<1>8. ASSUME NEW i \in 1..n
      PROVE  z[p[i]] = z[p[i - 1]] + 1 /\ t[z[p[i - 1]] + 1] = chars[i]
  <2>a. /\ p[i - 1] \in Nat /\ p[i - 1] + 1 \in 1..Len(w) /\ r[p[i - 1] + 1] = <<chars[i]>>
        /\ chars[i] < 65536 => p[i] = p[i - 1] + 1
        /\ ~(chars[i] < 65536) => /\ p[i] = p[i - 1] + 2 /\ p[i - 1] + 2 \in 1..Len(w)
                                  /\ r[p[i - 1] + 2] = <<>>
    BY <1>4
  <2> DEFINE k == p[i - 1]
  <2>1. /\ k \in Nat /\ k + 1 \in 1..Len(w) /\ (k + 1) - 1 = k
        /\ k \in 0..Len(w) /\ k + 1 \in 0..Len(w)
    <3>1. k \in Nat /\ k + 1 \in 1..Len(w) /\ Len(w) \in Nat
      BY <1>2, <2>a
    <3> HIDE DEF k
    <3> QED  BY <3>1
  <2>2. r[k + 1] = <<chars[i]>>
    BY <2>a
  <2>3. Len(r[k + 1]) = 1 /\ r[k + 1][1] = chars[i] /\ 1 \in 1..Len(r[k + 1])
    BY <2>2
  <2>4. z[k] \in Nat /\ z[k + 1] \in Nat
    BY <1>7, <2>1
  <2>5. z[k + 1] = z[k] + 1 /\ t[z[k] + 1] = chars[i]
    <3>1. z[k + 1] = z[(k + 1) - 1] + Len(r[k + 1])
      BY <1>7, <2>1
    <3>2. t[z[(k + 1) - 1] + 1] = r[k + 1][1]
      BY <1>7, <2>1, <2>3
    <3> HIDE DEF k
    <3> QED  BY <2>1, <2>3, <3>1, <3>2
  <2>6. CASE chars[i] < 65536
    BY <2>a, <2>5, <2>6
  <2>7. CASE ~(chars[i] < 65536)
    <3>1. /\ p[i] = k + 2 /\ k + 2 \in 1..Len(w) /\ (k + 2) - 1 = k + 1
          /\ r[k + 2] = <<>>
      BY <2>a, <2>1, <2>7
    <3>2. Len(r[k + 2]) = 0
      BY <3>1
    <3>3. z[k + 2] = z[(k + 2) - 1] + Len(r[k + 2])
      BY <1>7, <3>1
    <3> HIDE DEF k
    <3>4. z[k + 2] = z[k + 1]
      BY <2>4, <3>1, <3>2, <3>3
    <3>5. z[p[i]] = z[k] + 1 /\ t[z[k] + 1] = chars[i]
      BY <2>5, <3>1, <3>4
    <3> QED  BY <3>5 DEF k
  <2> QED  BY <2>6, <2>7
<1> DEFINE P == {i \in 0..n : z[p[i]] = i}
<1>9. \A i \in 0..n : i \in P
  <2>1. 0 \in P
    BY <1>2, <1>7
  <2>2. ASSUME NEW i \in 1..n, i - 1 \in P PROVE i \in P
    <3>1. z[p[i]] = z[p[i - 1]] + 1 /\ z[p[i - 1]] = i - 1
      BY <1>8, <2>2
    <3> HIDE DEF n
    <3> QED  BY <1>2, <3>1
  <2>3. n \in Nat
    BY <1>2
  <2> HIDE DEF P, n
  <2> QED  BY <2>1, <2>2, <2>3, UpTo
<1>10. Len(t) = n
  <2>1. n \in 0..n
    BY <1>2
  <2> QED  BY <1>2, <1>7, <1>9, <2>1
<1>11. ASSUME NEW i \in 1..n PROVE t[i] = chars[i]
  <2>1. i - 1 \in 0..n /\ (i - 1) + 1 = i
    BY <1>2
  <2>2. z[p[i - 1]] = i - 1
    BY <1>9, <2>1
  <2> QED  BY <1>8, <2>1, <2>2
<1>12. t = chars
  <2> HIDE DEF n
  <2>1. t \in Seq(Nat) /\ chars \in Seq(Nat) /\ Len(t) = Len(chars)
    BY <1>7, <1>10 DEF n
  <2> QED  BY <2>1, <1>10, <1>11, SeqEqual
<1> QED  BY <1>3, <1>12 DEF w

\* A word takes 16 bits.
Word == {c \in Nat : c < 65536}

\* A word is two octets.
LEMMA WordHalves ==
  ASSUME NEW c \in Word
  PROVE  c \in Nat /\ c \div 256 \in Octet /\ c % 256 \in Octet
<1>1. c \in Nat /\ c < 65536
  BY DEF Word
<1> QED  BY <1>1 DEF Octet

\* Utf16 yields words, and at least one of a text that is not empty.
LEMMA WordSize ==
  ASSUME NEW chars \in Seq(Nat), \A i \in 1..Len(chars) : Scalar(chars[i])
  PROVE  /\ Utf16(chars) \in Seq(Nat)
         /\ \A k \in 1..Len(Utf16(chars)) : Utf16(chars)[k] \in Word
         /\ chars # <<>> => Len(Utf16(chars)) >= 1
<1> DEFINE w == Utf16(chars)
<1>1. PICK p : Encoded(w, chars, p)
  BY Utf16Places
<1>a. w \in Seq(Nat)
  BY <1>1 DEF Encoded
<1> HIDE DEF w
<1>b. \A i \in 1..Len(chars) :
        IF chars[i] < 65536 THEN w[p[i - 1] + 1] = chars[i]
        ELSE w[p[i - 1] + 1] = HighHalf(chars[i]) /\ w[p[i - 1] + 2] = LowHalf(chars[i])
  BY <1>1 DEF Encoded
<1>2. ASSUME NEW k \in 1..Len(w) PROVE w[k] \in Word
  <2>1. PICK i \in 1..Len(chars) : k = p[i - 1] + 1 \/ (~(chars[i] < 65536) /\ k = p[i - 1] + 2)
    BY <1>1, WordsCovered
  <2> DEFINE c == chars[i]
  <2>2. c \in Nat /\ Scalar(c)
    OBVIOUS
  <2>3. CASE c < 65536
    <3>1. w[k] = c
      BY <1>b, <2>1, <2>3
    <3>2. c \in Word
      <4> HIDE DEF c
      <4> QED  BY <2>2, <2>3 DEF Word
    <3> QED  BY <3>1, <3>2
  <2>4. CASE ~(c < 65536)
    <3>1. w[k] = HighHalf(c) \/ w[k] = LowHalf(c)
      <4>1. w[p[i - 1] + 1] = HighHalf(c) /\ w[p[i - 1] + 2] = LowHalf(c)
        BY <1>b, <2>4
      <4> HIDE DEF c
      <4> QED  BY <2>1, <4>1
    <3> HIDE DEF c
    <3>2. /\ HighHalf(c) \in Nat /\ LowHalf(c) \in Nat
          /\ HighHalf(c) < 65536 /\ LowHalf(c) < 65536
      BY <2>2, <2>4, Surrogates
    <3>3. HighHalf(c) \in Word /\ LowHalf(c) \in Word
      BY <3>2 DEF Word
    <3> QED  BY <3>1, <3>3
  <2> QED  BY <2>3, <2>4
<1>3. ASSUME chars # <<>> PROVE Len(w) >= 1
  <2>1. 1 \in 1..Len(chars)
    BY <1>3
  <2>2. p[1 - 1] + 1 \in 1..Len(w)
    BY <1>1, <2>1 DEF Encoded
  <2>3. Len(w) \in Nat
    BY <1>a
  <2> QED  BY <2>2, <2>3
<1> QED  BY <1>a, <1>2, <1>3 DEF w

\* The octets of words, two of each.
LEMMA BigEndianType ==
  ASSUME NEW w \in Seq(Nat)
  PROVE  /\ BigEndian(w) \in Seq(Nat) /\ Len(BigEndian(w)) = 2 * Len(w)
         /\ (\A k \in 1..Len(w) : w[k] \in Word) => BigEndian(w) \in Seq(Octet)
         /\ \A k \in 1..Len(w) : 256 * BigEndian(w)[2*k - 1] + BigEndian(w)[2*k] = w[k]
<1> DEFINE n == Len(w)
           b == BigEndian(w)
<1>1. n \in Nat /\ 2 * n \in Nat /\ \A k \in 1..n : w[k] \in Nat
  OBVIOUS
<1>2. b = [i \in 1..(2 * n) |-> IF i % 2 = 1 THEN w[(i + 1) \div 2] \div 256 ELSE w[i \div 2] % 256]
  BY DEF BigEndian
<1> HIDE DEF b, n
<1>3. \A i \in 1..(2 * n) :
        b[i] = IF i % 2 = 1 THEN w[(i + 1) \div 2] \div 256 ELSE w[i \div 2] % 256
  BY <1>2
<1>4. ASSUME NEW i \in 1..(2 * n)
      PROVE  \E k \in 1..n : b[i] = w[k] \div 256 \/ b[i] = w[k] % 256
  <2>1. CASE i % 2 = 1
    <3>1. (i + 1) \div 2 \in 1..n
      BY <1>1, <2>1
    <3>2. b[i] = w[(i + 1) \div 2] \div 256
      BY <1>3, <2>1
    <3> QED  BY <3>1, <3>2
  <2>2. CASE i % 2 # 1
    <3>1. i \div 2 \in 1..n
      BY <1>1, <2>2
    <3>2. b[i] = w[i \div 2] % 256
      BY <1>3, <2>2
    <3> QED  BY <3>1, <3>2
  <2> QED  BY <2>1, <2>2
<1>5. \A i \in 1..(2 * n) : b[i] \in Nat
  <2> SUFFICES ASSUME NEW i \in 1..(2 * n) PROVE b[i] \in Nat
    OBVIOUS
  <2>1. PICK k \in 1..n : b[i] = w[k] \div 256 \/ b[i] = w[k] % 256
    BY <1>4
  <2>2. w[k] \in Nat
    BY <1>1
  <2> QED  BY <2>1, <2>2
<1>6. b = [i \in 1..(2 * n) |-> b[i]]
  BY <1>2
<1>7. b \in Seq(Nat) /\ Len(b) = 2 * n
  <2> DEFINE size == 2 * n
  <2>1. size \in Nat /\ b = [i \in 1..size |-> b[i]] /\ \A i \in 1..size : b[i] \in Nat
    BY <1>1, <1>5, <1>6
  <2> HIDE DEF size
  <2>2. b \in Seq(Nat) /\ Len(b) = size
    BY <2>1, FunctionIsSeq
  <2> QED  BY <2>2 DEF size
<1>8. ASSUME \A k \in 1..n : w[k] \in Word PROVE b \in Seq(Octet)
  <2>1. ASSUME NEW i \in 1..(2 * n) PROVE b[i] \in Octet
    <3>1. PICK k \in 1..n : b[i] = w[k] \div 256 \/ b[i] = w[k] % 256
      BY <1>4
    <3>2. w[k] \in Word
      BY <1>8
    <3>3. w[k] \div 256 \in Octet /\ w[k] % 256 \in Octet
      BY <3>2, WordHalves
    <3> QED  BY <3>1, <3>3
  <2>2. b \in [1..(2 * n) -> Octet]
    BY <1>6, <2>1
  <2> QED  BY <1>1, <2>2
<1>9. ASSUME NEW k \in 1..n PROVE 256 * b[2*k - 1] + b[2*k] = w[k]
  <2>1. /\ 2*k - 1 \in 1..(2 * n) /\ 2*k \in 1..(2 * n)
        /\ (2*k - 1) % 2 = 1 /\ ((2*k - 1) + 1) \div 2 = k
        /\ (2*k) % 2 = 0 /\ (2*k) \div 2 = k
    BY <1>1
  <2>2. b[2*k - 1] = w[k] \div 256
    BY <1>3, <2>1
  <2>3. b[2*k] = w[k] % 256
    BY <1>3, <2>1
  <2>4. w[k] \in Nat
    BY <1>1
  <2>5. 256 * (w[k] \div 256) + (w[k] % 256) = w[k]
    BY <2>4
  <2> QED  BY <2>2, <2>3, <2>5
<1> QED  BY <1>7, <1>8, <1>9 DEF b, n

\* Words are read back from behind the header.
LEMMA Ucs2Decodes ==
  ASSUME NEW chars \in Seq(Nat), \A i \in 1..Len(chars) : Scalar(chars[i]),
         NEW head \in Seq(Nat), NEW hasUDH \in BOOLEAN,
         hasUDH => head # <<>> /\ head[1] + 1 = Len(head),
         ~hasUDH => head = <<>>
  PROVE  decodeUCS2(head \o BigEndian(Utf16(chars)), hasUDH) = Text("ucs2", chars)
<1> DEFINE w == Utf16(chars)
           b == BigEndian(w)
           data == head \o b
           h == HeaderBytes(data, hasUDH)
           rest == SubSeq(data, h + 1, Len(data))
<1>1. w \in Seq(Nat) /\ utf16Decode(w) = chars
  BY WordSize, Utf16Decodes
<1> HIDE DEF w
<1>2. /\ b \in Seq(Nat) /\ Len(b) = 2 * Len(w)
      /\ \A k \in 1..Len(w) : 256 * b[2*k - 1] + b[2*k] = w[k]
  BY <1>1, BigEndianType
<1> HIDE DEF b
<1>3. /\ data \in Seq(Nat) /\ Len(data) = Len(head) + Len(b) /\ Len(head) \in Nat /\ Len(b) \in Nat
      /\ \A i \in 1..Len(head) : data[i] = head[i]
      /\ \A i \in 1..Len(b) : data[Len(head) + i] = b[i]
  <2>1. b \in Seq(Nat)
    BY <1>2
  <2>2. Len(head) \in Nat /\ Len(b) \in Nat
    BY <2>1, LenProperties
  <2>3. /\ data \in Seq(Nat) /\ Len(data) = Len(head) + Len(b)
        /\ \A i \in 1..Len(head) : data[i] = head[i]
        /\ \A i \in 1..Len(b) : data[Len(head) + i] = b[i]
    BY <2>1, Joined
  <2> QED  BY <2>2, <2>3
<1> HIDE DEF data
<1>4. h = Len(head) /\ ~HeaderCut(data, hasUDH)
  <2>1. CASE hasUDH
    <3>1. Len(head) # 0 /\ 1 \in 1..Len(head)
      BY <1>3, <2>1
    <3>2. data[1] + 1 = Len(head) /\ data # <<>>
      BY <1>3, <2>1, <3>1
    <3> QED  BY <1>3, <2>1, <3>2 DEF HeaderBytes, HeaderCut
  <2>2. CASE ~hasUDH
    <3>1. Len(head) = 0
      BY <2>2
    <3> QED  BY <2>2, <3>1 DEF HeaderBytes, HeaderCut
  <2> QED  BY <2>1, <2>2
<1>5. rest = b
  <2>1. b \in Seq(Nat)
    BY <1>2
  <2>2. SubSeq(data, Len(head) + 1, Len(data)) = b
    BY <1>3, <2>1, RestIs
  <2> QED  BY <1>4, <2>2
<1> HIDE DEF rest
<1>6. Len(rest) % 2 = 0 /\ Len(rest) \div 2 = Len(w)
  <2>1. Len(w) \in Nat
    BY <1>1
  <2> QED  BY <1>2, <1>5, <2>1
<1>7. [i \in 1..Len(w) |-> 256 * rest[2*i - 1] + rest[2*i]] = w
  <2>1. w = [i \in 1..Len(w) |-> w[i]]
    BY <1>1
  <2>2. \A i \in 1..Len(w) : 256 * rest[2*i - 1] + rest[2*i] = w[i]
    BY <1>2, <1>5
  <2> QED  BY <2>1, <2>2
<1>8. decodeUCS2(data, hasUDH) = Text("ucs2", utf16Decode(w))
  BY <1>4, <1>6, <1>7 DEF decodeUCS2, rest
<1> QED  BY <1>1, <1>8 DEF data, b, w

-----------------------------------------------------------------------------
(* The fields of a TPDU.                                                   *)

\* The digits come back in their order, without what fills the last octet up.
LEMMA SemiOctetsDecode ==
  ASSUME NEW digits \in Seq(0..14)
  PROVE  /\ SemiOctets(digits) \in Seq(Nat)
         /\ Len(SemiOctets(digits)) = (Len(digits) + 1) \div 2
         /\ decodeSemiOctets(SemiOctets(digits), Len(digits)) = digits
<1> DEFINE n == Len(digits)
           h == (n + 1) \div 2
           s == SemiOctets(digits)
           all == [i \in 1..(2 * h) |-> IF i % 2 = 1 THEN s[(i + 1) \div 2] % 16 ELSE s[i \div 2] \div 16]
           kept == {i \in 1..(2 * h) : all[i] # 15} \cup {0}
           out == SubSeq(all, 1, n)
<1>1. n \in Nat /\ h \in Nat /\ n <= 2 * h /\ 2 * h <= n + 1
  BY LenProperties
<1>2. \A i \in 1..n : digits[i] \in 0..14
  BY ElementOfSeq
<1>3. s = [i \in 1..h |-> digits[2*i - 1] + 16 * (IF 2*i <= n THEN digits[2*i] ELSE 15)]
  BY DEF SemiOctets
<1> HIDE DEF s, n, h
<1>4. ASSUME NEW i \in 1..h
      PROVE  /\ s[i] \in Nat
             /\ 2*i - 1 \in 1..n /\ s[i] % 16 = digits[2*i - 1]
             /\ s[i] \div 16 = IF 2*i <= n THEN digits[2*i] ELSE 15
  <2>1. 2*i - 1 \in 1..n /\ (2*i <= n => 2*i \in 1..n)
    BY <1>1
  <2> DEFINE low == digits[2*i - 1]
             high == IF 2*i <= n THEN digits[2*i] ELSE 15
  <2>2. low \in 0..14 /\ high \in 0..15
    <3>1. low \in 0..14
      BY <1>2, <2>1
    <3>2. 2*i <= n => digits[2*i] \in 0..14
      BY <1>2, <2>1
    <3> QED  BY <3>1, <3>2
  <2>3. s[i] = low + 16 * high
    BY <1>3
  <2> HIDE DEF low, high
  <2>4. s[i] \in Nat /\ s[i] % 16 = low /\ s[i] \div 16 = high
    BY <2>2, <2>3
  <2> QED  BY <2>1, <2>4 DEF low, high
<1>5. s \in Seq(Nat) /\ Len(s) = h
  <2>1. s \in [1..h -> Nat]
    BY <1>3, <1>4
  <2> QED  BY <1>1, <2>1
<1>6. ASSUME NEW i \in 1..(2 * h) PROVE all[i] = IF i <= n THEN digits[i] ELSE 15
  <2>1. i \in Nat /\ i >= 1 /\ i <= 2 * h
    BY <1>1
  <2>2. CASE i % 2 = 1
    <3> DEFINE k == (i + 1) \div 2
    <3>1. k \in 1..h /\ 2*k - 1 = i
      BY <1>1, <2>1, <2>2
    <3>2. all[i] = s[k] % 16
      BY <2>2
    <3> HIDE DEF k, all
    <3>3. i \in 1..n /\ s[k] % 16 = digits[i]
      BY <1>4, <3>1
    <3>4. i <= n
      BY <1>1, <3>3
    <3> QED  BY <3>2, <3>3, <3>4
  <2>3. CASE i % 2 # 1
    <3> DEFINE k == i \div 2
    <3>1. k \in 1..h /\ 2*k = i
      BY <1>1, <2>1, <2>3
    <3>2. all[i] = s[k] \div 16
      BY <2>3
    <3> HIDE DEF k, all
    <3>3. s[k] \div 16 = IF 2*k <= n THEN digits[2*k] ELSE 15
      BY <1>4, <3>1
    <3> QED  BY <3>1, <3>2, <3>3
  <2> QED  BY <2>2, <2>3
<1>a. all = [i \in 1..(2 * h) |-> all[i]]
  OBVIOUS
<1> HIDE DEF all
<1>7. Max(kept) = n
  <2>1. n \in kept
    <3>1. CASE n = 0
      BY <3>1
    <3>2. CASE n # 0
      <4>1. n \in 1..n /\ n \in 1..(2 * h) /\ n <= n
        BY <1>1, <3>2
      <4>2. all[n] = digits[n] /\ digits[n] \in 0..14
        BY <1>2, <1>6, <4>1
      <4>3. all[n] # 15
        BY <4>2
      <4> QED  BY <4>1, <4>3
    <3> QED  BY <3>1, <3>2
  <2>2. \A i \in kept : n >= i /\ i \in Nat
    <3> SUFFICES ASSUME NEW i \in 1..(2 * h), all[i] # 15 PROVE n >= i /\ i \in Nat
      BY <1>1
    <3>1. i \in Nat
      BY <1>1
    <3> QED  BY <1>1, <1>6, <3>1
  <2> HIDE DEF kept
  <2>3. Max(kept) \in kept /\ \A i \in kept : Max(kept) >= i
    <3>1. \E x \in kept : \A y \in kept : x >= y
      BY <2>1, <2>2
    <3> QED  BY <3>1 DEF Max
  <2>4. Max(kept) >= n /\ n >= Max(kept) /\ Max(kept) \in Nat
    BY <2>1, <2>2, <2>3
  <2> QED  BY <1>1, <2>4
<1>8. out = digits
  <2>1. ASSUME NEW i \in 1..(2 * h) PROVE all[i] \in 0..15
    <3>1. i \in Nat /\ i >= 1
      BY <1>1
    <3>2. CASE i <= n
      <4>1. i \in 1..n
        BY <1>1, <3>1, <3>2
      <4>2. all[i] = digits[i] /\ digits[i] \in 0..14
        BY <1>2, <1>6, <3>2, <4>1
      <4> QED  BY <4>2
    <3>3. CASE ~(i <= n)
      BY <1>6, <3>3
    <3> QED  BY <3>2, <3>3
  <2>2. all \in Seq(Nat) /\ Len(all) = 2 * h
    <3>1. \A i \in 1..(2 * h) : all[i] \in Nat
      <4>1. \A c \in 0..15 : c \in Nat
        OBVIOUS
      <4> QED  BY <2>1, <4>1
    <3>2. 2 * h \in Nat
      BY <1>1
    <3>3. all \in [1..(2 * h) -> Nat]
      BY <1>a, <3>1
    <3> QED  BY <3>2, <3>3
  <2>3. out \in Seq(Nat) /\ Len(out) = n /\ \A i \in 1..n : out[i] = all[i]
    <3>1. n \in 0..Len(all)
      BY <1>1, <2>2
    <3> QED  BY <1>1, <2>2, <3>1
  <2> HIDE DEF out
  <2>4. \A i \in 1..n : out[i] = digits[i]
    <3> SUFFICES ASSUME NEW i \in 1..n PROVE all[i] = digits[i]
      BY <2>3
    <3>1. i \in 1..(2 * h) /\ i <= n
      BY <1>1
    <3> QED  BY <1>6, <3>1
  <2>5. digits \in Seq(Nat)
    <3>1. 0..14 \subseteq Nat
      OBVIOUS
    <3> QED  BY <3>1, SeqMonotonic
  <2> QED  BY <2>3, <2>4, <2>5, SeqEqual DEF n
<1>9. decodeSemiOctets(s, n) = digits
  <2>1. Len(digits) = n
    BY DEF n
  <2>2. \A m \in Nat : ~(m > m)
    OBVIOUS
  <2>3. DOMAIN all = 1..(2 * h)
    BY <1>a
  <2>4. decodeSemiOctets(s, n) = IF n > 0 /\ Len(out) > n THEN SubSeq(out, 1, n) ELSE out
    BY <1>5, <1>7, <2>3 DEF decodeSemiOctets, all
  <2> QED  BY <1>1, <1>8, <2>1, <2>2, <2>4
<1> QED  BY <1>5, <1>9 DEF s, h, n

\* The fields of a TPDU o: its first octet is f; the address of d digits begins at a, then come two
\* octets, skip octets, the length l of the user data and the user data u.
Fields(o, f, a, d, toa, semi, dcs, skip, l, u) ==
  /\ o[1] = f
  /\ o \in Seq(Nat) /\ a + Len(semi) + 4 + skip <= Len(o)
  /\ o[a] = d /\ o[a + 1] = toa
  /\ SubSeq(o, a + 2, a + 2 + Len(semi) - 1) = semi
  /\ o[a + 2 + Len(semi) + 1] = dcs
  /\ o[a + 2 + Len(semi) + 2 + skip] = l
  /\ SubSeq(o, a + 2 + Len(semi) + 2 + skip + 1, Len(o)) = u

\* A TPDU put together from its parts.
TPDUOf(first, d, toa, semi, dcs, period, l, u) ==
  first \o (<<d, toa>> \o semi) \o <<0, dcs>> \o period \o (<<l>> \o u)

\* Every field is where its predecessors end.
LEMMA FieldsPlaces ==
  ASSUME NEW first \in Seq(Nat), Len(first) >= 1, NEW d \in Nat, NEW toa \in Nat, NEW semi \in Seq(Nat),
         NEW dcs \in Nat, NEW period \in Seq(Nat), NEW l \in Nat, NEW u \in Seq(Nat), NEW o,
         o = TPDUOf(first, d, toa, semi, dcs, period, l, u)
  PROVE  Fields(o, first[1], Len(first) + 1, d, toa, semi, dcs, Len(period), l, u)
<1> DEFINE from == <<d, toa>>
           coding == <<0, dcs>>
           length == <<l>>
           address == from \o semi
           data == length \o u
           x == first \o address
           y == x \o coding
           z == y \o period
           t == z \o data
           f == Len(first)
           m == Len(semi)
           k == Len(period)
<1>1. /\ from \in Seq(Nat) /\ Len(from) = 2 /\ from[1] = d /\ from[2] = toa
      /\ coding \in Seq(Nat) /\ Len(coding) = 2 /\ coding[2] = dcs
      /\ length \in Seq(Nat) /\ Len(length) = 1 /\ length[1] = l
  OBVIOUS
<1> HIDE DEF from, coding, length
<1>2. f \in Nat /\ m \in Nat /\ k \in Nat /\ Len(u) \in Nat
  BY LenProperties
<1>3. /\ address \in Seq(Nat) /\ Len(address) = 2 + m
      /\ address[1] = d /\ address[2] = toa /\ \A i \in 1..m : address[2 + i] = semi[i]
  <2>1. /\ address \in Seq(Nat) /\ Len(address) = Len(from) + Len(semi)
        /\ \A i \in 1..Len(from) : address[i] = from[i]
        /\ \A i \in 1..Len(semi) : address[Len(from) + i] = semi[i]
    BY <1>1, Joined
  <2> HIDE DEF address
  <2> QED  BY <1>1, <2>1
<1> HIDE DEF address
<1>4. /\ data \in Seq(Nat) /\ Len(data) = 1 + Len(u)
      /\ data[1] = l /\ \A i \in 1..Len(u) : data[1 + i] = u[i]
  <2>1. /\ data \in Seq(Nat) /\ Len(data) = Len(length) + Len(u)
        /\ \A i \in 1..Len(length) : data[i] = length[i]
        /\ \A i \in 1..Len(u) : data[Len(length) + i] = u[i]
    BY <1>1, Joined
  <2> HIDE DEF data
  <2> QED  BY <1>1, <2>1
<1> HIDE DEF data
<1>5. /\ x \in Seq(Nat) /\ Len(x) = Len(first) + Len(address)
      /\ \A i \in 1..Len(first) : x[i] = first[i]
      /\ \A i \in 1..Len(address) : x[Len(first) + i] = address[i]
  <2>1. first \in Seq(Nat) /\ address \in Seq(Nat)
    BY <1>1, <1>3
  <2> QED  BY <2>1, Joined
<1> HIDE DEF x
<1>6. /\ y \in Seq(Nat) /\ Len(y) = Len(x) + Len(coding)
      /\ \A i \in 1..Len(x) : y[i] = x[i]
      /\ \A i \in 1..Len(coding) : y[Len(x) + i] = coding[i]
  BY <1>1, <1>5, Joined
<1> HIDE DEF y
<1>7. /\ z \in Seq(Nat) /\ Len(z) = Len(y) + Len(period)
      /\ \A i \in 1..Len(y) : z[i] = y[i]
  BY <1>6, Joined
<1> HIDE DEF z
<1>8. /\ t \in Seq(Nat) /\ Len(t) = Len(z) + Len(data)
      /\ \A i \in 1..Len(z) : t[i] = z[i]
      /\ \A i \in 1..Len(data) : t[Len(z) + i] = data[i]
  BY <1>4, <1>7, Joined
<1> HIDE DEF t
<1>9. /\ Len(x) = f + 2 + m /\ Len(y) = f + 4 + m /\ Len(z) = f + 4 + m + k
      /\ Len(t) = f + 5 + m + k + Len(u)
  BY <1>1, <1>2, <1>3, <1>4, <1>5, <1>6, <1>7, <1>8
<1> HIDE DEF f, m, k
<1>10. ASSUME NEW i \in 1..(2 + m) PROVE t[f + i] = address[i]
  <2>1. /\ f + i \in 1..Len(z) /\ f + i \in 1..Len(y) /\ f + i \in 1..Len(x)
        /\ i \in 1..Len(address)
    BY <1>2, <1>3, <1>9
  <2>2. x[f + i] = address[i]
    BY <1>5, <2>1 DEF f
  <2> QED  BY <1>6, <1>7, <1>8, <2>1, <2>2
<1>11. t[f + 1] = d /\ t[f + 2] = toa /\ \A i \in 1..m : t[f + 2 + i] = semi[i]
  <2>1. 1 \in 1..(2 + m) /\ 2 \in 1..(2 + m)
    BY <1>2
  <2>2. ASSUME NEW i \in 1..m PROVE t[f + 2 + i] = semi[i]
    <3>1. 2 + i \in 1..(2 + m) /\ f + (2 + i) = f + 2 + i
      BY <1>2
    <3>2. t[f + (2 + i)] = address[2 + i]
      BY <1>10, <3>1
    <3> QED  BY <1>3, <3>1, <3>2
  <2> QED  BY <1>3, <1>10, <2>1, <2>2
<1>12. t[f + 4 + m] = dcs
  <2>1. /\ f + 4 + m \in 1..Len(z) /\ f + 4 + m \in 1..Len(y) /\ f + 4 + m = Len(x) + 2
        /\ 2 \in 1..Len(coding)
    BY <1>1, <1>2, <1>9
  <2>2. y[Len(x) + 2] = dcs
    BY <1>1, <1>6, <2>1
  <2> QED  BY <1>7, <1>8, <2>1, <2>2
<1>13. /\ t[f + 5 + m + k] = l
       /\ \A i \in 1..Len(u) : t[f + 5 + m + k + i] = u[i]
  <2>1. f + 5 + m + k = Len(z) + 1 /\ 1 \in 1..Len(data)
    BY <1>2, <1>4, <1>9
  <2>2. ASSUME NEW i \in 1..Len(u) PROVE t[f + 5 + m + k + i] = u[i]
    <3>1. 1 + i \in 1..Len(data) /\ f + 5 + m + k + i = Len(z) + (1 + i)
      BY <1>2, <1>4, <1>9
    <3> QED  BY <1>4, <1>8, <3>1
  <2> QED  BY <1>4, <1>8, <2>1, <2>2
<1>14. SubSeq(t, f + 3, f + 2 + m) = semi
  <2> DEFINE g == f + 2
  <2>1. g \in Nat /\ f + 3 = g + 1 /\ g + m <= Len(t)
    BY <1>2, <1>9
  <2>2. \A i \in 1..Len(semi) : t[g + i] = semi[i]
    BY <1>11 DEF m
  <2> HIDE DEF g
  <2>3. g + Len(semi) <= Len(t)
    BY <2>1 DEF m
  <2>4. SubSeq(t, g + 1, g + Len(semi)) = semi
    BY <1>8, <2>1, <2>2, <2>3, PartIs
  <2> QED  BY <2>1, <2>4 DEF g, m
<1>15. SubSeq(t, f + 6 + m + k, Len(t)) = u
  <2> DEFINE g == f + 5 + m + k
  <2>1. g \in Nat /\ f + 6 + m + k = g + 1 /\ Len(t) = g + Len(u)
    BY <1>2, <1>9
  <2>2. \A i \in 1..Len(u) : t[g + i] = u[i]
    BY <1>13
  <2> HIDE DEF g
  <2>3. SubSeq(t, g + 1, Len(t)) = u
    BY <1>8, <2>1, <2>2, RestIs
  <2> QED  BY <2>1, <2>3
<1>16. /\ (f + 1) + 1 = f + 2 /\ (f + 1) + 2 = f + 3
       /\ (f + 1) + 2 + m - 1 = f + 2 + m /\ (f + 1) + 2 + m + 1 = f + 4 + m
       /\ (f + 1) + 2 + m + 2 + k = f + 5 + m + k
       /\ (f + 1) + 2 + m + 2 + k + 1 = f + 6 + m + k
       /\ (f + 1) + m + 4 + k <= Len(t)
  BY <1>2, <1>9
<1>17. t[1] = first[1]
  <2>1. 1 \in 1..Len(first) /\ 1 \in 1..Len(x) /\ 1 \in 1..Len(y) /\ 1 \in 1..Len(z)
    BY <1>2, <1>9 DEF f
  <2>2. x[1] = first[1] /\ y[1] = x[1]
    BY <1>5, <1>6, <2>1
  <2>3. z[1] = y[1] /\ t[1] = z[1]
    BY <1>7, <1>8, <2>1
  <2> QED  BY <2>2, <2>3
<1>18. Fields(t, first[1], f + 1, d, toa, semi, dcs, k, l, u)
  BY <1>8, <1>11, <1>12, <1>13, <1>14, <1>15, <1>16, <1>17 DEF Fields, m
<1>19. t = o
  BY DEF TPDUOf, t, z, y, x, data, address, length, coding, from
<1> QED  BY <1>18, <1>19, Zenon DEF f, k

\* The event of a message that is decoded as it was sent.
Event(m) == [ok |-> TRUE, from |-> m.from,
             text |-> [coding |-> m.coding, chars |-> m.chars]]

\* Of fields with at most 254 digits of address and a text that can be decoded, the
\* decoder makes the event that says so.
LEMMA FieldsDecode ==
  ASSUME NEW o, NEW f, NEW a \in Nat, NEW d \in Nat, d <= 254, NEW toa, NEW semi \in Seq(Nat),
         Len(semi) = (d + 1) \div 2, NEW dcs, NEW skip \in Nat, NEW l, NEW u,
         Fields(o, f, a, d, toa, semi, dcs, skip, l, u), NEW coding, NEW chars,
         decodeUserData(dcs, Bit(f, 6) = 1, l, u) = Text(coding, chars)
  PROVE  DecodeFields(o, a, skip) =
           [ok   |-> TRUE,
            from |-> [plus |-> toa = 145, digits |-> decodeSemiOctets(semi, d)],
            text |-> [coding |-> coding, chars |-> chars]]
<1> DEFINE after == a + 2 + ((o[a] + 1) % 256) \div 2
           udl == after + 2 + skip
           text == decodeUserData(o[after + 1], Bit(o[1], 6) = 1, o[udl],
                                  SubSeq(o, udl + 1, Len(o)))
           n == Len(semi)
           b == a + 2 + n
           c == b + 2 + skip
           size == Len(o)
<1>0. /\ o[1] = f
      /\ o \in Seq(Nat) /\ a + Len(semi) + 4 + skip <= Len(o)
      /\ o[a] = d /\ o[a + 1] = toa
      /\ SubSeq(o, a + 2, a + 2 + Len(semi) - 1) = semi
      /\ o[a + 2 + Len(semi) + 1] = dcs
      /\ o[a + 2 + Len(semi) + 2 + skip] = l
      /\ SubSeq(o, a + 2 + Len(semi) + 2 + skip + 1, Len(o)) = u
  BY DEF Fields
<1>1. /\ o \in Seq(Nat) /\ a + n + 4 + skip <= size
      /\ o[a] = d /\ o[a + 1] = toa
      /\ SubSeq(o, a + 2, b - 1) = semi
      /\ o[b + 1] = dcs /\ o[c] = l
      /\ SubSeq(o, c + 1, size) = u
  <2>1. o \in Seq(Nat) /\ a + n + 4 + skip <= size
    BY <1>0
  <2>2. o[a] = d /\ o[a + 1] = toa
    BY <1>0
  <2>3. SubSeq(o, a + 2, b - 1) = semi
    BY <1>0
  <2>4. o[b + 1] = dcs
    BY <1>0
  <2>5. o[c] = l
    BY <1>0
  <2>6. SubSeq(o, c + 1, size) = u
    BY <1>0
  <2> HIDE DEF n, b, c, size
  <2> QED  BY <2>1, <2>2, <2>3, <2>4, <2>5, <2>6
<1>2. after = b
  <2>1. (d + 1) % 256 = d + 1
    OBVIOUS
  <2> QED  BY <1>1, <2>1
<1>3. n \in Nat /\ size \in Nat
  BY <1>1
<1> HIDE DEF after, n, size
<1>a. udl = c
  BY <1>2
<1>b. ~(size < a \/ size < c)
  BY <1>1, <1>3
<1> HIDE DEF b, c
<1>4. /\ ~(Len(o) < a \/ Len(o) < udl)
      /\ o[after + 1] = dcs /\ o[udl] = l /\ SubSeq(o, udl + 1, Len(o)) = u
      /\ SubSeq(o, a + 2, after - 1) = semi
  <2> HIDE DEF udl
  <2> QED  BY <1>1, <1>2, <1>a, <1>b DEF size
<1>5. text = Text(coding, chars)
  BY <1>0, <1>4
<1>6. text.ok = TRUE /\ text.coding = coding /\ text.chars = chars
  BY <1>5 DEF Text
<1> HIDE DEF text, udl
<1>7. DecodeFields(o, a, skip) =
        IF Len(o) < a \/ Len(o) < udl \/ ~text.ok THEN Fail
        ELSE [ok   |-> TRUE,
              from |-> [plus   |-> o[a + 1] = 145,
                        digits |-> decodeSemiOctets(SubSeq(o, a + 2, after - 1), o[a])],
              text |-> [coding |-> text.coding, chars |-> text.chars]]
  BY DEF DecodeFields, after, udl, text
<1>8. DecodeFields(o, a, skip) =
        [ok   |-> TRUE,
         from |-> [plus   |-> o[a + 1] = 145,
                   digits |-> decodeSemiOctets(SubSeq(o, a + 2, after - 1), o[a])],
         text |-> [coding |-> text.coding, chars |-> text.chars]]
  BY <1>4, <1>6, <1>7
<1> QED  BY <1>1, <1>4, <1>6, <1>8, Zenon

\* The fields of a message that the decoder is to understand.
LEMMA MessageFields ==
  ASSUME NEW m, Decodable(m)
  PROVE  /\ m.mode \in {"deliver", "submit", "text"} /\ m.from \in Address
         /\ m.from.digits \in Seq(0..14) /\ Len(m.from.digits) \in Nat
         /\ Len(m.from.digits) <= 254
         /\ m.udh \in Seq(Octet) /\ m.chars \in Seq(Nat)
         /\ m.validity \in {"none", "relative", "enhanced", "absolute"}
<1>1. m \in Message /\ Len(m.from.digits) <= 254
  BY DEF Decodable
<1>2. /\ m.mode \in {"deliver", "submit", "text"} /\ m.from \in Address
      /\ m.udh \in Seq(Octet) /\ m.chars \in Seq(Nat)
      /\ m.validity \in {"none", "relative", "enhanced", "absolute"}
  BY <1>1 DEF Message
<1>3. m.from.digits \in Seq(0..14)
  BY <1>2 DEF Address
<1>4. Len(m.from.digits) \in Nat
  BY <1>3, LenProperties
<1> QED  BY <1>1, <1>2, <1>3, <1>4

\* The data coding scheme of a message.
Scheme(m) == CASE m.coding = "gsm7" -> 0 [] m.coding = "ucs2" -> 8 [] OTHER -> 4

\* An octet is a number, and so are octets in a row.
LEMMA OctetsAreNumbers ==
  ASSUME NEW o \in Seq(Octet)
  PROVE  o \in Seq(Nat)
<1>1. Octet \subseteq Nat
  BY DEF Octet
<1> QED  BY <1>1, SeqMonotonic

\* The user data that the modem writes is read back.
LEMMA UserDataDecodes ==
  ASSUME NEW m, Decodable(m), m.mode # "text"
  PROVE  /\ UserData(m).length \in Nat /\ UserData(m).octets \in Seq(Nat) /\ Scheme(m) \in Nat
         /\ decodeUserData(Scheme(m), m.udh # <<>>, UserData(m).length, UserData(m).octets)
              = Text(m.coding, m.chars)
<1> DEFINE head == IF m.udh = <<>> THEN <<>> ELSE <<Len(m.udh)>> \o m.udh
           fill == (7 - ((8 * Len(head)) % 7)) % 7
           data == CASE m.coding = "gsm7" -> Pack(Septets(m.chars), fill)
                     [] m.coding = "ucs2" -> BigEndian(Utf16(m.chars))
                     [] OTHER             -> m.chars
<1>1. /\ UserData(m).length = IF m.coding = "gsm7"
                                THEN (8 * Len(head) + fill) \div 7 + Len(Septets(m.chars))
                                ELSE Len(head \o data)
      /\ UserData(m).octets = head \o data
  BY DEF UserData
<1>2. /\ m.chars \in Seq(Nat) /\ m.udh \in Seq(Nat)
      /\ \/ m.coding = "gsm7" /\ m.udh = <<>> /\ m.chars \in Seq(0..127)
         \/ m.coding = "8bit" /\ m.udh = <<>>
         \/ m.coding = "ucs2" /\ \A i \in 1..Len(m.chars) : Scalar(m.chars[i])
  <2>1. m.chars \in Seq(Nat) /\ m.udh \in Seq(Nat)
    BY MessageFields, OctetsAreNumbers
  <2> QED  BY <2>1 DEF Decodable
<1>3. /\ head \in Seq(Nat)
      /\ m.udh = <<>> => head = <<>>
      /\ m.udh # <<>> => head # <<>> /\ head[1] + 1 = Len(head)
  <2>1. CASE m.udh = <<>>
    BY <2>1
  <2>2. CASE m.udh # <<>>
    <3> DEFINE n == Len(m.udh)
               one == <<n>>
    <3>1. n \in Nat
      BY <1>2
    <3> HIDE DEF n
    <3>2. one \in Seq(Nat) /\ Len(one) = 1 /\ one[1] = n
      BY <3>1
    <3> HIDE DEF one
    <3>3. /\ one \o m.udh \in Seq(Nat) /\ Len(one \o m.udh) = 1 + n
          /\ (one \o m.udh)[1] = n
      <4>1. /\ one \o m.udh \in Seq(Nat) /\ Len(one \o m.udh) = Len(one) + Len(m.udh)
            /\ \A i \in 1..Len(one) : (one \o m.udh)[i] = one[i]
        BY <1>2, <3>2, Joined
      <4>2. 1 \in 1..Len(one)
        BY <3>2
      <4> QED  BY <3>2, <4>1, <4>2 DEF n
    <3>4. head = one \o m.udh
      BY <2>2 DEF one, n
    <3> HIDE DEF head
    <3>5. head \in Seq(Nat) /\ Len(head) = 1 + n /\ head[1] = n
      BY <3>3, <3>4
    <3>6. head # <<>>
      <4>1. Len(head) # 0
        BY <3>1, <3>5
      <4> QED  BY <4>1
    <3> QED  BY <2>2, <3>1, <3>5, <3>6
  <2> QED  BY <2>1, <2>2
<1> HIDE DEF head
<1>4. CASE m.coding = "gsm7"
  <2>1. m.udh = <<>> /\ m.chars \in Seq(0..127)
    BY <1>2, <1>4
  <2>2. head = <<>> /\ Len(head) = 0 /\ fill = 0
    BY <1>3, <2>1
  <2>3. Septets(m.chars) = m.chars
    <3> DEFINE c == m.chars
    <3>1. c \in Seq(Nat)
      BY <1>2
    <3>2. \A i \in 1..Len(c) : ~(c[i] >= 128)
      <4>1. \A i \in 1..Len(c) : c[i] \in 0..127
        BY <2>1, ElementOfSeq
      <4>2. \A k \in 0..127 : ~(k >= 128)
        OBVIOUS
      <4> QED  BY <4>1, <4>2
    <3> HIDE DEF c
    <3>3. Septets(c) = FlattenSeq([i \in 1..Len(c) |-> <<c[i]>>])
      <4>1. [i \in 1..Len(c) |-> IF c[i] >= 128 THEN <<27, c[i] - 128>> ELSE <<c[i]>>]
              = [i \in 1..Len(c) |-> <<c[i]>>]
        BY <3>2
      <4> QED  BY <4>1 DEF Septets
    <3> QED  BY <3>1, <3>3, FlattenSingles DEF c
  <2>4. data = Pack(m.chars, 0)
    BY <1>4, <2>2, <2>3
  <2>5. Pack(m.chars, 0) \in Seq(Nat) /\ <<>> \o Pack(m.chars, 0) = Pack(m.chars, 0)
    BY <2>1, PackedBits, OctetsAreNumbers, ConcatEmptySeq
  <2>6. UserData(m).octets = Pack(m.chars, 0)
    BY <1>1, <2>2, <2>4, <2>5
  <2>7. UserData(m).length = Len(m.chars) /\ Len(m.chars) \in Nat
    <3>1. Len(m.chars) \in Nat
      BY <1>2
    <3>2. (8 * Len(head) + fill) \div 7 = 0
      <4>1. (8 * 0 + 0) \div 7 = 0
        OBVIOUS
      <4> QED  BY <2>2, <4>1
    <3> HIDE DEF fill
    <3> QED  BY <1>1, <1>4, <2>3, <3>1, <3>2
  <2>8. Scheme(m) = 0
    BY <1>4 DEF Scheme
  <2>9. decodeUserData(0, FALSE, Len(m.chars), Pack(m.chars, 0)) = Text("gsm7", m.chars)
    <3> DEFINE c == m.chars
               n == Len(c)
               p == Pack(c, 0)
    <3>1. decodeGSM7(p, n, FALSE) = Text("gsm7", c)
      BY <2>1, Unpacks
    <3> HIDE DEF c, n, p
    <3>2. decodeUserData(0, FALSE, n, p) = decodeGSM7(p, n, FALSE)
      BY DEF decodeUserData
    <3>3. decodeUserData(0, FALSE, n, p) = Text("gsm7", c)
      BY <3>1, <3>2
    <3> QED  BY <3>3 DEF c, n, p
  <2>10. (m.udh # <<>>) = FALSE
    BY <2>1
  <2>11. decodeUserData(Scheme(m), m.udh # <<>>, UserData(m).length, UserData(m).octets)
           = Text(m.coding, m.chars)
    BY <1>4, <2>6, <2>7, <2>8, <2>9, <2>10, Zenon
  <2> QED  BY <2>5, <2>6, <2>7, <2>8, <2>11
<1>5. CASE m.coding = "8bit"
  <2>1. head = <<>> /\ data = m.chars /\ Scheme(m) = 4 /\ m.coding # "gsm7"
    BY <1>2, <1>3, <1>5 DEF Scheme
  <2>2. <<>> \o m.chars = m.chars
    BY <1>2, ConcatEmptySeq
  <2>3. UserData(m).octets = m.chars /\ UserData(m).length = Len(m.chars)
    BY <1>1, <2>1, <2>2
  <2>4. Len(m.chars) \in Nat
    BY <1>2
  <2>5. decodeUserData(4, m.udh # <<>>, Len(m.chars), m.chars) = Text("8bit", m.chars)
    BY DEF decodeUserData
  <2> QED  BY <1>2, <1>5, <2>1, <2>3, <2>4, <2>5
<1>6. CASE m.coding = "ucs2"
  <2>1. \A i \in 1..Len(m.chars) : Scalar(m.chars[i])
    BY <1>2, <1>6
  <2> DEFINE b == BigEndian(Utf16(m.chars))
  <2>2. data = b /\ Scheme(m) = 8 /\ m.coding # "gsm7"
    BY <1>6 DEF Scheme
  <2>3. b \in Seq(Nat)
    <3>1. Utf16(m.chars) \in Seq(Nat)
      BY <1>2, <2>1, WordSize
    <3> QED  BY <3>1, BigEndianType
  <2>4. decodeUCS2(head \o b, m.udh # <<>>) = Text("ucs2", m.chars)
    <3> DEFINE c == m.chars
               hasUDH == m.udh # <<>>
    <3>1. /\ c \in Seq(Nat) /\ \A i \in 1..Len(c) : Scalar(c[i])
          /\ hasUDH \in BOOLEAN
          /\ hasUDH => head # <<>> /\ head[1] + 1 = Len(head)
          /\ ~hasUDH => head = <<>>
      BY <1>2, <1>3, <2>1
    <3> HIDE DEF c, hasUDH
    <3>2. decodeUCS2(head \o BigEndian(Utf16(c)), hasUDH) = Text("ucs2", c)
      BY <1>3, <3>1, Ucs2Decodes
    <3> QED  BY <3>2 DEF c, hasUDH
  <2> HIDE DEF b, data
  <2>5. UserData(m).octets = head \o b /\ UserData(m).length = Len(head \o b)
    BY <1>1, <2>2
  <2>6. head \o b \in Seq(Nat) /\ Len(head \o b) \in Nat
    BY <1>3, <2>3, Joined, LenProperties
  <2>7. decodeUserData(8, m.udh # <<>>, Len(head \o b), head \o b) = Text("ucs2", m.chars)
    BY <2>4 DEF decodeUserData
  <2> QED  BY <1>6, <2>2, <2>5, <2>6, <2>7
<1> QED  BY <1>2, <1>4, <1>5, <1>6

\* The parts of a TPDU by their names in EncodeTPDU: what comes before the address,
\* and the octets between the data coding scheme and the user data.
Udhi(m) == IF m.udh = <<>> THEN 0 ELSE 64
ValidityBits(m) == CASE m.validity = "none" -> 0 [] m.validity = "relative" -> 16
                     [] m.validity = "enhanced" -> 8 [] m.validity = "absolute" -> 24
ValidityOctets(m) == CASE m.validity = "none" -> 0 [] m.validity = "relative" -> 1 [] OTHER -> 7
FirstOctets(m) == IF m.mode = "deliver" THEN <<Udhi(m)>>
                  ELSE <<1 + Udhi(m) + ValidityBits(m), 7>>
Period(m) == IF m.mode = "deliver" THEN Zeros(7) ELSE Zeros(ValidityOctets(m))
NumberType(m) == IF m.from.plus THEN 145 ELSE 129

\* A TPDU is its parts in a row.
LEMMA TPDUShape ==
  ASSUME NEW m
  PROVE  EncodeTPDU(m) =
           TPDUOf(FirstOctets(m), Len(m.from.digits), NumberType(m), SemiOctets(m.from.digits),
                  Scheme(m), Period(m), UserData(m).length, UserData(m).octets)
<1> DEFINE udhi == IF m.udh = <<>> THEN 0 ELSE 64
           bits == CASE m.validity = "none" -> 0 [] m.validity = "relative" -> 16
                     [] m.validity = "enhanced" -> 8 [] m.validity = "absolute" -> 24
           period == CASE m.validity = "none" -> 0 [] m.validity = "relative" -> 1 [] OTHER -> 7
           address == <<Len(m.from.digits), NumberType(m)>> \o SemiOctets(m.from.digits)
           dcs == Scheme(m)
           data == <<UserData(m).length>> \o UserData(m).octets
<1>1. /\ FirstOctets(m) = IF m.mode = "deliver" THEN <<udhi>> ELSE <<1 + udhi + bits, 7>>
      /\ Period(m) = IF m.mode = "deliver" THEN Zeros(7) ELSE Zeros(period)
  BY Zenon DEF FirstOctets, Period, Udhi, ValidityBits, ValidityOctets
<1>2. EncodeTPDU(m) =
        IF m.mode = "deliver"
          THEN <<udhi>> \o address \o <<0, dcs>> \o Zeros(7) \o data
          ELSE <<1 + udhi + bits, 7>> \o address \o <<0, dcs>> \o Zeros(period) \o data
  BY Zenon DEF EncodeTPDU, NumberType, Scheme
<1>3. EncodeTPDU(m) = FirstOctets(m) \o address \o <<0, dcs>> \o Period(m) \o data
  <2> HIDE DEF udhi, bits, period, address, dcs, data
  <2>1. CASE m.mode = "deliver"
    BY <1>1, <1>2, <2>1
  <2>2. CASE m.mode # "deliver"
    BY <1>1, <1>2, <2>2
  <2> QED  BY <2>1, <2>2
<1> QED  BY <1>3, Zenon DEF TPDUOf

\* Zeros in a row.
LEMMA ZerosType ==
  ASSUME NEW n \in Nat
  PROVE  Zeros(n) \in Seq(Nat) /\ Len(Zeros(n)) = n
  BY DEF Zeros

\* What the decoder reads in the first octet of a message with a user data header
\* or without.
LEMMA FirstOctetBits ==
  ASSUME NEW f \in Nat, NEW h \in {0, 64}, NEW v \in {0, 8, 16, 24}
  PROVE  /\ f = h => f % 4 = 0 /\ (Bit(f, 6) = 1 <=> h = 64)
         /\ f = 1 + h + v => /\ f % 4 = 1 /\ (Bit(f, 6) = 1 <=> h = 64)
                             /\ skipSubmitValidityPeriod(f) =
                                  IF v \in {8, 24} THEN 7 ELSE IF v = 16 THEN 1 ELSE 0
<1> DEFINE b3 == Bit(f, 3)
           b4 == Bit(f, 4)
           b6 == Bit(f, 6)
<1>1. b3 = (f \div 8) % 2 /\ b4 = (f \div 16) % 2 /\ b6 = (f \div 64) % 2
  <2>1. Bit(f, 3) = (f \div 8) % 2
    BY EightBits
  <2>2. Bit(f, 4) = (f \div 16) % 2
    BY EightBits
  <2>3. Bit(f, 6) = (f \div 64) % 2
    BY EightBits
  <2> QED  BY <2>1, <2>2, <2>3
<1>2. skipSubmitValidityPeriod(f) = IF b3 = 1 THEN 7 ELSE IF b4 = 1 THEN 1 ELSE 0
  BY DEF skipSubmitValidityPeriod
<1> HIDE DEF b3, b4, b6
<1>3. f = h => f % 4 = 0 /\ (b6 = 1 <=> h = 64)
  BY <1>1
<1>4. f = 1 + h + v => f % 4 = 1 /\ (b6 = 1 <=> h = 64)
  BY <1>1
<1>5. ASSUME f = 1 + h + v
      PROVE  skipSubmitValidityPeriod(f) = IF v \in {8, 24} THEN 7 ELSE IF v = 16 THEN 1 ELSE 0
  <2>1. v \in {8, 24} => b3 = 1
    BY <1>1, <1>5
  <2>2. v = 16 => b3 = 0 /\ b4 = 1
    BY <1>1, <1>5
  <2>3. v = 0 => b3 = 0 /\ b4 = 0
    BY <1>1, <1>5
  <2> QED  BY <1>2, <2>1, <2>2, <2>3
<1> QED  BY <1>3, <1>4, <1>5 DEF b6

\* The first octets say what follows.
LEMMA FirstOctetsSay ==
  ASSUME NEW m, Decodable(m), m.mode # "text"
  PROVE  /\ FirstOctets(m) \in Seq(Nat) /\ Period(m) \in Seq(Nat)
         /\ (Bit(FirstOctets(m)[1], 6) = 1) = (m.udh # <<>>)
         /\ m.mode = "deliver" =>
              FirstOctets(m)[1] % 4 = 0 /\ Len(FirstOctets(m)) = 1 /\ Len(Period(m)) = 7
         /\ m.mode # "deliver" =>
              /\ FirstOctets(m)[1] % 4 = 1 /\ Len(FirstOctets(m)) = 2
              /\ skipSubmitValidityPeriod(FirstOctets(m)[1]) = Len(Period(m))
<1> DEFINE h == Udhi(m)
           v == ValidityBits(m)
           f == FirstOctets(m)[1]
<1>1. h \in {0, 64} /\ (h = 64 <=> m.udh # <<>>)
  BY DEF Udhi
<1>2. m.validity \in {"none", "relative", "enhanced", "absolute"}
  BY MessageFields
<1>3. v \in {0, 8, 16, 24}
  BY <1>2 DEF ValidityBits
<1>4. /\ ValidityOctets(m) \in Nat
      /\ ValidityOctets(m) = IF v \in {8, 24} THEN 7 ELSE IF v = 16 THEN 1 ELSE 0
  BY <1>2 DEF ValidityBits, ValidityOctets
<1> HIDE DEF h, v
<1>5. CASE m.mode = "deliver"
  <2>1. FirstOctets(m) = <<h>> /\ Period(m) = Zeros(7)
    BY <1>5 DEF FirstOctets, Period, h
  <2>2. /\ FirstOctets(m) \in Seq(Nat) /\ Len(FirstOctets(m)) = 1 /\ f = h
        /\ Period(m) \in Seq(Nat) /\ Len(Period(m)) = 7
    <3>1. h \in Nat /\ 7 \in Nat
      BY <1>1
    <3>2. FirstOctets(m) \in Seq(Nat) /\ Len(FirstOctets(m)) = 1 /\ f = h
      BY <2>1, <3>1
    <3>3. Zeros(7) \in Seq(Nat) /\ Len(Zeros(7)) = 7
      BY ONLY <3>1, ZerosType
    <3> QED  BY <2>1, <3>2, <3>3
  <2>3. f \in Nat
    BY <1>1, <2>2
  <2> HIDE DEF f
  <2>4. f % 4 = 0 /\ (Bit(f, 6) = 1 <=> m.udh # <<>>)
    BY <1>1, <1>3, <2>2, <2>3, FirstOctetBits
  <2> QED  BY <1>5, <2>2, <2>4 DEF f
<1>6. CASE m.mode # "deliver"
  <2>1. FirstOctets(m) = <<1 + h + v, 7>> /\ Period(m) = Zeros(ValidityOctets(m))
    BY <1>6 DEF FirstOctets, Period, h, v
  <2>2. /\ FirstOctets(m) \in Seq(Nat) /\ Len(FirstOctets(m)) = 2 /\ f = 1 + h + v
        /\ Period(m) \in Seq(Nat) /\ Len(Period(m)) = ValidityOctets(m)
    <3> DEFINE g == 1 + h + v
               n == ValidityOctets(m)
    <3>1. g \in Nat /\ n \in Nat
      BY <1>1, <1>3, <1>4
    <3> HIDE DEF g, n
    <3>2. FirstOctets(m) = <<g, 7>> /\ Period(m) = Zeros(n)
      BY <2>1 DEF g, n
    <3>3. /\ FirstOctets(m) \in Seq(Nat) /\ Len(FirstOctets(m)) = 2 /\ f = g
          /\ Period(m) \in Seq(Nat) /\ Len(Period(m)) = n
      BY <3>1, <3>2, ZerosType
    <3> QED  BY <3>3 DEF g, n
  <2>3. f \in Nat
    BY <1>1, <1>3, <2>2
  <2> HIDE DEF f
  <2>4. /\ f % 4 = 1 /\ (Bit(f, 6) = 1 <=> m.udh # <<>>)
        /\ skipSubmitValidityPeriod(f) = Len(Period(m))
    BY <1>1, <1>3, <1>4, <2>2, <2>3, FirstOctetBits
  <2> QED  BY <1>6, <2>2, <2>4 DEF f
<1> QED  BY <1>5, <1>6

\* The address is read back: 145 stands for an international number.
LEMMA AddressDecodes ==
  ASSUME NEW m, Decodable(m)
  PROVE  [plus |-> NumberType(m) = 145,
          digits |-> decodeSemiOctets(SemiOctets(m.from.digits), Len(m.from.digits))] = m.from
<1>1. m.from \in [plus: BOOLEAN, digits: Seq(0..14)]
  BY MessageFields DEF Address
<1>2. m.from = [plus |-> m.from.plus, digits |-> m.from.digits] /\ m.from.plus \in BOOLEAN
  BY <1>1
<1>3. (NumberType(m) = 145) = m.from.plus
  <2>1. CASE m.from.plus = TRUE
    <3>1. NumberType(m) = 145
      BY <2>1 DEF NumberType
    <3> QED  BY <2>1, <3>1, Zenon
  <2>2. CASE m.from.plus = FALSE
    <3>1. ~(NumberType(m) = 145)
      BY <2>2 DEF NumberType
    <3> QED  BY <2>2, <3>1, Zenon
  <2> QED  BY <1>2, <2>1, <2>2
<1>4. decodeSemiOctets(SemiOctets(m.from.digits), Len(m.from.digits)) = m.from.digits
  BY MessageFields, SemiOctetsDecode
<1> QED  BY <1>2, <1>3, <1>4, Zenon

\* The TPDU of a message is read as that message.
LEMMA TPDUDecodes ==
  ASSUME NEW m, Decodable(m), m.mode # "text"
  PROVE  DecodeTPDU(EncodeTPDU(m)) = Event(m)
<1> DEFINE opening == FirstOctets(m)
           number == Len(m.from.digits)
           kind == NumberType(m)
           halves == SemiOctets(m.from.digits)
           scheme == Scheme(m)
           gap == Period(m)
           size == UserData(m).length
           load == UserData(m).octets
           tpdu == EncodeTPDU(m)
<1>1. number \in Nat /\ number <= 254 /\ halves \in Seq(Nat) /\ Len(halves) = (number + 1) \div 2
  BY MessageFields, SemiOctetsDecode
<1>2. kind \in Nat
  BY DEF NumberType
<1>3. /\ size \in Nat /\ load \in Seq(Nat) /\ scheme \in Nat
      /\ decodeUserData(scheme, m.udh # <<>>, size, load) = Text(m.coding, m.chars)
  BY UserDataDecodes
<1>4. /\ opening \in Seq(Nat) /\ gap \in Seq(Nat)
      /\ (Bit(opening[1], 6) = 1) = (m.udh # <<>>)
      /\ m.mode = "deliver" => opening[1] % 4 = 0 /\ Len(opening) = 1 /\ Len(gap) = 7
      /\ m.mode # "deliver" => /\ opening[1] % 4 = 1 /\ Len(opening) = 2
                               /\ skipSubmitValidityPeriod(opening[1]) = Len(gap)
  BY FirstOctetsSay
<1>5. tpdu = TPDUOf(opening, number, kind, halves, scheme, gap, size, load)
  BY TPDUShape
<1>6. [plus |-> kind = 145, digits |-> decodeSemiOctets(halves, number)] = m.from
  BY AddressDecodes
<1> HIDE DEF opening, number, kind, halves, scheme, gap, size, load, tpdu
<1>7. Fields(tpdu, opening[1], Len(opening) + 1, number, kind, halves, scheme, Len(gap),
             size, load)
  <2>1. number \in Nat /\ kind \in Nat /\ scheme \in Nat /\ size \in Nat
    BY <1>1, <1>2, <1>3
  <2>2. opening \in Seq(Nat) /\ halves \in Seq(Nat) /\ gap \in Seq(Nat) /\ load \in Seq(Nat)
    BY <1>1, <1>3, <1>4
  <2>3. Len(opening) >= 1
    BY <1>4
  <2> QED  BY <1>5, <2>1, <2>2, <2>3, FieldsPlaces
<1>8. Len(opening) \in Nat /\ Len(gap) \in Nat
  BY <1>4
<1>9. tpdu[1] = opening[1]
  BY <1>7 DEF Fields
<1>10. decodeUserData(scheme, Bit(opening[1], 6) = 1, size, load) = Text(m.coding, m.chars)
  BY <1>3, <1>4, Zenon
<1>11. DecodeFields(tpdu, Len(opening) + 1, Len(gap)) = Event(m)
  <2> DEFINE a == Len(opening) + 1
             skip == Len(gap)
             coding == m.coding
             chars == m.chars
  <2>1. a \in Nat /\ skip \in Nat
    BY <1>8
  <2>2. /\ Fields(tpdu, opening[1], a, number, kind, halves, scheme, skip, size, load)
        /\ decodeUserData(scheme, Bit(opening[1], 6) = 1, size, load) = Text(coding, chars)
    BY <1>7, <1>10
  <2> HIDE DEF a, skip, coding, chars
  <2>3. DecodeFields(tpdu, a, skip) =
          [ok   |-> TRUE,
           from |-> [plus |-> kind = 145, digits |-> decodeSemiOctets(halves, number)],
           text |-> [coding |-> coding, chars |-> chars]]
    BY <1>1, <2>1, <2>2, FieldsDecode
  <2> QED  BY <1>6, <2>3, Zenon DEF a, skip, coding, chars, Event
<1>12. tpdu # <<>>
  <2>1. tpdu \in Seq(Nat) /\ Len(opening) + 1 + Len(halves) + 4 + Len(gap) <= Len(tpdu)
    BY <1>7 DEF Fields
  <2>2. Len(tpdu) # 0
    <3>1. Len(tpdu) \in Nat /\ Len(halves) \in Nat
      BY <1>1, <2>1
    <3> QED  BY <1>8, <2>1, <3>1
  <2> QED  BY <2>2
<1>13. CASE m.mode = "deliver"
  <2>1. DecodeTPDU(tpdu) = decodeDeliverTPDU(tpdu)
    BY <1>4, <1>9, <1>12, <1>13 DEF DecodeTPDU
  <2>2. Len(opening) + 1 = 2 /\ Len(gap) = 7
    <3>1. Len(opening) = 1 /\ Len(gap) = 7
      BY <1>4, <1>13, Zenon
    <3> QED  BY ONLY <3>1
  <2> QED  BY <1>11, <2>1, <2>2 DEF decodeDeliverTPDU, tpdu
<1>14. CASE m.mode # "deliver"
  <2>1. DecodeTPDU(tpdu) = decodeSubmitTPDU(tpdu)
    BY <1>4, <1>9, <1>12, <1>14 DEF DecodeTPDU
  <2>2. Len(opening) + 1 = 3 /\ skipSubmitValidityPeriod(tpdu[1]) = Len(gap)
    <3>1. Len(opening) = 2 /\ skipSubmitValidityPeriod(tpdu[1]) = Len(gap)
      BY <1>4, <1>9, <1>14, Zenon
    <3> QED  BY ONLY <3>1
  <2> QED  BY <1>11, <2>1, <2>2 DEF decodeSubmitTPDU, tpdu
<1> QED  BY <1>13, <1>14

-----------------------------------------------------------------------------
(* Messages that arrive intact.                                            *)

\* In PDU mode the line that the modem writes is read as the message.
LEMMA SentDecodes ==
  ASSUME NEW m \in Messages, Decodable(m), m.mode # "text"
  PROVE  DecodePDU(BodyLine(m), Len(EncodeTPDU(m))) = Event(m)
<1> DEFINE n == Len(m.smsc)
           t == EncodeTPDU(m)
           o == <<n>> \o m.smsc \o t
           line == BodyLine(m)
           L == Len(t)
<1>1. m.smsc \in Seq(Octet) /\ n <= 255 /\ t \in Seq(Octet)
  BY MessageAssumption
<1>2. line = Nibbles(o)
  <2> HIDE DEF o
  <2> QED  BY DEF BodyLine, o
<1>3. WellFormed(line, L)
  BY SentIsWellFormed
<1>4. DecodeTPDU(t) = Event(m)
  BY TPDUDecodes
<1> HIDE DEF t, line
<1>5. n \in Nat /\ n \in Octet
  <2>1. n \in Nat
    BY <1>1
  <2> HIDE DEF n
  <2> QED  BY <1>1, <2>1 DEF Octet
<1>6. /\ o \in Seq(Octet) /\ Len(o) = n + 1 + L /\ o[1] = n
      /\ \A i \in 1..L : o[n + 1 + i] = t[i]
  <2> DEFINE one == <<n>>
             p == one \o m.smsc
  <2>1. one \in Seq(Octet) /\ Len(one) = 1 /\ one[1] = n
    <3> HIDE DEF n
    <3> QED  BY <1>5
  <2> HIDE DEF one
  <2>2. p \in Seq(Octet) /\ p \o t \in Seq(Octet)
    BY <1>1, <2>1
  <2>3. one \in Seq(Nat) /\ m.smsc \in Seq(Nat) /\ p \in Seq(Nat) /\ t \in Seq(Nat)
    BY <1>1, <2>1, <2>2, OctetsAreNumbers
  <2>4. Len(p) = Len(one) + Len(m.smsc) /\ \A i \in 1..Len(one) : p[i] = one[i]
    BY <2>3, Joined
  <2> HIDE DEF p
  <2>5. /\ Len(p \o t) = Len(p) + Len(t)
        /\ \A i \in 1..Len(p) : (p \o t)[i] = p[i]
        /\ \A i \in 1..Len(t) : (p \o t)[Len(p) + i] = t[i]
    BY <2>3, Joined
  <2>6. Len(p) = n + 1
    <3> DEFINE k == Len(p)
    <3>1. k = 1 + n
      BY <2>1, <2>4
    <3> HIDE DEF k, n
    <3>2. k = n + 1
      BY <1>5, <3>1
    <3> QED  BY <3>2 DEF k
  <2> HIDE DEF n
  <2>7. 1 \in 1..Len(one) /\ 1 \in 1..Len(p)
    BY <1>5, <2>1, <2>6
  <2>8. (p \o t)[1] = n
    BY <2>1, <2>4, <2>5, <2>7
  <2>9. Len(p \o t) = n + 1 + L /\ \A i \in 1..L : (p \o t)[n + 1 + i] = t[i]
    BY <2>5, <2>6
  <2> QED  BY <2>2, <2>8, <2>9 DEF p, one
<1> HIDE DEF n, o
<1>7. Octets(line) = o
  BY <1>2, <1>6, NibblesOfOctets
<1>8. Smsc(line) = n /\ Count(line) = Len(o) /\ L \in Nat
  BY <1>1, <1>6, <1>7 DEF Smsc, Count
<1>9. DecodePDU(line, L) = DecodeTPDU(SubSeq(o, n + 2, Len(o)))
  BY <1>3, <1>7, <1>8, Accepts
<1>10. SubSeq(o, n + 2, Len(o)) = t
  <2> DEFINE g == n + 1
  <2>1. o \in Seq(Nat) /\ t \in Seq(Nat)
    BY <1>1, <1>6, OctetsAreNumbers
  <2>2. g \in Nat /\ n + 2 = g + 1 /\ Len(o) = g + Len(t) /\ \A i \in 1..Len(t) : o[g + i] = t[i]
    BY <1>5, <1>6
  <2> HIDE DEF g
  <2>3. SubSeq(o, g + 1, Len(o)) = t
    BY <2>1, <2>2, RestIs
  <2> QED  BY <2>2, <2>3
<1> QED  BY <1>4, <1>9, <1>10 DEF line, t

\* In text mode hex that can be UCS2 is read as UCS2, and a line without blanks
\* around it as it is.
LEMMA TextDecodes ==
  ASSUME NEW m \in Messages, Decodable(m), m.mode = "text"
  PROVE  /\ decodeTextModeBody(BodyLine(m)) = Text(m.coding, m.chars)
         /\ TrimSpace(BodyLine(m)) = BodyLine(m) /\ FirstLine(BodyLine(m)) = BodyLine(m)
<1>1. \/ /\ m.coding = "ucs2" /\ m.chars # <<>>
         /\ \A i \in 1..Len(m.chars) : Scalar(m.chars[i])
      \/ /\ m.coding = "plain" /\ ~UCS2Hex(m.chars)
         /\ TrimSpace(m.chars) = m.chars /\ \A i \in 1..Len(m.chars) : m.chars[i] # LineBreak
  BY DEF Decodable
<1>2. CASE m.coding = "plain"
  <2>1. ~UCS2Hex(m.chars) /\ BodyLine(m) = m.chars
    BY <1>1, <1>2 DEF BodyLine
  <2>2. decodeTextModeBody(m.chars) = Text("plain", m.chars)
    BY <2>1 DEF decodeTextModeBody
  <2>3. m.chars \in Seq(Nat)
    BY MessageFields
  <2>4. FirstLine(m.chars) = m.chars
    BY <1>1, <1>2, <2>3, WholeLine
  <2> QED  BY <1>1, <1>2, <2>1, <2>2, <2>4
<1>3. CASE m.coding # "plain"
  <2> DEFINE c == m.chars
             w == Utf16(c)
             b == BigEndian(w)
             line == Nibbles(b)
  <2>1. m.coding = "ucs2" /\ c # <<>> /\ c \in Seq(Nat)
        /\ \A i \in 1..Len(c) : Scalar(c[i])
    BY <1>1, <1>3, MessageFields
  <2>2. BodyLine(m) = line
    BY <1>3 DEF BodyLine
  <2> HIDE DEF c
  <2>3. w \in Seq(Nat) /\ (\A k \in 1..Len(w) : w[k] \in Word) /\ Len(w) >= 1
    BY <2>1, WordSize
  <2>4. decodeUCS2(<<>> \o b, FALSE) = Text("ucs2", c)
    <3> DEFINE head == <<>>
    <3>1. head \in Seq(Nat) /\ head = <<>> /\ FALSE \in BOOLEAN
      OBVIOUS
    <3> HIDE DEF head
    <3>2. decodeUCS2(head \o BigEndian(Utf16(c)), FALSE) = Text("ucs2", c)
      BY <2>1, <3>1, Ucs2Decodes
    <3> QED  BY <3>1, <3>2
  <2> HIDE DEF w
  <2>5. b \in Seq(Octet) /\ Len(b) = 2 * Len(w)
    BY <2>3, BigEndianType
  <2> HIDE DEF b
  <2>6. <<>> \o b = b
    BY <2>5, ConcatEmptySeq
  <2>7. /\ line \in Seq(Nat) /\ Len(line) = 2 * Len(b)
        /\ \A i \in 1..(2 * Len(b)) : line[i] \in Digit
        /\ Octets(line) = b
    BY <2>5, NibblesOfOctets
  <2> HIDE DEF line
  <2>8. Len(line) >= 4 /\ Len(line) % 4 = 0 /\ line # <<>>
    <3> DEFINE k == Len(w)
               n == Len(line)
    <3>1. k \in Nat /\ k >= 1 /\ n = 4 * k
      BY <2>3, <2>5, <2>7
    <3> HIDE DEF k, n
    <3>2. n >= 4 /\ n % 4 = 0 /\ n # 0
      BY <3>1
    <3>3. Len(<<>>) = 0
      OBVIOUS
    <3> QED  BY <3>2, <3>3 DEF n
  <2>9. UCS2Hex(line)
    BY <2>7, <2>8 DEF UCS2Hex, IsHex
  <2>10. decodeTextModeBody(line) = decodeUCS2(b, FALSE)
    BY <2>7, <2>9 DEF decodeTextModeBody
  <2>11. decodeTextModeBody(line) = Text("ucs2", c)
    BY <2>4, <2>6, <2>10
  <2>12. TrimSpace(line) = line /\ FirstLine(line) = line
    BY <2>7, TrimDigits
  <2> QED  BY <2>1, <2>2, <2>11, <2>12 DEF c
<1> QED  BY <1>2, <1>3

\* ParseCMTIndication makes of the two lines of a message the event that says so.
LEMMA IntactParses ==
  ASSUME NEW m \in Messages, Decodable(m)
  PROVE  ParseCMTIndication(<<HeaderLine(m), FirstLine(BodyLine(m))>>) = Event(m)
<1>1. CASE m.mode = "text"
  <2> DEFINE text == decodeTextModeBody(BodyLine(m))
             b == BodyLine(m)
             h == HeaderLine(m)
             lines == <<h, b>>
  <2>1. text = Text(m.coding, m.chars) /\ TrimSpace(b) = b /\ FirstLine(b) = b
    BY <1>1, TextDecodes
  <2>2. text.coding = m.coding /\ text.chars = m.chars
    BY <2>1 DEF Text
  <2>3. h.mode = "text" /\ h.from = m.from
    BY <1>1 DEF HeaderLine
  <2>4. ParseCMTIndication(lines) =
          [ok |-> TRUE, from |-> m.from,
           text |-> [coding |-> text.coding, chars |-> text.chars]]
    <3> HIDE DEF text, b, h
    <3>1. lines[1] = h /\ lines[2] = b /\ ~(Len(lines) < 2)
      OBVIOUS
    <3> HIDE DEF lines
    <3> QED  BY <2>1, <2>3, <3>1 DEF ParseCMTIndication, text, b
  <2>5. ParseCMTIndication(<<HeaderLine(m), FirstLine(BodyLine(m))>>) = ParseCMTIndication(lines)
    BY <2>1
  <2> HIDE DEF text, lines
  <2> QED  BY <2>2, <2>4, <2>5, Zenon DEF Event
<1>2. CASE m.mode # "text"
  <2> DEFINE L == Len(EncodeTPDU(m))
             b == BodyLine(m)
  <2>1. WellFormed(b, L) /\ HeaderLine(m) = [mode |-> "pdu", length |-> L]
    BY <1>2, SentIsWellFormed
  <2>2. DecodePDU(b, L) = Event(m)
    BY <1>2, SentDecodes
  <2>3. TrimSpace(b) = b /\ FirstLine(b) = b
    BY <1>2, DigitsSent, TrimDigits
  <2> HIDE DEF L
  <2>4. IsHex(b)
    BY <2>1 DEF WellFormed
  <2> HIDE DEF b
  <2>5. ParseCMTIndication(<<HeaderLine(m), b>>) = Event(m)
    BY <2>1, <2>2, <2>3, <2>4, PduIndication
  <2> QED  BY <2>3, <2>5 DEF b
<1> QED  BY <1>1, <1>2

\* A message that the decoder is meant to understand and that arrives intact is
\* reported by ParseCMTIndication with its sender and its text, whatever its length,
\* its coding, its service centre and its validity period; in text mode a plain text
\* has to be one line without blanks around it.
THEOREM MessagesArrive == Spec => [](Decodable(message) => RoundTrip)
<1>1. IndInv => (Decodable(message) => RoundTrip)
  <2> SUFFICES ASSUME IndInv, Decodable(message), pc = "parsed", body = FirstLine(sent)
               PROVE  event = Event(message)
    BY DEF RoundTrip, Event
  <2>1. /\ message \in Messages /\ event = ParseCMTIndication(<<header, body>>)
        /\ header = HeaderLine(message) /\ sent = BodyLine(message)
    BY DEF IndInv
  <2> QED  BY <2>1, IntactParses
<1> QED  BY <1>1, PduInvariant, PTL

\* Where all messages are of that kind, as in sms_decode, RoundTrip is an invariant.
COROLLARY AllMessagesArrive ==
  ASSUME \A m \in Messages : Decodable(m)
  PROVE  Spec => []RoundTrip
<1>1. IndInv => Decodable(message)
  BY DEF IndInv
<1> QED  BY <1>1, MessagesArrive, PduInvariant, PTL
=============================================================================
