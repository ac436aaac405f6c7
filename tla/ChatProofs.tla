----------------------------- MODULE ChatProofs -----------------------------
(***************************************************************************)
(* Proofs that Telegram takes every message of the chat, that truncated    *)
(* messages say so, that a listing shows the SMS that are stored, up to    *)
(* the first with a text like the modem's own lines, and that no way       *)
(* through the menus ends, for all limits, texts, answers and listings.    *)
(***************************************************************************)
EXTENDS Chat, WellFoundedInduction, TLAPS

\* Counting down ends: every set of numbers has a least one.
LEMMA LeastNumber ==
  ASSUME NEW T, T \in SUBSET Nat, T # {}
  PROVE  \E n \in T : \A m \in T : n <= m
<1> DEFINE R == {p \in Nat \X Nat : p[1] < p[2]}
<1>1. IsWellFoundedOn(R, Nat)
  <2>1. R = OpToRel(<, Nat)
    BY DEF OpToRel
  <2> QED  BY <2>1, NatLessThanWellFounded
<1>2. \A m, n \in Nat : m < n => <<m, n>> \in R
  <2> SUFFICES ASSUME NEW m \in Nat, NEW n \in Nat, m < n PROVE <<m, n>> \in R
    OBVIOUS
  <2>1. <<m, n>> \in Nat \X Nat /\ <<m, n>>[1] = m /\ <<m, n>>[2] = n
    OBVIOUS
  <2> QED  BY <2>1
<1> HIDE DEF R
<1>3. PICK n \in T : \A m \in T : <<m, n>> \notin R
  BY <1>1, WFMin
<1>4. \A m \in T : m \in Nat /\ n \in Nat /\ ~(m < n)
  BY <1>2, <1>3
<1> QED  BY <1>4

\* Counting up from 0 to n.
LEMMA UpTo ==
  ASSUME NEW n \in Nat, NEW P, 0 \in P, \A i \in 1..n : i - 1 \in P => i \in P
  PROVE  \A i \in 0..n : i \in P
<1> DEFINE T == {i \in 0..n : i \notin P}
<1> SUFFICES ASSUME T # {} PROVE FALSE
  OBVIOUS
<1>1. PICK i \in T : \A j \in T : i <= j
  <2>1. T \in SUBSET Nat
    OBVIOUS
  <2> QED  BY <2>1, LeastNumber
<1>2. i \in 1..n /\ i - 1 \in 0..n /\ i - 1 \in P
  BY <1>1
<1> QED  BY <1>2

-----------------------------------------------------------------------------
(* Loops.                                                                  *)

\* s is what a loop over start makes of its state in its first m rounds, of which
\* do is the body.
Run(s, do, start, m) ==
  DOMAIN s = 0..m /\ s[0] = start /\ \A i \in 1..m : s[i] = do[<<s[i - 1], i>>]

\* A loop runs for any number of rounds.
LEMMA RunExists ==
  ASSUME NEW n \in Nat, NEW S, NEW start \in S, NEW do \in [S \X (1..n) -> S]
  PROVE  \E s \in [0..n -> S] : Run(s, do, start, n)
<1> DEFINE P == {m \in 0..n : \E s \in [0..m -> S] : Run(s, do, start, m)}
<1>1. 0 \in P
  <2>1. [k \in 0..0 |-> start] \in [0..0 -> S] /\ Run([k \in 0..0 |-> start], do, start, 0)
    BY DEF Run
  <2> QED  BY <2>1
<1>2. ASSUME NEW m \in 1..n, m - 1 \in P PROVE m \in P
  <2>1. PICK s \in [0..(m - 1) -> S] : Run(s, do, start, m - 1)
    BY <1>2
  <2>2. do[<<s[m - 1], m>>] \in S
    BY <2>1
  <2> DEFINE t == [k \in 0..m |-> IF k = m THEN do[<<s[m - 1], m>>] ELSE s[k]]
  <2>3. t \in [0..m -> S]
    BY <2>1, <2>2
  <2>4. /\ t[m] = do[<<t[m - 1], m>>]
        /\ \A i \in 1..(m - 1) : t[i] = s[i] /\ t[i - 1] = s[i - 1]
    <3>1. m - 1 \in 0..m /\ m - 1 # m /\ t[m - 1] = s[m - 1]
      OBVIOUS
    <3>2. t[m] = do[<<s[m - 1], m>>]
      OBVIOUS
    <3>3. ASSUME NEW i \in 1..(m - 1) PROVE t[i] = s[i] /\ t[i - 1] = s[i - 1]
      OBVIOUS
    <3> HIDE DEF t
    <3> QED  BY <3>1, <3>2, <3>3
  <2>5. t[0] = start
    BY <2>1 DEF Run
  <2> HIDE DEF t
  <2>6. ASSUME NEW i \in 1..m PROVE t[i] = do[<<t[i - 1], i>>]
    <3>1. CASE i = m
      BY <2>4, <3>1
    <3>2. CASE i # m
      <4>1. i \in 1..(m - 1)
        BY <3>2
      <4> QED  BY <2>1, <2>4, <4>1 DEF Run
    <3> QED  BY <3>1, <3>2
  <2> QED  BY <2>3, <2>5, <2>6 DEF Run
<1>3. \A m \in 0..n : m \in P
  <2> HIDE DEF P
  <2> QED  BY <1>1, <1>2, UpTo
<1> QED  BY <1>3

\* Sums adds up.
LEMMA SumsAre ==
  ASSUME NEW sizes \in Seq(Nat)
  PROVE  /\ Sums(sizes) \in [0..Len(sizes) -> Nat]
         /\ Sums(sizes)[0] = 0
         /\ \A i \in 1..Len(sizes) : Sums(sizes)[i] = Sums(sizes)[i - 1] + sizes[i]
<1> DEFINE n == Len(sizes)
           do == [p \in Nat \X (1..n) |-> p[1] + sizes[p[2]]]
<1>1. n \in Nat /\ 0 \in Nat /\ do \in [Nat \X (1..n) -> Nat]
  OBVIOUS
<1>2. PICK s \in [0..n -> Nat] : Run(s, do, 0, n)
  <2> HIDE DEF n, do
  <2> QED  BY <1>1, RunExists
<1>3. s[0] = 0 /\ \A i \in 1..n : s[i] = s[i - 1] + sizes[i]
  <2>1. s[0] = 0
    BY <1>2 DEF Run
  <2>2. ASSUME NEW i \in 1..n PROVE s[i] = s[i - 1] + sizes[i]
    <3>1. s[i] = do[<<s[i - 1], i>>]
      BY <1>2 DEF Run
    <3>2. i - 1 \in 0..n
      BY <1>1
    <3>3. s[i - 1] \in Nat
      BY <3>2
    <3> QED  BY <3>1, <3>3
  <2> QED  BY <2>1, <2>2
<1>4. s = [i \in 0..n |-> IF i = 0 THEN 0 ELSE s[i - 1] + sizes[i]]
  BY <1>1, <1>2, <1>3
<1> DEFINE u == Sums(sizes)
<1>5. u = [i \in 0..n |-> IF i = 0 THEN 0 ELSE u[i - 1] + sizes[i]]
  BY <1>4 DEF Sums, Rounds
<1> HIDE DEF u
<1>6. u[0] = 0 /\ \A i \in 1..n : u[i] = u[i - 1] + sizes[i]
  <2> DEFINE v == [i \in 0..n |-> IF i = 0 THEN 0 ELSE u[i - 1] + sizes[i]]
  <2>1. v[0] = 0 /\ \A i \in 1..n : v[i] = u[i - 1] + sizes[i]
    BY <1>1
  <2> HIDE DEF v
  <2> QED  BY <1>5, <2>1 DEF v
<1>7. \A i \in 0..n : u[i] \in Nat
  <2> DEFINE P == {i \in 0..n : u[i] \in Nat}
  <2>1. 0 \in P
    BY <1>6
  <2>2. ASSUME NEW i \in 1..n, i - 1 \in P PROVE i \in P
    <3>1. sizes[i] \in Nat /\ u[i - 1] \in Nat
      BY <2>2
    <3> QED  BY <1>6, <3>1
  <2>3. \A i \in 0..n : i \in P
    <3> HIDE DEF n, P
    <3> QED  BY <1>1, <2>1, <2>2, UpTo
  <2> QED  BY <2>3
<1> QED  BY <1>5, <1>6, <1>7 DEF u

\* The smallest member of a set of places.
LEMMA MinIs ==
  ASSUME NEW T, T \subseteq Nat, T # {}
  PROVE  Min(T) \in T /\ \A m \in T : Min(T) <= m
  BY LeastNumber DEF Min

\* The ends of a set of places that has them.
LEMMA EndsAre ==
  ASSUME NEW T, T \subseteq Nat, NEW x \in T, NEW y \in T, \A i \in T : x <= i /\ i <= y
  PROVE  Min(T) = x /\ Max(T) = y
<1>1. \A i \in T : i \in Nat /\ y >= i
  OBVIOUS
<1>2. \A i \in T : (\A j \in T : i <= j) => i = x
  BY <1>1
<1>3. \A i \in T : (\A j \in T : i >= j) => i = y
  BY <1>1
<1> QED  BY <1>1, <1>2, <1>3 DEF Min, Max

\* Sequences with the same members at the same places are the same.
LEMMA SameSeq ==
  ASSUME NEW T, NEW a \in Seq(T), NEW b \in Seq(T), Len(a) = Len(b),
         \A i \in 1..Len(a) : a[i] = b[i]
  PROVE  a = b
  OBVIOUS

-----------------------------------------------------------------------------
(* Trim.                                                                   *)

\* v is what lies in w behind its first m members, and nothing else is kept.
LEMMA Trimmed ==
  ASSUME NEW T, NEW w \in Seq(T), NEW v \in Seq(T), NEW what, NEW m \in Nat,
         m + Len(v) <= Len(w), \A i \in 1..Len(v) : w[m + i] = v[i],
         \A i \in 1..Len(w) : i <= m \/ m + Len(v) < i => w[i] = what,
         Len(v) > 0 => v[1] # what /\ v[Len(v)] # what
  PROVE  Trim(w, what) = v
<1> DEFINE n == Len(v)
           kept == {i \in 1..Len(w) : w[i] # what}
<1>1. n \in Nat /\ Len(w) \in Nat /\ kept \subseteq Nat
  OBVIOUS
<1>2. Trim(w, what) = IF kept = {} THEN <<>> ELSE SubSeq(w, Min(kept), Max(kept))
  BY DEF Trim
<1>3. \A i \in kept : m + 1 <= i /\ i <= m + n
  BY <1>1
<1>4. CASE n = 0
  <2>1. kept = {}
    BY <1>1, <1>3, <1>4
  <2>2. v = <<>>
    BY <1>4
  <2> HIDE DEF kept
  <2> QED  BY <1>2, <2>1, <2>2
<1>5. CASE n > 0
  <2>1. m + 1 \in kept /\ m + n \in kept
    <3>1. 1 \in 1..Len(v) /\ n \in 1..Len(v) /\ m + 1 \in 1..Len(w) /\ m + n \in 1..Len(w)
      BY <1>1, <1>5
    <3>2. w[m + 1] = v[1] /\ w[m + n] = v[n]
      BY <3>1
    <3> QED  BY <1>5, <3>1, <3>2
  <2>2. Min(kept) = m + 1 /\ Max(kept) = m + n
    <3> HIDE DEF kept, n
    <3> QED  BY <1>1, <1>3, <2>1, EndsAre
  <2>3. Trim(w, what) = SubSeq(w, m + 1, m + n)
    <3> HIDE DEF kept
    <3> QED  BY <1>2, <2>1, <2>2
  <2> DEFINE x == SubSeq(w, m + 1, m + n)
  <2>4. x \in Seq(T) /\ Len(x) = n /\ \A i \in 1..n : x[i] = w[m + i]
    <3>1. m + 1 \in 1..(Len(w) + 1) /\ m + n \in (m + 1)..Len(w)
      BY <1>1, <1>5
    <3>2. \A i \in (m + 1)..(m + n) : w[i] \in T
      BY <1>1
    <3> HIDE DEF n
    <3> QED  BY <1>1, <3>1, <3>2
  <2> HIDE DEF x
  <2>5. \A i \in 1..n : x[i] = v[i]
    BY <2>4
  <2>6. x = v
    BY <2>4, <2>5, SameSeq
  <2> QED  BY <2>3, <2>6 DEF x
<1> QED  BY <1>1, <1>4, <1>5

\* Nothing is trimmed where the ends are kept.
LEMMA TrimNothing ==
  ASSUME NEW T, NEW w \in Seq(T), NEW what, Len(w) > 0 => w[1] # what /\ w[Len(w)] # what
  PROVE  Trim(w, what) = w
<1>1. Len(w) \in Nat /\ 0 \in Nat /\ 0 + Len(w) <= Len(w)
      /\ \A i \in 1..Len(w) : 0 + i = i /\ ~(i <= 0) /\ ~(0 + Len(w) < i)
  OBVIOUS
<1>2. \A i \in 1..Len(w) : w[0 + i] = w[i]
  BY <1>1
<1> QED  BY <1>1, <1>2, Trimmed

\* What is trimmed is of the same kind.
LEMMA TrimType ==
  ASSUME NEW T, NEW w \in Seq(T), NEW what
  PROVE  Trim(w, what) \in Seq(T)
<1> DEFINE kept == {i \in 1..Len(w) : w[i] # what}
<1>1. Trim(w, what) = IF kept = {} THEN <<>> ELSE SubSeq(w, Min(kept), Max(kept))
  BY DEF Trim
<1>2. CASE kept = {}
  BY <1>1, <1>2
<1>3. CASE kept # {}
  <2>1. kept \subseteq Nat /\ kept \subseteq 1..Len(w) /\ Len(w) \in Nat
    OBVIOUS
  <2> HIDE DEF kept
  <2>2. Min(kept) \in kept
    BY <1>3, <2>1, MinIs
  <2>3. Max(kept) \in kept
    <3> DEFINE T1 == {Len(w) - i : i \in kept}
    <3>1. T1 \subseteq Nat /\ T1 # {}
      BY <1>3, <2>1
    <3>2. PICK d \in T1 : \A e \in T1 : d <= e
      <4> HIDE DEF T1
      <4> QED  BY <3>1, LeastNumber
    <3>3. PICK y \in kept : d = Len(w) - y
      BY <3>2
    <3>4. \A i \in kept : y >= i
      <4> SUFFICES ASSUME NEW i \in kept PROVE y >= i
        OBVIOUS
      <4>1. Len(w) - i \in T1 /\ i \in Nat /\ y \in Nat
        BY <2>1
      <4>2. Len(w) - y <= Len(w) - i
        BY <3>2, <3>3, <4>1
      <4> HIDE DEF T1
      <4> QED  BY <2>1, <4>1, <4>2
    <3> QED  BY <3>4 DEF Max
  <2> DEFINE p == Min(kept)
             q == Max(kept)
  <2>4. p \in 1..Len(w) /\ q \in 1..Len(w)
    BY <2>1, <2>2, <2>3
  <2>5. Trim(w, what) = SubSeq(w, p, q)
    BY <1>1, <1>3
  <2> HIDE DEF p, q
  <2>6. SubSeq(w, p, q) \in Seq(T)
    BY <2>1, <2>4
  <2> QED  BY <2>5, <2>6
<1> QED  BY <1>2, <1>3

-----------------------------------------------------------------------------
(* Texts.                                                                  *)

\* A text that is not empty, the widths of its characters and their bytes.
Measured(text, w, b) ==
  /\ text \in Seq(Characters) /\ Len(text) > 0
  /\ w = [i \in 1..Len(text) |-> Width(text[i])]
  /\ b = [i \in 1..Len(text) |-> Bytes(text[i])]

\* Each character has its width and its bytes.
LEMMA Measures ==
  ASSUME NEW text, NEW w, NEW b, Measured(text, w, b)
  PROVE  /\ w \in Seq(Nat) /\ Len(w) = Len(text) /\ b \in Seq(Nat) /\ Len(b) = Len(text)
         /\ \A i \in 1..Len(text) :
              /\ w[i] = Width(text[i]) /\ b[i] = Bytes(text[i])
              /\ w[i] \in 1..5 /\ b[i] \in 1..3
              /\ RuneLen(text[i]) = b[i] \/ (RuneLen(text[i]) = 3 /\ b[i] = 1 /\ w[i] = 1)
<1>1. Len(text) \in Nat
  BY DEF Measured
<1>2. \A i \in 1..Len(text) :
        /\ Width(text[i]) \in 1..5 /\ Bytes(text[i]) \in 1..3
        /\ \/ RuneLen(text[i]) = Bytes(text[i])
           \/ RuneLen(text[i]) = 3 /\ Bytes(text[i]) = 1 /\ Width(text[i]) = 1
  BY DEF Measured, Characters, Width, Bytes, RuneLen
<1>3. \A i \in 1..Len(text) : w[i] = Width(text[i]) /\ b[i] = Bytes(text[i])
  BY DEF Measured
<1>4. w \in [1..Len(text) -> Nat] /\ b \in [1..Len(text) -> Nat]
  <2>1. \A i \in 1..Len(text) : Width(text[i]) \in Nat /\ Bytes(text[i]) \in Nat
    BY <1>2
  <2> QED  BY <2>1 DEF Measured
<1>5. w \in Seq(Nat) /\ Len(w) = Len(text) /\ b \in Seq(Nat) /\ Len(b) = Len(text)
  BY <1>1, <1>4
<1> QED  BY <1>2, <1>3, <1>5

\* From place j on, a character takes a byte at least and five runes at most.
LEMMA Growth ==
  ASSUME NEW text, NEW w, NEW b, Measured(text, w, b), NEW j \in 0..Len(text)
  PROVE  \A m \in j..Len(text) :
           /\ Sums(b)[j] + (m - j) <= Sums(b)[m]
           /\ Sums(w)[j] + (m - j) <= Sums(w)[m]
           /\ Sums(w)[m] <= Sums(w)[j] + 5 * (m - j)
<1> DEFINE n == Len(text)
           x == Sums(w)
           y == Sums(b)
           P == {m \in 0..n : m >= j => /\ y[j] + (m - j) <= y[m]
                                        /\ x[j] + (m - j) <= x[m]
                                        /\ x[m] <= x[j] + 5 * (m - j)}
<1>1. /\ n \in Nat
      /\ x \in [0..n -> Nat] /\ y \in [0..n -> Nat]
      /\ \A i \in 1..n : x[i] = x[i - 1] + w[i] /\ y[i] = y[i - 1] + b[i]
      /\ \A i \in 1..n : w[i] \in 1..5 /\ b[i] \in 1..3
  <2>1. /\ w \in Seq(Nat) /\ Len(w) = n /\ b \in Seq(Nat) /\ Len(b) = n
        /\ \A i \in 1..n : w[i] \in 1..5 /\ b[i] \in 1..3
    BY Measures
  <2>2. n \in Nat
    BY DEF Measured
  <2> HIDE DEF n
  <2> QED  BY <2>1, <2>2, SumsAre
<1> HIDE DEF n, x, y
<1>2. 0 \in P
  BY <1>1
<1>3. ASSUME NEW m \in 1..n, m - 1 \in P PROVE m \in P
  <2>1. x[m] = x[m - 1] + w[m] /\ y[m] = y[m - 1] + b[m] /\ w[m] \in 1..5 /\ b[m] \in 1..3
    BY <1>1
  <2>2. x[m] \in Nat /\ y[m] \in Nat /\ x[m - 1] \in Nat /\ y[m - 1] \in Nat
    BY <1>1
  <2>3. CASE m = j
    BY <2>2, <2>3
  <2>4. CASE m > j
    <3>1. x[j] \in Nat /\ y[j] \in Nat /\ j \in Nat
      BY <1>1 DEF n
    <3>2. /\ y[j] + ((m - 1) - j) <= y[m - 1] /\ x[j] + ((m - 1) - j) <= x[m - 1]
          /\ x[m - 1] <= x[j] + 5 * ((m - 1) - j)
      BY <1>3, <2>4 DEF n
    <3>3. /\ y[j] + (m - j) <= y[m] /\ x[j] + (m - j) <= x[m]
          /\ x[m] <= x[j] + 5 * (m - j)
      <4>1. \A s, t, c, k \in Nat : s + ((m - 1) - j) <= t /\ c \in 1..5 => s + (m - j) <= t + c
        BY <3>1
      <4>2. \A s, t, c \in Nat : t <= s + 5 * ((m - 1) - j) /\ c \in 1..5 => t + c <= s + 5 * (m - j)
        BY <3>1
      <4>3. b[m] \in 1..5 /\ b[m] \in Nat /\ w[m] \in Nat
        BY <2>1
      <4> QED  BY <2>1, <2>2, <3>1, <3>2, <4>1, <4>2, <4>3
    <3> QED  BY <2>4, <3>3
  <2>5. CASE m < j
    BY <2>5 DEF n
  <2> QED  BY <2>3, <2>4, <2>5 DEF n
<1>4. \A m \in 0..n : m \in P
  <2> HIDE DEF P
  <2> QED  BY <1>1, <1>2, <1>3, UpTo
<1> QED  BY <1>4 DEF n, x, y

\* The limits of the code.
Limit(limit) == limit \in Nat /\ suffixLen <= limit

\* Where the look-ahead is skipped, the text is nearly over: the last character,
\* or one that is no UTF-8 and two more.  Without the suffix these have room.
LEMMA ShortTail ==
  ASSUME NEW text, NEW w, NEW b, Measured(text, w, b), NEW j \in 1..Len(text),
         Sums(b)[j - 1] + RuneLen(text[j]) >= Sums(b)[Len(text)]
  PROVE  j = Len(text) \/ Sums(w)[Len(text)] <= Sums(w)[j - 1] + suffixLen
<1> DEFINE n == Len(text)
           x == Sums(w)
           y == Sums(b)
<1>1. /\ n \in Nat
      /\ x \in [0..n -> Nat] /\ y \in [0..n -> Nat]
      /\ x[j] = x[j - 1] + w[j] /\ y[j] = y[j - 1] + b[j]
      /\ w[j] \in 1..5 /\ b[j] \in 1..3
      /\ RuneLen(text[j]) = b[j] \/ (RuneLen(text[j]) = 3 /\ b[j] = 1 /\ w[j] = 1)
  <2>1. n \in Nat /\ j \in 1..n
    BY DEF Measured
  <2> QED  BY <2>1, Measures, SumsAre
<1>2. y[j] + (n - j) <= y[n] /\ x[n] <= x[j] + 5 * (n - j)
  <2>1. j \in 0..n /\ n \in j..n
    BY <1>1
  <2> QED  BY <2>1, Growth
<1>3. y[j - 1] + RuneLen(text[j]) >= y[n]
  OBVIOUS
<1>4. y[j - 1] \in Nat /\ y[n] \in Nat /\ x[j - 1] \in Nat /\ x[n] \in Nat /\ j \in 1..n
  BY <1>1
<1> HIDE DEF n, x, y
<1>a. x[j] \in Int /\ y[j] \in Int /\ b[j] \in Int /\ w[j] \in Int /\ n - j \in Int
  <2>1. j \in 0..n /\ j \in Int /\ n \in Int
    BY <1>1, <1>4
  <2>2. x \in [0..n -> Nat] /\ y \in [0..n -> Nat] /\ w[j] \in 1..5 /\ b[j] \in 1..3
    BY <1>1
  <2>3. x[j] \in Int
    BY <2>1, <2>2
  <2>4. y[j] \in Int
    BY <2>1, <2>2
  <2>5. b[j] \in Int /\ w[j] \in Int
    BY <2>2
  <2>6. n - j \in Int
    BY <2>1
  <2> QED  BY <2>3, <2>4, <2>5, <2>6
<1>5. n - j <= RuneLen(text[j]) - b[j]
  <2>1. \A p, q, z, c, d, r \in Int : q = p + c /\ q + d <= z /\ p + r >= z => d <= r - c
    OBVIOUS
  <2>2. y[j] = y[j - 1] + b[j] /\ y[j] + (n - j) <= y[n] /\ y[j - 1] + RuneLen(text[j]) >= y[n]
    BY <1>1, <1>2, <1>3
  <2>3. y[j - 1] \in Int /\ y[n] \in Int /\ RuneLen(text[j]) \in Int
    <3>1. RuneLen(text[j]) = b[j] \/ RuneLen(text[j]) = 3
      BY <1>1
    <3> QED  BY <1>4, <1>a, <3>1
  <2> QED  BY <1>a, <2>1, <2>2, <2>3
<1>6. CASE RuneLen(text[j]) = 3 /\ b[j] = 1 /\ w[j] = 1
  <2>1. n - j <= 2
    BY <1>5, <1>6
  <2>2. x[n] <= x[j - 1] + 11
    <3>1. \A p, q, z, d \in Int : q = p + 1 /\ z <= q + 5 * d /\ d <= 2 => z <= p + 11
      OBVIOUS
    <3>2. x[j] = x[j - 1] + 1 /\ x[n] <= x[j] + 5 * (n - j)
      BY <1>1, <1>2, <1>6
    <3>3. x[j - 1] \in Int /\ x[n] \in Int
      BY <1>4
    <3> QED  BY <1>a, <2>1, <3>1, <3>2, <3>3
  <2>3. suffixLen \in Nat /\ 11 <= suffixLen
    BY LimitsAssumption
  <2> QED  BY <1>4, <2>2, <2>3 DEF n, x
<1>7. CASE RuneLen(text[j]) = b[j]
  <2>1. n - j <= 0
    BY <1>5, <1>7, <1>a
  <2> QED  BY <1>1, <1>4, <2>1 DEF n
<1> QED  BY <1>1, <1>6, <1>7

\* escapeAndTruncate keeps the limit, and leaves something.
LEMMA EscapedFits ==
  ASSUME NEW text \in Seq(Characters), Len(text) > 0, NEW limit, Limit(limit)
  PROVE  escapeAndTruncate(text, limit) \in 1..limit
<1> DEFINE n == Len(text)
           w == [i \in 1..n |-> Width(text[i])]
           b == [i \in 1..n |-> Bytes(text[i])]
           x == Sums(w)
           y == Sums(b)
           stops == {i \in 1..n : TruncatesAt(x[i - 1], y[i - 1], text[i], y[n], limit)}
<1>1. escapeAndTruncate(text, limit)
        = IF x[n] <= limit \/ stops = {} THEN x[n] ELSE x[Min(stops) - 1] + suffixLen
  BY DEF escapeAndTruncate
<1>2. Measured(text, w, b)
  BY DEF Measured
<1>3. n \in Nat /\ n > 0 /\ limit \in Nat /\ suffixLen \in Nat /\ 11 <= suffixLen /\ suffixLen <= limit
  <2>1. suffixLen \in Nat /\ 11 <= suffixLen
    BY LimitsAssumption
  <2> QED  BY <2>1 DEF Limit
<1> HIDE DEF w, b
<1>4. /\ x \in [0..n -> Nat] /\ x[0] = 0
      /\ \A i \in 1..n : x[i] = x[i - 1] + w[i] /\ w[i] = Width(text[i]) /\ w[i] \in 1..5
  <2>1. w \in Seq(Nat) /\ Len(w) = n /\ \A i \in 1..n : w[i] = Width(text[i]) /\ w[i] \in 1..5
    BY <1>2, Measures
  <2> HIDE DEF n
  <2> QED  BY <2>1, SumsAre
<1>5. \A i \in 1..n : i \in stops \/ /\ x[i] <= limit
                                      /\ \/ y[i - 1] + RuneLen(text[i]) >= y[n]
                                         \/ x[i] + suffixLen <= limit
  <2> SUFFICES ASSUME NEW i \in 1..n, i \notin stops
               PROVE  /\ x[i] <= limit
                      /\ \/ y[i - 1] + RuneLen(text[i]) >= y[n]
                         \/ x[i] + suffixLen <= limit
    OBVIOUS
  <2>1. ~TruncatesAt(x[i - 1], y[i - 1], text[i], y[n], limit)
    OBVIOUS
  <2>2. x[i - 1] + Width(text[i]) = x[i] /\ x[i] \in Nat
    BY <1>4
  <2>3. b \in Seq(Nat) /\ Len(b) = n /\ RuneLen(text[i]) \in Nat
    BY <1>2, Measures
  <2>4. y[i - 1] \in Nat /\ y[n] \in Nat
    <3>1. y \in [0..n -> Nat]
      BY <2>3, SumsAre
    <3> HIDE DEF y, n
    <3> QED  BY <1>3, <3>1
  <2>5. /\ ~(x[i - 1] + Width(text[i]) > limit)
        /\ ~(y[i - 1] + RuneLen(text[i]) < y[n] /\ x[i - 1] + Width(text[i]) + suffixLen > limit)
    BY <2>1 DEF TruncatesAt
  <2> HIDE DEF stops, x, y, n
  <2>6. x[i] <= limit
    BY <1>3, <2>2, <2>5
  <2>7. y[i - 1] + RuneLen(text[i]) >= y[n] \/ x[i] + suffixLen <= limit
    <3>1. ~(y[i - 1] + RuneLen(text[i]) < y[n] /\ x[i] + suffixLen > limit)
      BY <2>2, <2>5
    <3>2. \A r, s, u, v \in Nat : ~(r < s /\ u > v) => r >= s \/ u <= v
      OBVIOUS
    <3>3. y[i - 1] + RuneLen(text[i]) \in Nat
      BY <2>3, <2>4
    <3>4. x[i] + suffixLen \in Nat
      BY <1>3, <2>2
    <3> QED  BY <1>3, <2>4, <3>1, <3>2, <3>3, <3>4
  <2> QED  BY <2>6, <2>7
<1>6. CASE x[n] <= limit
  <2>1. x[1] = x[0] + w[1] /\ w[1] \in 1..5 /\ 1 \in 0..n /\ n \in 1..n
    BY <1>3, <1>4
  <2>2. x[1] + (n - 1) <= x[n]
    BY <1>2, <2>1, Growth
  <2>3. x[n] \in Nat /\ x[1] \in Nat
    BY <1>4, <2>1
  <2> HIDE DEF x, n
  <2> QED  BY <1>1, <1>3, <1>4, <1>6, <2>1, <2>2, <2>3
<1>7. CASE ~(x[n] <= limit)
  <2>1. n \in stops
    BY <1>3, <1>5, <1>7
  <2>2. PICK k : k = Min(stops) /\ k \in 1..n /\ \A i \in 1..n : i < k => i \notin stops
    <3>1. stops \subseteq Nat /\ stops # {} /\ stops \subseteq 1..n
      BY <2>1
    <3> HIDE DEF stops
    <3>2. Min(stops) \in stops /\ \A i \in stops : Min(stops) <= i
      BY <3>1, MinIs
    <3>3. \A i \in 1..n : i < Min(stops) => i \notin stops
      <4> SUFFICES ASSUME NEW i \in stops, i < Min(stops) PROVE FALSE
        OBVIOUS
      <4>1. i \in Nat /\ Min(stops) \in Nat /\ Min(stops) <= i
        BY <3>1, <3>2
      <4> QED  BY <4>1
    <3> QED  BY <3>1, <3>2, <3>3
  <2>3. escapeAndTruncate(text, limit) = x[k - 1] + suffixLen
    BY <1>1, <1>7, <2>1, <2>2
  <2> DEFINE P == {i \in 0..(k - 1) : x[i] + suffixLen <= limit}
  <2>4. 0 \in P
    BY <1>3, <1>4, <2>2
  <2>5. ASSUME NEW i \in 1..(k - 1), i - 1 \in P PROVE i \in P
    <3>1. i \in 1..n /\ i # n /\ i \notin stops
      BY <2>2
    <3>2. CASE y[i - 1] + RuneLen(text[i]) >= y[n]
      <4>1. x[n] <= x[i - 1] + suffixLen
        BY <1>2, <3>1, <3>2, ShortTail
      <4>2. x[i - 1] \in Nat /\ x[n] \in Nat
        <5>1. i - 1 \in 0..n /\ n \in 0..n
          BY <1>3, <3>1
        <5>2. x \in [0..n -> Nat]
          BY <1>4
        <5> HIDE DEF x, n
        <5> QED  BY <5>1, <5>2
      <4> HIDE DEF x, n
      <4> QED  BY <1>3, <1>7, <2>5, <4>1, <4>2
    <3>3. CASE x[i] + suffixLen <= limit
      BY <3>3
    <3> HIDE DEF stops
    <3> QED  BY <1>5, <3>1, <3>2, <3>3
  <2>6. \A i \in 0..(k - 1) : i \in P
    <3>1. k - 1 \in Nat
      BY <2>2
    <3> HIDE DEF P
    <3> QED  BY <2>4, <2>5, <3>1, UpTo
  <2>7. x[k - 1] + suffixLen <= limit /\ x[k - 1] \in Nat
    <3>1. k - 1 \in 0..(k - 1) /\ k - 1 \in 0..n
      BY <1>3, <2>2
    <3>2. k - 1 \in P
      BY <2>6, <3>1
    <3>3. x[k - 1] + suffixLen <= limit
      BY <3>2
    <3> HIDE DEF x, n
    <3> QED  BY <1>4, <3>1, <3>3
  <2> HIDE DEF x
  <2> QED  BY <1>3, <2>3, <2>7
<1> QED  BY <1>6, <1>7

\* So does the fallback of a text of blanks.
LEMMA EscapedTextFits ==
  ASSUME NEW text \in Seq(Characters), NEW limit, Limit(limit)
  PROVE  Escaped(text, limit) \in 1..limit
<1>1. CASE TrimSpace(text) = <<>>
  BY <1>1, LimitsAssumption DEF Escaped, Limit
<1>2. CASE TrimSpace(text) # <<>>
  <2>1. Trim(<<>>, "blank") = <<>>
    BY DEF Trim
  <2>2. Len(text) > 0
    BY <1>2, <2>1 DEF TrimSpace
  <2> QED  BY <1>2, <2>2, EscapedFits DEF Escaped
<1> QED  BY <1>1, <1>2

-----------------------------------------------------------------------------
(* Replies.                                                                *)

Lines == Seq(Nat \ {0})

\* A reply of some lines is neither empty nor too long, and says what it leaves out.
LEMMA ReplyFits ==
  ASSUME NEW lines \in Lines, Len(lines) > 0
  PROVE  /\ formatCommandResult(lines).size \in 1..maxText
         /\ formatCommandResult(lines).cut => formatCommandResult(lines).told
<1> DEFINE n == Len(lines)
           sizes == [i \in 1..n |-> lines[i] + 1]
           used == Sums(sizes)
           over == {i \in 1..n : ~Fits(used[i - 1], lines[i] + 1)}
           kept == IF over = {} THEN used[n] ELSE used[Min(over) - 1]
           told == over # {} /\ kept + suffixLen <= maxText
           raw  == kept + (IF told THEN suffixLen ELSE 0)
           trim == IF raw = 0 \/ (told /\ kept > 0) THEN 0 ELSE 1
<1>1. /\ formatCommandResult(lines).size = raw - trim
      /\ formatCommandResult(lines).cut = (over # {})
      /\ formatCommandResult(lines).told = told
  BY DEF formatCommandResult
<1>2. maxText \in Nat /\ suffixLen \in Nat /\ 11 <= suffixLen /\ suffixLen <= maxText
  <2>1. {maxText, smsBodyMax, fromPreviewMax, Frame, suffixLen} \subseteq Nat
    BY LimitsAssumption
  <2>2. smsBodyMax + fromPreviewMax + Frame <= maxText /\ suffixLen <= smsBodyMax /\ 10 < suffixLen
    BY LimitsAssumption
  <2> QED  BY <2>1, <2>2
<1>3. n \in Nat /\ n > 0 /\ \A i \in 1..n : lines[i] \in Nat /\ lines[i] > 0
  BY DEF Lines
<1>4. /\ used \in [0..n -> Nat] /\ used[0] = 0
      /\ \A i \in 1..n : used[i] = used[i - 1] + (lines[i] + 1)
  <2>1. sizes \in Seq(Nat) /\ Len(sizes) = n /\ \A i \in 1..n : sizes[i] = lines[i] + 1
    BY <1>3
  <2> HIDE DEF sizes, n
  <2> QED  BY <2>1, SumsAre
<1>5. \A i \in 1..n : i \in over \/ used[i] + suffixLen <= maxText
  BY <1>4 DEF Fits
<1> HIDE DEF sizes, used
<1>6. CASE over = {}
  <2>1. kept = used[n] /\ used[n] + suffixLen <= maxText /\ told = FALSE
    BY <1>3, <1>5, <1>6
  <2>2. used[n] \in Nat /\ used[n] = used[n - 1] + (lines[n] + 1) /\ used[n - 1] \in Nat /\ lines[n] \in Nat
        /\ lines[n] > 0
    <3>1. n \in 1..n /\ n \in 0..n /\ n - 1 \in 0..n
      BY <1>3
    <3> HIDE DEF n
    <3> QED  BY <1>3, <1>4, <3>1
  <2> DEFINE k == used[n]
  <2>3. k \in Nat /\ k >= 2 /\ k + suffixLen <= maxText
    BY <2>1, <2>2
  <2>4. formatCommandResult(lines).size = k - 1
    <3>1. kept = k
      BY <2>1
    <3> HIDE DEF k, kept, over
    <3>2. raw = k /\ trim = 1
      BY <2>1, <2>3, <3>1
    <3> QED  BY <1>1, <3>2
  <2> HIDE DEF k
  <2> QED  BY <1>1, <1>2, <1>6, <2>3, <2>4
<1>7. CASE over # {}
  <2>1. PICK k : k = Min(over) /\ k \in 1..n /\ \A i \in 1..n : i < k => i \notin over
    <3>1. over \subseteq Nat /\ over \subseteq 1..n
      OBVIOUS
    <3> HIDE DEF over
    <3>2. Min(over) \in over /\ \A i \in over : Min(over) <= i
      BY <1>7, <3>1, MinIs
    <3>3. \A i \in 1..n : i < Min(over) => i \notin over
      <4> SUFFICES ASSUME NEW i \in over, i < Min(over) PROVE FALSE
        OBVIOUS
      <4>1. i \in Nat /\ Min(over) \in Nat /\ Min(over) <= i
        BY <3>1, <3>2
      <4> QED  BY <4>1
    <3> QED  BY <3>1, <3>2, <3>3
  <2> DEFINE m == used[k - 1]
  <2>2. m \in Nat /\ m + suffixLen <= maxText
    <3>1. CASE k = 1
      BY <1>2, <1>4, <3>1
    <3>2. CASE k # 1
      <4>1. k - 1 \in 1..n /\ k - 1 \in 0..n /\ k - 1 < k
        BY <1>3, <2>1, <3>2
      <4>2. k - 1 \notin over
        BY <2>1, <4>1
      <4> HIDE DEF over
      <4> QED  BY <1>4, <1>5, <4>1, <4>2
    <3> QED  BY <3>1, <3>2
  <2>3. kept = m
    BY <1>7, <2>1
  <2> HIDE DEF m, over
  <2>4. told = TRUE /\ raw = m + suffixLen
    BY <1>7, <2>2, <2>3
  <2>5. raw - trim \in 1..maxText
    BY <1>2, <2>2, <2>3, <2>4
  <2> QED  BY <1>1, <2>4, <2>5
<1> QED  BY <1>6, <1>7

SomeLines == Lines \ {<<>>}

\* Every result of a command is explained in a line at least.
LEMMA ResultLines ==
  /\ explainFailure \subseteq SomeLines
  /\ \A cmd : explainCommandResult(cmd) \subseteq SomeLines
<1>1. Label \in Nat \ {0} /\ ValueSizes \subseteq Nat \ {0}
  BY LimitsAssumption
<1>2. \A a, b, c \in Nat \ {0} :
        <<a>> \in SomeLines /\ <<a, b>> \in SomeLines /\ <<a, b, c>> \in SomeLines
  BY DEF SomeLines, Lines
<1>3. explainSingleValue \subseteq SomeLines
  BY <1>2, <1>1 DEF explainSingleValue
<1>4. explainCSQ \subseteq SomeLines /\ explainCOPS \subseteq SomeLines
  BY <1>2, <1>1 DEF explainCSQ, explainCOPS
<1>5. ASSUME NEW values \in 0..10 PROVE explainCPMS(values) \in SomeLines
  <2>1. CASE values < 3
    BY <1>1, <2>1 DEF explainCPMS, SomeLines, Lines
  <2>2. CASE values >= 3
    <3>1. storages(values) \in 1..3
      BY <2>2 DEF storages, Smaller
    <3>2. explainCPMS(values) = [i \in 1..storages(values) |-> Label]
      BY <2>2 DEF explainCPMS
    <3>3. explainCPMS(values) \in Lines /\ Len(explainCPMS(values)) = storages(values)
      BY <1>1, <3>1, <3>2 DEF Lines
    <3> QED  BY <3>1, <3>3 DEF SomeLines
  <2> QED  BY <2>1, <2>2
<1>6. {<<Label>>} \subseteq SomeLines /\ {<<Label, Label, Label>>} \subseteq SomeLines
  BY <1>2, <1>1
<1>7. ASSUME NEW cmd PROVE explainCommandResult(cmd) \subseteq SomeLines
  BY <1>3, <1>4, <1>5, <1>6
  DEF explainCommandResult, explainCPIN, explainRegistration, explainCFUN
<1> QED  BY <1>3, <1>7 DEF explainFailure

\* Lines behind lines are lines.
LEMMA MoreLines ==
  ASSUME NEW before \in SUBSET Lines, NEW results \in SUBSET SomeLines
  PROVE  More(before, results) \in SUBSET SomeLines
<1>1. ASSUME NEW a \in Lines, NEW b \in SomeLines PROVE a \o b \in SomeLines
  <2>1. b \in Lines /\ Len(b) > 0
    BY DEF SomeLines, Lines
  <2>2. a \o b \in Lines /\ Len(a \o b) = Len(a) + Len(b)
    BY <2>1 DEF Lines
  <2>3. Len(a \o b) # 0
    BY <2>1, <2>2 DEF Lines
  <2> QED  BY <2>2, <2>3 DEF SomeLines
<1>2. ASSUME NEW x \in More(before, results) PROVE x \in SomeLines
  <2>1. PICK a \in before, b \in results : x = a \o b
    BY DEF More
  <2> QED  BY <1>1, <2>1
<1> QED  BY <1>2

\* So every sequence of commands has a reply of some lines.
LEMMA ExplainedLines ==
  ASSUME NEW cmds, Len(cmds) \in Nat, Len(cmds) > 0
  PROVE  Explained(cmds) \subseteq SomeLines
<1> DEFINE n == Len(cmds)
           Result(k) == explainCommandResult(cmds[k])
           S == SUBSET Lines
           do == [p \in S \X (1..n) |-> More(p[1], Result(p[2]))]
           lines == Rounds(n, {<<>>}, LAMBDA before, k : More(before, Result(k)))
<1>1. /\ n \in Nat /\ n > 0 /\ SUBSET SomeLines \subseteq S /\ {<<>>} \in S
      /\ explainFailure \in SUBSET SomeLines
      /\ \A k \in 1..n : Result(k) \in SUBSET SomeLines
  BY ResultLines DEF SomeLines, Lines
<1> HIDE DEF Result
<1>2. do \in [S \X (1..n) -> S]
  BY <1>1, MoreLines
<1>3. PICK s \in [0..n -> S] : Run(s, do, {<<>>}, n)
  <2> HIDE DEF n, do, S
  <2> QED  BY <1>1, <1>2, RunExists
<1>4. s = [k \in 0..n |-> IF k = 0 THEN {<<>>} ELSE More(s[k - 1], Result(k))]
  <2>1. s[0] = {<<>>} /\ \A k \in 1..n : s[k] = do[<<s[k - 1], k>>]
    BY <1>3 DEF Run
  <2>2. ASSUME NEW k \in 1..n PROVE s[k] = More(s[k - 1], Result(k))
    <3>1. k - 1 \in 0..n /\ s[k - 1] \in S
      BY <1>1
    <3>2. do[<<s[k - 1], k>>] = More(s[k - 1], Result(k))
      BY <3>1
    <3> QED  BY <2>1, <3>2
  <2> HIDE DEF do, S
  <2> QED  BY <1>1, <2>1, <2>2
<1>5. lines = [k \in 0..n |-> IF k = 0 THEN {<<>>} ELSE More(lines[k - 1], Result(k))]
  BY <1>4 DEF Rounds
<1>6. Explained(cmds) = lines[n] \cup UNION {More(lines[k - 1], explainFailure) : k \in 1..n}
  BY DEF Explained, Result
<1> HIDE DEF lines
<1>7. lines[0] = {<<>>} /\ \A k \in 1..n : lines[k] = More(lines[k - 1], Result(k))
  <2> DEFINE v == [k \in 0..n |-> IF k = 0 THEN {<<>>} ELSE More(lines[k - 1], Result(k))]
  <2>1. v[0] = {<<>>} /\ \A k \in 1..n : v[k] = More(lines[k - 1], Result(k))
    BY <1>1
  <2> HIDE DEF v
  <2> QED  BY <1>5, <2>1 DEF v
<1>8. \A k \in 0..n : lines[k] \in S
  <2> DEFINE P == {k \in 0..n : lines[k] \in S}
  <2>1. 0 \in P
    BY <1>1, <1>7
  <2>2. ASSUME NEW k \in 1..n, k - 1 \in P PROVE k \in P
    BY <1>1, <1>7, <2>2, MoreLines
  <2>3. \A k \in 0..n : k \in P
    <3> HIDE DEF n, P
    <3> QED  BY <1>1, <2>1, <2>2, UpTo
  <2> QED  BY <2>3
<1>9. lines[n] \in SUBSET SomeLines
  <2>1. n \in 1..n /\ n - 1 \in 0..n
    BY <1>1
  <2>2. More(lines[n - 1], Result(n)) \in SUBSET SomeLines
    BY <1>1, <1>8, <2>1, MoreLines
  <2> HIDE DEF n
  <2> QED  BY <1>7, <2>1, <2>2
<1>10. \A k \in 1..n : More(lines[k - 1], explainFailure) \in SUBSET SomeLines
  BY <1>1, <1>8, MoreLines
<1> QED  BY <1>6, <1>9, <1>10

-----------------------------------------------------------------------------
(* The fields of a header.                                                 *)

Scans(T) == [fields: Seq(Seq(T)), field: Seq(T), inQuote: BOOLEAN]
At(fields, field, inQuote) == [fields |-> fields, field |-> field, inQuote |-> inQuote]
End(s, tokens) == Scan(s, tokens)[Len(tokens)]

\* A token more.
LEMMA TokenRead ==
  ASSUME NEW T, NEW s \in Scans(T), NEW token \in T
  PROVE  ReadToken(s, token) \in Scans(T)
<1>1. s.fields \in Seq(Seq(T)) /\ s.field \in Seq(T) /\ s.inQuote \in BOOLEAN
  BY DEF Scans
<1>2. /\ Append(s.fields, TrimSpace(s.field)) \in Seq(Seq(T)) /\ <<>> \in Seq(T)
      /\ Append(s.field, token) \in Seq(T)
  <2>1. TrimSpace(s.field) \in Seq(T)
    BY <1>1, TrimType DEF TrimSpace
  <2> QED  BY <1>1, <2>1
<1>3. s = At(s.fields, s.field, s.inQuote)
  BY DEF Scans, At
<1>4. CASE Separates(token, s.inQuote)
  BY <1>1, <1>2, <1>3, <1>4 DEF ReadToken, Scans, At
<1>5. CASE ~Separates(token, s.inQuote)
  <2>1. (s.inQuote # (token = "quote")) \in BOOLEAN
    OBVIOUS
  <2>2. ReadToken(s, token) = [s EXCEPT !.field = Append(s.field, token),
                                        !.inQuote = (s.inQuote # (token = "quote"))]
    BY <1>5 DEF ReadToken
  <2> QED  BY <1>1, <1>2, <2>1, <2>2 DEF Scans
<1> QED  BY <1>4, <1>5

\* Scan reads token by token.
LEMMA ScanIs ==
  ASSUME NEW T, NEW tokens \in Seq(T), NEW s \in Scans(T)
  PROVE  /\ Scan(s, tokens) \in [0..Len(tokens) -> Scans(T)]
         /\ Scan(s, tokens)[0] = s
         /\ \A i \in 1..Len(tokens) :
              Scan(s, tokens)[i] = ReadToken(Scan(s, tokens)[i - 1], tokens[i])
<1> DEFINE n == Len(tokens)
           S == Scans(T)
           do == [p \in S \X (1..n) |-> ReadToken(p[1], tokens[p[2]])]
           u == Scan(s, tokens)
<1>1. n \in Nat /\ \A i \in 1..n : tokens[i] \in T
  OBVIOUS
<1> HIDE DEF S
<1>2. \A t \in S, i \in 1..n : ReadToken(t, tokens[i]) \in S
  BY <1>1, TokenRead DEF S
<1>3. do \in [S \X (1..n) -> S] /\ s \in S
  BY <1>2 DEF S
<1>4. PICK f \in [0..n -> S] : Run(f, do, s, n)
  <2> HIDE DEF n, do
  <2> QED  BY <1>1, <1>3, RunExists
<1>5. f = [i \in 0..n |-> IF i = 0 THEN s ELSE ReadToken(f[i - 1], tokens[i])]
  <2>1. f[0] = s /\ \A i \in 1..n : f[i] = do[<<f[i - 1], i>>]
    BY <1>4 DEF Run
  <2>2. ASSUME NEW i \in 1..n PROVE f[i] = ReadToken(f[i - 1], tokens[i])
    <3>1. i - 1 \in 0..n /\ f[i - 1] \in S
      BY <1>1
    <3>2. do[<<f[i - 1], i>>] = ReadToken(f[i - 1], tokens[i])
      BY <3>1
    <3> QED  BY <2>1, <3>2
  <2> HIDE DEF do
  <2> QED  BY <1>1, <2>1, <2>2
<1>6. u = [i \in 0..n |-> IF i = 0 THEN s ELSE ReadToken(u[i - 1], tokens[i])]
  BY <1>5 DEF Scan, Rounds
<1> HIDE DEF u
<1>7. u[0] = s /\ \A i \in 1..n : u[i] = ReadToken(u[i - 1], tokens[i])
  <2> DEFINE v == [i \in 0..n |-> IF i = 0 THEN s ELSE ReadToken(u[i - 1], tokens[i])]
  <2>1. v[0] = s /\ \A i \in 1..n : v[i] = ReadToken(u[i - 1], tokens[i])
    BY <1>1
  <2> HIDE DEF v
  <2> QED  BY <1>6, <2>1 DEF v
<1>8. \A i \in 0..n : u[i] \in S
  <2> DEFINE P == {i \in 0..n : u[i] \in S}
  <2>1. 0 \in P
    BY <1>1, <1>3, <1>7
  <2>2. ASSUME NEW i \in 1..n, i - 1 \in P PROVE i \in P
    BY <1>2, <1>7, <2>2
  <2>3. \A i \in 0..n : i \in P
    <3> HIDE DEF n, P
    <3> QED  BY <1>1, <2>1, <2>2, UpTo
  <2> QED  BY <2>3
<1> QED  BY <1>6, <1>7, <1>8 DEF u, S

\* What is read in two goes.
LEMMA EndOf ==
  ASSUME NEW T, NEW a \in Seq(T), NEW b \in Seq(T), NEW s \in Scans(T)
  PROVE  /\ End(s, a) \in Scans(T)
         /\ End(s, a \o b) = End(End(s, a), b)
<1> DEFINE n == Len(a)
           m == Len(b)
           c == a \o b
           x == Scan(s, c)
           y == Scan(s, a)
           z == Scan(y[n], b)
<1>1. /\ n \in Nat /\ m \in Nat /\ c \in Seq(T) /\ Len(c) = n + m
      /\ \A i \in 1..n : c[i] = a[i] /\ i \in 1..(n + m)
      /\ \A i \in 1..m : c[n + i] = b[i] /\ n + i \in 1..(n + m) /\ (n + i) - 1 = n + (i - 1)
  OBVIOUS
<1>2. y \in [0..n -> Scans(T)] /\ y[0] = s /\ \A i \in 1..n : y[i] = ReadToken(y[i - 1], a[i])
  BY ScanIs
<1>3. y[n] \in Scans(T)
  BY <1>1, <1>2
<1>4. z[0] = y[n] /\ \A i \in 1..m : z[i] = ReadToken(z[i - 1], b[i])
  BY <1>3, ScanIs
<1>5. x[0] = s /\ \A i \in 1..(n + m) : x[i] = ReadToken(x[i - 1], c[i])
  <2>1. c \in Seq(T) /\ Len(c) = n + m
    BY <1>1
  <2>2. \A t \in Seq(T) : /\ Scan(s, t)[0] = s
                         /\ \A i \in 1..Len(t) : Scan(s, t)[i] = ReadToken(Scan(s, t)[i - 1], t[i])
    BY ScanIs
  <2> HIDE DEF c, n, m
  <2> QED  BY <2>1, <2>2
<1> HIDE DEF n, m, c, x, y, z
<1>6. x[n] = y[n]
  <2> DEFINE P == {i \in 0..n : x[i] = y[i]}
  <2>1. 0 \in P
    BY <1>1, <1>2, <1>5
  <2>2. ASSUME NEW i \in 1..n, i - 1 \in P PROVE i \in P
    BY <1>1, <1>2, <1>5, <2>2
  <2>3. \A i \in 0..n : i \in P
    <3> HIDE DEF P
    <3> QED  BY <1>1, <2>1, <2>2, UpTo
  <2>4. n \in 0..n
    BY <1>1
  <2> QED  BY <2>3, <2>4
<1>7. x[n + m] = z[m]
  <2> DEFINE P == {i \in 0..m : x[n + i] = z[i]}
  <2>1. 0 \in P
    BY <1>1, <1>4, <1>6
  <2>2. ASSUME NEW i \in 1..m, i - 1 \in P PROVE i \in P
    BY <1>1, <1>4, <1>5, <2>2
  <2>3. \A i \in 0..m : i \in P
    <3> HIDE DEF P
    <3> QED  BY <1>1, <2>1, <2>2, UpTo
  <2>4. m \in 0..m
    BY <1>1
  <2> QED  BY <2>3, <2>4
<1>8. End(s, c) = x[n + m] /\ End(s, a) = y[n] /\ End(End(s, a), b) = z[m]
  BY <1>1 DEF End, x, y, z, n, m
<1> QED  BY <1>3, <1>7, <1>8 DEF c

\* What a token does, by its kind.
LEMMA TokenDoes ==
  ASSUME NEW f, NEW g, NEW c
  PROVE  /\ c # "quote" => ReadToken(At(f, g, TRUE), c) = At(f, Append(g, c), TRUE)
         /\ c # "quote" /\ c # "comma" => ReadToken(At(f, g, FALSE), c) = At(f, Append(g, c), FALSE)
         /\ ReadToken(At(f, g, FALSE), "quote") = At(f, Append(g, "quote"), TRUE)
         /\ ReadToken(At(f, g, TRUE), "quote") = At(f, Append(g, "quote"), FALSE)
         /\ ReadToken(At(f, g, FALSE), "comma") = At(Append(f, TrimSpace(g)), <<>>, FALSE)
BY DEF ReadToken, Separates, At

\* A single token.
LEMMA EndOfToken ==
  ASSUME NEW T, NEW s \in Scans(T), NEW c \in T
  PROVE  End(s, <<c>>) = ReadToken(s, c)
<1>1. <<c>> \in Seq(T) /\ Len(<<c>>) = 1 /\ <<c>>[1] = c
  OBVIOUS
<1>2. \A t \in Seq(T) : /\ Scan(s, t)[0] = s
                       /\ \A i \in 1..Len(t) : Scan(s, t)[i] = ReadToken(Scan(s, t)[i - 1], t[i])
  BY ScanIs
<1> DEFINE t == <<c>>
<1>3. t \in Seq(T) /\ Len(t) = 1 /\ t[1] = c
  BY <1>1
<1> HIDE DEF t
<1>4. 1 \in 1..Len(t) /\ 1 - 1 = 0
  BY <1>3
<1>5. Scan(s, t)[1] = ReadToken(Scan(s, t)[1 - 1], t[1]) /\ Scan(s, t)[0] = s
  BY <1>2, <1>3, <1>4
<1>6. End(s, t) = ReadToken(s, c)
  BY <1>3, <1>4, <1>5 DEF End
<1> QED  BY <1>6 DEF t

\* Each token only adds to the field; at has the state by the field.
OnlyAdds(at, T, w) ==
  \A h \in Seq(T), i \in 1..Len(w) : ReadToken(at[h], w[i]) = at[Append(h, w[i])]

\* Tokens that only add to the field, read one after the other.
LEMMA WordRead ==
  ASSUME NEW T, NEW at \in [Seq(T) -> Scans(T)], NEW g \in Seq(T), NEW w \in Seq(T),
         OnlyAdds(at, T, w)
  PROVE  End(at[g], w) = at[g \o w]
<1> DEFINE n == Len(w)
           s == at[g]
           Read(i) == g \o SubSeq(w, 1, i)
           P == {i \in 0..n : Scan(s, w)[i] = at[Read(i)]}
<1>1. n \in Nat /\ s \in Scans(T)
  OBVIOUS
<1>2. Scan(s, w)[0] = s /\ \A i \in 1..n : Scan(s, w)[i] = ReadToken(Scan(s, w)[i - 1], w[i])
  BY <1>1, ScanIs
<1>3. Read(0) = g /\ Read(n) = g \o w
  <2>1. SubSeq(w, 1, 0) = <<>> /\ SubSeq(w, 1, n) = w
    OBVIOUS
  <2>2. g \o <<>> = g
    OBVIOUS
  <2> QED  BY <2>1, <2>2
<1>4. ASSUME NEW i \in 1..n PROVE Append(Read(i - 1), w[i]) = Read(i)
  <2>1. i \in Nat /\ i - 1 \in Nat /\ w[i] \in T /\ Len(g) \in Nat
    OBVIOUS
  <2>2. /\ SubSeq(w, 1, i) \in Seq(T) /\ Len(SubSeq(w, 1, i)) = i
        /\ SubSeq(w, 1, i - 1) \in Seq(T) /\ Len(SubSeq(w, 1, i - 1)) = i - 1
        /\ \A j \in 1..(i - 1) : SubSeq(w, 1, i)[j] = SubSeq(w, 1, i - 1)[j]
        /\ SubSeq(w, 1, i)[i] = w[i]
    OBVIOUS
  <2>3. SubSeq(w, 1, i) = Append(SubSeq(w, 1, i - 1), w[i])
    <3> DEFINE a == SubSeq(w, 1, i)
               b == SubSeq(w, 1, i - 1)
    <3> HIDE DEF a, b
    <3>1. a \in Seq(T) /\ b \in Seq(T) /\ Len(a) = i /\ Len(b) = i - 1
          /\ (\A j \in 1..(i - 1) : a[j] = b[j]) /\ a[i] = w[i]
      BY <2>2 DEF a, b
    <3>2. /\ Append(b, w[i]) \in Seq(T) /\ Len(Append(b, w[i])) = i
          /\ \A j \in 1..i : a[j] = Append(b, w[i])[j]
      BY <2>1, <3>1
    <3> QED  BY <3>1, <3>2, SameSeq DEF a, b
  <2> DEFINE b == SubSeq(w, 1, i - 1)
  <2>4. b \in Seq(T) /\ g \o Append(b, w[i]) = Append(g \o b, w[i])
    <3>1. b \in Seq(T)
      BY <2>2
    <3> HIDE DEF b
    <3> QED  BY <2>1, <3>1
  <2> HIDE DEF b
  <2> QED  BY <2>3, <2>4 DEF b
<1> HIDE DEF Read, s
<1>5. 0 \in P
  BY <1>1, <1>2, <1>3 DEF s
<1>6. ASSUME NEW i \in 1..n, i - 1 \in P PROVE i \in P
  <2>1. Scan(s, w)[i] = ReadToken(at[Read(i - 1)], w[i])
    BY <1>2, <1>6
  <2>2. Read(i - 1) \in Seq(T)
    BY DEF Read
  <2>3. ReadToken(at[Read(i - 1)], w[i]) = at[Append(Read(i - 1), w[i])]
    BY <2>2 DEF OnlyAdds
  <2>4. i \in 0..n
    OBVIOUS
  <2> HIDE DEF n
  <2> QED  BY <1>4, <2>1, <2>3, <2>4
<1>7. n \in P
  <2>1. n \in 0..n
    BY <1>1
  <2> HIDE DEF P, n
  <2> QED  BY <1>1, <1>5, <1>6, <2>1, UpTo
<1> QED  BY <1>3, <1>7 DEF End, s

\* A comma ends a field.
LEMMA CommaRead ==
  ASSUME NEW f \in Seq(Seq(Tokens)), NEW g \in Seq(Tokens)
  PROVE  End(At(f, g, FALSE), <<"comma">>) = At(Append(f, TrimSpace(g)), <<>>, FALSE)
<1>1. At(f, g, FALSE) \in Scans(Tokens) /\ "comma" \in Tokens
  BY LimitsAssumption DEF At, Scans
<1>2. End(At(f, g, FALSE), <<"comma">>) = ReadToken(At(f, g, FALSE), "comma")
  BY <1>1, EndOfToken
<1> QED  BY <1>2, TokenDoes

\* What is quoted is one field, with its quotes.
LEMMA QuotedRead ==
  ASSUME NEW f \in Seq(Seq(Tokens)), NEW v \in Seq(Tokens \ {"quote"})
  PROVE  /\ Quoted(v) \in Seq(Tokens)
         /\ End(At(f, <<>>, FALSE), Quoted(v)) = At(f, Quoted(v), FALSE)
<1> DEFINE q == <<"quote">>
           s0 == At(f, <<>>, FALSE)
           s1 == At(f, q, TRUE)
           s2 == At(f, q \o v, TRUE)
           s3 == At(f, q \o v \o q, FALSE)
<1>1. "quote" \in Tokens
  BY LimitsAssumption
<1>2. /\ q \in Seq(Tokens) /\ v \in Seq(Tokens) /\ q \o v \in Seq(Tokens)
      /\ q \o v \o q \in Seq(Tokens) /\ <<>> \in Seq(Tokens)
  BY <1>1
<1>3. s0 \in Scans(Tokens) /\ s1 \in Scans(Tokens) /\ s2 \in Scans(Tokens)
  BY <1>2 DEF At, Scans
<1>4. End(s0, q) = s1
  <2>1. End(s0, q) = ReadToken(s0, "quote")
    BY <1>1, <1>3, EndOfToken
  <2>2. ReadToken(s0, "quote") = At(f, Append(<<>>, "quote"), TRUE)
    BY TokenDoes
  <2>3. Append(<<>>, "quote") = q
    OBVIOUS
  <2> QED  BY <2>1, <2>2, <2>3
<1>5. End(s1, v) = s2
  <2> DEFINE at == [h \in Seq(Tokens) |-> At(f, h, TRUE)]
  <2>1. at \in [Seq(Tokens) -> Scans(Tokens)]
    BY DEF At, Scans
  <2>2. at[q] = s1 /\ at[q \o v] = s2
    BY <1>2
  <2>3. \A h \in Seq(Tokens), i \in 1..Len(v) : ReadToken(at[h], v[i]) = at[Append(h, v[i])]
    <3> SUFFICES ASSUME NEW h \in Seq(Tokens), NEW i \in 1..Len(v)
                 PROVE  ReadToken(at[h], v[i]) = at[Append(h, v[i])]
      OBVIOUS
    <3> DEFINE c == v[i]
    <3>1. c # "quote" /\ c \in Tokens
      OBVIOUS
    <3> HIDE DEF c
    <3>2. ReadToken(At(f, h, TRUE), c) = At(f, Append(h, c), TRUE)
      BY <3>1 DEF ReadToken, Separates, At
    <3>3. at[h] = At(f, h, TRUE) /\ at[Append(h, c)] = At(f, Append(h, c), TRUE)
      BY <3>1
    <3> HIDE DEF at
    <3> QED  BY <3>2, <3>3 DEF c
  <2> HIDE DEF q, at
  <2>5. OnlyAdds(at, Tokens, v)
    BY <2>3 DEF OnlyAdds
  <2>4. End(at[q], v) = at[q \o v]
    BY <1>2, <2>1, <2>5, WordRead
  <2> QED  BY <2>2, <2>4
<1>6. End(s2, q) = s3
  <2>1. End(s2, q) = ReadToken(s2, "quote")
    BY <1>1, <1>3, EndOfToken
  <2>2. ReadToken(s2, "quote") = At(f, Append(q \o v, "quote"), FALSE)
    BY TokenDoes
  <2>3. Append(q \o v, "quote") = q \o v \o q
    <3> DEFINE a == q \o v
    <3>1. a \in Seq(Tokens)
      BY <1>2
    <3> HIDE DEF a
    <3>2. Append(a, "quote") = a \o <<"quote">>
      BY <1>1, <3>1
    <3> QED  BY <3>2 DEF a
  <2> QED  BY <2>1, <2>2, <2>3
<1>7. Quoted(v) = q \o v \o q
  BY DEF Quoted
<1> HIDE DEF q, s0, s1, s2, s3
<1>8. End(s0, q \o v \o q) = s3
  <2>1. End(s0, q \o v) = s2
    BY <1>2, <1>3, <1>4, <1>5, EndOf
  <2> DEFINE a == q \o v
  <2>2. a \in Seq(Tokens)
    BY <1>2
  <2> HIDE DEF a
  <2>3. End(s0, a \o q) = End(End(s0, a), q)
    BY <1>2, <1>3, <2>2, EndOf
  <2> QED  BY <1>6, <2>1, <2>3 DEF a
<1> QED  BY <1>2, <1>7, <1>8 DEF s0, s3

\* Tokens that, read as a field, are one.
IsField(w) ==
  /\ w \in Seq(Tokens)
  /\ \A f \in Seq(Seq(Tokens)) : End(At(f, <<>>, FALSE), w) = At(f, w, FALSE)

\* What is quoted is a field.
LEMMA QuotedField ==
  ASSUME NEW v \in Seq(Tokens \ {"quote"})
  PROVE  IsField(Quoted(v))
<1>1. \A f \in Seq(Seq(Tokens)) : /\ Quoted(v) \in Seq(Tokens)
                                  /\ End(At(f, <<>>, FALSE), Quoted(v)) = At(f, Quoted(v), FALSE)
  BY QuotedRead
<1>2. <<>> \in Seq(Seq(Tokens))
  OBVIOUS
<1> QED  BY <1>1, <1>2 DEF IsField

\* So are tokens without commas and quotes.
LEMMA BareField ==
  ASSUME NEW w \in Seq(Tokens \ {"quote", "comma"})
  PROVE  IsField(w)
<1>1. w \in Seq(Tokens) /\ <<>> \in Seq(Tokens)
  OBVIOUS
<1>2. ASSUME NEW f \in Seq(Seq(Tokens)) PROVE End(At(f, <<>>, FALSE), w) = At(f, w, FALSE)
  <2> DEFINE at == [h \in Seq(Tokens) |-> At(f, h, FALSE)]
  <2>1. at \in [Seq(Tokens) -> Scans(Tokens)]
    BY DEF At, Scans
  <2>2. at[<<>>] = At(f, <<>>, FALSE) /\ at[w] = At(f, w, FALSE)
    BY <1>1
  <2>3. \A h \in Seq(Tokens), i \in 1..Len(w) : ReadToken(at[h], w[i]) = at[Append(h, w[i])]
    <3> SUFFICES ASSUME NEW h \in Seq(Tokens), NEW i \in 1..Len(w)
                 PROVE  ReadToken(at[h], w[i]) = at[Append(h, w[i])]
      OBVIOUS
    <3> DEFINE c == w[i]
    <3>1. c # "quote" /\ c # "comma" /\ c \in Tokens
      OBVIOUS
    <3> HIDE DEF c
    <3>2. ReadToken(At(f, h, FALSE), c) = At(f, Append(h, c), FALSE)
      BY <3>1 DEF ReadToken, Separates, At
    <3>3. at[h] = At(f, h, FALSE) /\ at[Append(h, c)] = At(f, Append(h, c), FALSE)
      BY <3>1
    <3> HIDE DEF at
    <3> QED  BY <3>2, <3>3 DEF c
  <2> HIDE DEF at
  <2>4. OnlyAdds(at, Tokens, w)
    BY <2>3 DEF OnlyAdds
  <2>5. End(at[<<>>], w) = at[<<>> \o w]
    BY <1>1, <2>1, <2>4, WordRead
  <2>6. <<>> \o w = w
    BY <1>1
  <2> QED  BY <2>2, <2>5, <2>6
<1> QED  BY <1>1, <1>2 DEF IsField

\* The next field, and the comma behind it.
LEMMA NextField ==
  ASSUME NEW a \in Seq(Tokens), NEW w, IsField(w), NEW f \in Seq(Seq(Tokens)),
         End(At(<<>>, <<>>, FALSE), a) = At(f, <<>>, FALSE)
  PROVE  /\ a \o w \in Seq(Tokens) /\ a \o w \o <<"comma">> \in Seq(Tokens)
         /\ Append(f, TrimSpace(w)) \in Seq(Seq(Tokens))
         /\ End(At(<<>>, <<>>, FALSE), a \o w) = At(f, w, FALSE)
         /\ End(At(<<>>, <<>>, FALSE), a \o w \o <<"comma">>) = At(Append(f, TrimSpace(w)), <<>>, FALSE)
<1> DEFINE s == At(<<>>, <<>>, FALSE)
           b == a \o w
           q == <<"comma">>
<1>1. "comma" \in Tokens
  BY LimitsAssumption
<1>2. w \in Seq(Tokens) /\ b \in Seq(Tokens) /\ q \in Seq(Tokens) /\ Append(f, TrimSpace(w)) \in Seq(Seq(Tokens))
  <2>1. w \in Seq(Tokens)
    BY DEF IsField
  <2>2. TrimSpace(w) \in Seq(Tokens)
    BY <2>1, TrimType DEF TrimSpace
  <2> QED  BY <1>1, <2>1, <2>2
<1>3. s \in Scans(Tokens)
  BY DEF At, Scans
<1>4. End(At(f, <<>>, FALSE), w) = At(f, w, FALSE)
  BY DEF IsField
<1>5. End(At(f, w, FALSE), q) = At(Append(f, TrimSpace(w)), <<>>, FALSE)
  BY <1>2, CommaRead
<1> HIDE DEF s
<1>6. End(s, b) = At(f, w, FALSE)
  <2>1. End(s, a \o w) = End(End(s, a), w)
    BY <1>2, <1>3, EndOf
  <2> QED  BY <1>4, <2>1 DEF s
<1> HIDE DEF q, b
<1>7. End(s, b \o q) = End(End(s, b), q) /\ b \o q \in Seq(Tokens)
  BY <1>2, <1>3, EndOf
<1> QED  BY <1>2, <1>5, <1>6, <1>7 DEF s, b, q

\* A sequence and one more.
LEMMA OneMore ==
  ASSUME NEW T, NEW f \in Seq(T), NEW w \in T
  PROVE  /\ Len(Append(f, w)) = Len(f) + 1 /\ Append(f, w)[Len(f) + 1] = w
         /\ \A i \in 1..Len(f) : Append(f, w)[i] = f[i]
<1>1. Len(Append(f, w)) = Len(f) + 1
  OBVIOUS
<1>2. Append(f, w)[Len(f) + 1] = w
  OBVIOUS
<1>3. \A i \in 1..Len(f) : Append(f, w)[i] = f[i]
  OBVIOUS
<1> QED  BY <1>1, <1>2, <1>3

\* unquote takes off what Quoted puts on.
LEMMA Unquoted ==
  ASSUME NEW v \in Value
  PROVE  unquote(Quoted(v)) = v /\ TrimSpace(Quoted(v)) = Quoted(v)
<1> DEFINE n == Len(v)
           w == Quoted(v)
<1>1. "quote" \in Tokens /\ n \in Nat /\ v \in Seq(Tokens) /\ \A i \in 1..n : v[i] # "quote"
  <2>1. "quote" \in Tokens
    BY LimitsAssumption
  <2>2. v \in Seq(Tokens \ {"quote"})
    BY DEF Value
  <2>3. n \in Nat /\ \A i \in 1..n : v[i] \in Tokens /\ v[i] # "quote"
    BY <2>2
  <2>4. v \in Seq(Tokens)
    BY <2>2
  <2> QED  BY <2>1, <2>3, <2>4
<1>2. /\ w \in Seq(Tokens) /\ Len(w) = n + 2 /\ w[1] = "quote" /\ w[n + 2] = "quote"
      /\ \A i \in 1..n : w[1 + i] = v[i]
  BY <1>1 DEF Quoted
<1> HIDE DEF w
<1>3. TrimSpace(w) = w
  <2>1. w[1] # "blank" /\ w[Len(w)] # "blank"
    BY <1>2
  <2> QED  BY <1>2, <2>1, TrimNothing DEF TrimSpace
<1>4. Trim(w, "quote") = v
  <2>1. /\ 1 + Len(v) <= Len(w) /\ \A i \in 1..Len(v) : w[1 + i] = v[i]
        /\ Len(v) > 0 => v[1] # "quote" /\ v[Len(v)] # "quote"
    BY <1>1, <1>2
  <2>2. \A i \in 1..Len(w) : i <= 1 \/ 1 + Len(v) < i => w[i] = "quote"
    <3>1. \A i \in 1..Len(w) : i <= 1 \/ 1 + n < i => i = 1 \/ i = n + 2
      BY <1>1, <1>2
    <3> QED  BY <1>2, <3>1
  <2> HIDE DEF n
  <2> QED  BY <1>1, <1>2, <2>1, <2>2, Trimmed
<1> QED  BY <1>3, <1>4 DEF unquote, w

\* splitCSV takes a header apart into its fields.
LEMMA HeaderRead ==
  ASSUME NEW sms \in StoredSms
  PROVE  LET values == splitCSV(Header(sms))
         IN  /\ Len(values) = 5
             /\ values[1] = sms.index /\ values[2] = Quoted(sms.status)
             /\ values[3] = Quoted(sms.from) /\ values[5] = Quoted(sms.at)
<1> DEFINE s == At(<<>>, <<>>, FALSE)
           q == <<"comma">>
           i == <<"blank">> \o sms.index
           st == Quoted(sms.status)
           fr == Quoted(sms.from)
           al == IF sms.alpha = <<>> THEN <<>> ELSE Quoted(sms.alpha)
           at == Quoted(sms.at)
<1>1. IsField(i) /\ IsField(st) /\ IsField(fr) /\ IsField(at)
  <2>1. /\ sms.index \in Seq(Tokens \ {"quote", "comma"}) /\ sms.status \in Seq(Tokens \ {"quote"})
        /\ sms.from \in Seq(Tokens \ {"quote"}) /\ sms.at \in Seq(Tokens \ {"quote"})
    BY DEF StoredSms, Value
  <2>2. "blank" \in Tokens \ {"quote", "comma"}
    BY LimitsAssumption
  <2>3. i \in Seq(Tokens \ {"quote", "comma"})
    BY <2>1, <2>2
  <2> HIDE DEF i
  <2> QED  BY <2>1, <2>3, QuotedField, BareField
<1>2. IsField(al)
  <2>1. sms.alpha \in Seq(Tokens \ {"quote"}) /\ <<>> \in Seq(Tokens \ {"quote", "comma"})
    BY DEF StoredSms, Value
  <2> QED  BY <2>1, QuotedField, BareField
<1>0. TrimSpace(i) = sms.index
  <2> DEFINE x == sms.index
  <2>1. x \in Seq(Tokens \ {"quote", "comma", "blank"}) /\ "blank" \in Tokens
    BY LimitsAssumption DEF StoredSms
  <2>2. /\ x \in Seq(Tokens) /\ Len(x) \in Nat /\ \A k \in 1..Len(x) : x[k] # "blank"
    BY <2>1
  <2> HIDE DEF x
  <2>3. /\ <<"blank">> \o x \in Seq(Tokens) /\ Len(<<"blank">> \o x) = 1 + Len(x)
        /\ (<<"blank">> \o x)[1] = "blank" /\ \A k \in 1..Len(x) : (<<"blank">> \o x)[1 + k] = x[k]
    BY <2>1, <2>2
  <2> DEFINE w == <<"blank">> \o x
  <2> HIDE DEF w
  <2>4. /\ w \in Seq(Tokens) /\ Len(w) = 1 + Len(x)
        /\ w[1] = "blank" /\ \A k \in 1..Len(x) : w[1 + k] = x[k]
    BY <2>3 DEF w
  <2>5. \A k \in 1..Len(w) : k <= 1 \/ 1 + Len(x) < k => k = 1
    BY <2>2, <2>4
  <2>6. Len(x) > 0 => x[1] # "blank" /\ x[Len(x)] # "blank"
    BY <2>2
  <2>7. 1 + Len(x) <= Len(w) /\ 1 \in Nat
    BY <2>2, <2>4
  <2>8. \A k \in 1..Len(w) : k <= 1 \/ 1 + Len(x) < k => w[k] = "blank"
    BY <2>4, <2>5
  <2>9. Trim(w, "blank") = x
    BY <2>2, <2>4, <2>6, <2>7, <2>8, Trimmed
  <2> QED  BY <2>9 DEF TrimSpace, w, x
<1>30. TrimSpace(st) = st /\ TrimSpace(fr) = fr /\ TrimSpace(at) = at
  BY Unquoted DEF StoredSms
<1>3. Header(sms) = i \o q \o st \o q \o fr \o q \o al \o q \o at
  BY DEF Header
<1>4. splitCSV(Header(sms))
        = Append(End(s, Header(sms)).fields, TrimSpace(End(s, Header(sms)).field))
  BY DEF splitCSV, End, At
<1>5. <<>> \in Seq(Tokens) /\ <<>> \in Seq(Seq(Tokens)) /\ <<>> \o i = i
  BY <1>1 DEF IsField
<1>6. End(s, <<>>) = s
  <2>1. s \in Scans(Tokens)
    BY <1>5 DEF Scans, At
  <2> HIDE DEF s
  <2>2. \A t \in Seq(Tokens) : Scan(s, t)[0] = s
    BY <2>1, ScanIs
  <2>3. Scan(s, <<>>)[0] = s /\ Len(<<>>) = 0
    BY <1>5, <2>2
  <2> QED  BY <2>3 DEF End
<1> HIDE DEF i, st, fr, al, at
<1> DEFINE a1 == i \o q
           ti == sms.index
           tal == TrimSpace(al)
           f1 == Append(<<>>, ti)
           a2 == a1 \o st \o q
           f2 == Append(f1, st)
           a3 == a2 \o fr \o q
           f3 == Append(f2, fr)
           a4 == a3 \o al \o q
           f4 == Append(f3, tal)
<1>7. a1 \in Seq(Tokens) /\ f1 \in Seq(Seq(Tokens)) /\ End(s, a1) = At(f1, <<>>, FALSE)
  <2> DEFINE e == <<>>
  <2>1. e \in Seq(Tokens) /\ e \in Seq(Seq(Tokens)) /\ End(s, e) = At(e, <<>>, FALSE)
    BY <1>5, <1>6
  <2>2. e \o i \o <<"comma">> = a1 /\ Append(e, TrimSpace(i)) = f1
    BY <1>0, <1>5
  <2> HIDE DEF e
  <2>3. /\ e \o i \o <<"comma">> \in Seq(Tokens) /\ Append(e, TrimSpace(i)) \in Seq(Seq(Tokens))
        /\ End(s, e \o i \o <<"comma">>) = At(Append(e, TrimSpace(i)), <<>>, FALSE)
    BY <1>1, <2>1, NextField
  <2> HIDE DEF a1, f1
  <2> QED  BY <2>2, <2>3
<1> HIDE DEF a1, f1
<1>8. a2 \in Seq(Tokens) /\ f2 \in Seq(Seq(Tokens)) /\ End(s, a2) = At(f2, <<>>, FALSE)
  <2>1. /\ a1 \o st \o <<"comma">> \in Seq(Tokens) /\ Append(f1, TrimSpace(st)) \in Seq(Seq(Tokens))
        /\ End(s, a1 \o st \o <<"comma">>) = At(Append(f1, TrimSpace(st)), <<>>, FALSE)
    BY <1>1, <1>7, NextField
  <2> QED  BY <1>30, <2>1
<1> HIDE DEF a2, f2
<1>9. a3 \in Seq(Tokens) /\ f3 \in Seq(Seq(Tokens)) /\ End(s, a3) = At(f3, <<>>, FALSE)
  <2>1. /\ a2 \o fr \o <<"comma">> \in Seq(Tokens) /\ Append(f2, TrimSpace(fr)) \in Seq(Seq(Tokens))
        /\ End(s, a2 \o fr \o <<"comma">>) = At(Append(f2, TrimSpace(fr)), <<>>, FALSE)
    BY <1>1, <1>8, NextField
  <2> QED  BY <1>30, <2>1
<1> HIDE DEF a3, f3
<1>10. a4 \in Seq(Tokens) /\ f4 \in Seq(Seq(Tokens)) /\ End(s, a4) = At(f4, <<>>, FALSE)
  BY <1>2, <1>9, NextField
<1> HIDE DEF a4, f4
<1>11. End(s, a4 \o at) = At(f4, at, FALSE)
  BY <1>1, <1>10, NextField
<1>12. a4 \o at = Header(sms)
  BY <1>3 DEF a1, a2, a3, a4
<1>13. splitCSV(Header(sms)) = Append(f4, at)
  BY <1>4, <1>11, <1>12, <1>30 DEF At
<1>14. Len(Append(f4, at)) = 5 /\ Append(f4, at)[1] = ti /\ Append(f4, at)[2] = st
       /\ Append(f4, at)[3] = fr /\ Append(f4, at)[5] = at
  <2>1. ti \in Seq(Tokens) /\ st \in Seq(Tokens) /\ fr \in Seq(Tokens) /\ tal \in Seq(Tokens)
        /\ at \in Seq(Tokens)
    <3>1. i \in Seq(Tokens) /\ st \in Seq(Tokens) /\ fr \in Seq(Tokens) /\ al \in Seq(Tokens)
          /\ at \in Seq(Tokens)
      BY <1>1, <1>2 DEF IsField
    <3>2. TrimSpace(i) \in Seq(Tokens) /\ tal \in Seq(Tokens)
      BY <3>1, TrimType DEF TrimSpace
    <3> QED  BY <1>0, <3>1, <3>2
  <2> HIDE DEF ti, tal
  <2>2. /\ ti \in Seq(Tokens) /\ f1 \in Seq(Seq(Tokens)) /\ f2 \in Seq(Seq(Tokens))
        /\ f3 \in Seq(Seq(Tokens)) /\ f4 \in Seq(Seq(Tokens))
    BY <1>7, <1>8, <1>9, <1>10, <2>1
  <2>3. \A f \in Seq(Seq(Tokens)), w \in Seq(Tokens) :
          /\ Len(Append(f, w)) = Len(f) + 1 /\ Append(f, w)[Len(f) + 1] = w
          /\ \A k \in 1..Len(f) : Append(f, w)[k] = f[k]
    BY OneMore
  <2>4. Len(f1) = 1 /\ f1[1] = ti
    BY <1>5, <2>1 DEF f1
  <2>5. Len(f2) = 2 /\ f2[2] = st /\ f2[1] = ti
    <3>1. f2 = Append(f1, st) /\ Len(f1) + 1 = 2 /\ 1..Len(f1) = 1..1
      BY <2>4 DEF f2
    <3> HIDE DEF f2, f1
    <3>2. Len(f2) = Len(f1) + 1 /\ f2[Len(f1) + 1] = st /\ \A k \in 1..Len(f1) : f2[k] = f1[k]
      BY <2>1, <2>2, <2>3, <3>1
    <3> QED  BY <2>4, <3>1, <3>2
  <2>6. Len(f3) = 3 /\ f3[3] = fr /\ f3[1] = ti /\ f3[2] = st
    <3>1. f3 = Append(f2, fr) /\ Len(f2) + 1 = 3 /\ 1..Len(f2) = 1..2
      BY <2>5 DEF f3
    <3> HIDE DEF f3, f2
    <3>2. Len(f3) = Len(f2) + 1 /\ f3[Len(f2) + 1] = fr /\ \A k \in 1..Len(f2) : f3[k] = f2[k]
      BY <2>1, <2>2, <2>3, <3>1
    <3> QED  BY <2>5, <3>1, <3>2
  <2>7. Len(f4) = 4 /\ f4[4] = tal /\ f4[1] = ti /\ f4[2] = st /\ f4[3] = fr
    <3>1. f4 = Append(f3, tal) /\ Len(f3) + 1 = 4 /\ 1..Len(f3) = 1..3
      BY <2>6 DEF f4
    <3> HIDE DEF f4, f3
    <3>2. Len(f4) = Len(f3) + 1 /\ f4[Len(f3) + 1] = tal /\ \A k \in 1..Len(f3) : f4[k] = f3[k]
      BY <2>1, <2>2, <2>3, <3>1
    <3> QED  BY <2>6, <3>1, <3>2
  <2> DEFINE f5 == Append(f4, at)
  <2>8. Len(f5) = Len(f4) + 1 /\ f5[Len(f4) + 1] = at /\ \A k \in 1..Len(f4) : f5[k] = f4[k]
    BY <2>1, <2>2, <2>3
  <2> HIDE DEF f5
  <2>9. Len(f4) + 1 = 5 /\ 1..Len(f4) = 1..4
    BY <2>7
  <2>10. Len(f5) = 5 /\ f5[5] = at /\ f5[1] = f4[1] /\ f5[2] = f4[2] /\ f5[3] = f4[3]
    BY <2>8, <2>9
  <2> QED  BY <2>7, <2>10 DEF f5
<1> QED  BY <1>13, <1>14 DEF ti, st, fr, at

-----------------------------------------------------------------------------
(* The lines of a listing.                                                 *)

AnswerLines == {HeaderLine(sms) : sms \in StoredSms} \cup BodyLines

\* The lines of an SMS follow those of the SMS before it.
LEMMA AnswersAre ==
  ASSUME NEW listing \in Seq(StoredSms)
  PROVE  /\ Answers(listing) \in [0..Len(listing) -> Seq(AnswerLines)]
         /\ Answers(listing)[0] = <<>>
         /\ \A k \in 1..Len(listing) :
              Answers(listing)[k]
                = Append(Answers(listing)[k - 1], HeaderLine(listing[k])) \o listing[k].body
<1> DEFINE n == Len(listing)
           S == Seq(AnswerLines)
           Put(s, k) == Append(s, HeaderLine(listing[k])) \o listing[k].body
           do == [p \in S \X (1..n) |-> Put(p[1], p[2])]
           u == Answers(listing)
<1>1. n \in Nat /\ \A k \in 1..n : listing[k] \in StoredSms
  OBVIOUS
<1>2. \A s \in S, k \in 1..n : Put(s, k) \in S
  <2> SUFFICES ASSUME NEW s \in S, NEW k \in 1..n PROVE Put(s, k) \in S
    OBVIOUS
  <2>1. HeaderLine(listing[k]) \in AnswerLines
    BY <1>1 DEF AnswerLines
  <2>2. listing[k].body \in Seq(BodyLines)
    BY <1>1 DEF StoredSms
  <2>3. listing[k].body \in S
    BY <2>2 DEF AnswerLines
  <2> QED  BY <2>1, <2>3
<1> HIDE DEF S
<1>3. do \in [S \X (1..n) -> S] /\ <<>> \in S
  BY <1>2 DEF S
<1>4. PICK f \in [0..n -> S] : Run(f, do, <<>>, n)
  <2> HIDE DEF n, do
  <2> QED  BY <1>1, <1>3, RunExists
<1>5. f = [k \in 0..n |-> IF k = 0 THEN <<>> ELSE Put(f[k - 1], k)]
  <2>1. f[0] = <<>> /\ \A k \in 1..n : f[k] = do[<<f[k - 1], k>>]
    BY <1>4 DEF Run
  <2>2. ASSUME NEW k \in 1..n PROVE f[k] = Put(f[k - 1], k)
    <3>1. k - 1 \in 0..n /\ f[k - 1] \in S
      BY <1>1
    <3>2. do[<<f[k - 1], k>>] = Put(f[k - 1], k)
      BY <3>1
    <3> QED  BY <2>1, <3>2
  <2> HIDE DEF do, Put
  <2> QED  BY <1>1, <2>1, <2>2
<1>6. u = [k \in 0..n |-> IF k = 0 THEN <<>> ELSE Put(u[k - 1], k)]
  BY <1>5 DEF Answers, Rounds
<1> HIDE DEF u, Put
<1>7. u[0] = <<>> /\ \A k \in 1..n : u[k] = Put(u[k - 1], k)
  <2> DEFINE v == [k \in 0..n |-> IF k = 0 THEN <<>> ELSE Put(u[k - 1], k)]
  <2>1. v[0] = <<>> /\ \A k \in 1..n : v[k] = Put(u[k - 1], k)
    BY <1>1
  <2> HIDE DEF v
  <2> QED  BY <1>6, <2>1 DEF v
<1>8. \A k \in 0..n : u[k] \in S
  <2> DEFINE P == {k \in 0..n : u[k] \in S}
  <2>1. 0 \in P
    BY <1>1, <1>3, <1>7
  <2>2. ASSUME NEW k \in 1..n, k - 1 \in P PROVE k \in P
    BY <1>2, <1>7, <2>2
  <2>3. \A k \in 0..n : k \in P
    <3> HIDE DEF n, P
    <3> QED  BY <1>1, <2>1, <2>2, UpTo
  <2> QED  BY <2>3
<1> QED  BY <1>6, <1>7, <1>8 DEF u, S, Put

\* What parseCMGL may make of these lines.
Headers(lines) == {ParseHeader(lines, i) : i \in 1..Len(lines)}

\* parseCMGL takes a line at a time, and makes an SMS of a header.
LEMMA ParsedIs ==
  ASSUME NEW T, NEW lines \in Seq(T)
  PROVE  /\ Parsed(lines) \in [0..Len(lines) -> Seq(Headers(lines))]
         /\ Parsed(lines)[0] = <<>>
         /\ \A i \in 1..Len(lines) :
              /\ lines[i].lead = "+CMGL:" =>
                   Parsed(lines)[i] = Append(Parsed(lines)[i - 1], ParseHeader(lines, i))
              /\ lines[i].lead # "+CMGL:" => Parsed(lines)[i] = Parsed(lines)[i - 1]
<1> DEFINE n == Len(lines)
           S == Seq(Headers(lines))
           Found(s, i) == IF lines[i].lead = "+CMGL:" THEN Append(s, ParseHeader(lines, i)) ELSE s
           do == [p \in S \X (1..n) |-> Found(p[1], p[2])]
           u == Parsed(lines)
<1>1. n \in Nat
  OBVIOUS
<1>2. \A s \in S, i \in 1..n : Found(s, i) \in S
  <2> SUFFICES ASSUME NEW s \in S, NEW i \in 1..n PROVE Found(s, i) \in S
    OBVIOUS
  <2>1. ParseHeader(lines, i) \in Headers(lines)
    BY DEF Headers
  <2> QED  BY <2>1
<1> HIDE DEF S
<1>3. do \in [S \X (1..n) -> S] /\ <<>> \in S
  BY <1>2 DEF S
<1>4. PICK f \in [0..n -> S] : Run(f, do, <<>>, n)
  <2> HIDE DEF n, do
  <2> QED  BY <1>1, <1>3, RunExists
<1>5. f = [i \in 0..n |-> IF i = 0 THEN <<>> ELSE Found(f[i - 1], i)]
  <2>1. f[0] = <<>> /\ \A i \in 1..n : f[i] = do[<<f[i - 1], i>>]
    BY <1>4 DEF Run
  <2>2. ASSUME NEW i \in 1..n PROVE f[i] = Found(f[i - 1], i)
    <3>1. i - 1 \in 0..n /\ f[i - 1] \in S
      BY <1>1
    <3>2. do[<<f[i - 1], i>>] = Found(f[i - 1], i)
      BY <3>1
    <3> QED  BY <2>1, <3>2
  <2> HIDE DEF do, Found
  <2> QED  BY <1>1, <2>1, <2>2
<1>6. u = [i \in 0..n |-> IF i = 0 THEN <<>> ELSE Found(u[i - 1], i)]
  BY <1>5 DEF Parsed, Rounds
<1> HIDE DEF u, Found
<1>7. u[0] = <<>> /\ \A i \in 1..n : u[i] = Found(u[i - 1], i)
  <2> DEFINE v == [i \in 0..n |-> IF i = 0 THEN <<>> ELSE Found(u[i - 1], i)]
  <2>1. v[0] = <<>> /\ \A i \in 1..n : v[i] = Found(u[i - 1], i)
    BY <1>1
  <2> HIDE DEF v
  <2> QED  BY <1>6, <2>1 DEF v
<1>8. \A i \in 0..n : u[i] \in S
  <2> DEFINE P == {i \in 0..n : u[i] \in S}
  <2>1. 0 \in P
    BY <1>1, <1>3, <1>7
  <2>2. ASSUME NEW i \in 1..n, i - 1 \in P PROVE i \in P
    BY <1>2, <1>7, <2>2
  <2>3. \A i \in 0..n : i \in P
    <3> HIDE DEF n, P
    <3> QED  BY <1>1, <2>1, <2>2, UpTo
  <2> QED  BY <2>3
<1>9. \A i \in 1..n : /\ lines[i].lead = "+CMGL:" => u[i] = Append(u[i - 1], ParseHeader(lines, i))
                      /\ lines[i].lead # "+CMGL:" => u[i] = u[i - 1]
  BY <1>7 DEF Found
<1> QED  BY <1>6, <1>7, <1>8, <1>9 DEF u, S

\* One sequence behind another.
LEMMA Behind ==
  ASSUME NEW T, NEW a \in Seq(T), NEW b \in Seq(T)
  PROVE  /\ Len(a \o b) = Len(a) + Len(b)
         /\ \A i \in 1..Len(a) : (a \o b)[i] = a[i]
         /\ \A i \in 1..Len(b) : (a \o b)[Len(a) + i] = b[i]
OBVIOUS

\* An answer holds the lines of every SMS, one behind the other.
LEMMA LinesOf ==
  ASSUME NEW listing \in Seq(StoredSms)
  PROVE  LET A == Answers(listing)
             lines == Answer(listing)
         IN  /\ lines \in Seq(AnswerLines) /\ A[0] = <<>> /\ A[Len(listing)] = lines
             /\ \A k \in 0..Len(listing) : Len(A[k]) \in Nat
             /\ \A k \in 1..Len(listing) :
                  /\ Len(A[k]) = Len(A[k - 1]) + 1 + Len(listing[k].body)
                  /\ Len(A[k]) <= Len(lines)
                  /\ lines[Len(A[k - 1]) + 1] = HeaderLine(listing[k])
                  /\ \A i \in 1..Len(listing[k].body) :
                       lines[Len(A[k - 1]) + 1 + i] = listing[k].body[i]
<1> DEFINE n == Len(listing)
           A == Answers(listing)
           lines == Answer(listing)
           T == AnswerLines
           h(k) == HeaderLine(listing[k])
           b(k) == listing[k].body
<1>1. n \in Nat /\ lines = A[n] /\ \A k \in 1..n : listing[k] \in StoredSms
  BY DEF Answer
<1>2. /\ A \in [0..n -> Seq(T)] /\ A[0] = <<>>
      /\ \A k \in 1..n : A[k] = Append(A[k - 1], h(k)) \o b(k)
  BY AnswersAre
<1>3. \A k \in 1..n : h(k) \in T /\ b(k) \in Seq(T)
  <2> SUFFICES ASSUME NEW k \in 1..n PROVE h(k) \in T /\ b(k) \in Seq(T)
    OBVIOUS
  <2>1. b(k) \in Seq(BodyLines)
    BY <1>1 DEF StoredSms
  <2> QED  BY <1>1, <2>1 DEF AnswerLines
<1> HIDE DEF n, A, lines, T, h, b
<1>4. ASSUME NEW k \in 1..n
      PROVE  /\ A[k] \in Seq(T) /\ A[k - 1] \in Seq(T)
             /\ Len(A[k]) = Len(A[k - 1]) + 1 + Len(b(k))
             /\ \A i \in 1..Len(A[k - 1]) : A[k][i] = A[k - 1][i]
             /\ A[k][Len(A[k - 1]) + 1] = h(k)
             /\ \A i \in 1..Len(b(k)) : A[k][Len(A[k - 1]) + 1 + i] = b(k)[i]
  <2> DEFINE a == A[k - 1]
             c == A[k]
             x == h(k)
             y == b(k)
  <2>1. a \in Seq(T) /\ c \in Seq(T) /\ x \in T /\ y \in Seq(T) /\ c = Append(a, x) \o y
    <3>1. k - 1 \in 0..n /\ k \in 0..n
      BY <1>1
    <3> QED  BY <1>2, <1>3, <3>1
  <2> HIDE DEF a, c, x, y
  <2>2. /\ Append(a, x) \in Seq(T) /\ Len(Append(a, x)) = Len(a) + 1
        /\ Append(a, x)[Len(a) + 1] = x /\ \A i \in 1..Len(a) : Append(a, x)[i] = a[i]
    BY <2>1
  <2> DEFINE d == Append(a, x)
  <2> HIDE DEF d
  <2>3. /\ d \in Seq(T) /\ Len(d) = Len(a) + 1
        /\ d[Len(a) + 1] = x /\ \A i \in 1..Len(a) : d[i] = a[i]
    BY <2>2 DEF d
  <2>4. /\ Len(d \o y) = Len(d) + Len(y) /\ \A i \in 1..Len(d) : (d \o y)[i] = d[i]
        /\ \A i \in 1..Len(y) : (d \o y)[Len(d) + i] = y[i]
    <3>1. d \in Seq(T) /\ y \in Seq(T)
      BY <2>1, <2>3
    <3> QED  BY ONLY <3>1, Behind
  <2>5. c = d \o y
    BY <2>1 DEF d
  <2>6. Len(a) \in Nat /\ Len(a) + 1 \in 1..Len(d) /\ \A i \in 1..Len(a) : i \in 1..Len(d)
    BY <2>1, <2>3
  <2>7. /\ Len(c) = Len(a) + 1 + Len(y) /\ \A i \in 1..Len(a) : c[i] = a[i]
        /\ c[Len(a) + 1] = x /\ \A i \in 1..Len(y) : c[Len(a) + 1 + i] = y[i]
    BY <2>3, <2>4, <2>5, <2>6
  <2> QED  BY <2>1, <2>7 DEF a, c, x, y
<1>5. \A k \in 0..n : A[k] \in Seq(T) /\ Len(A[k]) \in Nat
  BY <1>2
<1>6. ASSUME NEW k \in 0..n
      PROVE  Len(A[k]) <= Len(lines) /\ \A i \in 1..Len(A[k]) : lines[i] = A[k][i]
  <2> DEFINE m == n - k
             P == {j \in 0..m : /\ Len(A[k]) <= Len(A[k + j])
                               /\ \A i \in 1..Len(A[k]) : A[k + j][i] = A[k][i]}
  <2>1. m \in Nat /\ k + m = n /\ k + 0 = k
    BY <1>1
  <2>2. 0 \in P
    BY <1>5, <2>1
  <2>3. ASSUME NEW j \in 1..m, j - 1 \in P PROVE j \in P
    <3>1. k + j \in 1..n /\ (k + j) - 1 = k + (j - 1) /\ j \in 0..m
      BY <1>1
    <3> DEFINE t == k + j
               a == A[k]
               c == A[t]
               d == A[t - 1]
    <3>2. t \in 1..n /\ t - 1 = k + (j - 1)
      BY <3>1
    <3>3. Len(a) <= Len(d) /\ \A i \in 1..Len(a) : d[i] = a[i]
      BY <2>3, <3>2
    <3> HIDE DEF t
    <3>4. /\ Len(c) = Len(d) + 1 + Len(b(t)) /\ \A i \in 1..Len(d) : c[i] = d[i]
          /\ Len(d) \in Nat /\ Len(b(t)) \in Nat /\ Len(a) \in Nat
      BY <1>3, <1>4, <1>5, <3>2
    <3> HIDE DEF a, c, d
    <3>5. Len(a) <= Len(c) /\ \A i \in 1..Len(a) : c[i] = a[i]
      BY <3>3, <3>4
    <3> QED  BY <3>1, <3>5 DEF a, c, t
  <2>4. m \in P
    <3>1. m \in 0..m
      BY <2>1
    <3> HIDE DEF m, P
    <3> QED  BY <2>1, <2>2, <2>3, <3>1, UpTo
  <2> QED  BY <1>1, <2>1, <2>4
<1>7. ASSUME NEW k \in 1..n
      PROVE  /\ Len(A[k]) = Len(A[k - 1]) + 1 + Len(b(k)) /\ Len(A[k]) <= Len(lines)
             /\ lines[Len(A[k - 1]) + 1] = h(k)
             /\ \A i \in 1..Len(b(k)) : lines[Len(A[k - 1]) + 1 + i] = b(k)[i]
  <2> DEFINE a == Len(A[k - 1])
             c == A[k]
             y == b(k)
  <2>1. k \in 0..n /\ k - 1 \in 0..n /\ a \in Nat /\ Len(y) \in Nat
    BY <1>1, <1>3, <1>5
  <2>2. /\ Len(c) = a + 1 + Len(y) /\ c[a + 1] = h(k)
        /\ \A i \in 1..Len(y) : c[a + 1 + i] = y[i]
    BY <1>4
  <2>3. Len(c) <= Len(lines) /\ \A i \in 1..Len(c) : lines[i] = c[i]
    BY <1>6, <2>1
  <2> HIDE DEF a, c, y
  <2>4. a + 1 \in 1..Len(c) /\ \A i \in 1..Len(y) : a + 1 + i \in 1..Len(c)
    BY <2>1, <2>2
  <2>5. lines[a + 1] = h(k) /\ \A i \in 1..Len(y) : lines[a + 1 + i] = y[i]
    BY <2>2, <2>3, <2>4
  <2> QED  BY <2>2, <2>3, <2>5 DEF a, c, y
<1>8. n \in 0..n /\ lines \in Seq(T)
  BY <1>1, <1>5
<1> QED  BY <1>1, <1>2, <1>5, <1>7, <1>8 DEF n, A, lines, T, h, b

\* The fields of a header are those of its SMS.
LEMMA FieldsParsed ==
  ASSUME NEW sms \in StoredSms, NEW lines, NEW i, lines[i] = HeaderLine(sms)
  PROVE  ParseHeader(lines, i) =
           [index |-> sms.index, status |-> sms.status, from |-> sms.from, at |-> sms.at,
            text |-> IF i < Len(lines) /\ IsText(lines[i + 1]) THEN TrimSpace(lines[i + 1].text)
                     ELSE <<>>]
<1> DEFINE values == splitCSV(Header(sms))
<1>1. lines[i].tokens = Header(sms)
  BY DEF HeaderLine
<1>2. /\ Len(values) = 5 /\ values[1] = sms.index /\ values[2] = Quoted(sms.status)
      /\ values[3] = Quoted(sms.from) /\ values[5] = Quoted(sms.at)
  BY HeaderRead
<1>3. /\ unquote(Quoted(sms.status)) = sms.status /\ unquote(Quoted(sms.from)) = sms.from
      /\ unquote(Quoted(sms.at)) = sms.at
  BY Unquoted DEF StoredSms
<1> HIDE DEF values
<1>4. /\ Len(values) >= 2 /\ Len(values) >= 3 /\ Len(values) >= 5
  BY <1>2
<1>5. splitCSV(lines[i].tokens) = values
  BY <1>1 DEF values
<1> DEFINE text == IF i < Len(lines) /\ IsText(lines[i + 1]) THEN TrimSpace(lines[i + 1].text)
                   ELSE <<>>
<1>6. ParseHeader(lines, i) =
        [index |-> values[1],
         status |-> IF Len(values) >= 2 THEN unquote(values[2]) ELSE <<"unknown">>,
         from |-> IF Len(values) >= 3 THEN unquote(values[3]) ELSE <<"unknown">>,
         at |-> IF Len(values) >= 5 THEN unquote(values[5]) ELSE <<>>,
         text |-> text]
  BY <1>5 DEF ParseHeader
<1> HIDE DEF text
<1>7. ParseHeader(lines, i) =
        [index |-> sms.index, status |-> sms.status, from |-> sms.from, at |-> sms.at,
         text |-> text]
  BY <1>2, <1>3, <1>4, <1>6
<1> QED  BY <1>7 DEF text

\* The lines of a body add no SMS to what parseCMGL found.
LEMMA BodyParsed ==
  ASSUME NEW T, NEW lines \in Seq(T), NEW p \in Nat, NEW m \in Nat, p + m <= Len(lines),
         \A i \in 1..m : lines[p + i].lead # "+CMGL:"
  PROVE  Parsed(lines)[p + m] = Parsed(lines)[p]
<1> DEFINE u == Parsed(lines)
           P == {i \in 0..m : u[p + i] = u[p]}
<1>1. Len(lines) \in Nat
  OBVIOUS
<1>2. \A i \in 1..Len(lines) : lines[i].lead # "+CMGL:" => u[i] = u[i - 1]
  BY ParsedIs
<1> HIDE DEF u
<1>3. 0 \in P
  BY <1>1
<1>4. ASSUME NEW i \in 1..m, i - 1 \in P PROVE i \in P
  <2>1. p + i \in 1..Len(lines) /\ (p + i) - 1 = p + (i - 1) /\ i \in 0..m
    BY <1>1
  <2> DEFINE j == p + i
  <2>2. j \in 1..Len(lines) /\ j - 1 = p + (i - 1) /\ lines[j].lead # "+CMGL:"
    BY <2>1
  <2>3. u[j] = u[j - 1] /\ u[p + (i - 1)] = u[p]
    <3> HIDE DEF j
    <3> QED  BY <1>2, <1>4, <2>2
  <2> QED  BY <2>1, <2>2, <2>3
<1>5. m \in P
  <2>1. m \in 0..m
    OBVIOUS
  <2> HIDE DEF P
  <2> QED  BY <1>3, <1>4, <2>1, UpTo
<1> QED  BY <1>5 DEF u

\* What parseCMGL has found stays.
LEMMA ParsedGrows ==
  ASSUME NEW T, NEW lines \in Seq(T), NEW p \in Nat, NEW q \in Nat, p <= q, q <= Len(lines)
  PROVE  /\ Len(Parsed(lines)[p]) <= Len(Parsed(lines)[q])
         /\ \A k \in 1..Len(Parsed(lines)[p]) : Parsed(lines)[q][k] = Parsed(lines)[p][k]
<1> DEFINE u == Parsed(lines)
           S == Headers(lines)
           x == u[p]
           m == q - p
           P == {i \in 0..m : Len(x) <= Len(u[p + i]) /\ \A k \in 1..Len(x) : u[p + i][k] = x[k]}
<1>1. Len(lines) \in Nat /\ m \in Nat /\ p + m = q /\ p + 0 = p
  OBVIOUS
<1>2. /\ u \in [0..Len(lines) -> Seq(S)]
      /\ \A i \in 1..Len(lines) :
           /\ lines[i].lead = "+CMGL:" => u[i] = Append(u[i - 1], ParseHeader(lines, i))
           /\ lines[i].lead # "+CMGL:" => u[i] = u[i - 1]
  BY ParsedIs
<1>3. \A i \in 1..Len(lines) : ParseHeader(lines, i) \in S
  BY DEF Headers
<1> HIDE DEF u, S
<1>4. x \in Seq(S) /\ Len(x) \in Nat
  BY <1>1, <1>2
<1> HIDE DEF x
<1>5. 0 \in P
  BY <1>1, <1>4 DEF x
<1>6. ASSUME NEW i \in 1..m, i - 1 \in P PROVE i \in P
  <2> DEFINE j == p + i
             y == u[j - 1]
  <2>1. j \in 1..Len(lines) /\ j - 1 = p + (i - 1) /\ i \in 0..m /\ j - 1 \in 0..Len(lines)
    BY <1>1
  <2>2. Len(x) <= Len(y) /\ \A k \in 1..Len(x) : y[k] = x[k]
    BY <1>6, <2>1
  <2>3. y \in Seq(S)
    BY <1>2, <2>1
  <2>4. u[j] = y \/ u[j] = Append(y, ParseHeader(lines, j))
    <3> HIDE DEF j
    <3> QED  BY <1>2, <2>1
  <2>5. ParseHeader(lines, j) \in S
    BY <1>3, <2>1
  <2>6. Len(x) <= Len(u[j]) /\ \A k \in 1..Len(x) : u[j][k] = x[k]
    <3> DEFINE h == ParseHeader(lines, j)
    <3>1. u[j] = y \/ u[j] = Append(y, h)
      BY <2>4
    <3>2. h \in S
      BY <2>5
    <3> HIDE DEF y, j, h
    <3>3. /\ Len(Append(y, h)) = Len(y) + 1 /\ Len(y) \in Nat
          /\ \A k \in 1..Len(y) : Append(y, h)[k] = y[k]
      BY <2>3, <3>2
    <3>4. \A k \in 1..Len(x) : k \in 1..Len(y)
      BY <1>4, <2>2, <3>3
    <3>5. CASE u[j] = y
      BY <2>2, <3>5
    <3>6. CASE u[j] = Append(y, h)
      BY <1>4, <2>2, <3>3, <3>4, <3>6
    <3> QED  BY <3>1, <3>5, <3>6
  <2> QED  BY <2>1, <2>6
<1>7. m \in P
  <2>1. m \in 0..m
    BY <1>1
  <2> HIDE DEF P, m
  <2> QED  BY <1>1, <1>5, <1>6, <2>1, UpTo
<1> QED  BY <1>1, <1>7 DEF u, x

-----------------------------------------------------------------------------
(* The end of an answer.                                                   *)

\* The lines of the first k SMS.
Place(listing, k) == Len(Answers(listing)[k])

\* all is the modem's whole answer, lines what the AT library hands on of it, and e
\* the line that it takes for the end.
Handed(listing, all, e, lines) ==
  /\ listing \in Seq(StoredSms)
  /\ all = Append(Answer(listing), Final) /\ all \in Seq(AnswerLines)
  /\ e \in 1..Len(all) /\ EndsAnswer(all[e])
  /\ lines \in Seq(AnswerLines) /\ Len(lines) \in {e - 1, e}
  /\ \A i \in 1..Len(lines) : lines[i] = all[i]

\* The library hands on the lines before the end.
LEMMA HandedIs ==
  ASSUME NEW listing \in Seq(StoredSms), NEW lines \in HandedOn(listing)
  PROVE  \E e \in Nat : Handed(listing, Append(Answer(listing), Final), e, lines)
<1> DEFINE b == Answer(listing)
           all == Append(b, Final)
           ends == {i \in 1..Len(all) : EndsAnswer(all[i])}
           e == Min(ends)
<1>1. b \in Seq(AnswerLines)
  BY LinesOf
<1>2. Final \in AnswerLines /\ EndsAnswer(Final)
  BY DEF Final, AnswerLines, BodyLines, EndsAnswer
<1> HIDE DEF b
<1>3. all \in Seq(AnswerLines) /\ Len(all) \in Nat /\ Len(all) \in 1..Len(all) /\ all[Len(all)] = Final
  BY <1>1, <1>2
<1>4. HandedOn(listing) =
        IF all[e].lead = "OK" THEN {SubSeq(all, 1, n) : n \in {e - 1, e}} ELSE {}
  BY DEF HandedOn, b
<1> HIDE DEF all
<1>5. Len(all) \in ends /\ ends \subseteq Nat
  BY <1>2, <1>3
<1>6. e \in ends
  <2> HIDE DEF ends
  <2> QED  BY <1>5, MinIs
<1>7. e \in 1..Len(all) /\ EndsAnswer(all[e])
  BY <1>6
<1> HIDE DEF e
<1>8. PICK n \in {e - 1, e} : lines = SubSeq(all, 1, n)
  BY <1>4
<1>9. n \in 0..Len(all)
  BY <1>3, <1>7
<1>10. lines \in Seq(AnswerLines) /\ Len(lines) = n /\ \A i \in 1..n : lines[i] = all[i]
  <2>1. \A i \in 1..n : all[i] \in AnswerLines
    BY <1>3, <1>9
  <2> QED  BY <1>3, <1>8, <1>9, <2>1
<1> QED  BY <1>3, <1>7, <1>8, <1>10 DEF Handed, all, b

\* Where the lines of each SMS are.
LEMMA Places ==
  ASSUME NEW listing, NEW all, NEW e, NEW lines, Handed(listing, all, e, lines)
  PROVE  /\ Len(all) \in Nat /\ Len(listing) \in Nat
         /\ Place(listing, 0) = 0 /\ Len(all) = Place(listing, Len(listing)) + 1
         /\ all[Len(all)] = Final
         /\ \A k \in 0..Len(listing) : Place(listing, k) \in Nat
         /\ \A k \in 1..Len(listing) :
              /\ listing[k] \in StoredSms /\ listing[k].body \in Seq(BodyLines)
              /\ Place(listing, k) = Place(listing, k - 1) + 1 + Len(listing[k].body)
              /\ Place(listing, k) < Len(all)
              /\ all[Place(listing, k - 1) + 1] = HeaderLine(listing[k])
              /\ \A i \in 1..Len(listing[k].body) :
                   all[Place(listing, k - 1) + 1 + i] = listing[k].body[i]
<1> DEFINE b == Answer(listing)
           n == Len(listing)
           a(k) == Place(listing, k)
<1>1. listing \in Seq(StoredSms) /\ all = Append(b, Final)
  BY DEF Handed
<1>2. /\ n \in Nat
      /\ b \in Seq(AnswerLines) /\ a(0) = 0 /\ a(n) = Len(b)
      /\ \A k \in 0..n : a(k) \in Nat
      /\ \A k \in 1..n : /\ a(k) = a(k - 1) + 1 + Len(listing[k].body)
                         /\ a(k) <= Len(b)
                         /\ b[a(k - 1) + 1] = HeaderLine(listing[k])
                         /\ \A i \in 1..Len(listing[k].body) :
                              b[a(k - 1) + 1 + i] = listing[k].body[i]
  <2>1. Answers(listing)[0] = <<>> /\ Answers(listing)[n] = b /\ b \in Seq(AnswerLines) /\ n \in Nat
    <3>1. n \in Nat
      BY <1>1
    <3>2. Answers(listing)[0] = <<>> /\ b \in Seq(AnswerLines)
      BY <1>1, LinesOf
    <3>3. Answers(listing)[n] = b
      BY DEF Answer
    <3> QED  BY <3>1, <3>2, <3>3
  <2>2. /\ \A k \in 0..n : a(k) \in Nat
        /\ \A k \in 1..n : /\ a(k) = a(k - 1) + 1 + Len(listing[k].body)
                           /\ a(k) <= Len(b)
                           /\ b[a(k - 1) + 1] = HeaderLine(listing[k])
                           /\ \A i \in 1..Len(listing[k].body) :
                                b[a(k - 1) + 1 + i] = listing[k].body[i]
    BY <1>1, LinesOf DEF Place
  <2>3. a(0) = 0 /\ a(n) = Len(b)
    BY <2>1 DEF Place
  <2> QED  BY <2>1, <2>2, <2>3
<1>3. \A k \in 1..n : listing[k] \in StoredSms /\ listing[k].body \in Seq(BodyLines)
  <2>1. \A sms \in StoredSms : sms.body \in Seq(BodyLines)
    BY DEF StoredSms
  <2> QED  BY <1>1, <2>1
<1> HIDE DEF b, n, a
<1>4. /\ Len(all) = Len(b) + 1 /\ Len(b) \in Nat /\ all[Len(b) + 1] = Final
      /\ \A i \in 1..Len(b) : all[i] = b[i]
  BY <1>1, <1>2
<1>5. ASSUME NEW k \in 1..n
      PROVE  /\ a(k) = a(k - 1) + 1 + Len(listing[k].body) /\ a(k) < Len(all)
             /\ all[a(k - 1) + 1] = HeaderLine(listing[k])
             /\ \A i \in 1..Len(listing[k].body) : all[a(k - 1) + 1 + i] = listing[k].body[i]
  <2> DEFINE c == listing[k].body
             p == a(k - 1) + 1
  <2>1. a(k - 1) \in Nat /\ Len(c) \in Nat
    <3>1. k - 1 \in 0..n
      BY <1>2
    <3> QED  BY <1>2, <1>3, <3>1
  <2>2. /\ a(k) = p + Len(c) /\ a(k) <= Len(b) /\ b[p] = HeaderLine(listing[k])
        /\ \A i \in 1..Len(c) : b[p + i] = c[i]
    BY <1>2
  <2>3. p \in Nat /\ p >= 1
    BY <2>1
  <2> HIDE DEF c, p
  <2>4. p \in 1..Len(b) /\ \A i \in 1..Len(c) : p + i \in 1..Len(b)
    BY <1>4, <2>1, <2>2, <2>3
  <2>5. a(k) < Len(all)
    BY <1>4, <2>1, <2>2, <2>3
  <2>6. all[p] = HeaderLine(listing[k]) /\ \A i \in 1..Len(c) : all[p + i] = c[i]
    BY <1>4, <2>2, <2>4
  <2> QED  BY <2>2, <2>5, <2>6 DEF c, p
<1>6. Len(all) \in Nat /\ Len(all) = a(n) + 1 /\ all[Len(all)] = Final
  BY <1>2, <1>4
<1> QED  BY <1>2, <1>3, <1>5, <1>6 DEF n, a

\* An answer does not end at a header, nor in a plain SMS.
LEMMA NotYet ==
  ASSUME NEW listing, NEW all, NEW e, NEW lines, Handed(listing, all, e, lines),
         NEW k \in 1..Len(listing), Place(listing, k - 1) < e
  PROVE  /\ Place(listing, k - 1) + 1 < e
         /\ Plain(listing[k]) => Place(listing, k) < e
<1> DEFINE p == Place(listing, k - 1) + 1
           body == listing[k].body
<1>1. Len(listing) \in Nat /\ e \in 1..Len(all) /\ Len(all) \in Nat /\ EndsAnswer(all[e])
  BY Places DEF Handed
<1>2. k - 1 \in 0..Len(listing)
  BY <1>1
<1>3. /\ Place(listing, k - 1) \in Nat /\ body \in Seq(BodyLines)
      /\ Place(listing, k) = p + Len(body) /\ all[p] = HeaderLine(listing[k])
      /\ \A i \in 1..Len(body) : all[p + i] = body[i]
  BY <1>2, Places
<1>4. e # p
  <2>1. all[p].lead = "+CMGL:"
    BY <1>3 DEF HeaderLine
  <2>2. all[e].lead # "+CMGL:"
    BY <1>1 DEF EndsAnswer
  <2> HIDE DEF p
  <2> QED  BY <2>1, <2>2
<1>5. p < e
  BY <1>1, <1>3, <1>4
<1>6. ASSUME Plain(listing[k]) PROVE Place(listing, k) < e
  <2>1. \A i \in 1..Len(body) : ~EndsAnswer(body[i])
    <3>1. \A i \in 1..Len(body) : ~Protocol(body[i])
      BY <1>6 DEF Plain
    <3>2. \A line : EndsAnswer(line) => Protocol(line)
      BY DEF EndsAnswer, Protocol
    <3> QED  BY <3>1, <3>2
  <2>2. p \in Nat /\ Len(body) \in Nat /\ e \in Nat
    BY <1>1, <1>3
  <2> HIDE DEF p, body
  <2>3. SUFFICES ASSUME e <= p + Len(body) PROVE FALSE
    BY <1>3, <2>2
  <2>4. e - p \in 1..Len(body) /\ p + (e - p) = e
    BY <1>5, <2>2, <2>3
  <2>5. all[p + (e - p)] = body[e - p]
    BY <1>3, <2>4
  <2> QED  BY <1>1, <2>1, <2>4, <2>5
<1> QED  BY <1>5, <1>6

\* The lines before the end are handed on.
LEMMA BeforeTheEnd ==
  ASSUME NEW listing, NEW all, NEW e, NEW lines, Handed(listing, all, e, lines),
         NEW i \in Nat \ {0}, i < e
  PROVE  i \in 1..Len(lines) /\ lines[i] = all[i]
<1>1. e \in 1..Len(all) /\ all \in Seq(AnswerLines) /\ Len(lines) \in {e - 1, e}
  BY DEF Handed
<1>2. Len(all) \in Nat
  BY <1>1
<1>3. e \in Nat
  BY <1>1, <1>2
<1>4. i \in 1..Len(lines)
  BY <1>1, <1>3
<1> QED  BY <1>4 DEF Handed

\* As long as all SMS are plain, parseCMGL has found as many as it has read.
LEMMA Reached ==
  ASSUME NEW listing, NEW all, NEW e, NEW lines, Handed(listing, all, e, lines),
         NEW n \in 0..Len(listing), \A j \in 1..n : Plain(listing[j])
  PROVE  /\ Place(listing, n) < e /\ Place(listing, n) \in 0..Len(lines)
         /\ Len(Parsed(lines)[Place(listing, n)]) = n
<1> DEFINE u == Parsed(lines)
           a(k) == Place(listing, k)
           S == Headers(lines)
           P == {k \in 0..n : a(k) < e /\ a(k) \in 0..Len(lines) /\ Len(u[a(k)]) = k}
<1>1. /\ Len(listing) \in Nat /\ n \in Nat /\ a(0) = 0 /\ e \in Nat \ {0}
      /\ \A k \in 0..n : a(k) \in Nat /\ k \in 0..Len(listing)
  <2>1. Len(listing) \in Nat /\ a(0) = 0 /\ Len(all) \in Nat
    BY Places
  <2>2. e \in 1..Len(all)
    BY DEF Handed
  <2>3. \A k \in 0..n : k \in 0..Len(listing)
    BY <2>1
  <2> QED  BY <2>1, <2>2, <2>3, Places
<1>2. lines \in Seq(AnswerLines) /\ Len(lines) \in Nat
  <2>1. lines \in Seq(AnswerLines)
    BY DEF Handed
  <2> QED  BY <2>1
<1>3. /\ u \in [0..Len(lines) -> Seq(S)] /\ u[0] = <<>>
      /\ \A i \in 1..Len(lines) :
           lines[i].lead = "+CMGL:" => u[i] = Append(u[i - 1], ParseHeader(lines, i))
  BY <1>2, ParsedIs
<1>4. \A i \in 1..Len(lines) : ParseHeader(lines, i) \in S
  BY DEF Headers
<1> HIDE DEF u, S, a
<1>5. 0 \in P
  BY <1>1, <1>2, <1>3
<1>6. ASSUME NEW k \in 1..n, k - 1 \in P PROVE k \in P
  <2> DEFINE q == a(k - 1)
             p == q + 1
             body == listing[k].body
             m == Len(body)
             x == u[q]
             h == ParseHeader(lines, p)
  <2>1. k \in 1..Len(listing) /\ k \in 0..n /\ k - 1 \in 0..n /\ Plain(listing[k])
    BY <1>1
  <2>2. q < e /\ q \in 0..Len(lines) /\ Len(x) = k - 1 /\ q \in Nat
    BY <1>1, <1>6, <2>1
  <2>3. p < e /\ a(k) < e
    BY <2>1, <2>2, NotYet DEF a
  <2>4. /\ a(k) = p + m /\ body \in Seq(BodyLines) /\ all[p] = HeaderLine(listing[k])
        /\ \A i \in 1..m : all[p + i] = body[i]
    BY <2>1, Places DEF a
  <2>5. m \in Nat /\ p \in Nat /\ p \in Nat \ {0} /\ p - 1 = q
    <3>1. m \in Nat
      <4> HIDE DEF body
      <4> QED  BY <2>4
    <3> HIDE DEF q, body, m
    <3> QED  BY <2>2, <3>1
  <2> HIDE DEF q, body, m, x, h
  <2>6. p \in 1..Len(lines) /\ lines[p] = HeaderLine(listing[k])
    <3> HIDE DEF p
    <3> QED  BY <2>3, <2>4, <2>5, BeforeTheEnd
  <2>7. a(k) \in 1..Len(lines)
    <3>1. a(k) \in Nat \ {0}
      BY <2>4, <2>5
    <3> DEFINE r == a(k)
    <3>2. r \in Nat \ {0} /\ r < e
      BY <2>3, <3>1
    <3> HIDE DEF r
    <3>3. r \in 1..Len(lines)
      BY <3>2, BeforeTheEnd
    <3> QED  BY <3>3 DEF r
  <2>8. \A i \in 1..m : lines[p + i].lead # "+CMGL:"
    <3> SUFFICES ASSUME NEW i \in 1..m PROVE lines[p + i].lead # "+CMGL:"
      OBVIOUS
    <3>1. p + i \in Nat \ {0} /\ p + i < e
      <4> HIDE DEF p
      <4>1. i \in Nat /\ i >= 1 /\ i <= m
        BY <2>5
      <4>2. p + m < e
        BY <2>3, <2>4
      <4> QED  BY <1>1, <2>5, <4>1, <4>2
    <3> DEFINE r == p + i
    <3> HIDE DEF r
    <3>2. r \in Nat \ {0} /\ r < e
      BY <3>1 DEF r
    <3>3. lines[r] = all[r]
      BY <3>2, BeforeTheEnd
    <3>4. lines[p + i] = body[i]
      BY <2>4, <3>3 DEF r
    <3>5. ~Protocol(body[i])
      BY <2>1 DEF Plain, body, m
    <3> QED  BY <3>4, <3>5 DEF Protocol
  <2>9. u[p] = Append(x, h) /\ x \in Seq(S) /\ h \in S
    <3>1. lines[p].lead = "+CMGL:"
      BY <2>6 DEF HeaderLine
    <3>2. u[p] = Append(u[p - 1], ParseHeader(lines, p))
      BY <1>3, <2>6, <3>1
    <3>3. x \in Seq(S)
      BY <1>3, <2>2 DEF x
    <3>4. h \in S
      BY <1>4, <2>6 DEF h
    <3> QED  BY <2>5, <3>2, <3>3, <3>4 DEF x, h
  <2>10. u[a(k)] = u[p]
    <3> HIDE DEF p
    <3>1. p + m <= Len(lines)
      BY <1>2, <2>4, <2>7
    <3>2. Parsed(lines)[p + m] = Parsed(lines)[p]
      BY <1>2, <2>5, <2>8, <3>1, BodyParsed
    <3> QED  BY <2>4, <3>2 DEF u
  <2>11. Len(Append(x, h)) = k
    <3>1. Len(Append(x, h)) = Len(x) + 1
      BY <2>9
    <3> QED  BY <1>1, <2>2, <3>1
  <2>12. a(k) \in 0..Len(lines)
    BY <2>7
  <2> QED  BY <2>1, <2>3, <2>9, <2>10, <2>11, <2>12
<1>7. n \in P
  <2>1. n \in 0..n
    BY <1>1
  <2> HIDE DEF P
  <2> QED  BY <1>1, <1>5, <1>6, <2>1, UpTo
<1> QED  BY <1>7 DEF a, u

\* What is shown behind a header is its own SMS, whatever its text.
LEMMA HeaderParsed ==
  ASSUME NEW listing, NEW all, NEW e, NEW lines, Handed(listing, all, e, lines),
         NEW k \in 1..Len(listing), Place(listing, k - 1) + 1 < e
  PROVE  ParseHeader(lines, Place(listing, k - 1) + 1) = Shown(listing[k])
<1> DEFINE n == Len(listing)
           p == Place(listing, k - 1) + 1
           sms == listing[k]
           body == sms.body
<1>1. /\ n \in Nat /\ k \in 1..n /\ k - 1 \in 0..n /\ p \in Nat \ {0} /\ p < e
      /\ e \in Nat /\ e <= Len(all) /\ Len(all) \in Nat
  <2>1. n \in Nat /\ Len(all) \in Nat
    BY Places
  <2>2. k - 1 \in 0..n
    BY <2>1
  <2>3. Place(listing, k - 1) \in Nat
    BY <2>2, Places
  <2>4. e \in 1..Len(all)
    BY DEF Handed
  <2> QED  BY <2>1, <2>2, <2>3, <2>4
<1>2. /\ sms \in StoredSms /\ body \in Seq(BodyLines) /\ Place(listing, k) = p + Len(body)
      /\ all[p] = HeaderLine(sms) /\ \A i \in 1..Len(body) : all[p + i] = body[i]
  BY Places
<1> HIDE DEF p, n, sms, body
<1>3. p \in 1..Len(lines) /\ lines[p] = HeaderLine(sms)
  BY <1>1, <1>2, BeforeTheEnd
<1> DEFINE text == IF p < Len(lines) /\ IsText(lines[p + 1]) THEN TrimSpace(lines[p + 1].text)
                   ELSE <<>>
<1>4. ParseHeader(lines, p) = [index |-> sms.index, status |-> sms.status, from |-> sms.from,
                               at |-> sms.at, text |-> text]
  BY <1>2, <1>3, FieldsParsed
<1>5. p < Len(lines) => lines[p + 1] = all[p + 1]
  <2>1. Len(lines) \in Nat
    <3>1. lines \in Seq(AnswerLines)
      BY DEF Handed
    <3> QED  BY <3>1
  <2>2. p < Len(lines) => p + 1 \in 1..Len(lines)
    BY <1>1, <2>1
  <2> QED  BY <2>2 DEF Handed
<1>6. text = ShownText(body)
  <2>1. CASE body = <<>>
    <3>1. Place(listing, k) = p
      BY <1>1, <1>2, <2>1
    <3>2. all[p + 1] = Final \/ \E other : all[p + 1] = HeaderLine(other)
      <4>1. CASE k = n
        <5>1. Len(all) = Place(listing, n) + 1 /\ all[Len(all)] = Final
          BY Places DEF n
        <5> QED  BY <3>1, <4>1, <5>1
      <4>2. CASE k # n
        <5>1. k + 1 \in 1..n /\ (k + 1) - 1 = k
          BY <1>1, <4>2
        <5> DEFINE j == k + 1
        <5>2. j \in 1..Len(listing) /\ j - 1 = k
          BY <5>1 DEF n
        <5> HIDE DEF j
        <5>3. all[Place(listing, j - 1) + 1] = HeaderLine(listing[j])
          BY <5>2, Places
        <5> QED  BY <3>1, <5>2, <5>3
      <4> QED  BY <4>1, <4>2
    <3>3. ~IsText(all[p + 1])
      <4>1. Final.lead # "plain" /\ \A other : HeaderLine(other).lead # "plain"
        BY DEF Final, HeaderLine
      <4>2. all[p + 1].lead # "plain"
        BY <3>2, <4>1
      <4> QED  BY <4>2 DEF IsText
    <3> QED  BY <1>5, <2>1, <3>3 DEF ShownText
  <2>2. CASE body # <<>>
    <3>1. all[p + 1] = body[1]
      <4>1. 1 \in 1..Len(body)
        BY <1>2, <2>2
      <4> QED  BY <1>2, <4>1
    <3>2. CASE body[1].lead # "plain"
      <4>1. ~IsText(all[p + 1])
        BY <3>1, <3>2 DEF IsText
      <4> QED  BY <1>5, <3>2, <4>1 DEF ShownText
    <3>3. CASE body[1].lead = "plain"
      <4>1. ~EndsAnswer(all[p + 1])
        BY <3>1, <3>3 DEF EndsAnswer
      <4>2. e # p + 1
        BY <4>1 DEF Handed
      <4>3. p + 1 \in Nat \ {0} /\ p + 1 < e
        BY <1>1, <4>2
      <4> DEFINE r == p + 1
      <4>4. r \in 1..Len(lines)
        <5>1. r \in Nat \ {0} /\ r < e
          BY <4>3
        <5> HIDE DEF r
        <5> QED  BY <5>1, BeforeTheEnd
      <4>5. p < Len(lines)
        BY <1>1, <4>4
      <4>6. lines[p + 1] = body[1]
        BY <1>5, <3>1, <4>5
      <4>7. ShownText(body) = TrimSpace(body[1].text)
        BY <2>2, <3>3 DEF ShownText
      <4>8. text = IF IsText(body[1]) THEN TrimSpace(body[1].text) ELSE <<>>
        BY <4>5, <4>6
      <4> HIDE DEF text
      <4> QED  BY <3>3, <4>7, <4>8 DEF IsText
    <3> QED  BY <3>2, <3>3
  <2> QED  BY <2>1, <2>2
<1> HIDE DEF text
<1>7. ParseHeader(lines, p) = Shown(sms)
  BY <1>4, <1>6 DEF Shown, body
<1> QED  BY <1>7 DEF p, sms

\* An SMS behind plain ones is listed as it should be.
LEMMA Listed ==
  ASSUME NEW listing, NEW all, NEW e, NEW lines, Handed(listing, all, e, lines),
         NEW k \in 1..Len(listing), \A j \in 1..(k - 1) : Plain(listing[j])
  PROVE  Len(parseCMGL(lines)) >= k /\ parseCMGL(lines)[k] = Shown(listing[k])
<1> DEFINE u == Parsed(lines)
           S == Headers(lines)
           q == Place(listing, k - 1)
           p == q + 1
           x == u[q]
           h == ParseHeader(lines, p)
<1>1. Len(listing) \in Nat /\ k \in Nat /\ k - 1 \in 0..Len(listing)
  <2>1. Len(listing) \in Nat
    BY Places
  <2> QED  BY <2>1
<1>2. q < e /\ q \in 0..Len(lines) /\ Len(x) = k - 1
  BY <1>1, Reached
<1>3. p < e
  BY <1>2, NotYet
<1>4. h = Shown(listing[k])
  BY <1>3, HeaderParsed
<1>5. all[p] = HeaderLine(listing[k]) /\ q \in Nat
  BY <1>1, Places
<1>6. p \in Nat \ {0} /\ p - 1 = q
  BY <1>5
<1>7. lines \in Seq(AnswerLines) /\ Len(lines) \in Nat
  <2>1. lines \in Seq(AnswerLines)
    BY DEF Handed
  <2> QED  BY <2>1
<1> HIDE DEF q
<1>8. p \in 1..Len(lines) /\ lines[p] = HeaderLine(listing[k])
  <2> HIDE DEF p
  <2> QED  BY <1>3, <1>5, <1>6, BeforeTheEnd
<1>9. /\ u \in [0..Len(lines) -> Seq(S)]
      /\ \A i \in 1..Len(lines) :
           lines[i].lead = "+CMGL:" => u[i] = Append(u[i - 1], ParseHeader(lines, i))
  BY <1>7, ParsedIs
<1>10. h \in S
  BY <1>8 DEF Headers
<1> HIDE DEF u, S, x, h
<1>11. u[p] = Append(x, h) /\ x \in Seq(S)
  <2>1. lines[p].lead = "+CMGL:"
    BY <1>8 DEF HeaderLine
  <2>2. u[p] = Append(u[p - 1], ParseHeader(lines, p))
    BY <1>8, <1>9, <2>1
  <2>3. x \in Seq(S)
    BY <1>2, <1>9 DEF x
  <2> QED  BY <1>6, <2>2, <2>3 DEF x, h
<1> DEFINE y == Append(x, h)
<1>12. Len(y) = k /\ y[k] = h
  <2>1. Len(y) = Len(x) + 1 /\ y[Len(x) + 1] = h
    BY <1>10, <1>11
  <2>2. Len(x) + 1 = k
    BY <1>1, <1>2
  <2> HIDE DEF y
  <2> QED  BY <2>1, <2>2
<1> HIDE DEF y
<1> DEFINE z == u[Len(lines)]
<1>13. Len(y) <= Len(z) /\ \A i \in 1..Len(y) : z[i] = y[i]
  <2> DEFINE r == Len(lines)
  <2>1. p \in Nat /\ p <= r /\ r \in Nat /\ r <= Len(lines)
    BY <1>7, <1>8
  <2> HIDE DEF p, r
  <2>2. /\ Len(Parsed(lines)[p]) <= Len(Parsed(lines)[r])
        /\ \A i \in 1..Len(Parsed(lines)[p]) : Parsed(lines)[r][i] = Parsed(lines)[p][i]
    BY <1>7, <2>1, ParsedGrows
  <2> QED  BY <1>11, <2>2 DEF u, r, y
<1>14. z \in Seq(S)
  <2>1. Len(lines) \in 0..Len(lines)
    BY <1>7
  <2> QED  BY <1>9, <2>1
<1>15. parseCMGL(lines) = z
  BY DEF parseCMGL, u
<1> HIDE DEF z
<1>16. Len(z) \in Nat /\ k \in 1..k
  BY <1>1, <1>14
<1>17. Len(z) >= k /\ z[k] = h
  BY <1>1, <1>12, <1>13, <1>16
<1> QED  BY <1>4, <1>15, <1>17

\* Where all SMS are plain, nothing is listed besides.
LEMMA AllListed ==
  ASSUME NEW listing, NEW all, NEW e, NEW lines, Handed(listing, all, e, lines),
         \A j \in 1..Len(listing) : Plain(listing[j])
  PROVE  Len(parseCMGL(lines)) = Len(listing)
<1> DEFINE n == Len(listing)
           a == Place(listing, n)
           m == Len(lines) - a
<1>1. n \in Nat /\ Len(all) \in Nat /\ Len(all) = a + 1 /\ all[Len(all)] = Final
  BY Places
<1>2. n \in 0..Len(listing)
  BY <1>1
<1>3. a < e /\ a \in 0..Len(lines) /\ Len(Parsed(lines)[a]) = n
  BY <1>2, Reached
<1>4. lines \in Seq(AnswerLines) /\ Len(lines) \in Nat
  <2>1. lines \in Seq(AnswerLines)
    BY DEF Handed
  <2> QED  BY <2>1
<1>5. e \in 1..Len(all) /\ Len(lines) \in {e - 1, e}
  BY DEF Handed
<1> HIDE DEF a, n
<1>6. a \in Nat
  BY <1>3, <1>4
<1>7. e = a + 1 /\ Len(lines) \in {a, a + 1} /\ m \in 0..1 /\ a + m = Len(lines)
  BY <1>1, <1>3, <1>4, <1>5, <1>6
<1> HIDE DEF m
<1>8. \A i \in 1..m : lines[a + i].lead # "+CMGL:"
  <2> SUFFICES ASSUME NEW i \in 1..m PROVE lines[a + i].lead # "+CMGL:"
    OBVIOUS
  <2>1. i = 1 /\ a + 1 = Len(lines) /\ a + 1 \in 1..Len(lines)
    BY <1>4, <1>6, <1>7
  <2>2. lines[a + 1] = all[a + 1]
    BY <2>1 DEF Handed
  <2> QED  BY <1>1, <2>1, <2>2 DEF Final
<1>9. Parsed(lines)[a + m] = Parsed(lines)[a]
  <2>1. m \in Nat /\ a + m <= Len(lines)
    BY <1>4, <1>7
  <2> QED  BY <1>4, <1>6, <1>8, <2>1, BodyParsed
<1> QED  BY <1>3, <1>7, <1>9 DEF parseCMGL, n

\* What is listed are SMS with texts.
LEMMA TextsListed ==
  ASSUME NEW listing, NEW all, NEW e, NEW lines, Handed(listing, all, e, lines)
  PROVE  /\ Len(parseCMGL(lines)) \in Nat
         /\ \A k \in 1..Len(parseCMGL(lines)) : parseCMGL(lines)[k].text \in Seq(Characters)
<1> DEFINE S == Headers(lines)
           z == parseCMGL(lines)
<1>1. lines \in Seq(AnswerLines) /\ Len(lines) \in Nat
  <2>1. lines \in Seq(AnswerLines)
    BY DEF Handed
  <2> QED  BY <2>1
<1>2. z \in Seq(S)
  <2>1. Parsed(lines) \in [0..Len(lines) -> Seq(S)]
    BY <1>1, ParsedIs
  <2>2. Len(lines) \in 0..Len(lines)
    BY <1>1
  <2> QED  BY <2>1, <2>2 DEF parseCMGL
<1>3. ASSUME NEW i \in 1..Len(lines) PROVE ParseHeader(lines, i).text \in Seq(Characters)
  <2> DEFINE text == IF i < Len(lines) /\ IsText(lines[i + 1]) THEN TrimSpace(lines[i + 1].text)
                     ELSE <<>>
  <2>1. ParseHeader(lines, i).text = text
    BY DEF ParseHeader
  <2>2. CASE i < Len(lines) /\ IsText(lines[i + 1])
    <3>1. i + 1 \in 1..Len(lines)
      BY <1>1, <2>2
    <3>2. lines[i + 1] \in AnswerLines /\ lines[i + 1].lead = "plain"
      BY <1>1, <2>2, <3>1 DEF IsText
    <3>3. lines[i + 1].text \in Seq(Characters)
      <4>1. \A line \in AnswerLines : line.lead = "plain" => line.text \in Seq(Characters)
        <5>1. \A line \in BodyLines : line.lead = "plain" => line.text \in Seq(Characters)
          BY DEF BodyLines
        <5>2. \A sms : HeaderLine(sms).lead # "plain"
          BY DEF HeaderLine
        <5> QED  BY <5>1, <5>2 DEF AnswerLines
      <4> QED  BY <3>2, <4>1
    <3>4. TrimSpace(lines[i + 1].text) \in Seq(Characters)
      BY <3>3, TrimType DEF TrimSpace
    <3> QED  BY <2>1, <2>2, <3>4
  <2>3. CASE ~(i < Len(lines) /\ IsText(lines[i + 1]))
    BY <2>1, <2>3
  <2> QED  BY <2>2, <2>3
<1>4. \A h \in S : h.text \in Seq(Characters)
  BY <1>3 DEF Headers
<1> HIDE DEF z, S
<1> QED  BY <1>2, <1>4 DEF z

\* The fields of a message that is pushed.
LEMMA PushedIs ==
  ASSUME NEW size, NEW html, NEW keyboard
  PROVE  Pushed(size, html, keyboard) =
           [size |-> truncatePlainText(size, maxText), html |-> html, cut |-> size > maxText,
            told |-> size > maxText, keyboard |-> keyboard]
BY DEF Pushed, Message

\* The fields of a reply.
LEMMA ReplyIs ==
  ASSUME NEW id, NEW lines
  PROVE  Reply(id, lines) =
           [size |-> formatCommandResult(lines).size, html |-> TRUE,
            cut |-> formatCommandResult(lines).cut, told |-> formatCommandResult(lines).told,
            keyboard |-> actionResultKeyboard(parent(id))]
BY DEF Reply, Message

\* The explanation of a listing is lines.
LEMMA ListingLines ==
  ASSUME NEW messages,
         Len(messages) \in Nat, \A k \in 1..Len(messages) : messages[k].text \in Seq(Characters)
  PROVE  <<Label>> \o explainCMGL(messages) \in SomeLines
<1> DEFINE items == [k \in 1..Len(messages) |-> Frame + Escaped(messages[k].text, cmglItemMax)]
<1>1. Label \in Nat \ {0} /\ Frame \in Nat /\ Limit(cmglItemMax) /\ cmglItemMax \in Nat
  BY LimitsAssumption DEF Limit
<1>2. \A text \in Seq(Characters) : Escaped(text, cmglItemMax) \in 1..cmglItemMax
  BY <1>1, EscapedTextFits
<1>3. \A k \in 1..Len(messages) : Frame + Escaped(messages[k].text, cmglItemMax) \in Nat \ {0}
  BY <1>1, <1>2
<1>4. items \in Lines
  BY <1>3 DEF Lines
<1>5. <<Label>> \in SomeLines /\ <<Label>> \in Lines
  BY <1>1 DEF SomeLines, Lines
<1> HIDE DEF items
<1>6. <<Label>> \o items \in Lines /\ Len(<<Label>> \o items) = 1 + Len(items) /\ Len(items) \in Nat
  BY <1>4, <1>5 DEF Lines
<1>7. explainCMGL(messages) = <<Label>> \o items
  BY DEF explainCMGL, items
<1> DEFINE more == explainCMGL(messages)
<1>8. more \in Lines /\ Len(more) > 0
  BY <1>6, <1>7
<1> HIDE DEF more
<1>9. <<Label>> \o more \in Lines /\ Len(<<Label>> \o more) = 1 + Len(more) /\ Len(more) \in Nat
  BY <1>5, <1>8 DEF Lines
<1>10. <<Label>> \o more # <<>>
  BY <1>9
<1> QED  BY <1>9, <1>10 DEF SomeLines, more

-----------------------------------------------------------------------------
(* Messages.                                                               *)

\* What Telegram takes, and what says what it leaves out; id is the action it
\* replies to, or "none".
Taken(message, id) ==
  /\ 0 < message.size /\ message.size <= maxText
  /\ message.html /\ id = "none" => ~message.cut
  /\ message.cut => message.told

\* A short text is taken as it is.
LEMMA LabelTaken ==
  ASSUME NEW html \in BOOLEAN, NEW keyboard
  PROVE  Taken(Message(Whole(Label), html, keyboard), "none")
BY LimitsAssumption DEF Taken, Message, Whole

\* What is pushed is taken if nothing of it has to be cut, and without markup always.
LEMMA PushedTaken ==
  ASSUME NEW size \in Nat \ {0}, NEW html \in BOOLEAN, NEW keyboard, html => size <= maxText
  PROVE  Taken(Pushed(size, html, keyboard), "none")
<1>1. maxText \in Nat /\ 0 < maxText
  BY LimitsAssumption
<1> DEFINE m == Pushed(size, html, keyboard)
<1>2. /\ m.size = truncatePlainText(size, maxText) /\ m.html = html
      /\ m.cut = (size > maxText) /\ m.told = (size > maxText)
  BY PushedIs
<1> HIDE DEF m
<1>3. 0 < m.size /\ m.size <= maxText
  BY <1>1, <1>2 DEF truncatePlainText, Smaller
<1>4. m.cut => m.told
  BY <1>2
<1>5. m.html => ~m.cut
  <2>1. CASE html = TRUE
    <3>1. (size > maxText) = FALSE
      BY <1>1, <2>1
    <3>2. m.cut = FALSE
      BY <1>2, <3>1
    <3> QED  BY <3>2
  <2>2. CASE html = FALSE
    BY <1>2, <2>2
  <2> QED  BY <2>1, <2>2
<1> QED  BY <1>3, <1>4, <1>5 DEF Taken, m

\* A reply of some lines is taken.
LEMMA ReplyTaken ==
  ASSUME NEW id, id # "none", NEW lines \in SomeLines
  PROVE  Taken(Reply(id, lines), id)
<1>1. lines \in Lines /\ Len(lines) > 0
  BY DEF SomeLines, Lines
<1>2. /\ formatCommandResult(lines).size \in 1..maxText
      /\ formatCommandResult(lines).cut => formatCommandResult(lines).told
  BY <1>1, ReplyFits
<1>3. maxText \in Nat
  BY LimitsAssumption
<1> QED  BY <1>2, <1>3, ReplyIs DEF Taken

\* Escaping makes a text and a sender no longer than their limits, which leave
\* room for the frame.
LEMMA NotifiedTaken ==
  ASSUME NEW message \in smsMessages \cup watchdogAlerts \cup rawMessages
  PROVE  Taken(message, "none")
<1>1. /\ {maxText, smsBodyMax, fromPreviewMax, watchdogReasonMax, Frame} \subseteq Nat
      /\ smsBodyMax + fromPreviewMax + Frame <= maxText /\ watchdogReasonMax + Frame <= maxText
      /\ Limit(smsBodyMax) /\ Limit(fromPreviewMax) /\ Limit(watchdogReasonMax)
      /\ Label \in 1..maxText
  BY LimitsAssumption DEF Limit
<1>2. \A text \in Texts : text \in Seq(Characters)
  <2>1. MaxLen \in Nat
    BY LimitsAssumption
  <2>2. \A n \in Nat : [1..n -> Characters] \subseteq Seq(Characters)
    OBVIOUS
  <2> QED  BY <2>1, <2>2 DEF Texts
<1>3. CASE message \in smsMessages
  <2>1. PICK text \in Texts, from \in Senders :
          message = Pushed(Escaped(text, smsBodyMax) + Escaped(from, fromPreviewMax) + Frame, TRUE, {})
    <3> DEFINE F(text, from) ==
                 Pushed(Escaped(text, smsBodyMax) + Escaped(from, fromPreviewMax) + Frame, TRUE, {})
    <3>1. smsMessages = {F(text, from) : text \in Texts, from \in Senders}
      BY DEF smsMessages
    <3> HIDE DEF F
    <3>2. \E text \in Texts, from \in Senders : message = F(text, from)
      BY <1>3, <3>1
    <3> QED  BY <3>2 DEF F
  <2>2. from \in Seq(Characters)
    BY ChatAssumption
  <2>3. Escaped(text, smsBodyMax) \in 1..smsBodyMax
    BY <1>1, <1>2, EscapedTextFits
  <2>4. Escaped(from, fromPreviewMax) \in 1..fromPreviewMax
    BY <1>1, <2>2, EscapedTextFits
  <2> DEFINE size == Escaped(text, smsBodyMax) + Escaped(from, fromPreviewMax) + Frame
  <2>5. size \in Nat \ {0} /\ size <= maxText
    BY <1>1, <2>3, <2>4
  <2> HIDE DEF size
  <2>6. Taken(Pushed(size, TRUE, {}), "none")
    BY <2>5, PushedTaken
  <2> QED  BY <2>1, <2>6 DEF size
<1>4. CASE message \in watchdogAlerts
  <2>1. PICK reason \in Texts :
          message = Pushed(Escaped(reason, watchdogReasonMax) + Frame, TRUE,
                           {actionButton("reset"), menuButton("device")})
    BY <1>4 DEF watchdogAlerts
  <2>2. Escaped(reason, watchdogReasonMax) \in 1..watchdogReasonMax
    BY <1>1, <1>2, EscapedTextFits
  <2> DEFINE size == Escaped(reason, watchdogReasonMax) + Frame
             keyboard == {actionButton("reset"), menuButton("device")}
  <2>3. size \in Nat \ {0} /\ size <= maxText
    BY <1>1, <2>2
  <2> HIDE DEF size, keyboard
  <2>4. Taken(Pushed(size, TRUE, keyboard), "none")
    BY <2>3, PushedTaken
  <2> QED  BY <2>1, <2>4 DEF size, keyboard
<1>5. CASE message \in rawMessages
  <2>1. PICK size \in {1, maxText, maxText + 1} : message = Pushed(Label + size, FALSE, {})
    BY <1>5 DEF rawMessages
  <2> DEFINE whole == Label + size
  <2>2. whole \in Nat \ {0}
    BY <1>1
  <2> HIDE DEF whole
  <2>3. Taken(Pushed(whole, FALSE, {}), "none")
    BY <2>2, PushedTaken
  <2> QED  BY <2>1, <2>3 DEF whole
<1> QED  BY <1>3, <1>4, <1>5

\* Every step leaves a message that is taken.
LEMMA StepTaken ==
  ASSUME [Next]_vars, Taken(sent, action)
  PROVE  Taken(sent, action)'
<1>0. /\ \A id \in listingActions : id # "none"
      /\ {<<Label>>} \in SUBSET Lines /\ <<Label, Label>> \in SomeLines
  <2>1. \A id \in listingActions : id # "none"
    BY DEF listingActions
  <2>2. Label \in Nat \ {0}
    BY LimitsAssumption
  <2> QED  BY <2>1, <2>2 DEF Lines, SomeLines
<1>1. CASE Notify
  BY <1>1, NotifiedTaken DEF Notify, notifications, Send
<1>2. CASE showMainMenu
  BY <1>2, LabelTaken DEF showMainMenu, Send, Menu
<1>3. CASE handleMenu
  BY <1>3, LabelTaken DEF handleMenu, Send, Menu
<1>4. CASE UnknownAction
  BY <1>4, LabelTaken DEF UnknownAction, Send
<1>5. CASE handleAction
  <2>1. PICK id \in DOMAIN repliesByID : sent' \in repliesByID[id] /\ action' = id
    BY <1>5 DEF handleAction
  <2>2. id \in DOMAIN actionsByID
    BY DEF repliesByID
  <2>3. PICK lines \in Explained(actionsByID[id]) : sent' = Reply(id, lines)
    BY <2>1 DEF repliesByID
  <2>4. id # "none" /\ Len(actionsByID[id]) \in Nat /\ Len(actionsByID[id]) > 0
    BY <2>2 DEF actionsByID
  <2>5. lines \in SomeLines
    BY <2>3, <2>4, ExplainedLines
  <2> QED  BY <2>1, <2>3, <2>4, <2>5, ReplyTaken
<1>6. CASE ListingFails
  <2>1. PICK id \in listingActions :
          /\ \E lines \in explainFailure \cup More({<<Label>>}, explainFailure) :
               sent' = Reply(id, lines)
          /\ action' = id
    BY <1>6 DEF ListingFails
  <2>2. explainFailure \cup More({<<Label>>}, explainFailure) \subseteq SomeLines
    BY <1>0, ResultLines, MoreLines
  <2> QED  BY <1>0, <2>1, <2>2, ReplyTaken
<1>7. CASE ListingRefused
  <2>1. PICK id \in listingActions : sent' = Reply(id, <<Label, Label>>) /\ action' = id
    BY <1>7 DEF ListingRefused
  <2> QED  BY <1>0, <2>1, ReplyTaken
<1>8. CASE handleListing
  <2>1. PICK id \in listingActions, listing \in Listings :
          \E lines \in HandedOn(listing) :
            /\ listed' = parseCMGL(lines) /\ action' = id
            /\ sent' = Reply(id, <<Label>> \o explainCMGL(listed'))
    BY <1>8 DEF handleListing
  <2>2. PICK lines \in HandedOn(listing) :
          /\ listed' = parseCMGL(lines) /\ action' = id
          /\ sent' = Reply(id, <<Label>> \o explainCMGL(listed'))
    BY <2>1
  <2>3. PICK e : Handed(listing, Append(Answer(listing), Final), e, lines)
    BY ChatAssumption, HandedIs
  <2>4. Len(listed') \in Nat /\ \A k \in 1..Len(listed') : listed'[k].text \in Seq(Characters)
    BY <2>2, <2>3, TextsListed
  <2>5. <<Label>> \o explainCMGL(listed') \in SomeLines
    BY <2>4, ListingLines
  <2> QED  BY <1>0, <2>2, <2>5, ReplyTaken
<1>9. CASE UNCHANGED vars
  BY <1>9 DEF vars, Taken
<1> QED  BY <1>1, <1>2, <1>3, <1>4, <1>5, <1>6, <1>7, <1>8, <1>9 DEF Next

\* After every step the listing is that of the stored SMS.
LEMMA StepListed ==
  ASSUME [Next]_vars, ListFaithful
  PROVE  ListFaithful'
<1>1. CASE stored' = <<>> /\ listed' = <<>>
  BY <1>1 DEF ListFaithful
<1>2. CASE handleListing
  <2>1. PICK listing \in Listings :
          \E lines \in HandedOn(listing) : stored' = listing /\ listed' = parseCMGL(lines)
    BY <1>2 DEF handleListing
  <2>2. PICK lines \in HandedOn(listing) : stored' = listing /\ listed' = parseCMGL(lines)
    BY <2>1
  <2>3. PICK e : Handed(listing, Append(Answer(listing), Final), e, lines)
    BY ChatAssumption, HandedIs
  <2>4. ASSUME NEW k \in 1..Len(listing), \A j \in 1..(k - 1) : Plain(listing[j])
        PROVE  Len(listed') >= k /\ listed'[k] = Shown(listing[k])
    BY <2>2, <2>3, <2>4, Listed
  <2>5. (\A j \in 1..Len(listing) : Plain(listing[j])) => Len(listed') = Len(listing)
    BY <2>2, <2>3, AllListed
  <2> QED  BY <2>2, <2>4, <2>5 DEF ListFaithful
<1>3. CASE UNCHANGED vars
  BY <1>3 DEF vars, ListFaithful
<1> QED
  BY <1>1, <1>2, <1>3
  DEF Next, Notify, showMainMenu, handleMenu, UnknownAction, handleAction, ListingFails,
      ListingRefused, Send

-----------------------------------------------------------------------------
(* Keyboards.                                                              *)

\* Buttons that lead somewhere.
Known(keyboard) ==
  \A b \in keyboard : b.id \in (IF b.route = "menu" THEN DOMAIN menus ELSE DOMAIN actionsByID)

\* A keyboard from which one comes back to an action, see NoDeadEnd.
Back(keyboard, id) ==
  \E b \in keyboard :
    /\ b.route = "menu" /\ b.id # "main"
    /\ \/ actionButton(id) \in menus[b.id]
       \/ \E c \in menus[b.id] :
            c.route = "menu" /\ c.id # "main" /\ actionButton(id) \in menus[c.id]

Open(keyboard, id) == Known(keyboard) /\ (id # "none" => Back(keyboard, id))

\* The menus that there are, and the actions.
LEMMA Names ==
  /\ DOMAIN menus = {"main", "status", "sms", "device", "help", "reset_confirm"}
  /\ DOMAIN actionsByID =
       {"status_summary", "signal", "registration", "operator", "sim", "module", "sms_unread",
        "sms_all", "sms_storage", "enable_sms_storage", "function_mode", "enable_sms_push", "reset"}
BY DEF menus, actionsByID

\* A button of a menu that there is, and one of an action.
LEMMA ButtonKnown ==
  /\ \A id \in DOMAIN menus : Known({menuButton(id)})
  /\ \A id \in DOMAIN actionsByID : Known({actionButton(id)})
BY DEF Known, menuButton, actionButton

\* The buttons of the menus.
LEMMA MenusKnown ==
  \A id \in DOMAIN menus : Known(menus[id])
<1>1. Known(menus["main"]) /\ Known(menus["help"])
  BY Names DEF Known, menus, menuButton
<1>2. Known(menus["status"])
  BY Names DEF Known, menus, menuButton, actionButton, actionButtons
<1>3. Known(menus["sms"])
  BY Names DEF Known, menus, smsMenu, menuButton, actionButton, actionButtons
<1>4. Known(menus["device"])
  BY Names DEF Known, menus, menuButton, actionButton, actionButtons
<1>5. Known(menus["reset_confirm"])
  BY Names DEF Known, menus, menuButton, actionButton
<1> QED  BY <1>1, <1>2, <1>3, <1>4, <1>5, Names

\* Behind every action is a menu that offers it, or one whose menu does.
LEMMA ParentsOffer ==
  \A id \in DOMAIN actionsByID :
    /\ parent(id) \in DOMAIN menus /\ parent(id) # "main"
    /\ \/ actionButton(id) \in menus[parent(id)]
       \/ \E c \in menus[parent(id)] :
            c.route = "menu" /\ c.id # "main" /\ actionButton(id) \in menus[c.id]
<1>1. ASSUME NEW id \in {"status_summary", "signal", "registration", "operator", "sim", "module"}
      PROVE  parent(id) = "status" /\ actionButton(id) \in menus["status"]
  BY DEF parent, menus, actionButtons
<1>2. ASSUME NEW id \in {"sms_unread", "sms_all", "sms_storage", "enable_sms_storage"}
      PROVE  parent(id) = "sms" /\ actionButton(id) \in menus["sms"]
  BY DEF parent, menus, smsMenu, actionButtons
<1>3. ASSUME NEW id \in {"function_mode", "enable_sms_push"}
      PROVE  parent(id) = "device" /\ actionButton(id) \in menus["device"]
  BY DEF parent, menus, actionButtons
<1>4. /\ parent("reset") = "device" /\ menuButton("reset_confirm") \in menus["device"]
      /\ menuButton("reset_confirm").route = "menu" /\ menuButton("reset_confirm").id = "reset_confirm"
      /\ actionButton("reset") \in menus["reset_confirm"]
  BY DEF parent, menus, menuButton
<1> QED  BY <1>1, <1>2, <1>3, <1>4, Names

\* So a reply leads back.
LEMMA ReplyOpen ==
  ASSUME NEW id \in DOMAIN actionsByID, NEW lines
  PROVE  Open(Reply(id, lines).keyboard, id)
<1> DEFINE keyboard == actionResultKeyboard(parent(id))
<1>1. Reply(id, lines).keyboard = keyboard
  BY ReplyIs
<1>2. keyboard = {menuButton(parent(id)), menuButton("main")}
  BY ParentsOffer DEF actionResultKeyboard
<1>3. Known(keyboard)
  BY <1>2, ParentsOffer, Names DEF Known, menuButton
<1>4. Back(keyboard, id)
  <2> DEFINE b == menuButton(parent(id))
  <2>1. b \in keyboard /\ b.route = "menu" /\ b.id = parent(id)
    BY <1>2 DEF menuButton
  <2> HIDE DEF b, keyboard
  <2> QED  BY <2>1, ParentsOffer DEF Back
<1> HIDE DEF keyboard
<1> QED  BY <1>1, <1>3, <1>4 DEF Open

\* What is pushed leads somewhere, too.
LEMMA NotifiedOpen ==
  ASSUME NEW message \in smsMessages \cup watchdogAlerts \cup rawMessages
  PROVE  Open(message.keyboard, "none")
<1>1. CASE message \in smsMessages
  <2>1. message.keyboard = {}
    <3> DEFINE F(text, from) ==
                 Pushed(Escaped(text, smsBodyMax) + Escaped(from, fromPreviewMax) + Frame, TRUE, {})
    <3>1. smsMessages = {F(text, from) : text \in Texts, from \in Senders}
      BY DEF smsMessages
    <3>2. \A text, from : F(text, from).keyboard = {}
      BY PushedIs
    <3> HIDE DEF F
    <3> QED  BY <1>1, <3>1, <3>2
  <2> QED  BY <2>1 DEF Open, Known
<1>2. CASE message \in watchdogAlerts
  <2>1. message.keyboard = {actionButton("reset"), menuButton("device")}
    <3> DEFINE keyboard == {actionButton("reset"), menuButton("device")}
    <3>1. PICK reason \in Texts :
            message = Pushed(Escaped(reason, watchdogReasonMax) + Frame, TRUE, keyboard)
      BY <1>2 DEF watchdogAlerts
    <3> HIDE DEF keyboard
    <3> QED  BY <3>1, PushedIs DEF keyboard
  <2> QED  BY <2>1, Names DEF Open, Known, actionButton, menuButton
<1>3. CASE message \in rawMessages
  <2>1. message.keyboard = {}
    <3>1. PICK size : message = Pushed(Label + size, FALSE, {})
      BY <1>3 DEF rawMessages
    <3> QED  BY <3>1, PushedIs
  <2> QED  BY <2>1 DEF Open, Known
<1> QED  BY <1>1, <1>2, <1>3

\* Every step leaves a keyboard that leads somewhere.
LEMMA StepOpen ==
  ASSUME [Next]_vars, Open(sent.keyboard, action)
  PROVE  Open(sent.keyboard, action)'
<1>0. /\ \A id \in DOMAIN menus : Open(Menu(id).keyboard, "none")
      /\ "main" \in DOMAIN menus
  BY MenusKnown, Names DEF Open, Menu, Message
<1>1. CASE Notify
  BY <1>1, NotifiedOpen DEF Notify, notifications, Send
<1>2. CASE showMainMenu
  BY <1>0, <1>2 DEF showMainMenu, Send
<1>3. CASE handleMenu
  BY <1>0, <1>3 DEF handleMenu, Send
<1>4. CASE UnknownAction
  <2>1. sent'.keyboard = {menuButton("main")} /\ action' = "none"
    BY <1>4 DEF UnknownAction, Send, Message
  <2> QED  BY <2>1, Names DEF Open, Known, menuButton
<1>5. CASE handleAction
  <2>1. PICK id \in DOMAIN repliesByID : sent' \in repliesByID[id] /\ action' = id
    BY <1>5 DEF handleAction
  <2>2. id \in DOMAIN actionsByID
    BY DEF repliesByID
  <2>3. PICK lines \in Explained(actionsByID[id]) : sent' = Reply(id, lines)
    BY <2>1 DEF repliesByID
  <2> QED  BY <2>1, <2>2, <2>3, ReplyOpen
<1>6. CASE ListingFails \/ ListingRefused \/ handleListing
  <2>1. PICK id \in listingActions : action' = id /\ \E lines : sent' = Reply(id, lines)
    BY <1>6 DEF ListingFails, ListingRefused, handleListing
  <2>2. id \in DOMAIN actionsByID
    BY Names DEF listingActions
  <2> QED  BY <2>1, <2>2, ReplyOpen
<1>7. CASE UNCHANGED vars
  BY <1>7 DEF vars
<1> QED  BY <1>1, <1>2, <1>3, <1>4, <1>5, <1>6, <1>7 DEF Next

-----------------------------------------------------------------------------
\* The invariant of the chat: its last message is taken and leads somewhere, and its
\* listing is that of the stored SMS.
ChatInv == Taken(sent, action) /\ ListFaithful /\ Open(sent.keyboard, action)

\* ChatInv holds from the first message and each step keeps it.
THEOREM ChatInvariant == Spec => []ChatInv
<1>1. Init => ChatInv
  <2> SUFFICES ASSUME Init PROVE ChatInv
    OBVIOUS
  <2>1. Taken(sent, action)
    BY LabelTaken DEF Init, Menu
  <2>2. Open(sent.keyboard, action)
    <3>1. sent.keyboard = menus["main"] /\ action = "none"
      BY DEF Init, Menu, Message
    <3> QED  BY <3>1, MenusKnown, Names DEF Open
  <2>3. ListFaithful
    BY DEF Init, ListFaithful
  <2> QED  BY <2>1, <2>2, <2>3 DEF ChatInv
<1>2. ChatInv /\ [Next]_vars => ChatInv'
  BY StepTaken, StepListed, StepOpen DEF ChatInv
<1> QED  BY <1>1, <1>2, PTL DEF Spec

\* Telegram takes every message, whatever the modem answers and for all texts:
\* escapeAndTruncate and formatCommandResult keep every limit.
THEOREM MessagesAccepted == Spec => []MessageAccepted
<1>1. ChatInv => MessageAccepted
  BY DEF ChatInv, Taken, MessageAccepted
<1> QED  BY <1>1, ChatInvariant, PTL

\* A reply without room for all of its lines says so, and so does a message that
\* sendMessage truncates: the suffixes of appendHTMLChunk and truncatePlainText have
\* room themselves.  What parseCMGL does not read of a text is not meant.
THEOREM TruncationsAreTold == Spec => []TruncationIsTold
<1>1. ChatInv => TruncationIsTold
  BY DEF ChatInv, Taken, TruncationIsTold
<1> QED  BY <1>1, ChatInvariant, PTL

\* parseCMGL finds the stored SMS in their order, each with its own fields and the
\* first line of its own text, for all contents of the storage: all of them where no
\* text has a line like one of the modem's own, and where one has, it and all before.
THEOREM ListingsFaithful == Spec => []ListFaithful
<1>1. ChatInv => ListFaithful
  BY DEF ChatInv
<1> QED  BY <1>1, ChatInvariant, PTL

\* Every button leads to a menu or an action, and every action back to itself.
THEOREM NoWayEnds == Spec => []NoDeadEnd
<1>1. ChatInv => NoDeadEnd
  BY DEF ChatInv, Open, Known, Back, NoDeadEnd
<1> QED  BY <1>1, ChatInvariant, PTL
=============================================================================
