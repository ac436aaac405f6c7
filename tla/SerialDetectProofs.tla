-------------------------- MODULE SerialDetectProofs --------------------------
(***************************************************************************)
(* Proof that detection leaves no port open but the one it returns, for    *)
(* any ports, names, replies and any number of calls.                      *)
(***************************************************************************)
EXTENDS SerialDetect, FiniteSetTheorems, WellFoundedInduction, TLAPS

\* What the process has open at each place of the program.
OpenPorts ==
  /\ pc \in {"write", "read"} => opened = {Probed}
  /\ pc = "linked" => opened = {port}
  /\ pc \in {"idle", "scan", "probe", "open"} => opened = {}

IndInv == pc \in {"idle", "scan", "probe", "write", "read", "open", "linked"} /\ OpenPorts

\* At every place of Open the ports open are those that place accounts for.
THEOREM DetectInvariant == Spec => []IndInv
<1> USE DEF IndInv, OpenPorts
<1>1. Init => IndInv
  BY DEF Init
<1>2. IndInv /\ [Next]_vars => IndInv'
  <2> SUFFICES ASSUME IndInv, [Next]_vars PROVE IndInv'
    OBVIOUS
  <2>1. CASE Change
    BY <2>1 DEF Change, Probed
  <2>2. CASE Open
    BY <2>2 DEF Open
  <2>3. CASE Scan
    BY <2>3 DEF Scan
  <2>4. CASE ProbeOpens
    <3>1. opened' = {Probed'}
      BY <2>4 DEF ProbeOpens, Probed
    <3> QED BY <2>4, <3>1 DEF ProbeOpens
  <2>5. CASE ProbeOpenFails
    BY <2>5 DEF ProbeOpenFails
  <2>6. ASSUME pc \in {"write", "read"}, opened' = opened \ {Probed}, pc' = "probe"
        PROVE  IndInv'
    BY <2>6
  <2>7. CASE ProbeRead
    <3>1. /\ pc = "read"
          /\ \/ opened' = opened \ {Probed} /\ pc' = "probe"
             \/ UNCHANGED <<answers, opened, next, pc>>
      BY <2>7 DEF ProbeRead, Return
    <3>2. CASE UNCHANGED <<answers, opened, next, pc>>
      BY <2>7, <3>2 DEF ProbeRead, Probed
    <3> QED BY <2>6, <3>1, <3>2
  <2>8. CASE ProbeFails
    BY <2>6, <2>8 DEF ProbeFails, Return
  <2>9. CASE Select
    BY <2>9 DEF Select
  <2>10. CASE OpenPort
    BY <2>10 DEF OpenPort
  <2>11. CASE OpenPortFails
    BY <2>11 DEF OpenPortFails
  <2>12. CASE Close
    BY <2>12 DEF Close
  <2>13. CASE UNCHANGED vars \/ Done
    BY <2>13 DEF vars, Done, Probed
  <2>14. CASE ProbeWrite
    BY <2>14 DEF ProbeWrite, Probed
  <2>15. CASE ProbeWriteFails
    BY <2>6, <2>15 DEF ProbeWriteFails, Return
  <2> QED
    BY <2>1, <2>2, <2>3, <2>4, <2>5, <2>7, <2>8, <2>9, <2>10, <2>11, <2>12, <2>13,
       <2>14, <2>15
       DEF Next, Work
<1> QED BY <1>1, <1>2, PTL DEF Spec

\* The port that detection or a probe has opened is closed on every path, so that
\* opening the selected port never finds it busy with the program's own probe.
THEOREM PortsReleased == Spec => []OnlyLinkOpen
<1>1. IndInv => OnlyLinkOpen
  BY DEF IndInv, OpenPorts, OnlyLinkOpen
<1> QED BY <1>1, DetectInvariant, PTL

-----------------------------------------------------------------------------
(* Scores, and the order of the candidates.                                *)

\* A set of numbers has a least element: the natural numbers are well founded.
LEMMA LeastNumber ==
  ASSUME NEW T \in SUBSET Nat, T # {}
  PROVE  \E n \in T : \A m \in T : n <= m
<1> DEFINE R == {ss \in Nat \X Nat : ss[1] < ss[2]}
<1>1. IsWellFoundedOn(R, Nat)
  <2>1. R = OpToRel(<, Nat)
    BY DEF OpToRel
  <2> QED  BY <2>1, NatLessThanWellFounded
<1>2. \A m, n \in Nat : m < n => <<m, n>> \in R
  <2> SUFFICES ASSUME NEW m \in Nat, NEW n \in Nat, m < n PROVE <<m, n>> \in R
    OBVIOUS
  <2>1. <<m, n>> \in Nat \X Nat /\ <<m, n>>[1] = m /\ <<m, n>>[2] = n
    OBVIOUS
  <2> QED  BY <2>1
<1> HIDE DEF R
<1>3. PICK n \in T : \A m \in T : <<m, n>> \notin R
  BY <1>1, WFMin
<1>4. \A m \in T : m \in Nat /\ n \in Nat /\ ~(m < n)
  BY <1>2, <1>3
<1> QED  BY <1>4

MaxScore == 600

\* A name and sysfs say at most so much of a port.
LEMMA NameScores ==
  ASSUME NEW name \in Name
  PROVE  ScorePortName(name) \in Int /\ ScorePortName(name) <= 150
BY DEF ScorePortName, Points, Name

LEMMA TTYScores ==
  ASSUME NEW p \in Ports
  PROVE  scoreLinuxTTY(p) \in Int /\ scoreLinuxTTY(p) <= 320
<1>1. TTYInfo[p] \in Info
  BY DetectAssumption
<1>2. scoreLinuxTTYInfo(TTYInfo[p]) \in Int /\ scoreLinuxTTYInfo(TTYInfo[p]) <= 320
  BY <1>1 DEF scoreLinuxTTYInfo, Points, Info
<1> QED  BY <1>2 DEF scoreLinuxTTY

LEMMA Scores ==
  ASSUME NEW p \in Ports
  PROVE  /\ ListScore(p) \in Int /\ ListScore(p) <= MaxScore
         /\ \A l \in Links[p] : LinkScore(p, l) \in Int /\ LinkScore(p, l) <= MaxScore
<1>1. PortName[p] \in Name /\ Links[p] \subseteq Name
  BY DetectAssumption
<1> QED  BY <1>1, NameScores, TTYScores DEF ListScore, LinkScore, MaxScore

Candidate == [port: Ports, score: {n \in Int : n <= MaxScore}]

\* What the scan finds before it is ranked.
Finds(f) == serialLibraryCandidates(f.listed)
            \cup (IF Linux THEN linuxSerialByIDCandidates(f.linked) ELSE {})

LEMMA FindsTyped ==
  ASSUME NEW f, f.listed \subseteq Ports, f.linked \subseteq Ports
  PROVE  Finds(f) \subseteq Candidate
BY Scores DEF Finds, serialLibraryCandidates, linuxSerialByIDCandidates, Candidate

\* The candidates that are ranked: the best of each port.
Best(candidates) == {c \in candidates : \A d \in candidates : d.port = c.port => c.score >= d.score}

\* A port has one best candidate, if it has any.
LEMMA BestOfPort ==
  ASSUME NEW S \in SUBSET Candidate, NEW c \in S
  PROVE  \E b \in Best(S) : b.port = c.port /\ b.score >= c.score
<1> DEFINE T == {MaxScore - d.score : d \in {e \in S : e.port = c.port}}
<1>1. T \in SUBSET Nat /\ T # {}
  BY DEF Candidate, MaxScore
<1>2. PICK n \in T : \A m \in T : n <= m
  BY <1>1, LeastNumber
<1>3. PICK b \in S : b.port = c.port /\ n = MaxScore - b.score
  BY <1>2
<1>4. \A d \in S : d.port = c.port => b.score >= d.score
  <2> SUFFICES ASSUME NEW d \in S, d.port = c.port PROVE b.score >= d.score
    OBVIOUS
  <2>1. n <= MaxScore - d.score
    BY <1>2
  <2> QED  BY <1>3, <2>1 DEF Candidate, MaxScore
<1> QED  BY <1>3, <1>4 DEF Best

LEMMA BestIsUnique ==
  ASSUME NEW S \in SUBSET Candidate, NEW b \in Best(S), NEW d \in Best(S), b.port = d.port
  PROVE  b = d
<1>1. b.score = d.score
  BY DEF Best, Candidate
<1> QED  BY <1>1 DEF Best, Candidate

\* There are finitely many ports, so of each best candidates, too.
LEMMA BestIsFinite ==
  ASSUME NEW S \in SUBSET Candidate
  PROVE  IsFiniteSet(Best(S))
<1> DEFINE f == [c \in Best(S) |-> c.port]
<1>1. f \in Injection(Best(S), Ports)
  <2>1. f \in [Best(S) -> Ports]
    BY DEF Best, Candidate
  <2>2. \A b, d \in Best(S) : f[b] = f[d] => b = d
    BY BestIsUnique
  <2> QED  BY <2>1, <2>2 DEF Injection, IsInjective
<1> QED  BY <1>1, FS_Injection, DetectAssumption

\* Before orders the best candidates.
LEMMA BeforeOrders ==
  ASSUME NEW S \in SUBSET Candidate
  PROVE  /\ \A b, d \in Best(S) : b # d => Before(b, d) \/ Before(d, b)
         /\ \A b, d \in Best(S) : ~(Before(b, d) /\ Before(d, b))
         /\ \A b, c, d \in Best(S) : Before(b, c) /\ Before(c, d) => Before(b, d)
<1>1. \A b \in Best(S) : b.port \in Nat /\ b.score \in Int
  BY DetectAssumption DEF Best, Candidate
<1>2. \A b, d \in Best(S) : b # d => b.port # d.port
  BY BestIsUnique
<1> QED  BY <1>1, <1>2 DEF Before

\* Sorting is possible: the place of a candidate is the number of those that are
\* not behind it.
LEMMA SortedExists ==
  ASSUME NEW S \in SUBSET Candidate
  PROVE  \E s \in [1..Cardinality(Best(S)) -> Best(S)] :
           \A i, j \in DOMAIN s : i < j => Before(s[i], s[j])
<1> DEFINE B == Best(S)
           n == Cardinality(B)
           UpTo(x) == {y \in B : ~Before(x, y)}
           place == [x \in B |-> Cardinality(UpTo(x))]
<1>1. IsFiniteSet(B) /\ n \in Nat
  BY BestIsFinite, FS_CardinalityType
<1>2. /\ \A b, d \in B : b # d => Before(b, d) \/ Before(d, b)
      /\ \A b, d \in B : ~(Before(b, d) /\ Before(d, b))
      /\ \A b, c, d \in B : Before(b, c) /\ Before(c, d) => Before(b, d)
  BY BeforeOrders
<1> HIDE DEF B, n
<1>3. \A x \in B : UpTo(x) \in SUBSET B /\ IsFiniteSet(UpTo(x)) /\ place[x] \in 1..n
  <2> SUFFICES ASSUME NEW x \in B
               PROVE  UpTo(x) \in SUBSET B /\ IsFiniteSet(UpTo(x)) /\ place[x] \in 1..n
    OBVIOUS
  <2>1. UpTo(x) \in SUBSET B /\ x \in UpTo(x)
    BY <1>2
  <2>2. IsFiniteSet(UpTo(x)) /\ Cardinality(UpTo(x)) <= n
    BY <1>1, <2>1, FS_Subset DEF n
  <2>3. Cardinality(UpTo(x)) \in Nat /\ Cardinality(UpTo(x)) # 0
    BY <2>1, <2>2, FS_CardinalityType, FS_EmptySet
  <2> QED  BY <1>1, <2>1, <2>2, <2>3
<1>4. \A x, y \in B : Before(x, y) => place[x] < place[y]
  <2> SUFFICES ASSUME NEW x \in B, NEW y \in B, Before(x, y) PROVE place[x] < place[y]
    OBVIOUS
  <2>1. UpTo(x) \in SUBSET UpTo(y) /\ y \in UpTo(y) /\ y \notin UpTo(x)
    BY <1>2
  <2>2. Cardinality(UpTo(x)) <= Cardinality(UpTo(y)) /\ Cardinality(UpTo(x)) # Cardinality(UpTo(y))
    BY <1>3, <2>1, FS_Subset
  <2>3. \A k \in 1..n : k \in Nat
    BY <1>1
  <2>4. place[x] \in Nat /\ place[y] \in Nat
    BY <1>3, <2>3
  <2> QED  BY <2>2, <2>4
<1> HIDE DEF place
<1>5. \A x, y \in B : place[x] = place[y] => x = y
  <2> SUFFICES ASSUME NEW x \in B, NEW y \in B, place[x] = place[y], x # y PROVE FALSE
    OBVIOUS
  <2>1. place[x] < place[y] \/ place[y] < place[x]
    BY <1>2, <1>4
  <2>2. \A k \in 1..n : ~(k < k)
    BY <1>1
  <2> QED  BY <1>3, <2>1, <2>2
<1>6. place \in Surjection(B, 1..n)
  <2>1. place \in [B -> 1..n]
    BY <1>3 DEF place
  <2>2. place \in Injection(B, 1..n)
    BY <1>5, <2>1 DEF Injection, IsInjective
  <2>3. IsFiniteSet(1..n) /\ Cardinality(1..n) = n
    BY <1>1, FS_Interval
  <2> QED  BY <2>2, <2>3, FS_Injection DEF n
<1> DEFINE s == [i \in 1..n |-> CHOOSE x \in B : place[x] = i]
<1>7. \A i \in 1..n : s[i] \in B /\ place[s[i]] = i
  BY <1>6 DEF Surjection
<1>8. ASSUME NEW i \in 1..n, NEW j \in 1..n, i < j
      PROVE  Before(s[i], s[j])
  <2>1. s[i] \in B /\ s[j] \in B /\ place[s[i]] < place[s[j]]
    BY <1>7, <1>8
  <2>2. ~Before(s[j], s[i]) /\ s[i] # s[j]
    BY <1>1, <1>4, <1>7, <1>8
  <2> HIDE DEF s
  <2> QED  BY <1>2, <2>1, <2>2
<1>9. s \in [1..n -> B] /\ DOMAIN s = 1..n
  BY <1>7
<1> HIDE DEF s
<1> QED  BY <1>8, <1>9 DEF B, n

\* What RankCandidates returns.
LEMMA Ranked ==
  ASSUME NEW S \in SUBSET Candidate
  PROVE  /\ RankCandidates(S) \in Seq(Best(S))
         /\ \A i, j \in 1..Len(RankCandidates(S)) :
              i < j => Before(RankCandidates(S)[i], RankCandidates(S)[j])
         /\ \A b \in Best(S) : \E i \in 1..Len(RankCandidates(S)) : RankCandidates(S)[i] = b
<1> DEFINE B == Best(S)
           n == Cardinality(B)
           s == RankCandidates(S)
<1>1. s = Sorted(B)
  BY DEF RankCandidates, Best
<1>2. IsFiniteSet(B) /\ n \in Nat
  BY BestIsFinite, FS_CardinalityType
<1>3. s \in [1..n -> B] /\ \A i, j \in DOMAIN s : i < j => Before(s[i], s[j])
  BY <1>1, SortedExists DEF Sorted
<1>4. \A b, d \in B : ~(Before(b, d) /\ Before(d, b))
  BY BeforeOrders
<1> HIDE DEF s, B
<1>5. s \in Seq(B) /\ Len(s) = n /\ DOMAIN s = 1..n
  BY <1>2, <1>3
<1>6. \A i, j \in 1..n : s[i] = s[j] => i = j
  <2> SUFFICES ASSUME NEW i \in 1..n, NEW j \in 1..n, s[i] = s[j], i < j PROVE FALSE
    BY <1>2
  <2>1. Before(s[i], s[j]) /\ Before(s[j], s[i])
    BY <1>3, <1>5
  <2> QED  BY <1>3, <1>4, <2>1
<1>7. s \in Surjection(1..n, B)
  <2>1. s \in Injection(1..n, B)
    BY <1>3, <1>6 DEF Injection, IsInjective
  <2>2. Cardinality(1..n) = n
    BY <1>2, FS_Interval
  <2> QED  BY <1>2, <2>1, <2>2, FS_Injection
<1> QED  BY <1>3, <1>5, <1>7 DEF Surjection, s, B

-----------------------------------------------------------------------------
(* The choice.                                                             *)

\* Each candidate before the next one has its answer; the port is the one that
\* the answers select.
Choice ==
  /\ attached \subseteq Ports /\ found.listed \subseteq Ports /\ found.linked \subseteq Ports
  /\ ranked = <<>> \/ ranked = Candidates(found)
  /\ answers \in Seq(BOOLEAN) /\ next = Len(answers) + 1 /\ Len(answers) <= Len(ranked)
  /\ pc = "scan" => ranked = <<>> /\ answers = <<>>
  /\ pc = "probe" => ranked # <<>> /\ next <= Len(ranked) + 1
  /\ pc \in {"write", "read"} => ranked # <<>> /\ next <= Len(ranked)
  /\ pc \in {"open", "linked"} /\ ranked # <<>> =>
       /\ Len(answers) = Len(ranked)
       /\ port = ranked[SelectAutoDetectCandidate(DOMAIN ranked)].port

\* What was heard of a reply: a positive answer stands for an OK line at the
\* end of some read, and while a probe reads on it has seen none.
Heard ==
  /\ \A i \in 1..Len(answers) : answers[i] =>
       \E m \in 1..Len(Reply[ranked[i].port]) : OKLine(SubSeq(Reply[ranked[i].port], 1, m))
  /\ pc = "write" => heard = 0
  /\ pc = "read" => /\ heard \in 0..Len(Reply[Probed])
                    /\ ~OKLine(SubSeq(Reply[Probed], 1, heard))

ChoiceInv == IndInv /\ Choice /\ Heard

\* The candidates in their order, with their types.
LEMMA RankedTyped ==
  ASSUME Choice, ranked # <<>>
  PROVE  /\ ranked \in Seq(Best(Finds(found))) /\ Finds(found) \subseteq Candidate
         /\ Len(ranked) \in Nat \ {0} /\ DOMAIN ranked = 1..Len(ranked)
         /\ \A i \in 1..Len(ranked) : ranked[i] \in Candidate /\ ranked[i] \in Finds(found)
         /\ \A i, j \in 1..Len(ranked) : i < j => Before(ranked[i], ranked[j])
         /\ \A b \in Best(Finds(found)) : \E i \in 1..Len(ranked) : ranked[i] = b
<1>1. Finds(found) \subseteq Candidate
  BY FindsTyped DEF Choice
<1>2. ranked = RankCandidates(Finds(found))
  BY DEF Choice, Candidates, Finds
<1>3. ranked \in Seq(Best(Finds(found)))
  BY <1>1, <1>2, Ranked
<1>4. \A i \in 1..Len(ranked) : ranked[i] \in Best(Finds(found))
  BY <1>3
<1>5. \A b \in Best(Finds(found)) : b \in Finds(found)
  BY DEF Best
<1>6. Len(ranked) \in Nat \ {0} /\ DOMAIN ranked = 1..Len(ranked)
  BY <1>3
<1> QED  BY <1>1, <1>2, <1>3, <1>4, <1>5, <1>6, Ranked

\* Before the first byte there is no line.
LEMMA NothingHeard ==
  ASSUME NEW r \in Seq(Char)
  PROVE  ~OKLine(SubSeq(r, 1, 0))
BY DEF OKLine, responseHasATLine

\* A probe that returns adds its answer to those of the candidates before.
LEMMA ReturnStep ==
  ASSUME ChoiceInv, pc \in {"write", "read"}, NEW ok \in BOOLEAN, Return(ok),
         UNCHANGED <<attached, found, ranked, port>>,
         ok => \E m \in 1..Len(Reply[Probed]) : OKLine(SubSeq(Reply[Probed], 1, m))
  PROVE  Choice' /\ Heard'
<1>1. /\ answers \in Seq(BOOLEAN) /\ next = Len(answers) + 1 /\ next <= Len(ranked)
      /\ ranked # <<>>
  BY DEF ChoiceInv, Choice
<1>2. Len(ranked) \in Nat
  BY <1>1, RankedTyped DEF ChoiceInv
<1>3. answers' = Append(answers, ok) /\ next' = next + 1 /\ pc' = "probe"
  BY DEF Return
<1>4. /\ answers' \in Seq(BOOLEAN) /\ Len(answers') = Len(answers) + 1
      /\ \A i \in 1..Len(answers) : answers'[i] = answers[i]
      /\ answers'[next] = ok
  BY <1>1, <1>3
<1>5. Choice'
  <2>1. next' = Len(answers') + 1 /\ next' <= Len(ranked) + 1
    BY <1>1, <1>2, <1>3, <1>4
  <2> QED  BY <1>1, <1>3, <1>4, <2>1 DEF ChoiceInv, Choice, Candidates
<1>6. \A i \in 1..Len(answers') : i = next \/ i \in 1..Len(answers)
  BY <1>1, <1>4
<1>7. Heard'
  <2> SUFFICES ASSUME NEW i \in 1..Len(answers'), answers'[i]
               PROVE  \E m \in 1..Len(Reply[ranked[i].port]) :
                        OKLine(SubSeq(Reply[ranked[i].port], 1, m))
    BY <1>3 DEF Heard
  <2>1. CASE i = next
    BY <1>4, <2>1 DEF Probed
  <2>2. CASE i \in 1..Len(answers)
    BY <1>4, <2>2 DEF ChoiceInv, Heard
  <2> QED  BY <1>6, <2>1, <2>2
<1> QED  BY <1>5, <1>7

\* What a step leaves alone when it leaves the candidates and answers alone.
LEMMA HeardKept ==
  ASSUME ChoiceInv, UNCHANGED <<ranked, answers>>, pc' \notin {"write", "read"}
  PROVE  Heard'
BY DEF ChoiceInv, Heard

\* The probes and their answers keep the order of the candidates, and a probe
\* reads until it sees a line that is OK or an error.
THEOREM ChoiceInvariant == Spec => []ChoiceInv
<1>1. Init => Choice /\ Heard
  BY DEF Init, Choice, Heard
<1>2. ChoiceInv /\ IndInv' /\ [Next]_vars => ChoiceInv'
  <2> SUFFICES ASSUME ChoiceInv, IndInv', [Next]_vars PROVE Choice' /\ Heard'
    BY DEF ChoiceInv
  <2>1. CASE Change
    BY <2>1 DEF Change, ChoiceInv, Choice, Heard, Candidates, Probed, SelectAutoDetectCandidate
  <2>2. CASE Open
    <3>1. Choice'
      BY <2>2 DEF Open, ChoiceInv, Choice
    <3>2. Heard'
      BY <2>2 DEF Open, Heard
    <3> QED  BY <3>1, <3>2
  <2>3. CASE Scan
    <3>1. /\ found'.listed \subseteq Ports /\ found'.linked \subseteq Ports
          /\ ranked' = Candidates(found') /\ pc' = IF ranked' = <<>> THEN "idle" ELSE "probe"
          /\ UNCHANGED <<attached, next, answers, port>> /\ answers = <<>> /\ next = 1
      BY <2>3 DEF Scan, ChoiceInv, Choice
    <3>2. Candidates(found)' = Candidates(found')
      BY DEF Candidates
    <3>3. Len(ranked') \in Nat
      <4>1. Finds(found') \subseteq Candidate /\ ranked' = RankCandidates(Finds(found'))
        BY <3>1, FindsTyped DEF Candidates, Finds
      <4> QED  BY <4>1, Ranked
    <3>4. Choice'
      BY <3>1, <3>2, <3>3 DEF ChoiceInv, Choice
    <3> QED  BY <3>1, <3>4 DEF Heard
  <2>4. CASE ProbeOpens
    <3>1. /\ pc = "probe" /\ pc' = "write" /\ heard' = 0 /\ next <= Len(ranked)
          /\ UNCHANGED <<attached, found, ranked, next, answers, port>>
      BY <2>4 DEF ProbeOpens, ChoiceInv, Choice
    <3>2. Choice'
      BY <3>1 DEF ChoiceInv, Choice, Candidates
    <3>3. Heard'
      BY <3>1 DEF ChoiceInv, Heard
    <3> QED  BY <3>2, <3>3
  <2>5. CASE ProbeOpenFails
    <3>1. /\ answers \in Seq(BOOLEAN) /\ next = Len(answers) + 1 /\ next <= Len(ranked)
          /\ ranked # <<>> /\ answers' = Append(answers, FALSE) /\ next' = next + 1
          /\ pc = "probe" /\ UNCHANGED <<attached, found, pc, ranked, port>>
      BY <2>5 DEF ProbeOpenFails, ChoiceInv, Choice
    <3>2. Len(ranked) \in Nat
      BY <3>1, RankedTyped DEF ChoiceInv
    <3>3. /\ answers' \in Seq(BOOLEAN) /\ Len(answers') = Len(answers) + 1
          /\ \A i \in 1..Len(answers) : answers'[i] = answers[i]
          /\ answers'[next] = FALSE
      BY <3>1
    <3>4. next' = Len(answers') + 1 /\ next' <= Len(ranked) + 1
      BY <3>1, <3>2, <3>3
    <3>5. Choice'
      BY <3>1, <3>3, <3>4 DEF ChoiceInv, Choice, Candidates
    <3>6. \A i \in 1..Len(answers') : i = next \/ i \in 1..Len(answers)
      BY <3>1, <3>3
    <3>7. Heard'
      BY <3>1, <3>3, <3>6 DEF ChoiceInv, Heard
    <3> QED  BY <3>5, <3>7
  <2>6. CASE ProbeRead
    <3>1. PICK k \in 1..(Len(Reply[Probed]) - heard) :
            LET response == SubSeq(Reply[Probed], 1, heard + k)
            IN  /\ heard' = heard + k
                /\ IF OKLine(response) THEN Return(TRUE)
                   ELSE IF ErrorLine(response) THEN Return(FALSE)
                   ELSE UNCHANGED <<answers, opened, next, pc>>
      BY <2>6 DEF ProbeRead
    <3>2. pc = "read" /\ UNCHANGED <<attached, found, ranked, port>>
      BY <2>6 DEF ProbeRead
    <3>3. heard + k \in 1..Len(Reply[Probed])
      <4>1. heard \in Nat /\ Len(Reply[Probed]) \in Nat
        <5>1. next \in 1..Len(ranked) /\ ranked # <<>>
          BY <3>2, RankedTyped DEF ChoiceInv, Choice
        <5>2. Reply[Probed] \in Seq(Char)
          BY <5>1, RankedTyped, DetectAssumption DEF ChoiceInv, Probed, Candidate
        <5> QED  BY <3>2, <5>2 DEF ChoiceInv, Heard
      <4> QED  BY <4>1
    <3>4. CASE OKLine(SubSeq(Reply[Probed], 1, heard + k))
      BY <3>1, <3>2, <3>3, <3>4, ReturnStep
    <3>5. CASE ~OKLine(SubSeq(Reply[Probed], 1, heard + k)) /\ Return(FALSE)
      BY <3>2, <3>5, ReturnStep
    <3>6. CASE ~OKLine(SubSeq(Reply[Probed], 1, heard + k)) /\ UNCHANGED <<answers, opened, next, pc>>
      <4>1. Probed' = Probed
        BY <3>2, <3>6 DEF Probed
      <4>2. Choice'
        BY <3>2, <3>6 DEF ChoiceInv, Choice, Candidates
      <4>3. heard' \in 0..Len(Reply[Probed]) /\ heard' = heard + k
        BY <3>1, <3>3
      <4> QED  BY <3>2, <3>6, <4>1, <4>2, <4>3 DEF ChoiceInv, Heard
    <3> QED  BY <3>1, <3>4, <3>5, <3>6
  <2>7. CASE ProbeFails
    BY <2>7, ReturnStep DEF ProbeFails
  <2>8. CASE Select
    <3>1. /\ next > Len(ranked) /\ next <= Len(ranked) + 1 /\ ranked # <<>>
          /\ next = Len(answers) + 1 /\ answers \in Seq(BOOLEAN)
          /\ port' = ranked[SelectAutoDetectCandidate(DOMAIN ranked)].port
          /\ pc' = "open" /\ UNCHANGED <<attached, found, ranked, next, answers, heard>>
      BY <2>8 DEF Select, ChoiceInv, Choice
    <3>2. Len(answers) = Len(ranked)
      BY <3>1, RankedTyped DEF ChoiceInv
    <3>3. Choice'
      BY <3>1, <3>2 DEF ChoiceInv, Choice, Candidates, SelectAutoDetectCandidate
    <3> QED  BY <3>1, <3>3, HeardKept
  <2>9. CASE OpenPort \/ OpenPortFails \/ Close
    <3>1. /\ UNCHANGED <<attached, found, ranked, next, answers, port>>
          /\ pc' \in {"idle", "linked"} /\ pc \in {"open", "linked"}
          /\ pc' = "linked" => pc = "open"
      BY <2>9 DEF OpenPort, OpenPortFails, Close
    <3>2. SelectAutoDetectCandidate(DOMAIN ranked)' = SelectAutoDetectCandidate(DOMAIN ranked)
      BY <3>1 DEF SelectAutoDetectCandidate
    <3>3. Choice'
      BY <3>1, <3>2 DEF ChoiceInv, Choice, Candidates
    <3> QED  BY <3>1, <3>3, HeardKept
  <2>10. CASE UNCHANGED vars \/ Done
    BY <2>10
    DEF vars, Done, ChoiceInv, Choice, Heard, Candidates, Probed, SelectAutoDetectCandidate
  <2>11. CASE ProbeWrite
    <3>1. pc = "write" /\ pc' = "read" /\ UNCHANGED <<attached, found, ranked, next, answers, heard, port>>
      BY <2>11 DEF ProbeWrite
    <3>2. Choice' /\ Probed' = Probed /\ heard' = 0
      BY <3>1 DEF ChoiceInv, Choice, Candidates, Heard, Probed
    <3>3. next \in 1..Len(ranked) /\ ranked # <<>>
      BY <3>1, RankedTyped DEF ChoiceInv, Choice
    <3>4. Reply[Probed] \in Seq(Char)
      BY <3>3, RankedTyped, DetectAssumption DEF ChoiceInv, Probed, Candidate
    <3>5. 0 \in 0..Len(Reply[Probed]) /\ ~OKLine(SubSeq(Reply[Probed], 1, 0))
      BY <3>4, NothingHeard
    <3> QED  BY <3>1, <3>2, <3>5 DEF ChoiceInv, Heard
  <2>12. CASE ProbeWriteFails
    BY <2>12, ReturnStep DEF ProbeWriteFails
  <2> QED
    BY <2>1, <2>2, <2>3, <2>4, <2>5, <2>6, <2>7, <2>8, <2>9, <2>10, <2>11, <2>12 DEF Next, Work
<1> QED BY <1>1, <1>2, DetectInvariant, PTL DEF Spec, ChoiceInv

\* The candidate chosen is the first that answered, or the first of all.
LEMMA Selected ==
  ASSUME Choice, ranked # <<>>, Len(answers) = Len(ranked)
  PROVE  LET k == SelectAutoDetectCandidate(DOMAIN ranked)
         IN  /\ k \in 1..Len(ranked)
             /\ \/ answers[k] /\ \A j \in 1..Len(ranked) : answers[j] => k <= j
                \/ k = 1 /\ \A j \in 1..Len(ranked) : ~answers[j]
<1> DEFINE T == {i \in 1..Len(ranked) : answers[i]}
<1>1. Len(ranked) \in Nat \ {0} /\ DOMAIN ranked = 1..Len(ranked)
  BY RankedTyped
<1>2. CASE T = {}
  <2>1. \A j \in 1..Len(ranked) : ~answers[j]
    BY <1>2
  <2> QED  BY <1>1, <2>1 DEF SelectAutoDetectCandidate
<1>3. CASE T # {}
  <2>1. T \in SUBSET Nat
    BY <1>1
  <2>2. PICK n \in T : \A m \in T : n <= m
    BY <1>3, <2>1, LeastNumber
  <2>3. \E i \in DOMAIN ranked : answers[i] /\ \A j \in DOMAIN ranked : answers[j] => i <= j
    BY <1>1, <2>2
  <2>4. \E i \in DOMAIN ranked : answers[i]
    BY <2>3
  <2> QED  BY <1>1, <2>3, <2>4 DEF SelectAutoDetectCandidate
<1> QED  BY <1>2, <1>3

\* The evidence for a port is what its candidates score.
LEMMA EvidenceFound ==
  ASSUME Choice, NEW p \in Ports, NEW s
  PROVE  s \in Evidence(p) <=> [port |-> p, score |-> s] \in Finds(found)
<1> DEFINE c == [port |-> p, score |-> s]
<1>1. c \in serialLibraryCandidates(found.listed) <=> p \in found.listed /\ s = ListScore(p)
  <2>1. \A q : c = [port |-> q, score |-> ListScore(q)] <=> q = p /\ s = ListScore(p)
    OBVIOUS
  <2> QED  BY <2>1 DEF serialLibraryCandidates
<1>2. c \in linuxSerialByIDCandidates(found.linked)
        <=> p \in found.linked /\ \E l \in Links[p] : s = LinkScore(p, l)
  <2>1. \A q, l : c = [port |-> q, score |-> LinkScore(q, l)] <=> q = p /\ s = LinkScore(p, l)
    OBVIOUS
  <2> HIDE DEF c
  <2>2. c \in linuxSerialByIDCandidates(found.linked)
          <=> \E q \in found.linked : \E l \in Links[q] : c = [port |-> q, score |-> LinkScore(q, l)]
    BY DEF linuxSerialByIDCandidates
  <2> QED  BY <2>1, <2>2
<1>3. s \in Evidence(p)
        <=> \/ p \in found.listed /\ s = ListScore(p)
            \/ Linux /\ p \in found.linked /\ \E l \in Links[p] : s = LinkScore(p, l)
  BY DEF Evidence
<1> HIDE DEF c
<1>4. c \in Finds(found)
        <=> \/ c \in serialLibraryCandidates(found.listed)
            \/ Linux /\ c \in linuxSerialByIDCandidates(found.linked)
  BY DetectAssumption DEF Finds
<1> QED  BY <1>1, <1>2, <1>3, <1>4 DEF c

\* A port that is not the chosen one, and is as good an answerer, has its
\* candidates behind the chosen one.
LEMMA BehindChosen ==
  ASSUME Choice, ranked # <<>>, Len(answers) = Len(ranked),
         port = ranked[SelectAutoDetectCandidate(DOMAIN ranked)].port,
         NEW i \in 1..Len(ranked), ranked[i].port # port,
         AnsweredOK(ranked[i].port) <=> AnsweredOK(port)
  PROVE  Before(ranked[SelectAutoDetectCandidate(DOMAIN ranked)], ranked[i])
<1> DEFINE k == SelectAutoDetectCandidate(DOMAIN ranked)
<1>1. /\ k \in 1..Len(ranked)
      /\ \/ answers[k] /\ \A j \in 1..Len(ranked) : answers[j] => k <= j
         \/ k = 1 /\ \A j \in 1..Len(ranked) : ~answers[j]
  BY Selected
<1> HIDE DEF k
<1>2. i # k /\ i \in Nat /\ k \in Nat
  BY <1>1, RankedTyped DEF k
<1>3. \A j \in 1..Len(ranked) : ranked[j].port = ranked[i].port => j = i
  <2> SUFFICES ASSUME NEW j \in 1..Len(ranked), ranked[j].port = ranked[i].port PROVE j = i
    OBVIOUS
  <2>1. ranked[i] \in Best(Finds(found)) /\ ranked[j] \in Best(Finds(found))
    BY RankedTyped
  <2>2. ranked[i] = ranked[j]
    BY <2>1, BestIsUnique, RankedTyped
  <2>3. ~Before(ranked[i], ranked[i])
    <3>1. ranked[i].score \in Int /\ ranked[i].port \in Nat
      BY RankedTyped, DetectAssumption DEF Candidate
    <3> QED  BY <3>1 DEF Before
  <2>4. i < j \/ j < i \/ i = j
    BY RankedTyped
  <2> QED  BY <2>2, <2>3, <2>4, RankedTyped
<1>4. CASE answers[k] /\ \A j \in 1..Len(ranked) : answers[j] => k <= j
  <2>1. AnsweredOK(port)
    BY <1>1, <1>4 DEF AnsweredOK, k
  <2>2. PICK j \in 1..Len(answers) : answers[j] /\ ranked[j].port = ranked[i].port
    BY <2>1 DEF AnsweredOK
  <2>3. j = i
    BY <1>3, <2>2
  <2>4. k < i
    BY <1>2, <1>4, <2>2, <2>3
  <2> QED  BY <1>1, <2>4, RankedTyped DEF k
<1>5. CASE k = 1
  <2>1. k < i
    BY <1>2, <1>5
  <2> QED  BY <1>1, <2>1, RankedTyped DEF k
<1> QED  BY <1>1, <1>4, <1>5

\* Whatever ports there are and whatever they score and answer, detection takes
\* the best-ranked port that answered, or the best-ranked one when none did.
THEOREM BestPortChosen == Spec => []BestChosen
<1>1. ChoiceInv => BestChosen
  <2> SUFFICES ASSUME ChoiceInv, pc \in {"open", "linked"}, ranked # <<>>
               PROVE  /\ Evidence(port) # {}
                      /\ \A p \in Ports \ {port} :
                           /\ AnsweredOK(p) => AnsweredOK(port)
                           /\ (AnsweredOK(p) <=> AnsweredOK(port)) => ~Outranks(p, port)
    BY DEF BestChosen
  <2> DEFINE k == SelectAutoDetectCandidate(DOMAIN ranked)
             c == ranked[k]
  <2>1. Choice /\ Len(answers) = Len(ranked) /\ port = c.port
    BY DEF ChoiceInv, Choice
  <2>2. /\ k \in 1..Len(ranked)
        /\ \/ answers[k] /\ \A j \in 1..Len(ranked) : answers[j] => k <= j
           \/ k = 1 /\ \A j \in 1..Len(ranked) : ~answers[j]
    BY <2>1, Selected
  <2>3. c \in Candidate /\ c \in Finds(found) /\ c = [port |-> port, score |-> c.score]
    <3>1. c \in Candidate /\ c \in Finds(found)
      BY <2>1, <2>2, RankedTyped
    <3>2. c = [port |-> c.port, score |-> c.score]
      BY <3>1 DEF Candidate
    <3> QED  BY <2>1, <3>1, <3>2
  <2>4. port \in Ports /\ c.score \in Int /\ port \in Nat
    BY <2>1, <2>3, DetectAssumption DEF Candidate
  <2>5. c.score \in Evidence(port)
    BY <2>1, <2>3, <2>4, EvidenceFound
  <2>6. ASSUME NEW p \in Ports \ {port}, AnsweredOK(p)
        PROVE  AnsweredOK(port)
    <3>1. PICK j \in 1..Len(answers) : answers[j]
      BY <2>6 DEF AnsweredOK
    <3>2. answers[k]
      BY <2>1, <2>2, <3>1
    <3> QED  BY <2>1, <2>2, <3>2 DEF AnsweredOK
  <2> HIDE DEF k
  <2>7. ASSUME NEW p \in Ports \ {port}, AnsweredOK(p) <=> AnsweredOK(port), Outranks(p, port)
        PROVE  FALSE
    <3>1. PICK s \in Evidence(p) : \A t \in Evidence(port) : s > t \/ (s = t /\ p < port)
      BY <2>7 DEF Outranks
    <3>2. [port |-> p, score |-> s] \in Finds(found)
      BY <2>1, <3>1, EvidenceFound
    <3>3. Finds(found) \in SUBSET Candidate
      BY <2>1, RankedTyped
    <3>4. PICK b \in Best(Finds(found)) : b.port = p /\ b.score >= s
      BY <3>2, <3>3, BestOfPort
    <3>5. PICK i \in 1..Len(ranked) : ranked[i] = b
      BY <2>1, RankedTyped
    <3>6. Before(c, b)
      BY <2>1, <2>7, <3>4, <3>5, BehindChosen DEF k
    <3>7. s \in Int /\ b.score \in Int /\ p \in Nat
      BY <3>2, <3>3, <3>4, DetectAssumption DEF Best, Candidate
    <3>8. s > c.score \/ (s = c.score /\ p < port)
      BY <2>5, <3>1
    <3> HIDE DEF c
    <3> QED  BY <2>1, <2>4, <3>4, <3>6, <3>7, <3>8 DEF Before
  <2> QED  BY <2>5, <2>6, <2>7
<1> QED BY <1>1, ChoiceInvariant, PTL

-----------------------------------------------------------------------------
(* The answers.                                                            *)

\* Where responseHasATLine finds OK.
LEMMA OKLineAt ==
  ASSUME NEW w \in Seq(Char)
  PROVE  OKLine(w) <=>
    \E i \in 1..(Len(w) - 1) :
      /\ w[i] = "O" /\ w[i + 1] = "K"
      /\ \E a \in 0..(i - 1) :
           (a = 0 \/ w[a] = "newline") /\ \A k \in (a + 1)..(i - 1) : w[k] = "blank"
      /\ \E b \in (i + 2)..(Len(w) + 1) :
           (b = Len(w) + 1 \/ w[b] = "newline") /\ \A k \in (i + 2)..(b - 1) : w[k] = "blank"
<1>1. \A i, j \in 1..Len(w) : i <= j =>
        (SubSeq(w, i, j) = <<"O", "K">> <=> j = i + 1 /\ w[i] = "O" /\ w[i + 1] = "K")
  <2> SUFFICES ASSUME NEW i \in 1..Len(w), NEW j \in 1..Len(w), i <= j
               PROVE  SubSeq(w, i, j) = <<"O", "K">> <=> j = i + 1 /\ w[i] = "O" /\ w[i + 1] = "K"
    OBVIOUS
  <2>1. Len(SubSeq(w, i, j)) = j - i + 1
    OBVIOUS
  <2>2. \A k \in 1..(j - i + 1) : SubSeq(w, i, j)[k] = w[i + k - 1]
    OBVIOUS
  <2>3. ASSUME SubSeq(w, i, j) = <<"O", "K">>
        PROVE  j = i + 1 /\ w[i] = "O" /\ w[i + 1] = "K"
    <3>1. j = i + 1
      BY <2>1, <2>3
    <3> QED  BY <2>2, <2>3, <3>1
  <2>4. ASSUME j = i + 1, w[i] = "O", w[i + 1] = "K"
        PROVE  SubSeq(w, i, j) = <<"O", "K">>
    <3>1. /\ SubSeq(w, i, j) \in Seq(Char) /\ Len(SubSeq(w, i, j)) = 2
          /\ SubSeq(w, i, j)[1] = "O" /\ SubSeq(w, i, j)[2] = "K"
      BY <2>1, <2>2, <2>4
    <3>2. SubSeq(w, i, j) = [k \in 1..2 |-> IF k = 1 THEN "O" ELSE "K"]
      BY <3>1
    <3> QED  BY <3>2
  <2> QED  BY <2>3, <2>4
<1> DEFINE Before_(i) == \E a \in 0..(i - 1) :
             (a = 0 \/ w[a] = "newline") /\ \A k \in (a + 1)..(i - 1) : w[k] = "blank"
           After(j) == \E b \in (j + 1)..(Len(w) + 1) :
             (b = Len(w) + 1 \/ w[b] = "newline") /\ \A k \in (j + 1)..(b - 1) : w[k] = "blank"
<1>2. OKLine(w) <=> \E i, j \in 1..Len(w) :
        i <= j /\ SubSeq(w, i, j) = <<"O", "K">> /\ Before_(i) /\ After(j)
  BY DEF OKLine, responseHasATLine
<1>3. \A i \in 1..(Len(w) - 1) : i + 1 + 1 = i + 2
  OBVIOUS
<1>4. \A i \in 1..(Len(w) - 1) : After(i + 1) <=>
        \E b \in (i + 2)..(Len(w) + 1) :
           (b = Len(w) + 1 \/ w[b] = "newline") /\ \A k \in (i + 2)..(b - 1) : w[k] = "blank"
  BY <1>3
<1> HIDE DEF Before_, After
<1>5. OKLine(w) <=> \E i \in 1..(Len(w) - 1) :
        w[i] = "O" /\ w[i + 1] = "K" /\ Before_(i) /\ After(i + 1)
  BY <1>1, <1>2
<1> QED  BY <1>4, <1>5 DEF Before_

\* A reply with an OK line makes the probe that has read it pass.
LEMMA LineIsHeard ==
  ASSUME NEW r \in Seq(Char), SaysOK(r)
  PROVE  OKLine(r)
<1>1. PICK a, b \in 1..Len(r) :
        /\ IsLine(r, a, b)
        /\ \E i \in a..(b - 1) : /\ r[i] = "O" /\ r[i + 1] = "K"
                                 /\ \A k \in (a..b) \ {i, i + 1} : r[k] = "blank"
  BY DEF SaysOK
<1>2. PICK i \in a..(b - 1) : /\ r[i] = "O" /\ r[i + 1] = "K"
                              /\ \A k \in (a..b) \ {i, i + 1} : r[k] = "blank"
  BY <1>1
<1>3. i \in 1..(Len(r) - 1) /\ a - 1 \in 0..(i - 1) /\ b + 1 \in (i + 2)..(Len(r) + 1)
  OBVIOUS
<1>4. \A k \in ((a - 1) + 1)..(i - 1) : r[k] = "blank"
  BY <1>2
<1>5. \A k \in (i + 2)..((b + 1) - 1) : r[k] = "blank"
  BY <1>2
<1>6. (a - 1 = 0 \/ r[a - 1] = "newline") /\ (b + 1 = Len(r) + 1 \/ r[b + 1] = "newline")
  BY <1>1 DEF IsLine
<1> QED  BY <1>2, <1>3, <1>4, <1>5, <1>6, OKLineAt

\* A read that ends with an OK line has seen one of the reply.
LEMMA HeardIsLine ==
  ASSUME PlainReplies, NEW p \in Ports, NEW m \in 1..Len(Reply[p]),
         OKLine(SubSeq(Reply[p], 1, m))
  PROVE  SaysOK(Reply[p])
<1> DEFINE r == Reply[p]
           w == SubSeq(r, 1, m)
           n == Len(r)
<1>1. r \in Seq(Char) /\ n \in Nat /\ m \in 1..n
  BY DetectAssumption
<1>2. w \in Seq(Char) /\ Len(w) = m /\ \A k \in 1..m : w[k] = r[k]
  BY <1>1
<1>3. PICK i \in 1..(m - 1) :
        /\ w[i] = "O" /\ w[i + 1] = "K"
        /\ \E a \in 0..(i - 1) :
             (a = 0 \/ w[a] = "newline") /\ \A k \in (a + 1)..(i - 1) : w[k] = "blank"
  BY <1>2, OKLineAt
<1>4. PICK c \in 0..(i - 1) :
        (c = 0 \/ w[c] = "newline") /\ \A k \in (c + 1)..(i - 1) : w[k] = "blank"
  BY <1>3
<1> DEFINE a == c + 1
           T == {k \in (i + 2)..(n + 1) : k = n + 1 \/ r[k] = "newline"}
<1>5. PICK e \in T : \A k \in T : e <= k
  <2>1. T \in SUBSET Nat /\ n + 1 \in T
    BY <1>1
  <2> QED  BY <2>1, LeastNumber
<1> DEFINE b == e - 1
<1>6. i \in 1..n /\ i + 1 \in 1..n /\ a \in 1..i /\ b \in (i + 1)..n /\ i \in a..(b - 1)
  BY <1>1
<1>7. r[i] = "O" /\ r[i + 1] = "K"
  BY <1>1, <1>2, <1>3
<1>8. (a = 1 \/ r[a - 1] = "newline") /\ \A k \in a..(i - 1) : r[k] = "blank"
  <2>1. \A k \in 1..(i - 1) : w[k] = r[k]
    BY <1>1, <1>2
  <2> QED  BY <1>4, <2>1
<1>9. \A k \in (i + 2)..b : r[k] = "blank"
  <2> SUFFICES ASSUME NEW k \in (i + 2)..b PROVE r[k] = "blank"
    OBVIOUS
  <2>1. \A l \in (i + 2)..k : r[l] # "newline"
    <3> SUFFICES ASSUME NEW l \in (i + 2)..k, r[l] = "newline" PROVE FALSE
      OBVIOUS
    <3>1. e \in (i + 2)..(n + 1) /\ i \in Int /\ n \in Int
      BY <1>1, <1>5
    <3>2. l \in (i + 2)..(n + 1) /\ l < e /\ l \in Int /\ e \in Int
      BY <3>1
    <3>3. l \in T
      BY <3>2
    <3>4. e <= l
      BY <1>5, <3>3
    <3> HIDE DEF T, r, n
    <3> QED  BY <3>2, <3>4
  <2>2. k \in 1..n /\ i + 1 < k /\ a \in 1..i
    BY <1>1, <1>6
  <2> HIDE DEF r, a, b, n
  <2>3. BeginsLine(r, i)
    BY <1>8, <2>2 DEF BeginsLine
  <2> QED  BY <1>6, <1>7, <2>1, <2>2, <2>3 DEF PlainReplies, r, n
<1>10. b = n \/ r[b + 1] = "newline"
  BY <1>1, <1>5
<1>11. \A k \in (a..b) \ {i, i + 1} : r[k] = "blank"
  <2>1. \A k \in (a..b) \ {i, i + 1} : k \in a..(i - 1) \/ k \in (i + 2)..b
    BY <1>6
  <2> QED  BY <1>8, <1>9, <2>1
<1>12. \A k \in a..b : r[k] # "newline"
  BY <1>7, <1>11
<1>13. IsLine(r, a, b)
  <2> HIDE DEF a, b, r
  <2> QED  BY <1>8, <1>10, <1>12 DEF IsLine, n
<1>14. a \in 1..n /\ b \in 1..n
  BY <1>1, <1>6
<1> HIDE DEF r, a, b, n
<1> QED  BY <1>6, <1>7, <1>11, <1>13, <1>14 DEF SaysOK, r, n

\* Whatever the reads are that a reply comes in, only a line that is OK makes a
\* port pass, and it does once the reply was read, if no other line begins with OK.
THEOREM AnswersAreLines == PlainReplies => (Spec => []AnswerIsLine)
<1> SUFFICES ASSUME PlainReplies PROVE Spec => []AnswerIsLine
  OBVIOUS
<1>1. ChoiceInv => AnswerIsLine
  <2> SUFFICES ASSUME ChoiceInv PROVE AnswerIsLine
    OBVIOUS
  <2>1. \A i \in 1..Len(ranked) : ranked[i].port \in Ports
    BY RankedTyped DEF ChoiceInv, Candidate
  <2>2. ASSUME NEW i \in 1..Len(answers), answers[i]
        PROVE  SaysOK(Reply[ranked[i].port])
    <3>1. i \in 1..Len(ranked) /\ ranked # <<>>
      BY DEF ChoiceInv, Choice
    <3> QED  BY <2>1, <2>2, <3>1, HeardIsLine DEF ChoiceInv, Heard
  <2>3. ASSUME pc = "read", heard = Len(Reply[Probed]), SaysOK(Reply[Probed])
        PROVE  FALSE
    <3>1. ranked # <<>> /\ next \in 1..Len(ranked)
      BY <2>3, RankedTyped DEF ChoiceInv, Choice
    <3>2. Reply[Probed] \in Seq(Char)
      BY <2>1, <3>1, DetectAssumption DEF Probed
    <3>3. SubSeq(Reply[Probed], 1, Len(Reply[Probed])) = Reply[Probed]
      BY <3>2
    <3> QED  BY <2>3, <3>2, <3>3, LineIsHeard DEF ChoiceInv, Heard
  <2> QED  BY <2>2, <2>3 DEF AnswerIsLine
<1> QED BY <1>1, ChoiceInvariant, PTL
=============================================================================
