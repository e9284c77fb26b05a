------------------------- MODULE AsyncLoggingProofs -------------------------
(***************************************************************************)
(* Proofs about AsyncLogging for any lines, buffers, backlogs and errors:  *)
(* the spare buffers never run out, and every line reaches the file once   *)
(* and in its place, or is one of those counted as lost.                   *)
(***************************************************************************)
EXTENDS AsyncLogging, SequenceTheorems, TLAPS

\* The first part of NotWritten: what the writer has still to go through.
Pending == SubSeq(buffers_to_write, written + 1, Len(buffers_to_write))

\* The list being written holds as many buffers as the writer has given away.
SparesInList ==
    /\ next_buffer_ = Null => buffers_ # <<>>
    /\ pc \notin {"drop", "write"} => buffers_to_write = <<>>
    /\ pc = "drop" => written = 0
    /\ pc \in {"drop", "write"} =>
          /\ new_buffer1 = Null
          /\ Len(buffers_to_write) >= 1
          /\ new_buffer2 = Empty \/ (new_buffer2 = Null /\ Len(buffers_to_write) >= 2)

\* The writer begins with start(), and is joined when it has finished.
OwnerAndWriter ==
    /\ owner = "created" => pc = "none"
    /\ owner = "stopped" => pc = "finished"

\* What stop() found in the buffers of the appenders is on its way to the file,
\* or waits for the exchange.
PromiseOnItsWay ==
    pc \notin {"enter", "wait"} => promised \subseteq Range(file) \union lost \union LinesIn(Pending)

LoggerInvariant ==
    /\ TypeOK /\ BuffersAtHand /\ SparesInList
    /\ OnceInOrder /\ OwnerAndWriter /\ PromiseOnItsWay

-----------------------------------------------------------------------------
(* Lines and buffers in sequence *)

\* The first n of a sequence and the others.
LEMMA TwoParts ==
    ASSUME NEW S, NEW s \in Seq(S), NEW n \in 0..Len(s)
    PROVE  /\ SubSeq(s, 1, n) \in Seq(S) /\ Len(SubSeq(s, 1, n)) = n
           /\ SubSeq(s, n + 1, Len(s)) \in Seq(S) /\ Len(SubSeq(s, n + 1, Len(s))) = Len(s) - n
           /\ SubSeq(s, 1, n) \o SubSeq(s, n + 1, Len(s)) = s
<1> DEFINE k == Len(s)
<1>1. k \in Nat /\ n \in Int /\ 0 <= n /\ n <= k
  BY LenProperties
<1>2. \A i \in 1..k : s[i] \in S
  BY ElementOfSeq
<1> HIDE DEF k
<1>3. SubSeq(s, 1, n) \in Seq(S) /\ Len(SubSeq(s, 1, n)) = n
  <2>1. \A i \in 1..n : s[i] \in S
    BY <1>1, <1>2
  <2>2. /\ SubSeq(s, 1, n) \in Seq(S)
        /\ Len(SubSeq(s, 1, n)) = IF 1 <= n THEN n - 1 + 1 ELSE 0
    BY <1>1, <2>1, SubSeqProperties
  <2>3. QED
    BY <1>1, <2>2
<1>4. SubSeq(s, n + 1, k) \in Seq(S) /\ Len(SubSeq(s, n + 1, k)) = k - n
  <2> DEFINE m == n + 1
  <2>1. m \in Int /\ k - m + 1 = k - n
    BY <1>1
  <2>2. \A i \in m..k : s[i] \in S
    BY <1>1, <1>2
  <2>3. m <= k <=> ~(k - n = 0)
    BY <1>1
  <2> HIDE DEF m
  <2>4. /\ SubSeq(s, m, k) \in Seq(S)
        /\ Len(SubSeq(s, m, k)) = IF m <= k THEN k - m + 1 ELSE 0
    BY <1>1, <2>1, <2>2, SubSeqProperties
  <2>5. QED
    BY <2>1, <2>3, <2>4 DEF m
<1>5. SubSeq(s, 1, n) \o SubSeq(s, n + 1, k) = s
  <2>1. 1 \in 1..Len(s) + 1 /\ n \in 1 - 1..Len(s) /\ k \in n..Len(s)
    BY <1>1 DEF k
  <2>2. SubSeq(s, 1, n) \o SubSeq(s, n + 1, k) = SubSeq(s, 1, k)
    BY <2>1, ConcatAdjacentSubSeq
  <2>3. SubSeq(s, 1, k) = s
    BY SubSeqFull DEF k
  <2>4. QED
    BY <2>2, <2>3
<1>6. QED
  BY <1>3, <1>4, <1>5 DEF k

\* The elements of a sequence are those at its indices.
LEMMA RangeElements ==
    ASSUME NEW S, NEW s \in Seq(S)
    PROVE  /\ Range(s) \subseteq S
           /\ \A x : x \in Range(s) <=> \E i \in 1..Len(s) : s[i] = x
BY LenProperties, ElementOfSeq DEF Range

\* Lines behind lines.
LEMMA IncreasingConcat ==
    ASSUME NEW s \in Seq(Nat), NEW t \in Seq(Nat)
    PROVE  Increasing(s \o t) <=>
               Increasing(s) /\ Increasing(t) /\ Before(Range(s), Range(t))
<1> DEFINE u == s \o t
           m == Len(s)
           n == Len(t)
<1>1. /\ m \in Nat /\ n \in Nat
      /\ DOMAIN s = 1..m /\ DOMAIN t = 1..n
      /\ \A i \in 1..m : s[i] \in Nat
      /\ \A i \in 1..n : t[i] \in Nat
  BY LenProperties, ElementOfSeq
<1>2. /\ u \in Seq(Nat) /\ Len(u) = Len(s) + Len(t)
      /\ \A i \in 1..Len(s) + Len(t) : u[i] = IF i <= Len(s) THEN s[i] ELSE t[i - Len(s)]
  BY ConcatProperties
<1> HIDE DEF u
<1>3. DOMAIN u = 1..m + n
  BY <1>2, LenProperties
<1>4. /\ \A i \in 1..m : u[i] = s[i]
      /\ \A i \in 1..n : u[m + i] = t[i]
  <2>1. \A i \in 1..m : u[i] = s[i]
    BY <1>1, <1>2
  <2>2. ASSUME NEW i \in 1..n
        PROVE  u[m + i] = t[i]
    <3> DEFINE j == m + i
    <3>1. j \in 1..Len(s) + Len(t) /\ ~(j <= Len(s)) /\ j - Len(s) = i
      BY <1>1, <2>2
    <3> HIDE DEF j
    <3>2. u[j] = t[i]
      BY <1>2, <3>1
    <3>3. QED
      BY <3>2 DEF j
  <2>3. QED
    BY <2>1, <2>2
<1>5. ASSUME Increasing(u)
      PROVE  Increasing(s) /\ Increasing(t) /\ Before(Range(s), Range(t))
  <2>1. Increasing(s)
    BY <1>1, <1>3, <1>4, <1>5 DEF Increasing
  <2>2. ASSUME NEW i \in 1..n, NEW j \in 1..n, i < j
        PROVE  t[i] < t[j]
    <3>1. m + i \in 1..m + n /\ m + j \in 1..m + n /\ m + i < m + j
      BY <1>1, <2>2
    <3>2. u[m + i] < u[m + j]
      BY <1>3, <1>5, <3>1 DEF Increasing
    <3>3. QED
      BY <1>4, <2>2, <3>2
  <2>3. ASSUME NEW i \in 1..m, NEW j \in 1..n
        PROVE  s[i] < t[j]
    <3>1. i \in 1..m + n /\ m + j \in 1..m + n /\ i < m + j
      BY <1>1, <2>3
    <3>2. u[i] < u[m + j]
      BY <1>3, <1>5, <3>1 DEF Increasing
    <3>3. QED
      BY <1>4, <2>3, <3>2
  <2>4. QED
    BY <1>1, <2>1, <2>2, <2>3 DEF Increasing, Before, Range
<1>6. ASSUME Increasing(s), Increasing(t), Before(Range(s), Range(t))
      PROVE  Increasing(u)
  <2>1. ASSUME NEW i \in 1..m + n, NEW j \in 1..m + n, i < j
        PROVE  u[i] < u[j]
    <3>1. CASE j <= m
      <4>1. i \in 1..m /\ j \in 1..m
        BY <1>1, <2>1, <3>1
      <4>2. QED
        BY <1>1, <1>4, <1>6, <2>1, <4>1 DEF Increasing
    <3>2. CASE i <= m /\ ~(j <= m)
      <4> DEFINE k == j - m
      <4>1. i \in 1..m /\ k \in 1..n /\ j = m + k
        BY <1>1, <2>1, <3>2
      <4> HIDE DEF k
      <4>2. s[i] < t[k]
        BY <1>1, <1>6, <4>1 DEF Before, Range
      <4>3. QED
        BY <1>4, <4>1, <4>2
    <3>3. CASE ~(i <= m)
      <4> DEFINE k == j - m
                 l == i - m
      <4>1. l \in 1..n /\ k \in 1..n /\ j = m + k /\ i = m + l /\ l < k
        BY <1>1, <2>1, <3>3
      <4> HIDE DEF k, l
      <4>2. t[l] < t[k]
        BY <1>1, <1>6, <4>1 DEF Increasing
      <4>3. QED
        BY <1>4, <4>1, <4>2
    <3>4. QED
      BY <3>1, <3>2, <3>3
  <2>2. QED
    BY <1>3, <2>1 DEF Increasing
<1>7. QED
  BY <1>5, <1>6 DEF u

\* The elements of two sequences in the one they make.
LEMMA ConcatElements ==
    ASSUME NEW S, NEW s \in Seq(S), NEW t \in Seq(S)
    PROVE  /\ s \o t \in Seq(S) /\ DOMAIN (s \o t) = 1..Len(s) + Len(t)
           /\ \A i \in 1..Len(s) : i \in 1..Len(s) + Len(t) /\ (s \o t)[i] = s[i]
           /\ \A i \in 1..Len(t) :
                 Len(s) + i \in 1..Len(s) + Len(t) /\ (s \o t)[Len(s) + i] = t[i]
           /\ \A k \in 1..Len(s) + Len(t) :
                 k \in 1..Len(s) \/ \E i \in 1..Len(t) : k = Len(s) + i
<1> DEFINE u == s \o t
           m == Len(s)
           n == Len(t)
<1>1. m \in Nat /\ n \in Nat
  BY LenProperties
<1>2. /\ u \in Seq(S) /\ Len(u) = m + n
      /\ \A i \in 1..m + n : u[i] = IF i <= m THEN s[i] ELSE t[i - m]
  BY ConcatProperties
<1> HIDE DEF u, m, n
<1>3. DOMAIN u = 1..m + n
  BY <1>2, LenProperties
<1>4. \A i \in 1..m : i \in 1..m + n /\ u[i] = s[i]
  BY <1>1, <1>2
<1>5. ASSUME NEW i \in 1..n
      PROVE  m + i \in 1..m + n /\ u[m + i] = t[i]
  <2> DEFINE j == m + i
  <2>1. j \in 1..m + n /\ ~(j <= m) /\ j - m = i
    BY <1>1, <1>5
  <2> HIDE DEF j
  <2>2. u[j] = t[i]
    BY <1>2, <2>1
  <2>3. QED
    BY <2>1, <2>2 DEF j
<1>6. ASSUME NEW k \in 1..m + n, k \notin 1..m
      PROVE  \E i \in 1..n : k = m + i
  <2>1. k - m \in 1..n /\ k = m + (k - m)
    BY <1>1, <1>6
  <2>2. QED
    BY <2>1
<1>7. QED
  BY <1>2, <1>3, <1>4, <1>5, <1>6 DEF u, m, n

\* The lines of a list of buffers are those of each of them.
LEMMA LinesInBuffers ==
    ASSUME NEW a \in Seq(BufferType)
    PROVE  /\ \A x : x \in LinesIn(a) <=> \E i \in 1..Len(a) : x \in Range(a[i].lines)
           /\ LinesIn(a) \subseteq 1..MaxLines
<1>1. DOMAIN a = 1..Len(a) /\ \A i \in 1..Len(a) : a[i] \in BufferType
  BY LenProperties, ElementOfSeq
<1>2. \A i \in 1..Len(a) : a[i].lines \in Seq(1..MaxLines)
  BY <1>1 DEF BufferType
<1>3. \A i \in 1..Len(a) : Range(a[i].lines) \subseteq 1..MaxLines
  BY <1>2, RangeElements
<1>4. \A x : x \in LinesIn(a) <=> \E i \in 1..Len(a) : x \in Range(a[i].lines)
  BY <1>1 DEF LinesIn
<1>5. QED
  BY <1>3, <1>4

\* Buffers behind buffers.
LEMMA BuffersConcat ==
    ASSUME NEW a \in Seq(BufferType), NEW b \in Seq(BufferType)
    PROVE  /\ a \o b \in Seq(BufferType)
           /\ LinesIn(a \o b) = LinesIn(a) \union LinesIn(b)
           /\ InOrder(a \o b) <=>
                 InOrder(a) /\ InOrder(b) /\ Before(LinesIn(a), LinesIn(b))
<1> DEFINE u == a \o b
           m == Len(a)
           n == Len(b)
           T == BufferType
           L(c, i) == Range(c[i].lines)
           I(c, i) == Increasing(c[i].lines)
<1>1. /\ u \in Seq(T) /\ DOMAIN u = 1..m + n
      /\ \A i \in 1..m : i \in 1..m + n /\ u[i] = a[i]
      /\ \A i \in 1..n : m + i \in 1..m + n /\ u[m + i] = b[i]
      /\ \A k \in 1..m + n : k \in 1..m \/ \E i \in 1..n : k = m + i
  BY ConcatElements
<1>2. DOMAIN a = 1..m /\ DOMAIN b = 1..n /\ Len(u) = m + n /\ m \in Nat /\ n \in Nat
  BY LenProperties, ConcatProperties
<1>3. /\ \A x : x \in LinesIn(a) <=> \E i \in 1..m : x \in L(a, i)
      /\ \A x : x \in LinesIn(b) <=> \E i \in 1..n : x \in L(b, i)
  BY LinesInBuffers
<1>4. \A x : x \in LinesIn(u) <=> \E i \in 1..Len(u) : x \in L(u, i)
  BY <1>1, LinesInBuffers
<1>5. /\ InOrder(a) <=> /\ \A i \in 1..m : I(a, i)
                        /\ \A i, j \in 1..m : i < j => Before(L(a, i), L(a, j))
      /\ InOrder(b) <=> /\ \A i \in 1..n : I(b, i)
                        /\ \A i, j \in 1..n : i < j => Before(L(b, i), L(b, j))
      /\ InOrder(u) <=> /\ \A i \in 1..m + n : I(u, i)
                        /\ \A i, j \in 1..m + n : i < j => Before(L(u, i), L(u, j))
  BY <1>1, <1>2, Zenon DEF InOrder
<1>6. /\ \A i \in 1..m : L(u, i) = L(a, i) /\ I(u, i) = I(a, i)
      /\ \A i \in 1..n : L(u, m + i) = L(b, i) /\ I(u, m + i) = I(b, i)
  BY <1>1
<1> HIDE DEF u, m, n, T, L, I
<1>7. LinesIn(u) = LinesIn(a) \union LinesIn(b)
  <2>1. ASSUME NEW x \in LinesIn(u)
        PROVE  x \in LinesIn(a) \union LinesIn(b)
    <3>1. PICK k \in 1..m + n : x \in L(u, k)
      BY <1>2, <1>4, <2>1
    <3>2. QED
      BY <1>1, <1>3, <1>6, <3>1
  <2>2. ASSUME NEW x \in LinesIn(a)
        PROVE  x \in LinesIn(u)
    BY <1>1, <1>2, <1>3, <1>4, <1>6, <2>2
  <2>3. ASSUME NEW x \in LinesIn(b)
        PROVE  x \in LinesIn(u)
    BY <1>1, <1>2, <1>3, <1>4, <1>6, <2>3
  <2>4. QED
    BY <2>1, <2>2, <2>3
<1>8. ASSUME InOrder(u)
      PROVE  InOrder(a) /\ InOrder(b) /\ Before(LinesIn(a), LinesIn(b))
  <2>1. InOrder(a)
    <3>1. \A i \in 1..m : I(a, i)
      BY <1>1, <1>5, <1>6, <1>8
    <3>2. \A i, j \in 1..m : i < j => Before(L(a, i), L(a, j))
      BY <1>1, <1>5, <1>6, <1>8
    <3>3. QED
      BY <1>5, <3>1, <3>2
  <2>2. InOrder(b)
    <3>1. \A i \in 1..n : I(b, i)
      BY <1>1, <1>5, <1>6, <1>8
    <3>2. ASSUME NEW i \in 1..n, NEW j \in 1..n, i < j
          PROVE  Before(L(b, i), L(b, j))
      <4>1. m + i < m + j
        BY <1>2, <3>2
      <4>2. Before(L(u, m + i), L(u, m + j))
        BY <1>1, <1>5, <1>8, <3>2, <4>1
      <4>3. QED
        BY <1>6, <3>2, <4>2
    <3>3. QED
      BY <1>5, <3>1, <3>2
  <2>3. ASSUME NEW i \in 1..m, NEW j \in 1..n
        PROVE  Before(L(a, i), L(b, j))
    <3>1. i < m + j
      BY <1>2, <2>3
    <3>2. Before(L(u, i), L(u, m + j))
      BY <1>1, <1>5, <1>8, <2>3, <3>1
    <3>3. QED
      BY <1>6, <2>3, <3>2
  <2>4. Before(LinesIn(a), LinesIn(b))
    BY <1>3, <2>3 DEF Before
  <2>5. QED
    BY <2>1, <2>2, <2>4
<1>9. ASSUME InOrder(a), InOrder(b), Before(LinesIn(a), LinesIn(b))
      PROVE  InOrder(u)
  <2>1. \A i \in 1..m + n : I(u, i)
    BY <1>1, <1>5, <1>6, <1>9
  <2>2. ASSUME NEW i \in 1..m, NEW j \in 1..n
        PROVE  Before(L(a, i), L(b, j))
    BY <1>3, <1>9, <2>2 DEF Before
  <2>3. ASSUME NEW i \in 1..m + n, NEW j \in 1..m + n, i < j
        PROVE  Before(L(u, i), L(u, j))
    <3>1. CASE i \in 1..m /\ j \in 1..m
      BY <1>5, <1>6, <1>9, <2>3, <3>1
    <3>2. CASE i \in 1..m /\ j \notin 1..m
      <4>1. PICK l \in 1..n : j = m + l
        BY <1>1, <2>3, <3>2
      <4>2. QED
        BY <1>6, <2>2, <3>2, <4>1
    <3>3. CASE i \notin 1..m
      <4>1. PICK k \in 1..n : i = m + k
        BY <1>1, <2>3, <3>3
      <4>2. j \notin 1..m
        BY <1>2, <2>3, <4>1
      <4>3. PICK l \in 1..n : j = m + l
        BY <1>1, <2>3, <4>2
      <4>4. k < l
        BY <1>2, <2>3, <4>1, <4>3
      <4>5. Before(L(b, k), L(b, l))
        BY <1>5, <1>9, <4>4
      <4>6. QED
        BY <1>6, <4>1, <4>3, <4>5
    <3>4. QED
      BY <3>1, <3>2, <3>3
  <2>4. QED
    BY <1>5, <2>1, <2>3
<1>10. QED
  <2>1. u \in Seq(BufferType)
    BY <1>1 DEF T
  <2>2. QED
    BY <1>7, <1>8, <1>9, <2>1 DEF u

\* An empty list has no lines, and nothing out of order.
LEMMA NoBuffers == LinesIn(<<>>) = {} /\ InOrder(<<>>)
BY DEF LinesIn, InOrder

\* A list of one buffer has the lines of that buffer.
LEMMA OneBuffer ==
    ASSUME NEW c \in BufferType
    PROVE  /\ <<c>> \in Seq(BufferType)
           /\ LinesIn(<<c>>) = Range(c.lines)
           /\ InOrder(<<c>>) <=> Increasing(c.lines)
<1>1. <<c>> \in Seq(BufferType) /\ DOMAIN <<c>> = {1} /\ <<c>>[1] = c
  OBVIOUS
<1>2. LinesIn(<<c>>) = Range(c.lines)
  BY <1>1 DEF LinesIn
<1>3. InOrder(<<c>>) <=> Increasing(c.lines)
  BY <1>1 DEF InOrder
<1>4. QED
  BY <1>1, <1>2, <1>3

\* OnceInOrder, for each of the places where a line can be.
Placed(f, p, b, c, all) ==
    /\ Increasing(f) /\ InOrder(p) /\ InOrder(b) /\ Increasing(c.lines)
    /\ Before(Range(f), LinesIn(p)) /\ Before(Range(f), LinesIn(b))
    /\ Before(Range(f), Range(c.lines)) /\ Before(LinesIn(p), LinesIn(b))
    /\ Before(LinesIn(p), Range(c.lines)) /\ Before(LinesIn(b), Range(c.lines))
    /\ Range(f) \union LinesIn(p) \union LinesIn(b) \union Range(c.lines) = all

\* Three lists of buffers in a row are in order when each is, and each is
\* behind the ones before it.
LEMMA PlacesInOrder ==
    ASSUME NEW f, NEW p \in Seq(BufferType), NEW b \in Seq(BufferType),
           NEW c \in BufferType, NEW all
    PROVE  Placed(f, p, b, c, all) <=>
              /\ Increasing(f) /\ InOrder(p \o b \o <<c>>)
              /\ Before(Range(f), LinesIn(p \o b \o <<c>>))
              /\ Range(f) \union LinesIn(p \o b \o <<c>>) = all
<1> DEFINE P == LinesIn(p)
           B == LinesIn(b)
           C == Range(c.lines)
           F == Range(f)
<1>1. /\ p \o b \in Seq(BufferType) /\ LinesIn(p \o b) = P \union B
      /\ InOrder(p \o b) <=> InOrder(p) /\ InOrder(b) /\ Before(P, B)
  BY BuffersConcat
<1>2. /\ <<c>> \in Seq(BufferType) /\ LinesIn(<<c>>) = C
      /\ InOrder(<<c>>) <=> Increasing(c.lines)
  BY OneBuffer
<1>3. /\ LinesIn(p \o b \o <<c>>) = LinesIn(p \o b) \union LinesIn(<<c>>)
      /\ InOrder(p \o b \o <<c>>) <=>
            InOrder(p \o b) /\ InOrder(<<c>>) /\ Before(LinesIn(p \o b), LinesIn(<<c>>))
  BY <1>1, <1>2, BuffersConcat
<1>4. /\ Before(P \union B, C) <=> Before(P, C) /\ Before(B, C)
      /\ Before(F, P \union B \union C) <=> Before(F, P) /\ Before(F, B) /\ Before(F, C)
  BY Zenon DEF Before
<1>5. F \union (P \union B \union C) = F \union P \union B \union C
  OBVIOUS
<1>6. LinesIn(p \o b \o <<c>>) = P \union B \union C
  BY <1>1, <1>2, <1>3
<1>7. InOrder(p \o b \o <<c>>) <=>
         InOrder(p) /\ InOrder(b) /\ Before(P, B) /\ Increasing(c.lines) /\ Before(P \union B, C)
  BY <1>1, <1>2, <1>3
<1>8. Placed(f, p, b, c, all) <=>
    /\ Increasing(f) /\ InOrder(p) /\ InOrder(b) /\ Increasing(c.lines)
    /\ Before(F, P) /\ Before(F, B) /\ Before(F, C) /\ Before(P, B)
    /\ Before(P, C) /\ Before(B, C)
    /\ F \union P \union B \union C = all
  BY DEF Placed
<1> HIDE DEF P, B, C, F
<1>9. QED
  <2>1. /\ Before(F, LinesIn(p \o b \o <<c>>)) <=> Before(F, P) /\ Before(F, B) /\ Before(F, C)
        /\ F \union LinesIn(p \o b \o <<c>>) = all <=> F \union P \union B \union C = all
    BY <1>4, <1>5, <1>6
  <2>2. QED
    BY <1>4, <1>7, <1>8, <2>1 DEF F

\* What the writer has still to go through.
LEMMA PendingBuffers ==
    ASSUME NEW s \in Seq(BufferType), NEW n \in 0..Len(s)
    PROVE  /\ SubSeq(s, n + 1, Len(s)) \in Seq(BufferType)
           /\ n = Len(s) => SubSeq(s, n + 1, Len(s)) = <<>>
           /\ n = 0 => SubSeq(s, n + 1, Len(s)) = s
<1>1. /\ SubSeq(s, n + 1, Len(s)) \in Seq(BufferType)
      /\ Len(SubSeq(s, n + 1, Len(s))) = Len(s) - n
  BY TwoParts
<1>2. Len(s) \in Nat
  BY LenProperties
<1>3. ASSUME n = Len(s)
      PROVE  SubSeq(s, n + 1, Len(s)) = <<>>
  <2>1. Len(SubSeq(s, n + 1, Len(s))) = 0
    BY <1>1, <1>2, <1>3
  <2>2. QED
    BY <1>1, <2>1, EmptySeq
<1>4. ASSUME n = 0
      PROVE  SubSeq(s, n + 1, Len(s)) = s
  <2>1. SubSeq(s, 1, Len(s)) = s
    BY SubSeqFull
  <2>2. n + 1 = 1
    BY <1>4
  <2>3. QED
    BY <2>1, <2>2
<1>5. QED
  BY <1>1, <1>3, <1>4

\* The elements of two sequences are those of the sequence they make.
LEMMA RangeConcat ==
    ASSUME NEW S, NEW s \in Seq(S), NEW t \in Seq(S)
    PROVE  Range(s \o t) = Range(s) \union Range(t)
<1> DEFINE u == s \o t
           m == Len(s)
           n == Len(t)
<1>1. /\ DOMAIN u = 1..m + n
      /\ \A i \in 1..m : i \in 1..m + n /\ u[i] = s[i]
      /\ \A i \in 1..n : m + i \in 1..m + n /\ u[m + i] = t[i]
      /\ \A k \in 1..m + n : k \in 1..m \/ \E i \in 1..n : k = m + i
  BY ConcatElements
<1>2. DOMAIN s = 1..m /\ DOMAIN t = 1..n
  BY LenProperties
<1> HIDE DEF u, m, n
<1>3. /\ \A x : x \in Range(u) <=> \E k \in 1..m + n : u[k] = x
      /\ \A x : x \in Range(s) <=> \E k \in 1..m : s[k] = x
      /\ \A x : x \in Range(t) <=> \E k \in 1..n : t[k] = x
  BY <1>1, <1>2 DEF Range
<1>4. ASSUME NEW x \in Range(u)
      PROVE  x \in Range(s) \union Range(t)
  <2>1. PICK k \in 1..m + n : u[k] = x
    BY <1>3, <1>4
  <2>2. QED
    BY <1>1, <1>3, <2>1
<1>5. ASSUME NEW x \in Range(s)
      PROVE  x \in Range(u)
  BY <1>1, <1>3, <1>5
<1>6. ASSUME NEW x \in Range(t)
      PROVE  x \in Range(u)
  BY <1>1, <1>3, <1>6
<1>7. Range(u) = Range(s) \union Range(t)
  BY <1>4, <1>5, <1>6
<1>8. QED
  BY <1>7 DEF u

\* A line behind all the others.
LEMMA NewLine ==
    ASSUME NEW s \in Seq(Nat), NEW m \in Nat, \A x \in Range(s) : x < m
    PROVE  /\ Range(Append(s, m)) = Range(s) \union {m}
           /\ Increasing(s) => Increasing(Append(s, m))
<1>1. /\ <<m>> \in Seq(Nat) /\ DOMAIN <<m>> = {1} /\ <<m>>[1] = m
      /\ Append(s, m) = s \o <<m>>
  BY AppendIsConcat
<1>2. Range(<<m>>) = {m} /\ Increasing(<<m>>)
  BY <1>1 DEF Range, Increasing
<1>3. Before(Range(s), Range(<<m>>))
  BY <1>2 DEF Before
<1>4. Range(s \o <<m>>) = Range(s) \union Range(<<m>>)
  <2> DEFINE t == <<m>>
  <2>1. t \in Seq(Nat)
    BY <1>1
  <2> HIDE DEF t
  <2>2. Range(s \o t) = Range(s) \union Range(t)
    BY <2>1, RangeConcat
  <2>3. QED
    BY <2>2 DEF t
<1>5. QED
  BY <1>1, <1>2, <1>3, <1>4, IncreasingConcat

\* append puts a line into a buffer, or leaves the buffer as it is.
LEMMA AppendLineProperties ==
    ASSUME NEW b \in BufferType, NEW line \in 1..MaxLines, NEW len \in Lengths
    PROVE  /\ AppendLine(b, line, len) \in BufferType
           /\ Fits(b, len) => AppendLine(b, line, len).lines = Append(b.lines, line)
           /\ ~Fits(b, len) => AppendLine(b, line, len) = b
           /\ Fits(Empty, len)
<1>1. len \in Nat /\ len <= kSmallBuffer /\ kSmallBuffer \in Nat /\ kLargeBuffer \in Nat
      /\ kSmallBuffer <= kLargeBuffer
  BY LengthAssumption, SizeAssumption
<1> HIDE DEF Lengths
<1>2. b.lines \in Seq(1..MaxLines) /\ b.len \in Nat /\ b.len <= kLargeBuffer
  BY <1>1 DEF BufferType
<1>3. Fits(Empty, len)
  BY <1>1 DEF Fits, Avail, Empty
<1>4. ASSUME Fits(b, len)
      PROVE  /\ AppendLine(b, line, len) \in BufferType
             /\ AppendLine(b, line, len).lines = Append(b.lines, line)
  <2>1. b.len + len \in 0..kLargeBuffer
    BY <1>1, <1>2, <1>4 DEF Fits, Avail
  <2>2. Append(b.lines, line) \in Seq(1..MaxLines)
    BY <1>2
  <2>3. AppendLine(b, line, len) = [lines |-> Append(b.lines, line), len |-> b.len + len]
    BY <1>4 DEF AppendLine
  <2>4. QED
    BY <2>1, <2>2, <2>3 DEF BufferType
<1>5. ASSUME ~Fits(b, len)
      PROVE  AppendLine(b, line, len) = b
  BY <1>5 DEF AppendLine
<1>6. QED
  BY <1>3, <1>4, <1>5

\* A buffer that has been reset is a buffer without lines (logstream.h:47).
LEMMA EmptyBuffer == Empty \in BufferType /\ Range(Empty.lines) = {} /\ Increasing(Empty.lines)
<1>1. kLargeBuffer \in Nat
  BY SizeAssumption
<1>2. Empty \in BufferType
  BY <1>1 DEF Empty, BufferType
<1>3. QED
  BY <1>2 DEF Empty, Range, Increasing

-----------------------------------------------------------------------------
(* The steps that move lines *)

PlacedNow == Placed(file, Pending, buffers_, current_buffer_, 1..appended \ lost)

\* What the invariant says of the variables that hold lines.
LEMMA Typed ==
    ASSUME LoggerInvariant
    PROVE  /\ current_buffer_ \in BufferType /\ buffers_ \in Seq(BufferType)
           /\ buffers_to_write \in Seq(BufferType) /\ written \in 0..Len(buffers_to_write)
           /\ Pending \in Seq(BufferType) /\ file \in Seq(1..MaxLines)
           /\ MaxLines \in Nat /\ 1..MaxLines \subseteq Nat
           /\ appended \in Nat /\ appended <= MaxLines /\ lost \subseteq 1..appended
           /\ PlacedNow
<1>1. current_buffer_ \in BufferType
  BY DEF LoggerInvariant, TypeOK, BuffersAtHand
<1>2. /\ buffers_ \in Seq(BufferType) /\ buffers_to_write \in Seq(BufferType)
      /\ written \in 0..Len(buffers_to_write) /\ file \in Seq(1..MaxLines)
      /\ appended \in 0..MaxLines /\ lost \subseteq 1..appended
  BY DEF LoggerInvariant, TypeOK
<1>3. /\ MaxLines \in Nat /\ 1..MaxLines \subseteq Nat /\ appended \in Nat
      /\ appended <= MaxLines
  BY <1>2, SizeAssumption
<1>4. Pending \in Seq(BufferType)
  BY <1>2, PendingBuffers DEF Pending
<1>5. PlacedNow
  <2>1. NotWritten = Pending \o buffers_ \o <<current_buffer_>>
    BY DEF NotWritten, Pending
  <2>2. OnceInOrder
    BY DEF LoggerInvariant
  <2> DEFINE q == Pending
             all == 1..appended \ lost
  <2> HIDE DEF q, all
  <2>3. PlacedNow <=> Placed(file, q, buffers_, current_buffer_, all)
    BY DEF q, all, PlacedNow
  <2>4. OnceInOrder <=>
              /\ Increasing(file) /\ InOrder(q \o buffers_ \o <<current_buffer_>>)
              /\ Before(Range(file), LinesIn(q \o buffers_ \o <<current_buffer_>>))
              /\ Range(file) \union LinesIn(q \o buffers_ \o <<current_buffer_>>) = all
    BY <2>1 DEF OnceInOrder, q, all
  <2>5. q \in Seq(BufferType)
    BY <1>4 DEF q
  <2>6. QED
    BY <1>1, <1>2, <2>2, <2>3, <2>4, <2>5, PlacesInOrder
<1>6. QED
  BY <1>1, <1>2, <1>3, <1>4, <1>5

\* Every line that is somewhere has been appended, and is in one place only.
LEMMA PlacedApart ==
    ASSUME LoggerInvariant
    PROVE  /\ Range(file) \union LinesIn(Pending) \union LinesIn(buffers_)
                 \union Range(current_buffer_.lines) \subseteq 1..appended
           /\ LinesIn(Pending) \intersect lost = {}
           /\ LinesIn(Pending) \intersect Range(file) = {}
           /\ LinesIn(Pending) \intersect (LinesIn(buffers_) \union Range(current_buffer_.lines)) = {}
<1>1. /\ PlacedNow /\ appended \in Nat
  BY Typed
<1> DEFINE P == LinesIn(Pending)
           B == LinesIn(buffers_)
           C == Range(current_buffer_.lines)
           F == Range(file)
<1>2. /\ F \union P \union B \union C = 1..appended \ lost
      /\ Before(F, P) /\ Before(P, B) /\ Before(P, C)
  BY <1>1 DEF PlacedNow, Placed
<1> HIDE DEF P, B, C, F
<1>3. \A x \in F \union P \union B \union C : x \in Nat
  BY <1>1, <1>2
<1>4. P \intersect F = {} /\ P \intersect B = {} /\ P \intersect C = {}
  BY <1>2, <1>3 DEF Before
<1>5. QED
  BY <1>2, <1>4 DEF P, B, C, F

\* The exchange gives the writer all that was appended, behind nothing else
\* (asynclogging.cc:77-80).
LEMMA ExchangeMoves ==
    ASSUME LoggerInvariant, Exchange
    PROVE  /\ Pending = <<>> /\ Pending' = Append(buffers_, current_buffer_)
           /\ buffers_to_write' = Append(buffers_, current_buffer_)
           /\ Pending' \in Seq(BufferType)
           /\ written = 0 /\ Len(buffers_to_write') = Len(buffers_) + 1
           /\ LinesIn(Pending') = LinesIn(buffers_) \union Range(current_buffer_.lines)
           /\ current_buffer_' = Empty
<1>1. /\ current_buffer_ \in BufferType /\ buffers_ \in Seq(BufferType)
      /\ written \in 0..Len(buffers_to_write)
  BY Typed
<1>2. /\ buffers_to_write = <<>> /\ new_buffer1 = Empty
      /\ pc = "wait"
  BY DEF LoggerInvariant, SparesInList, BuffersAtHand, Exchange, Wakes
<1>3. /\ buffers_to_write' = Append(buffers_, current_buffer_) /\ written' = written
      /\ current_buffer_' = new_buffer1
  BY DEF Exchange, Swap
<1>4. written = 0 /\ Len(buffers_to_write) = 0
  BY <1>1, <1>2
<1>5. Pending = <<>>
  BY <1>4, <1>2 DEF Pending
<1>6. /\ Append(buffers_, current_buffer_) \in Seq(BufferType)
      /\ Len(Append(buffers_, current_buffer_)) = Len(buffers_) + 1
      /\ Append(buffers_, current_buffer_) = buffers_ \o <<current_buffer_>>
  BY <1>1, AppendProperties, AppendIsConcat
<1>7. Pending' = buffers_to_write'
  <2> DEFINE w == buffers_to_write'
  <2>1. w \in Seq(BufferType)
    BY <1>3, <1>6
  <2>2. Pending' = SubSeq(w, written' + 1, Len(w))
    BY DEF Pending
  <2>3. written' + 1 = 1
    BY <1>3, <1>4
  <2> HIDE DEF w
  <2>4. Pending' = w
    BY <2>1, <2>2, <2>3, SubSeqFull
  <2>5. QED
    BY <2>4 DEF w
<1>8. LinesIn(Append(buffers_, current_buffer_)) = LinesIn(buffers_) \union Range(current_buffer_.lines)
  <2>1. LinesIn(<<current_buffer_>>) = Range(current_buffer_.lines) /\ <<current_buffer_>> \in Seq(BufferType)
    BY <1>1, OneBuffer
  <2>2. QED
    BY <1>1, <1>6, <2>1, BuffersConcat
<1>9. QED
  BY <1>2, <1>3, <1>4, <1>5, <1>6, <1>7, <1>8

\* Of a backlog the writer keeps the first buffers, in order.
LEMMA DropBacklogKeeps ==
    ASSUME LoggerInvariant, DropBacklog
    PROVE  /\ written = 0 /\ Pending = buffers_to_write
           /\ Pending' = buffers_to_write' /\ buffers_to_write' = Kept
           /\ Kept \in Seq(BufferType)
           /\ Len(Kept) <= Len(buffers_to_write)
           /\ Len(Kept) = Len(buffers_to_write) \/ Len(Kept) >= 2
           /\ LinesIn(Kept) \subseteq LinesIn(buffers_to_write)
           /\ InOrder(buffers_to_write) => InOrder(Kept)
<1> DEFINE s == buffers_to_write
           k == Kept
<1>1. s \in Seq(BufferType) /\ written = 0 /\ written' = written /\ buffers_to_write' = k
  BY Typed DEF LoggerInvariant, SparesInList, DropBacklog
<1>2. /\ KeptBuffers \in Nat /\ MaxBacklog \in Nat /\ KeptBuffers >= 2 /\ MaxBacklog >= KeptBuffers
      /\ Len(s) \in Nat
  BY <1>1, SpareAssumption, LenProperties
<1>3. k = s \/ (Len(s) > MaxBacklog /\ k = SubSeq(s, 1, KeptBuffers))
  BY DEF Kept
<1> HIDE DEF s, k
<1>4. /\ k \in Seq(BufferType) /\ Len(k) <= Len(s) /\ (Len(k) = Len(s) \/ Len(k) >= 2)
      /\ LinesIn(k) \subseteq LinesIn(s)
      /\ InOrder(s) => InOrder(k)
  <2>1. CASE k = s
    BY <1>1, <1>2, <2>1
  <2>2. CASE Len(s) > MaxBacklog /\ k = SubSeq(s, 1, KeptBuffers)
    <3>1. KeptBuffers \in 0..Len(s)
      BY <1>2, <2>2
    <3> DEFINE r == SubSeq(s, KeptBuffers + 1, Len(s))
    <3>2. /\ k \in Seq(BufferType) /\ Len(k) = KeptBuffers
          /\ r \in Seq(BufferType) /\ k \o r = s
      BY <1>1, <2>2, <3>1, TwoParts
    <3> HIDE DEF r
    <3>3. /\ LinesIn(k) \subseteq LinesIn(s)
          /\ InOrder(s) => InOrder(k)
      BY <3>2, BuffersConcat
    <3>4. QED
      BY <1>2, <2>2, <3>2, <3>3
  <2>3. QED
    BY <1>3, <2>1, <2>2
<1>5. Pending = s
  BY <1>1, SubSeqFull DEF s, Pending
<1>6. Pending' = k
  <2>1. Pending' = SubSeq(k, 1, Len(k))
    BY <1>1 DEF Pending
  <2>2. QED
    BY <1>4, <2>1, SubSeqFull
<1>7. QED
  BY <1>1, <1>4, <1>5, <1>6 DEF s, k

\* What is left of a list is its next buffer and what is left after that.
LEMMA NextBuffer ==
    ASSUME NEW s \in Seq(BufferType), NEW n \in Nat, n < Len(s)
    PROVE  /\ s[n + 1] \in BufferType
           /\ SubSeq(s, (n + 1) + 1, Len(s)) \in Seq(BufferType)
           /\ SubSeq(s, n + 1, Len(s)) = <<s[n + 1]>> \o SubSeq(s, (n + 1) + 1, Len(s))
<1> DEFINE k == Len(s)
           j == n + 1
<1>1. k \in Nat /\ j \in Nat /\ j \in 1..k /\ n < k
  BY LenProperties
<1>2. s[j] \in BufferType
  BY <1>1, ElementOfSeq
<1>3. SubSeq(s, j + 1, k) \in Seq(BufferType)
  <2>1. j \in 0..Len(s)
    BY <1>1
  <2> HIDE DEF j
  <2>2. QED
    BY <2>1, TwoParts
<1> HIDE DEF j
<1>4. SubSeq(s, j, j) = <<s[j]>>
  <2>1. /\ SubSeq(s, j, j) \in Seq(BufferType)
        /\ Len(SubSeq(s, j, j)) = IF j <= j THEN j - j + 1 ELSE 0
        /\ \A i \in 1..(j - j + 1) : SubSeq(s, j, j)[i] = s[j + i - 1]
    <3>1. \A i \in j..j : s[i] \in BufferType
      BY <1>1, <1>2
    <3>2. j \in Int
      BY <1>1
    <3>3. QED
      BY <3>1, <3>2, SubSeqProperties
  <2> DEFINE t == SubSeq(s, j, j)
  <2> HIDE DEF t
  <2>2. j - j + 1 = 1 /\ j + 1 - 1 = j
    BY <1>1
  <2>3. t \in Seq(BufferType) /\ Len(t) = 1 /\ t[1] = s[j]
    BY <1>1, <2>1, <2>2 DEF t
  <2>4. t = <<s[j]>>
    <3>1. /\ <<s[j]>> \in Seq(BufferType) /\ Len(<<s[j]>>) = 1 /\ <<s[j]>>[1] = s[j]
      BY <1>2
    <3>2. \A i \in 1..Len(t) : t[i] = <<s[j]>>[i]
      BY <2>3, <3>1
    <3>3. QED
      BY <2>3, <3>1, <3>2, SeqEqual
  <2>5. QED
    BY <2>4 DEF t
<1>5. SubSeq(s, j, j) \o SubSeq(s, j + 1, k) = SubSeq(s, j, k)
  <2>1. j \in 1..Len(s) + 1 /\ j \in j - 1..Len(s) /\ k \in j..Len(s)
    BY <1>1
  <2>2. QED
    BY <2>1, ConcatAdjacentSubSeq
<1>6. QED
  BY <1>2, <1>3, <1>4, <1>5 DEF j

\* Of the next buffer some first lines go to the file, and the others are lost.
LEMMA WriteBufferWrites ==
    ASSUME LoggerInvariant, WriteBuffer
    PROVE  \E done, rest \in Seq(1..MaxLines), buffer \in BufferType :
              /\ buffer.lines = done \o rest
              /\ Pending' \in Seq(BufferType)
              /\ Pending = <<buffer>> \o Pending'
              /\ file' = file \o done
              /\ lost' = lost \union Range(rest)
<1> DEFINE s == buffers_to_write
           n == written
           b == s[n + 1]
<1>1. /\ s \in Seq(BufferType) /\ n \in Nat /\ n < Len(s)
      /\ buffers_to_write' = s /\ written' = n + 1
  BY Typed DEF WriteBuffer
<1>2. /\ b \in BufferType
      /\ SubSeq(s, (n + 1) + 1, Len(s)) \in Seq(BufferType)
      /\ SubSeq(s, n + 1, Len(s)) = <<b>> \o SubSeq(s, (n + 1) + 1, Len(s))
  BY <1>1, NextBuffer
<1>3. Pending' \in Seq(BufferType) /\ Pending = <<b>> \o Pending'
  BY <1>1, <1>2 DEF Pending
<1>4. PICK cut \in Cuts(b.lines) :
            /\ file' = file \o SubSeq(b.lines, 1, cut)
            /\ lost' = lost \union Range(SubSeq(b.lines, cut + 1, Len(b.lines)))
  BY DEF WriteBuffer
<1> HIDE DEF b
<1>5. b.lines \in Seq(1..MaxLines)
  BY <1>2 DEF BufferType
<1>6. cut \in 0..Len(b.lines)
  <2>1. Len(b.lines) \in Nat
    BY <1>5, LenProperties
  <2>2. QED
    BY <1>4, <2>1 DEF Cuts
<1> DEFINE done == SubSeq(b.lines, 1, cut)
           rest == SubSeq(b.lines, cut + 1, Len(b.lines))
<1>7. /\ done \in Seq(1..MaxLines) /\ rest \in Seq(1..MaxLines)
      /\ done \o rest = b.lines
  BY <1>5, <1>6, TwoParts
<1>8. file' = file \o done /\ lost' = lost \union Range(rest)
  BY <1>4
<1> HIDE DEF done, rest
<1>9. QED
  BY <1>2, <1>3, <1>7, <1>8

\* When the loop over the list is done nothing is left to write
\* (asynclogging.cc:97-119).
LEMMA RecoverEmpties ==
    ASSUME LoggerInvariant, Recover
    PROVE  Pending = <<>> /\ Pending' = <<>>
<1>1. buffers_to_write \in Seq(BufferType) /\ written = Len(buffers_to_write)
      /\ written \in 0..Len(buffers_to_write) /\ buffers_to_write' = <<>> /\ written' = 0
  BY Typed DEF Recover
<1>2. Pending = <<>>
  BY <1>1, PendingBuffers DEF Pending
<1>3. Pending' = SubSeq(<<>>, 0 + 1, 0)
  BY <1>1 DEF Pending
<1>4. QED
  BY <1>2, <1>3

\* A new line goes behind those of the current buffer, is left out of it, or is
\* the first of the next one.
LEMMA AppendMoves ==
    ASSUME LoggerInvariant, AppendMessage
    PROVE  /\ appended + 1 \in 1..MaxLines /\ appended' = appended + 1
           /\ current_buffer_' \in BufferType
           /\ \/ /\ current_buffer_'.lines = Append(current_buffer_.lines, appended + 1)
                 /\ UNCHANGED <<next_buffer_, buffers_, lost>>
              \/ /\ lost' = lost \union {appended + 1}
                 /\ UNCHANGED <<current_buffer_, next_buffer_, buffers_>>
              \/ /\ buffers_' = Append(buffers_, current_buffer_)
                 /\ current_buffer_'.lines = <<appended + 1>>
                 /\ next_buffer_' = Null
                 /\ UNCHANGED lost
<1> DEFINE l == appended + 1
<1>1. /\ l \in 1..MaxLines /\ current_buffer_ \in BufferType
  BY Typed, SizeAssumption DEF AppendMessage
<1>2. PICK len \in Lengths : AppendToCurrent(l, len) \/ AppendToNext(l, len)
  BY DEF AppendMessage
<1>3. appended' = l
  BY DEF AppendMessage
<1> HIDE DEF l, Lengths
<1>4. CASE AppendToCurrent(l, len)
  <2>1. CASE Fits(current_buffer_, len)
    <3>1. /\ current_buffer_' = AppendLine(current_buffer_, l, len)
          /\ UNCHANGED <<next_buffer_, buffers_, lost>>
      BY <1>4, <2>1 DEF AppendToCurrent
    <3>2. /\ AppendLine(current_buffer_, l, len) \in BufferType
          /\ AppendLine(current_buffer_, l, len).lines = Append(current_buffer_.lines, l)
      BY <1>1, <2>1, AppendLineProperties
    <3>3. QED
      BY <1>1, <1>3, <3>1, <3>2 DEF l
  <2>2. CASE ~Fits(current_buffer_, len)
    <3>1. /\ current_buffer_' = AppendLine(current_buffer_, l, len)
          /\ lost' = lost \union {l}
          /\ UNCHANGED <<next_buffer_, buffers_>>
      BY <1>4, <2>2 DEF AppendToCurrent
    <3>2. AppendLine(current_buffer_, l, len) = current_buffer_
      BY <2>2 DEF AppendLine
    <3>3. QED
      BY <1>1, <1>3, <3>1, <3>2 DEF l
  <2>3. QED
    BY <2>1, <2>2
<1>5. CASE AppendToNext(l, len)
  <2>1. (IF next_buffer_ # Null THEN next_buffer_ ELSE Empty) = Empty
    BY DEF LoggerInvariant, BuffersAtHand
  <2>2. /\ buffers_' = Append(buffers_, current_buffer_)
        /\ current_buffer_' = AppendLine(Empty, l, len)
        /\ next_buffer_' = Null /\ UNCHANGED lost
    BY <1>5, <2>1 DEF AppendToNext
  <2>3. /\ Empty \in BufferType /\ Empty.lines = <<>>
    BY EmptyBuffer DEF Empty
  <2>4. /\ AppendLine(Empty, l, len) \in BufferType
        /\ AppendLine(Empty, l, len).lines = Append(Empty.lines, l)
    BY <1>1, <2>3, AppendLineProperties
  <2>5. AppendLine(Empty, l, len).lines = <<l>>
    BY <2>3, <2>4
  <2>6. QED
    BY <1>1, <1>3, <2>2, <2>4, <2>5 DEF l
<1>6. QED
  BY <1>2, <1>4, <1>5

-----------------------------------------------------------------------------
(* The parts of the invariant *)

\* What the writer gives away it gets back: an exchange leaves the appenders
\* with empty buffers, and the list it takes holds two buffers if it gave away
\* both of its own.
LEMMA SparesStep ==
    ASSUME LoggerInvariant, Next
    PROVE  BuffersAtHand' /\ SparesInList'
<1>1. /\ current_buffer_ \in BufferType /\ buffers_ \in Seq(BufferType)
      /\ buffers_to_write \in Seq(BufferType) /\ written \in 0..Len(buffers_to_write)
  BY Typed
<1>2. Len(buffers_) \in Nat /\ Len(buffers_to_write) \in Nat
  BY <1>1, LenProperties
<1>3. Empty # Null /\ Null \notin BufferType
  BY EmptyBuffer, NullAssumption
<1>4. BuffersAtHand /\ SparesInList /\ OwnerAndWriter
  BY DEF LoggerInvariant
<1>5. CASE AppendMessage
  <2>1. UNCHANGED <<spareVars, pc, writeVars>>
    BY <1>5 DEF AppendMessage
  <2>2. /\ current_buffer_' \in BufferType
        /\ \/ UNCHANGED <<next_buffer_, buffers_>>
           \/ next_buffer_' = Null /\ buffers_' = Append(buffers_, current_buffer_)
    BY <1>5, AppendMoves
  <2>3. Append(buffers_, current_buffer_) # <<>>
    BY <1>1
  <2>4. BuffersAtHand'
    BY <1>3, <1>4, <2>1, <2>2 DEF BuffersAtHand, spareVars
  <2>5. SparesInList'
    BY <1>4, <2>1, <2>2, <2>3 DEF SparesInList, spareVars, writeVars
  <2>6. QED
    BY <2>4, <2>5
<1>6. CASE Owner
  <2>1. /\ UNCHANGED <<frontVars, spareVars, writeVars>>
        /\ pc' = pc \/ (pc = "none" /\ pc' = "begin")
    BY <1>4, <1>6 DEF Owner, Start, StartReturns, StopRunning, StopNotifies, Joined, OwnerAndWriter
  <2>2. QED
    BY <1>4, <2>1 DEF BuffersAtHand, SparesInList, frontVars, spareVars, writeVars
<1>7. CASE WriterBegins
  BY <1>4, <1>7 DEF WriterBegins, BuffersAtHand, SparesInList, frontVars, writeVars
<1>8. CASE TestRunning
  BY <1>4, <1>8 DEF TestRunning, BuffersAtHand, SparesInList, frontVars, spareVars, writeVars
<1>9. CASE Wait
  BY <1>4, <1>9 DEF Wait, BuffersAtHand, SparesInList, frontVars, spareVars, writeVars
<1>10. CASE Exchange
  <2>1. /\ written = 0 /\ current_buffer_' = Empty
        /\ Len(buffers_to_write') = Len(buffers_) + 1
    BY <1>10, ExchangeMoves
  <2>2. /\ pc = "wait" /\ pc' = "drop" /\ written' = written /\ new_buffer1' = Null
        /\ buffers_' = <<>>
        /\ \/ next_buffer_ = Null /\ next_buffer_' = new_buffer2 /\ new_buffer2' = Null
           \/ next_buffer_ # Null /\ UNCHANGED <<next_buffer_, new_buffer2>>
    BY <1>10 DEF Exchange, Swap, Wakes
  <2>3. next_buffer_ = Null => Len(buffers_) >= 1
    <3>1. next_buffer_ = Null => Len(buffers_) # 0
      BY <1>1, <1>4, EmptySeq DEF SparesInList
    <3>2. QED
      BY <1>2, <3>1
  <2>4. new_buffer2 = Empty
    BY <1>4, <2>2 DEF BuffersAtHand
  <2>5. next_buffer_' = Empty
    BY <1>3, <1>4, <2>2, <2>4 DEF BuffersAtHand
  <2>6. Len(buffers_to_write') >= 1 /\ (new_buffer2' = Empty \/ (new_buffer2' = Null /\ Len(buffers_to_write') >= 2))
    BY <1>2, <2>1, <2>2, <2>3, <2>4
  <2>7. BuffersAtHand'
    BY <1>3, <2>1, <2>2, <2>5 DEF BuffersAtHand
  <2>8. SparesInList'
    BY <1>3, <2>1, <2>2, <2>5, <2>6 DEF SparesInList
  <2>9. QED
    BY <2>7, <2>8
<1>11. CASE DropBacklog
  <2>1. /\ buffers_to_write' = Kept /\ Len(Kept) \in Nat
        /\ Len(Kept) = Len(buffers_to_write) \/ Len(Kept) >= 2
    BY <1>11, DropBacklogKeeps, LenProperties
  <2>2. pc = "drop" /\ pc' = "write" /\ UNCHANGED <<frontVars, spareVars>>
    BY <1>11 DEF DropBacklog
  <2>3. /\ new_buffer1 = Null /\ Len(buffers_to_write) >= 1
        /\ new_buffer2 = Empty \/ (new_buffer2 = Null /\ Len(buffers_to_write) >= 2)
    BY <1>4, <2>2 DEF SparesInList
  <2>4. /\ Len(buffers_to_write') >= 1
        /\ new_buffer2 = Empty \/ (new_buffer2 = Null /\ Len(buffers_to_write') >= 2)
    BY <2>1, <2>3
  <2>5. BuffersAtHand'
    BY <1>4, <2>2 DEF BuffersAtHand, frontVars, spareVars
  <2>6. SparesInList'
    BY <1>4, <2>2, <2>3, <2>4 DEF SparesInList, frontVars, spareVars
  <2>7. QED
    BY <2>5, <2>6
<1>12. CASE WriteBuffer
  BY <1>4, <1>12 DEF WriteBuffer, BuffersAtHand, SparesInList, frontVars, spareVars
<1>13. CASE Recover
  <2> DEFINE k == Len(buffers_to_write)
             two == SubSeq(buffers_to_write, 1, IF written > 2 THEN 2 ELSE written)
             rest == SubSeq(two, 1, Len(two) - 1)
  <2>1. /\ pc = "write" /\ pc' = "test" /\ written = k /\ buffers_to_write' = <<>>
        /\ UNCHANGED frontVars
    BY <1>13 DEF Recover
  <2>2. /\ new_buffer1 = Null /\ k >= 1
        /\ new_buffer2 = Empty \/ (new_buffer2 = Null /\ k >= 2)
    BY <1>4, <2>1 DEF SparesInList
  <2>3. /\ new_buffer1' = Reset(Back(two))
        /\ new_buffer2' = IF new_buffer2 = Null THEN Reset(Back(rest)) ELSE new_buffer2
    BY <1>13, <2>2 DEF Recover
  <2>4. \A s \in Seq(BufferType) : Len(s) >= 1 => Reset(Back(s)) = Empty
    <3>1. ASSUME NEW s \in Seq(BufferType), Len(s) >= 1
          PROVE  Reset(Back(s)) = Empty
      <4>1. s # <<>> /\ Last(s) = s[Len(s)] /\ Len(s) \in 1..Len(s)
        BY <3>1, LenProperties DEF Last
      <4>2. s[Len(s)] \in BufferType
        BY <4>1, ElementOfSeq
      <4>3. Back(s) \in BufferType
        BY <4>1, <4>2 DEF Back
      <4>4. QED
        BY <1>3, <4>3 DEF Reset
    <3>2. QED
      BY <3>1
  <2> DEFINE n == IF written > 2 THEN 2 ELSE written
  <2>5. n \in 0..k /\ n \in 1..2 /\ (k >= 2 => n = 2)
    BY <1>2, <2>1, <2>2
  <2>6. two \in Seq(BufferType) /\ Len(two) = n
    <3> HIDE DEF n
    <3>1. SubSeq(buffers_to_write, 1, n) \in Seq(BufferType) /\ Len(SubSeq(buffers_to_write, 1, n)) = n
      BY <1>1, <2>5, TwoParts
    <3>2. QED
      BY <3>1 DEF n
  <2>7. rest \in Seq(BufferType) /\ Len(rest) = n - 1
    <3> HIDE DEF two, n
    <3>1. Len(two) - 1 \in 0..Len(two)
      BY <2>5, <2>6
    <3> DEFINE j == Len(two) - 1
    <3> HIDE DEF j
    <3>2. SubSeq(two, 1, j) \in Seq(BufferType) /\ Len(SubSeq(two, 1, j)) = j
      <4>1. j \in 0..Len(two)
        BY <3>1 DEF j
      <4>2. QED
        BY <2>6, <4>1, TwoParts
    <3>3. QED
      BY <2>6, <3>2 DEF j
  <2> HIDE DEF rest, two, n
  <2>8. new_buffer1' = Empty /\ new_buffer2' = Empty
    <3>1. Len(two) >= 1 /\ (k >= 2 => Len(rest) >= 1)
      BY <2>5, <2>6, <2>7
    <3>2. new_buffer1' = Empty
      BY <2>3, <2>4, <2>6, <3>1
    <3>3. new_buffer2' = Empty
      BY <1>3, <2>2, <2>3, <2>4, <2>7, <3>1
    <3>4. QED
      BY <3>2, <3>3
  <2>9. QED
    BY <1>4, <2>1, <2>8 DEF BuffersAtHand, SparesInList, frontVars
<1>14. QED
  BY <1>5, <1>6, <1>7, <1>8, <1>9, <1>10, <1>11, <1>12, <1>13 DEF Next, Writer

\* TypeOK is preserved: where a step moves lines, by what it does with them.
LEMMA TypeStep ==
    ASSUME LoggerInvariant, Next, BuffersAtHand', SparesInList'
    PROVE  TypeOK'
<1>1. /\ current_buffer_ \in BufferType /\ buffers_ \in Seq(BufferType)
      /\ buffers_to_write \in Seq(BufferType) /\ written \in 0..Len(buffers_to_write)
      /\ file \in Seq(1..MaxLines) /\ MaxLines \in Nat /\ appended \in Nat
      /\ lost \subseteq 1..appended /\ appended <= MaxLines
      /\ Len(buffers_to_write) \in Nat
  BY Typed, LenProperties
<1>2. TypeOK
  BY DEF LoggerInvariant
<1>3. Empty \in BufferType
  BY EmptyBuffer
<1>4. /\ {next_buffer_, new_buffer1, new_buffer2} \subseteq BufferType \union {Null}
      /\ running_ \in BOOLEAN
      /\ owner \in {"created", "starting", "started", "stopping", "joining", "stopped"}
      /\ pc \in {"none", "begin", "test", "enter", "wait", "drop", "write", "finished"}
      /\ errors \in 0..MaxErrors /\ promised \subseteq 1..appended
  BY <1>2 DEF TypeOK
<1>5. CASE AppendMessage
  <2>1. /\ appended' = appended + 1 /\ appended + 1 \in 1..MaxLines
        /\ current_buffer_' \in BufferType
        /\ \/ UNCHANGED <<next_buffer_, buffers_, lost>>
           \/ UNCHANGED <<next_buffer_, buffers_>> /\ lost' = lost \union {appended + 1}
           \/ /\ buffers_' = Append(buffers_, current_buffer_)
              /\ next_buffer_' = Null /\ UNCHANGED lost
    BY <1>5, AppendMoves
  <2>2. UNCHANGED <<spareVars, ownerVars, pc, writeVars, file, errors>>
    BY <1>5 DEF AppendMessage
  <2>3. /\ {current_buffer_', next_buffer_', new_buffer1', new_buffer2'}
              \subseteq BufferType \union {Null}
        /\ buffers_' \in Seq(BufferType) /\ buffers_to_write' \in Seq(BufferType)
        /\ written' \in 0..Len(buffers_to_write') /\ file' \in Seq(1..MaxLines)
    <3>1. Append(buffers_, current_buffer_) \in Seq(BufferType)
      BY <1>1, AppendProperties
    <3>2. buffers_' \in Seq(BufferType)
      BY <1>1, <2>1, <3>1
    <3>3. UNCHANGED <<new_buffer1, new_buffer2, buffers_to_write, written, file>>
      BY <2>2 DEF spareVars, writeVars
    <3>4. next_buffer_' \in BufferType \union {Null}
      BY <1>4, <2>1
    <3>5. QED
      BY <1>1, <1>4, <2>1, <3>2, <3>3, <3>4
  <2>4. appended' \in 0..MaxLines /\ 1..appended \subseteq 1..appended'
        /\ appended + 1 \in 1..appended'
    BY <1>1, <2>1
  <2>5. lost' \subseteq 1..appended' /\ promised' \subseteq 1..appended'
    BY <1>1, <1>4, <2>1, <2>2, <2>4 DEF ownerVars
  <2>6. running_' \in BOOLEAN
    BY <1>4, <2>2, Zenon DEF ownerVars
  <2>7. QED
    BY <1>4, <2>2, <2>3, <2>4, <2>5, <2>6 DEF TypeOK, ownerVars
<1>6. CASE Owner
  <2>1. UNCHANGED <<frontVars, spareVars, writeVars, file, errors, lost>>
    BY <1>6 DEF Owner, Start, StartReturns, StopRunning, StopNotifies, Joined
  <2>2. running_' \in BOOLEAN
    BY <1>4, <1>6, Zenon DEF Owner, Start, StartReturns, StopRunning, StopNotifies, Joined
  <2>3. /\ owner' \in {"created", "starting", "started", "stopping", "joining", "stopped"}
        /\ pc' \in {"none", "begin", "test", "enter", "wait", "drop", "write", "finished"}
        /\ promised' \subseteq 1..appended
    BY <1>4, <1>6 DEF Owner, Start, StartReturns, StopRunning, StopNotifies, Joined
  <2>4. QED
    BY <1>2, <2>1, <2>2, <2>3 DEF TypeOK, frontVars, spareVars, writeVars
<1>7. CASE WriterBegins
  BY <1>2, <1>3, <1>7 DEF WriterBegins, TypeOK, frontVars, ownerVars, writeVars
<1>8. CASE TestRunning
  BY <1>2, <1>8 DEF TestRunning, TypeOK, frontVars, spareVars, ownerVars, writeVars
<1>9. CASE Wait
  BY <1>2, <1>9 DEF Wait, TypeOK, frontVars, spareVars, ownerVars, writeVars
<1>10. CASE Exchange
  <2>1. /\ written = 0 /\ current_buffer_' = Empty
        /\ buffers_to_write' = Append(buffers_, current_buffer_)
        /\ Len(buffers_to_write') = Len(buffers_) + 1
    BY <1>10, ExchangeMoves
  <2>2. /\ pc' = "drop" /\ written' = written /\ new_buffer1' = Null /\ buffers_' = <<>>
        /\ next_buffer_' \in {next_buffer_, new_buffer2} /\ new_buffer2' \in {new_buffer2, Null}
        /\ UNCHANGED <<appended, file, errors, lost>>
    BY <1>10 DEF Exchange, Swap
  <2>3. UNCHANGED ownerVars
    BY <1>10 DEF Exchange
  <2>4. /\ buffers_to_write' \in Seq(BufferType)
        /\ written' \in 0..Len(buffers_to_write')
    BY <1>1, <2>1, <2>2, AppendProperties, LenProperties
  <2>5. /\ {current_buffer_', next_buffer_', new_buffer1', new_buffer2'}
              \subseteq BufferType \union {Null}
        /\ buffers_' \in Seq(BufferType)
    BY <1>3, <1>4, <2>1, <2>2
  <2>6. QED
    BY <1>2, <2>2, <2>3, <2>4, <2>5 DEF TypeOK, ownerVars
<1>11. CASE DropBacklog
  <2>1. /\ written = 0 /\ buffers_to_write' = Kept /\ Kept \in Seq(BufferType)
    BY <1>11, DropBacklogKeeps
  <2>2. /\ lost' \subseteq lost \union LinesIn(buffers_to_write) /\ Pending = buffers_to_write
    BY <1>11, DropBacklogKeeps DEF DropBacklog
  <2>3. lost' \subseteq 1..appended
    BY <1>1, <2>2, PlacedApart
  <2>4. /\ pc' = "write" /\ UNCHANGED <<frontVars, spareVars, ownerVars, written, file, errors>>
    BY <1>11 DEF DropBacklog
  <2>5. written' \in 0..Len(buffers_to_write')
    BY <2>1, <2>4, LenProperties
  <2>6. QED
    BY <1>2, <2>1, <2>3, <2>4, <2>5 DEF TypeOK, frontVars, spareVars, ownerVars
<1>12. CASE WriteBuffer
  <2>1. PICK done \in Seq(1..MaxLines), rest \in Seq(1..MaxLines), buffer \in BufferType :
              /\ buffer.lines = done \o rest
              /\ Pending' \in Seq(BufferType)
              /\ Pending = <<buffer>> \o Pending'
              /\ file' = file \o done
              /\ lost' = lost \union Range(rest)
    BY <1>12, WriteBufferWrites
  <2>2. file' \in Seq(1..MaxLines)
    BY <1>1, <2>1, ConcatProperties
  <2>3. Range(rest) \subseteq LinesIn(Pending)
    <3>1. Range(buffer.lines) = Range(done) \union Range(rest)
      BY <2>1, RangeConcat
    <3>2. <<buffer>> \in Seq(BufferType) /\ LinesIn(<<buffer>>) = Range(buffer.lines)
      BY OneBuffer
    <3>3. LinesIn(Pending) = LinesIn(<<buffer>>) \union LinesIn(Pending')
      BY <2>1, <3>2, BuffersConcat
    <3>4. QED
      BY <3>1, <3>2, <3>3
  <2>4. lost' \subseteq 1..appended
    BY <1>1, <2>1, <2>3, PlacedApart
  <2>5. /\ written < Len(buffers_to_write) /\ written' = written + 1
        /\ UNCHANGED <<frontVars, spareVars, ownerVars, pc, buffers_to_write>>
    BY <1>12 DEF WriteBuffer
  <2>6. written' \in 0..Len(buffers_to_write')
    BY <1>1, <2>5
  <2>7. errors' \in 0..MaxErrors
    <3>1. PICK cut \in Cuts(buffers_to_write[written + 1].lines) :
              errors' = IF cut = Len(buffers_to_write[written + 1].lines) THEN errors ELSE errors + 1
      BY <1>12 DEF WriteBuffer
    <3>2. errors \in Nat /\ MaxErrors \in Nat /\ errors <= MaxErrors
      BY <1>4, SizeAssumption
    <3>3. CASE cut = Len(buffers_to_write[written + 1].lines)
      BY <3>1, <3>2, <3>3
    <3>4. CASE cut # Len(buffers_to_write[written + 1].lines)
      BY <3>1, <3>2, <3>4 DEF Cuts
    <3>5. QED
      BY <3>3, <3>4
  <2>8. QED
    BY <1>2, <2>2, <2>4, <2>5, <2>6, <2>7 DEF TypeOK, frontVars, spareVars, ownerVars
<1>13. CASE Recover
  <2>1. /\ pc' = "test" /\ buffers_to_write' = <<>> /\ written' = 0
        /\ UNCHANGED <<frontVars, ownerVars, file, errors, lost>>
    BY <1>13 DEF Recover
  <2>2. new_buffer1' = Empty /\ new_buffer2' = Empty
    BY <2>1 DEF BuffersAtHand
  <2>3. buffers_to_write' \in Seq(BufferType) /\ written' \in 0..Len(buffers_to_write')
    BY <2>1
  <2>4. QED
    BY <1>2, <1>3, <2>1, <2>2, <2>3 DEF TypeOK, frontVars, ownerVars
<1>14. QED
  BY <1>5, <1>6, <1>7, <1>8, <1>9, <1>10, <1>11, <1>12, <1>13 DEF Next, Writer

\* OnceInOrder is preserved: lines move on without overtaking others.
LEMMA OrderStep ==
    ASSUME LoggerInvariant, Next, TypeOK', BuffersAtHand'
    PROVE  OnceInOrder'
<1>1. /\ current_buffer_ \in BufferType /\ buffers_ \in Seq(BufferType)
      /\ Pending \in Seq(BufferType) /\ file \in Seq(1..MaxLines)
      /\ MaxLines \in Nat /\ 1..MaxLines \subseteq Nat
      /\ appended \in Nat /\ lost \subseteq 1..appended
      /\ PlacedNow
  BY Typed
<1> DEFINE F == Range(file)
           P == LinesIn(Pending)
           B == LinesIn(buffers_)
           C == Range(current_buffer_.lines)
<1>2. /\ F \union P \union B \union C = 1..appended \ lost
      /\ Increasing(file) /\ InOrder(Pending) /\ InOrder(buffers_)
      /\ Increasing(current_buffer_.lines)
      /\ Before(F, P) /\ Before(F, B) /\ Before(F, C) /\ Before(P, B) /\ Before(P, C)
      /\ Before(B, C)
  BY <1>1 DEF PlacedNow, Placed
<1>3. F \subseteq 1..appended /\ P \subseteq 1..appended /\ B \subseteq 1..appended
      /\ C \subseteq 1..appended
  BY <1>2
<1>4. Empty \in BufferType /\ Range(Empty.lines) = {} /\ Increasing(Empty.lines)
  BY EmptyBuffer
<1>5. SUFFICES PlacedNow'
  <2>1. /\ current_buffer_' \in BufferType
    BY DEF TypeOK, BuffersAtHand
  <2>2. /\ buffers_' \in Seq(BufferType)
        /\ buffers_to_write' \in Seq(BufferType) /\ written' \in 0..Len(buffers_to_write')
    BY DEF TypeOK
  <2>3. Pending' \in Seq(BufferType)
    BY <2>2, PendingBuffers DEF Pending
  <2>4. NotWritten' = Pending' \o buffers_' \o <<current_buffer_'>>
    BY DEF NotWritten, Pending
  <2> DEFINE q == Pending'
             all == 1..appended' \ lost'
  <2>5. PlacedNow' <=> Placed(file', q, buffers_', current_buffer_', all)
    BY DEF PlacedNow
  <2>6. OnceInOrder' <=>
              /\ Increasing(file') /\ InOrder(q \o buffers_' \o <<current_buffer_'>>)
              /\ Before(Range(file'), LinesIn(q \o buffers_' \o <<current_buffer_'>>))
              /\ Range(file') \union LinesIn(q \o buffers_' \o <<current_buffer_'>>) = all
    BY <2>4 DEF OnceInOrder
  <2> HIDE DEF q, all
  <2>7. q \in Seq(BufferType)
    BY <2>3 DEF q
  <2>8. Placed(file', q, buffers_', current_buffer_', all) <=>
              /\ Increasing(file') /\ InOrder(q \o buffers_' \o <<current_buffer_'>>)
              /\ Before(Range(file'), LinesIn(q \o buffers_' \o <<current_buffer_'>>))
              /\ Range(file') \union LinesIn(q \o buffers_' \o <<current_buffer_'>>) = all
    BY <2>1, <2>2, <2>7, PlacesInOrder
  <2>9. QED
    BY <2>5, <2>6, <2>8
<1> HIDE DEF F, P, B, C
<1>6. CASE AppendMessage
  <2> DEFINE l == appended + 1
             D == Range(current_buffer_'.lines)
  <2>1. /\ l \in 1..MaxLines /\ appended' = l /\ current_buffer_' \in BufferType
        /\ \/ /\ current_buffer_'.lines = Append(current_buffer_.lines, l)
              /\ UNCHANGED <<next_buffer_, buffers_, lost>>
           \/ /\ lost' = lost \union {l}
              /\ UNCHANGED <<current_buffer_, next_buffer_, buffers_>>
           \/ /\ buffers_' = Append(buffers_, current_buffer_)
              /\ current_buffer_'.lines = <<l>>
              /\ next_buffer_' = Null
              /\ UNCHANGED lost
    BY <1>6, AppendMoves
  <2>2. UNCHANGED <<file, Pending>>
    BY <1>6 DEF AppendMessage, writeVars, Pending
  <2>3. /\ \A x \in F \union P \union B \union C : x < l
        /\ l \in Nat /\ l \notin lost
        /\ 1..l \ lost = (1..appended \ lost) \union {l}
        /\ 1..l \ (lost \union {l}) = 1..appended \ lost
    BY <1>1, <1>3
  <2> HIDE DEF l
  <2>4. CASE /\ current_buffer_'.lines = Append(current_buffer_.lines, l)
             /\ UNCHANGED <<next_buffer_, buffers_, lost>>
    <3>1. current_buffer_.lines \in Seq(1..MaxLines)
      BY <1>1 DEF BufferType
    <3>2. current_buffer_.lines \in Seq(Nat) /\ \A x \in C : x < l
      BY <1>1, <2>3, <3>1
    <3>3. Increasing(current_buffer_'.lines) /\ D = C \union {l}
      BY <1>2, <2>3, <2>4, <3>2, NewLine DEF C
    <3>4. Before(F, D) /\ Before(P, D) /\ Before(B, D)
      BY <1>2, <2>3, <3>3 DEF Before
    <3>5. F \union P \union B \union D = 1..appended' \ lost'
      BY <1>2, <2>1, <2>3, <2>4, <3>3
    <3>6. QED
      BY <1>2, <2>2, <2>4, <3>3, <3>4, <3>5 DEF PlacedNow, Placed, F, P, B
  <2>5. CASE /\ lost' = lost \union {l}
             /\ UNCHANGED <<current_buffer_, next_buffer_, buffers_>>
    <3>1. F \union P \union B \union C = 1..appended' \ lost'
      BY <1>2, <2>1, <2>3, <2>5
    <3>2. QED
      BY <1>2, <2>2, <2>5, <3>1 DEF PlacedNow, Placed, F, P, B, C
  <2>6. CASE /\ buffers_' = Append(buffers_, current_buffer_)
             /\ current_buffer_'.lines = <<l>>
             /\ UNCHANGED lost
    <3> DEFINE A == LinesIn(buffers_')
    <3>1. D = {l} /\ Increasing(current_buffer_'.lines)
      <4>1. DOMAIN <<l>> = {1} /\ <<l>>[1] = l
        OBVIOUS
      <4>2. Range(<<l>>) = {l} /\ Increasing(<<l>>)
        BY <2>3, <4>1 DEF Range, Increasing
      <4>3. QED
        BY <2>6, <4>2
    <3>2. A = B \union C /\ InOrder(buffers_')
      <4>1. buffers_' = buffers_ \o <<current_buffer_>>
        BY <1>1, <2>6, AppendIsConcat
      <4>2. /\ <<current_buffer_>> \in Seq(BufferType) /\ LinesIn(<<current_buffer_>>) = C
            /\ InOrder(<<current_buffer_>>)
        BY <1>1, <1>2, OneBuffer DEF C
      <4>3. QED
        BY <1>1, <1>2, <4>1, <4>2, BuffersConcat DEF B
    <3> HIDE DEF A, D
    <3>3. /\ Before(F, A) /\ Before(F, D) /\ Before(P, A) /\ Before(P, D) /\ Before(A, D)
      BY <1>2, <2>3, <3>1, <3>2 DEF Before
    <3>4. F \union P \union A \union D = 1..appended' \ lost'
      BY <1>2, <2>1, <2>3, <2>6, <3>1, <3>2
    <3>5. QED
      BY <1>2, <2>2, <3>1, <3>2, <3>3, <3>4 DEF PlacedNow, Placed, F, P, A, D
  <2>7. QED
    BY <2>1, <2>4, <2>5, <2>6
<1>7. CASE \/ Owner \/ WriterBegins \/ TestRunning \/ Wait
  <2>1. UNCHANGED <<frontVars, writeVars, file, lost>>
    BY <1>7 DEF Owner, Start, StartReturns, StopRunning, StopNotifies, Joined,
                WriterBegins, TestRunning, Wait
  <2>2. UNCHANGED <<current_buffer_, buffers_, appended, file, lost, Pending>>
    BY <2>1 DEF frontVars, writeVars, Pending
  <2>3. QED
    BY <1>1, <2>2 DEF PlacedNow
<1>8. CASE Exchange
  <2>1. /\ Pending = <<>> /\ Pending' = Append(buffers_, current_buffer_)
        /\ LinesIn(Pending') = B \union C /\ current_buffer_' = Empty
    BY <1>8, ExchangeMoves DEF B, C
  <2>2. buffers_' = <<>> /\ UNCHANGED <<file, appended, lost>>
    BY <1>8 DEF Exchange, Swap
  <2>3. InOrder(Pending')
    <3>1. Pending' = buffers_ \o <<current_buffer_>>
      BY <1>1, <2>1, AppendIsConcat
    <3>2. /\ <<current_buffer_>> \in Seq(BufferType) /\ LinesIn(<<current_buffer_>>) = C
          /\ InOrder(<<current_buffer_>>)
      BY <1>1, <1>2, OneBuffer DEF C
    <3>3. QED
      BY <1>1, <1>2, <3>1, <3>2, BuffersConcat DEF B
  <2>4. LinesIn(buffers_') = {} /\ InOrder(buffers_')
    BY <2>2, NoBuffers
  <2>5. P = {}
    BY <2>1, NoBuffers DEF P
  <2>6. Range(current_buffer_'.lines) = {} /\ Increasing(current_buffer_'.lines)
    BY <1>4, <2>1
  <2>7. Before(F, B \union C) /\ \A S : Before(S, {}) /\ Before({}, S)
    BY <1>2 DEF Before
  <2>8. F \union LinesIn(Pending') \union {} \union {} = 1..appended' \ lost'
    BY <1>2, <2>1, <2>2, <2>5
  <2>9. QED
    BY <1>2, <2>1, <2>2, <2>3, <2>4, <2>6, <2>7, <2>8 DEF PlacedNow, Placed, F
<1>9. CASE DropBacklog
  <2> DEFINE Q == LinesIn(Kept)
  <2>1. /\ Pending = buffers_to_write /\ Pending' = Kept
        /\ Q \subseteq LinesIn(buffers_to_write)
        /\ InOrder(buffers_to_write) => InOrder(Kept)
    BY <1>9, DropBacklogKeeps
  <2>2. /\ lost' = lost \union (LinesIn(buffers_to_write) \ Q)
        /\ UNCHANGED <<frontVars, file>>
    BY <1>9 DEF DropBacklog
  <2>3. Q \subseteq P /\ lost' = lost \union (P \ Q) /\ InOrder(Pending')
    BY <1>2, <2>1, <2>2 DEF P
  <2>4. UNCHANGED <<current_buffer_, buffers_, appended, file>>
    BY <2>2 DEF frontVars
  <2>5. LinesIn(Pending') = Q
    BY <2>1
  <2> HIDE DEF Q
  <2>6. Before(F, Q) /\ Before(Q, B) /\ Before(Q, C)
    BY <1>2, <2>3 DEF Before
  <2>7. P \intersect F = {} /\ P \intersect (B \union C) = {}
    BY PlacedApart DEF P, F, B, C
  <2>8. F \union Q \union B \union C = 1..appended' \ lost'
    BY <1>2, <2>3, <2>4, <2>7
  <2>9. QED
    BY <1>2, <2>3, <2>4, <2>5, <2>6, <2>8 DEF PlacedNow, Placed, F, B, C
<1>10. CASE WriteBuffer
  <2>1. PICK done \in Seq(1..MaxLines), rest \in Seq(1..MaxLines), buffer \in BufferType :
              /\ buffer.lines = done \o rest
              /\ Pending' \in Seq(BufferType)
              /\ Pending = <<buffer>> \o Pending'
              /\ file' = file \o done
              /\ lost' = lost \union Range(rest)
    BY <1>10, WriteBufferWrites
  <2> DEFINE Q == LinesIn(Pending')
             D == Range(done)
             R == Range(rest)
  <2>2. Range(buffer.lines) = D \union R
    BY <2>1, RangeConcat
  <2>3. /\ <<buffer>> \in Seq(BufferType) /\ LinesIn(<<buffer>>) = D \union R
        /\ InOrder(<<buffer>>) <=> Increasing(buffer.lines)
    BY <2>2, OneBuffer
  <2>4. P = D \union R \union Q
    BY <2>1, <2>3, BuffersConcat DEF P
  <2>5. /\ Increasing(buffer.lines) /\ InOrder(Pending') /\ Before(D \union R, Q)
    BY <1>2, <2>1, <2>3, BuffersConcat
  <2>6. done \in Seq(Nat) /\ rest \in Seq(Nat) /\ file \in Seq(Nat)
    BY <1>1, <2>1
  <2>7. Increasing(done) /\ Before(D, R)
    BY <2>1, <2>5, <2>6, IncreasingConcat
  <2> HIDE DEF D, R, Q
  <2>8. /\ Before(F, D) /\ Before(F \union D, Q) /\ Before(F \union D, B)
        /\ Before(F \union D, C) /\ Before(Q, B) /\ Before(Q, C)
    BY <1>2, <2>4, <2>5 DEF Before
  <2>9. Increasing(file') /\ Range(file') = F \union D
    <3>1. Increasing(file \o done)
      BY <1>2, <2>6, <2>7, <2>8, IncreasingConcat DEF F, D
    <3>2. Range(file \o done) = F \union D
      BY <2>6, RangeConcat DEF F, D
    <3>3. QED
      BY <2>1, <3>1, <3>2
  <2>10. UNCHANGED <<current_buffer_, buffers_, appended>>
    BY <1>10 DEF WriteBuffer, frontVars
  <2>11. \A x \in R : x \notin F \union D \union Q \union B \union C
    <3>1. P \subseteq Nat
      BY <1>1, <1>3
    <3>2. R \intersect D = {} /\ R \intersect Q = {}
      BY <2>4, <2>5, <2>7, <3>1 DEF Before
    <3>3. P \intersect F = {} /\ P \intersect (B \union C) = {}
      BY PlacedApart DEF P, F, B, C
    <3>4. QED
      BY <2>4, <3>2, <3>3
  <2>12. F \union D \union Q \union B \union C = 1..appended' \ lost'
    <3>1. lost' = lost \union R
      BY <2>1 DEF R
    <3>2. QED
      BY <1>2, <2>4, <2>10, <2>11, <3>1
  <2>13. QED
    BY <1>2, <2>5, <2>8, <2>9, <2>10, <2>12 DEF PlacedNow, Placed, Q, B, C
<1>11. CASE Recover
  <2>1. UNCHANGED Pending
    BY <1>11, RecoverEmpties
  <2>2. UNCHANGED <<current_buffer_, buffers_, appended, file, lost>>
    BY <1>11 DEF Recover, frontVars
  <2>3. QED
    BY <1>1, <2>1, <2>2 DEF PlacedNow
<1>12. QED
  BY <1>6, <1>7, <1>8, <1>9, <1>10, <1>11 DEF Next, Writer

\* The lines that stop() counts on move like the others.
LEMMA PromiseStep ==
    ASSUME LoggerInvariant, Next
    PROVE  OwnerAndWriter' /\ PromiseOnItsWay'
<1>1. OwnerAndWriter /\ PromiseOnItsWay
  BY DEF LoggerInvariant
<1>2. promised \subseteq 1..appended
  BY DEF LoggerInvariant, TypeOK
<1> DEFINE P == LinesIn(Pending)
<1>3. CASE AppendMessage
  <2>1. UNCHANGED <<owner, pc, promised, file, Pending>>
    BY <1>3 DEF AppendMessage, ownerVars, writeVars, Pending
  <2>2. lost \subseteq lost'
    BY <1>3, AppendMoves
  <2>3. OwnerAndWriter'
    BY <1>1, <2>1 DEF OwnerAndWriter
  <2>4. PromiseOnItsWay'
    BY <1>1, <2>1, <2>2 DEF PromiseOnItsWay
  <2>5. QED
    BY <2>3, <2>4
<1>4. CASE Owner
  <2>1. UNCHANGED <<file, lost, Pending>>
    BY <1>4 DEF Owner, Start, StartReturns, StopRunning, StopNotifies, Joined, writeVars, Pending
  <2>2. OwnerAndWriter'
    BY <1>1, <1>4 DEF Owner, Start, StartReturns, StopRunning, StopNotifies, Joined, OwnerAndWriter
  <2>3. /\ pc \notin {"enter", "wait"} => promised' \subseteq promised
        /\ pc \in {"enter", "wait"} => pc' = pc
        /\ pc' \notin {"enter", "wait"} => pc \notin {"enter", "wait"}
    BY <1>1, <1>4 DEF Owner, Start, StartReturns, StopRunning, StopNotifies, Joined, OwnerAndWriter
  <2>4. PromiseOnItsWay'
    BY <1>1, <2>1, <2>3 DEF PromiseOnItsWay
  <2>5. QED
    BY <2>2, <2>4
<1>5. CASE WriterBegins \/ TestRunning \/ Wait
  <2>1. UNCHANGED <<owner, promised, file, lost, Pending>>
    BY <1>5 DEF WriterBegins, TestRunning, Wait, ownerVars, writeVars, Pending
  <2>2. /\ pc \notin {"none", "finished", "enter", "wait"} \/ pc' = "wait"
        /\ pc' # "none"
    BY <1>5 DEF WriterBegins, TestRunning, Wait
  <2>3. pc \in {"begin", "test", "enter"}
    BY <1>5 DEF WriterBegins, TestRunning, Wait
  <2>4. OwnerAndWriter'
    BY <1>1, <2>1, <2>3 DEF OwnerAndWriter
  <2>5. PromiseOnItsWay'
    BY <1>1, <2>1, <2>2 DEF PromiseOnItsWay
  <2>6. QED
    BY <2>4, <2>5
<1>6. CASE Exchange
  <2>1. pc = "wait" /\ UNCHANGED <<owner, promised, appended, file, lost>>
    BY <1>6 DEF Exchange, Swap, Wakes, ownerVars
  <2>2. /\ Pending = <<>>
        /\ LinesIn(Pending') = LinesIn(buffers_) \union Range(current_buffer_.lines)
    BY <1>6, ExchangeMoves
  <2>3. P = {}
    BY <2>2, NoBuffers
  <2>4. Range(file) \union P \union LinesIn(buffers_) \union Range(current_buffer_.lines)
            = 1..appended \ lost
    BY Typed DEF PlacedNow, Placed
  <2>5. 1..appended \subseteq Range(file) \union lost \union LinesIn(Pending')
    BY <2>2, <2>3, <2>4
  <2>6. OwnerAndWriter'
    BY <1>1, <2>1 DEF OwnerAndWriter
  <2>7. PromiseOnItsWay'
    BY <1>2, <2>1, <2>5 DEF PromiseOnItsWay
  <2>8. QED
    BY <2>6, <2>7
<1>7. CASE DropBacklog
  <2>1. pc = "drop" /\ UNCHANGED <<owner, promised, file>>
    BY <1>7 DEF DropBacklog, ownerVars
  <2>2. Pending = buffers_to_write /\ Pending' = Kept
    BY <1>7, DropBacklogKeeps
  <2>3. lost' = lost \union (LinesIn(buffers_to_write) \ LinesIn(Kept))
    BY <1>7 DEF DropBacklog
  <2>4. lost \union P \subseteq lost' \union LinesIn(Pending')
    BY <2>2, <2>3
  <2>5. OwnerAndWriter'
    BY <1>1, <2>1 DEF OwnerAndWriter
  <2>6. PromiseOnItsWay'
    BY <1>1, <2>1, <2>4 DEF PromiseOnItsWay
  <2>7. QED
    BY <2>5, <2>6
<1>8. CASE WriteBuffer
  <2>1. PICK done \in Seq(1..MaxLines), rest \in Seq(1..MaxLines), buffer \in BufferType :
              /\ buffer.lines = done \o rest
              /\ Pending' \in Seq(BufferType)
              /\ Pending = <<buffer>> \o Pending'
              /\ file' = file \o done
              /\ lost' = lost \union Range(rest)
    BY <1>8, WriteBufferWrites
  <2>2. pc = "write" /\ UNCHANGED <<owner, promised, pc>>
    BY <1>8 DEF WriteBuffer, ownerVars
  <2>3. P = Range(done) \union Range(rest) \union LinesIn(Pending')
    <3>1. Range(buffer.lines) = Range(done) \union Range(rest)
      BY <2>1, RangeConcat
    <3>2. <<buffer>> \in Seq(BufferType) /\ LinesIn(<<buffer>>) = Range(buffer.lines)
      BY OneBuffer
    <3>3. LinesIn(Pending) = LinesIn(<<buffer>>) \union LinesIn(Pending')
      BY <2>1, <3>2, BuffersConcat
    <3>4. QED
      BY <3>1, <3>2, <3>3
  <2>4. Range(file') = Range(file) \union Range(done)
    BY <2>1, Typed, RangeConcat
  <2>5. Range(file) \union lost \union P \subseteq Range(file') \union lost' \union LinesIn(Pending')
    BY <2>1, <2>3, <2>4
  <2>6. OwnerAndWriter'
    BY <1>1, <2>2 DEF OwnerAndWriter
  <2>7. PromiseOnItsWay'
    BY <1>1, <2>2, <2>5 DEF PromiseOnItsWay
  <2>8. QED
    BY <2>6, <2>7
<1>9. CASE Recover
  <2>1. UNCHANGED Pending
    BY <1>9, RecoverEmpties
  <2>2. pc = "write" /\ pc' = "test" /\ UNCHANGED <<owner, promised, file, lost>>
    BY <1>9 DEF Recover, ownerVars
  <2>3. OwnerAndWriter'
    BY <1>1, <2>2 DEF OwnerAndWriter
  <2>4. PromiseOnItsWay'
    BY <1>1, <2>1, <2>2 DEF PromiseOnItsWay
  <2>5. QED
    BY <2>3, <2>4
<1>10. QED
  BY <1>3, <1>4, <1>5, <1>6, <1>7, <1>8, <1>9 DEF Next, Writer

\* A logger that was just made satisfies the invariant.
LEMMA InitLogger == Init => LoggerInvariant
<1> SUFFICES ASSUME Init
             PROVE  LoggerInvariant
  OBVIOUS
<1>1. /\ current_buffer_ = Empty /\ next_buffer_ = Empty /\ buffers_ = <<>>
      /\ new_buffer1 = Null /\ new_buffer2 = Null
      /\ buffers_to_write = <<>> /\ written = 0
      /\ pc = "none" /\ owner = "created"
      /\ file = <<>> /\ appended = 0 /\ errors = 0 /\ lost = {} /\ promised = {}
  BY DEF Init
<1>2. running_ \in BOOLEAN
  BY Zenon DEF Init
<1>3. /\ Empty \in BufferType /\ Range(Empty.lines) = {} /\ Increasing(Empty.lines)
      /\ Empty # Null
  BY EmptyBuffer, NullAssumption
<1>4. MaxLines \in Nat /\ MaxErrors \in Nat
  BY SizeAssumption
<1>5. TypeOK
  <2>1. written \in 0..Len(buffers_to_write)
    BY <1>1
  <2>2. appended \in 0..MaxLines /\ errors \in 0..MaxErrors
    BY <1>1, <1>4
  <2>3. QED
    BY <1>1, <1>2, <1>3, <2>1, <2>2 DEF TypeOK
<1>6. BuffersAtHand /\ SparesInList /\ OwnerAndWriter
  BY <1>1, <1>3 DEF BuffersAtHand, SparesInList, OwnerAndWriter
<1>7. PromiseOnItsWay
  BY <1>1 DEF PromiseOnItsWay
<1>8. OnceInOrder
  <2>1. NotWritten = <<Empty>>
    <3>1. SubSeq(buffers_to_write, written + 1, Len(buffers_to_write)) = <<>>
      BY <1>1
    <3>2. <<>> \o <<>> \o <<Empty>> = <<Empty>>
      <4>1. <<>> \in Seq(BufferType) /\ <<Empty>> \in Seq(BufferType)
        BY <1>3
      <4>2. QED
        BY <4>1, ConcatEmptySeq
    <3>3. QED
      BY <1>1, <3>1, <3>2 DEF NotWritten
  <2>2. LinesIn(NotWritten) = {} /\ InOrder(NotWritten)
    BY <1>3, <2>1, OneBuffer
  <2>3. Range(file) = {} /\ Increasing(file)
    BY <1>1 DEF Range, Increasing
  <2>4. Before(Range(file), LinesIn(NotWritten))
    BY <2>3 DEF Before
  <2>5. Range(file) \union LinesIn(NotWritten) = 1..appended \ lost
    BY <1>1, <2>2, <2>3
  <2>6. QED
    BY <2>2, <2>3, <2>4, <2>5 DEF OnceInOrder
<1>9. QED
  BY <1>5, <1>6, <1>7, <1>8 DEF LoggerInvariant

-----------------------------------------------------------------------------
\* The invariant of the logger: the buffers the writer has still to go through,
\* the full ones and the current one hold the lines in the order of append, and
\* what the writer gave away is in its list (asynclogging.cc:18-55, :57-125).
THEOREM LoggerInvariantHolds == Spec => []LoggerInvariant
<1>1. LoggerInvariant /\ [Next]_vars => LoggerInvariant'
  <2> SUFFICES ASSUME LoggerInvariant, [Next]_vars
               PROVE  LoggerInvariant'
    OBVIOUS
  <2>1. CASE Next
    <3>1. BuffersAtHand' /\ SparesInList'
      BY <2>1, SparesStep
    <3>2. TypeOK'
      BY <2>1, <3>1, TypeStep
    <3>3. OnceInOrder'
      BY <2>1, <3>1, <3>2, OrderStep
    <3>4. OwnerAndWriter' /\ PromiseOnItsWay'
      BY <2>1, PromiseStep
    <3>5. QED
      BY <3>1, <3>2, <3>3, <3>4 DEF LoggerInvariant
  <2>2. CASE UNCHANGED vars
    <3>1. UNCHANGED <<current_buffer_, next_buffer_, buffers_, appended, new_buffer1,
                      new_buffer2, owner, promised, pc, buffers_to_write,
                      written, file, errors, lost>>
      BY <2>2 DEF vars, frontVars, spareVars, ownerVars, writeVars
    <3>2. running_' = running_
      BY <2>2, Zenon DEF vars, ownerVars
    <3>3. TypeOK'
      BY <3>1, <3>2 DEF LoggerInvariant, TypeOK
    <3>4. BuffersAtHand' /\ SparesInList' /\ OwnerAndWriter'
      BY <3>1 DEF LoggerInvariant, BuffersAtHand, SparesInList, OwnerAndWriter
    <3>5. OnceInOrder' /\ PromiseOnItsWay'
      BY <3>1 DEF LoggerInvariant, OnceInOrder, NotWritten, PromiseOnItsWay, Pending
    <3>6. QED
      BY <3>3, <3>4, <3>5 DEF LoggerInvariant
  <2>3. QED
    BY <2>1, <2>2
<1>2. QED
  BY <1>1, InitLogger, PTL DEF Spec

\* The fields keep their types: among others the writer never goes beyond the
\* buffers of its list, and no buffer holds more than its room (logstream.h).
THEOREM TypeCorrect == Spec => []TypeOK
<1>1. LoggerInvariant => TypeOK
  BY DEF LoggerInvariant
<1>2. QED
  BY <1>1, LoggerInvariantHolds, PTL

\* No null buffer is taken by append or by the exchange (asynclogging.cc:75-83).
THEOREM BuffersAtHandHolds == Spec => []BuffersAtHand
<1>1. LoggerInvariant => BuffersAtHand
  BY DEF LoggerInvariant
<1>2. QED
  BY <1>1, LoggerInvariantHolds, PTL

\* Every line is written once and in its place, or dropped where the code drops
\* it: no line is lost or overtaken between the threads (asynclogging.cc:18-125).
THEOREM OnceInOrderHolds == Spec => []OnceInOrder
<1>1. LoggerInvariant => OnceInOrder
  BY DEF LoggerInvariant
<1>2. QED
  BY <1>1, LoggerInvariantHolds, PTL

\* What was appended before a stop() that finds the writer before its exchange
\* has been written when stop() returns (asynclogging.h, stop).
THEOREM StopKeepsLinesHolds == Spec => []StopKeepsLines
<1>1. LoggerInvariant => StopKeepsLines
  <2> SUFFICES ASSUME LoggerInvariant, owner = "stopped"
               PROVE  promised \subseteq Range(file) \union lost
    BY DEF StopKeepsLines
  <2>1. pc = "finished" /\ buffers_to_write = <<>>
    BY DEF LoggerInvariant, OwnerAndWriter, SparesInList
  <2>2. promised \subseteq Range(file) \union lost \union LinesIn(Pending)
    BY <2>1 DEF LoggerInvariant, PromiseOnItsWay
  <2>3. Pending = <<>>
    <3>1. written \in 0..0
      BY <2>1 DEF LoggerInvariant, TypeOK
    <3>2. written = 0
      BY <3>1
    <3>3. QED
      BY <2>1, <3>2 DEF Pending
  <2>4. QED
    BY <2>2, <2>3, NoBuffers
<1>2. QED
  BY <1>1, LoggerInvariantHolds, PTL

=============================================================================
