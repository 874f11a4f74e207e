-------------------------- MODULE LogWriterProofs --------------------------
(***************************************************************************)
(* What the log writer promises about lines and severities, for any number *)
(* of threads, any chunks and any number of writes.                        *)
(***************************************************************************)
EXTENDS LogWriter, SequenceLemmas, FiniteSetTheorems

-----------------------------------------------------------------------------
(* Texts.                                                                  *)

LEMMA SubSeqShift ==
    ASSUME NEW s, NEW t, NEW m \in Int, NEW n \in Int, NEW k \in Int,
           \A i \in m..n : s[k + i] = t[i]
    PROVE  SubSeq(s, k + m, k + n) = SubSeq(t, m, n)
<1> DEFINE S == {t[i] : i \in m..n}
<1>1. \A i \in m..n : t[i] \in S
  OBVIOUS
<1>2. \A i \in (k + m)..(k + n) : s[i] \in S
  <2> TAKE i \in (k + m)..(k + n)
  <2>1. i - k \in m..n /\ k + (i - k) = i
    OBVIOUS
  <2> QED
    BY <2>1
<1> HIDE DEF S
<1>3. /\ SubSeq(t, m, n) \in Seq(S)
      /\ Len(SubSeq(t, m, n)) = IF m <= n THEN n - m + 1 ELSE 0
      /\ \A i \in 1..(n - m + 1) : SubSeq(t, m, n)[i] = t[m + i - 1]
  BY <1>1, SubSeqProperties
<1>4. /\ SubSeq(s, k + m, k + n) \in Seq(S)
      /\ Len(SubSeq(s, k + m, k + n)) = IF m <= n THEN n - m + 1 ELSE 0
      /\ \A i \in 1..(n - m + 1) : SubSeq(s, k + m, k + n)[i] = s[k + m + i - 1]
  <2>1. /\ SubSeq(s, k + m, k + n) \in Seq(S)
        /\ Len(SubSeq(s, k + m, k + n)) =
             IF k + m <= k + n THEN (k + n) - (k + m) + 1 ELSE 0
        /\ \A i \in 1..((k + n) - (k + m) + 1) :
              SubSeq(s, k + m, k + n)[i] = s[(k + m) + i - 1]
    BY <1>2, SubSeqProperties
  <2> QED
    BY <2>1
<1>5. ASSUME NEW i \in 1..(n - m + 1)
      PROVE  SubSeq(s, k + m, k + n)[i] = SubSeq(t, m, n)[i]
  <2>1. m + i - 1 \in m..n /\ k + m + i - 1 = k + (m + i - 1)
    OBVIOUS
  <2>2. s[k + (m + i - 1)] = t[m + i - 1]
    BY <2>1
  <2> QED
    BY <1>3, <1>4, <2>1, <2>2
<1> QED
  BY <1>3, <1>4, <1>5, SeqEqual

(* What s has from mm to nn is what t has from m to n.  Slice is a name   *)
(* the provers do not look into.                                           *)
Matches(s, mm, nn, t, m, n) ==
    /\ m \in Int /\ n \in Int /\ mm \in Int /\ nn \in Int
    /\ mm - m = nn - n
    /\ \A i \in m..n : s[(mm - m) + i] = t[i]

Slice(s, m, n) == SubSeq(s, m, n)

LEMMA SameSlice ==
    ASSUME NEW s, NEW t, NEW m, NEW n, NEW mm, NEW nn, Matches(s, mm, nn, t, m, n)
    PROVE  Slice(s, mm, nn) = Slice(t, m, n)
<1>1. mm = (mm - m) + m /\ nn = (mm - m) + n /\ mm - m \in Int
  BY DEF Matches
<1>2. SubSeq(s, (mm - m) + m, (mm - m) + n) = SubSeq(t, m, n)
  BY <1>1, SubSeqShift DEF Matches
<1> QED
  BY <1>1, <1>2 DEF Slice

LEMMA SubSeqTyped ==
    ASSUME NEW S, NEW s \in Seq(S), NEW m \in Int, NEW n \in Int,
           1 <= m, n <= Len(s)
    PROVE  /\ SubSeq(s, m, n) \in Seq(S)
           /\ Len(SubSeq(s, m, n)) = IF m <= n THEN n - m + 1 ELSE 0
           /\ \A i \in 1..(n - m + 1) : SubSeq(s, m, n)[i] = s[m + i - 1]
<1>1. \A i \in m..n : s[i] \in S
  BY ElementOfSeq
<1> QED
  BY <1>1, SubSeqProperties

LEMMA NewlinesIn ==
    ASSUME NEW S, NEW s \in Seq(S)
    PROVE  Newlines(s) = {i \in 1..Len(s) : s[i] = "nl"}
BY LenProperties DEF Newlines

LEMMA NewlinesBelow ==
    ASSUME NEW S, NEW s \in Seq(S)
    PROVE  Newlines(s) \subseteq Nat /\ \A j \in Newlines(s) : 1 <= j /\ j <= Len(s)
BY NewlinesIn, LenProperties

LEMMA FirstNewlineIs ==
    ASSUME NEW S, NEW s \in Seq(S)
    PROVE  /\ FirstNewline(s) = 0 => Newlines(s) = {}
           /\ FirstNewline(s) # 0 => /\ FirstNewline(s) \in Newlines(s)
                                     /\ FirstNewline(s) \in 1..Len(s)
                                     /\ \A j \in Newlines(s) : FirstNewline(s) <= j
<1> DEFINE I == {i \in 1..Len(s) : s[i] = "nl"}
<1>1. FirstNewline(s) = IF I # {} THEN Min(I) ELSE 0
  BY DEF FirstNewline, SelectInSeq, IsNewline
<1>2. Newlines(s) = I
  BY NewlinesIn
<1>3. I \subseteq 1..Len(s) /\ Len(s) \in Nat
  BY LenProperties
<1> HIDE DEF I
<1>4. /\ FirstNewline(s) \in 0..Len(s)
      /\ FirstNewline(s) = 0 <=> I = {}
      /\ FirstNewline(s) # 0 => FirstNewline(s) \in I
      /\ \A j \in I : FirstNewline(s) <= j
  BY <1>1, <1>3, FirstOrZero
<1> QED
  BY <1>2, <1>3, <1>4

LEMMA TrimEndTyped ==
    ASSUME NEW S, NEW s \in Seq(S)
    PROVE  TrimEnd(s) \in Seq(S)
<1> DEFINE I == {i \in 1..Len(s) : NotSpace(s[i])}
           k == IF I # {} THEN Max(I) ELSE 0
<1>1. TrimEnd(s) = SubSeq(s, 1, k)
  BY DEF TrimEnd, SelectLastInSeq
<1>2. I \subseteq 1..Len(s) /\ Len(s) \in Nat
  BY LenProperties
<1> HIDE DEF I
<1>3. k \in 0..Len(s)
  BY <1>2, LastOrZero
<1> HIDE DEF k
<1>4. 1 \in Int /\ k \in Int /\ k <= Len(s)
  BY <1>2, <1>3
<1> QED
  BY <1>1, <1>4, SubSeqTyped

-----------------------------------------------------------------------------
(* Lines.                                                                  *)

(* Where the line that holds position i begins: after this position.       *)
LineStart(s, i) == Max({0} \cup {j \in Newlines(s) : j < i})

LEMMA LineStartIs ==
    ASSUME NEW S, NEW s \in Seq(S), NEW i \in Nat
    PROVE  /\ LineStart(s, i) \in {0} \cup {j \in Newlines(s) : j < i}
           /\ LineStart(s, i) \in 0..Len(s)
           /\ i > 0 => LineStart(s, i) < i
           /\ \A j \in Newlines(s) : j < i => j <= LineStart(s, i)
<1> DEFINE T == {0} \cup {j \in Newlines(s) : j < i}
<1>1. Newlines(s) \subseteq 1..Len(s) /\ Len(s) \in Nat
  BY NewlinesIn, LenProperties
<1>2. T \subseteq Nat /\ T # {} /\ \A j \in T : j <= Len(s)
  BY <1>1
<1> HIDE DEF T
<1>3. Max(T) \in T /\ \A j \in T : j <= Max(T)
  BY <1>1, <1>2, MaxIs
<1>4. LineStart(s, i) = Max(T)
  BY DEF LineStart, T
<1> QED
  BY <1>1, <1>3, <1>4 DEF T

LEMMA LinesAtTyped ==
    ASSUME NEW S, NEW s \in Seq(S), NEW i \in 1..Len(s)
    PROVE  /\ LineEndingAt(s, i) \in Seq(S)
           /\ LinesAt(s, i) \in Seq(Seq(S))
<1>1. LineStart(s, i) \in Nat /\ Len(s) \in Nat
  BY LineStartIs, LenProperties
<1>2. SubSeq(s, LineStart(s, i) + 1, i - 1) \in Seq(S)
  BY <1>1, SubSeqTyped
<1>3. LineEndingAt(s, i) \in Seq(S)
  BY <1>2, TrimEndTyped DEF LineEndingAt, LineStart
<1>4. <<LineEndingAt(s, i)>> \in Seq(Seq(S)) /\ <<>> \in Seq(Seq(S))
  BY <1>3, EmptySeq
<1> QED
  BY <1>3, <1>4 DEF LinesAt

(* The pieces that LinesOf flattens.                                       *)
PiecesOf(s) == [i \in DOMAIN s |-> LinesAt(s, i)]

LEMMA PiecesTyped ==
    ASSUME NEW S, NEW s \in Seq(S)
    PROVE  /\ PiecesOf(s) \in Seq(Seq(Seq(S)))
           /\ Len(PiecesOf(s)) = Len(s)
           /\ \A i \in 1..Len(s) : PiecesOf(s)[i] = LinesAt(s, i)
           /\ LinesOf(s) \in Seq(Seq(S))
<1>1. DOMAIN s = 1..Len(s) /\ Len(s) \in Nat
  BY LenProperties
<1>2. \A i \in 1..Len(s) : LinesAt(s, i) \in Seq(Seq(S))
  BY LinesAtTyped
<1>3. PiecesOf(s) = [i \in 1..Len(s) |-> LinesAt(s, i)]
  BY <1>1 DEF PiecesOf
<1>4. /\ PiecesOf(s) \in Seq(Seq(Seq(S)))
      /\ Len(PiecesOf(s)) = Len(s)
      /\ \A i \in 1..Len(s) : PiecesOf(s)[i] = LinesAt(s, i)
  BY <1>1, <1>2, <1>3
<1>5. LinesOf(s) \in Seq(Seq(S))
  BY <1>4, FlattenType DEF LinesOf, PiecesOf
<1> QED
  BY <1>4, <1>5

LEMMA NewlinesOfConcat ==
    ASSUME NEW S, NEW a \in Seq(S), NEW b \in Seq(S)
    PROVE  \A j \in Nat : j \in Newlines(a \o b) <=>
              \/ j \in Newlines(a)
              \/ j - Len(a) \in Newlines(b)
<1>1. /\ a \o b \in Seq(S) /\ Len(a \o b) = Len(a) + Len(b)
      /\ \A i \in 1..(Len(a) + Len(b)) :
            (a \o b)[i] = IF i <= Len(a) THEN a[i] ELSE b[i - Len(a)]
  BY ConcatProperties
<1>2. /\ Newlines(a) = {i \in 1..Len(a) : a[i] = "nl"}
      /\ Newlines(b) = {i \in 1..Len(b) : b[i] = "nl"}
      /\ Newlines(a \o b) = {i \in 1..Len(a \o b) : (a \o b)[i] = "nl"}
  BY <1>1, NewlinesIn
<1>3. Len(a) \in Nat /\ Len(b) \in Nat
  BY LenProperties
<1> TAKE j \in Nat
<1>4. CASE j \in 1..(Len(a) + Len(b))
  <2>1. (a \o b)[j] = IF j <= Len(a) THEN a[j] ELSE b[j - Len(a)]
    BY <1>1, <1>4
  <2> QED
    BY <1>1, <1>2, <1>3, <1>4, <2>1
<1>5. CASE j \notin 1..(Len(a) + Len(b))
  BY <1>1, <1>2, <1>3, <1>5
<1> QED
  BY <1>4, <1>5

(* A text that is empty or ends a line.                                    *)
Complete(a) == a = <<>> \/ a[Len(a)] = "nl"

LEMMA CompleteLast ==
    ASSUME NEW S, NEW a \in Seq(S), Complete(a)
    PROVE  Len(a) \in {0} \cup Newlines(a)
<1>1. Len(a) \in Nat /\ (a = <<>> => Len(a) = 0) /\ (a # <<>> => Len(a) \in 1..Len(a))
  BY LenProperties, EmptySeq
<1>2. Newlines(a) = {i \in 1..Len(a) : a[i] = "nl"}
  BY NewlinesIn
<1> QED
  BY <1>1, <1>2 DEF Complete

LEMMA LinesAtLeft ==
    ASSUME NEW S, NEW a \in Seq(S), NEW b \in Seq(S), NEW i \in 1..Len(a)
    PROVE  LinesAt(a \o b, i) = LinesAt(a, i)
<1>1. Len(a) \in Nat /\ i \in Nat
  BY LenProperties
<1>2. \A j \in Nat : j <= Len(a) => (j \in Newlines(a \o b) <=> j \in Newlines(a))
  <2>1. Newlines(b) \subseteq 1..Len(b) /\ Len(b) \in Nat
    BY NewlinesIn, LenProperties
  <2>2. \A j \in Nat : j <= Len(a) => j - Len(a) \notin Newlines(b)
    BY <1>1, <2>1
  <2> QED
    BY <2>2, NewlinesOfConcat
<1>3. Newlines(a) \subseteq Nat /\ Newlines(a \o b) \subseteq Nat
  <2>1. a \o b \in Seq(S)
    BY ConcatProperties
  <2> QED
    BY <2>1, NewlinesBelow
<1>4. {j \in Newlines(a \o b) : j < i} = {j \in Newlines(a) : j < i}
  BY <1>1, <1>2, <1>3
<1>5. LineStart(a \o b, i) = LineStart(a, i)
  BY <1>4 DEF LineStart
<1>6. LineStart(a, i) \in Nat
  BY <1>1, LineStartIs
<1> DEFINE m == LineStart(a, i) + 1
           n == i - 1
<1>7. m \in Int /\ n \in Int /\ \A k \in m..n : k \in 1..Len(a)
  BY <1>1, <1>6
<1> HIDE DEF m, n
<1>8. Matches(a \o b, m, n, a, m, n)
  BY <1>1, <1>7, ConcatProperties DEF Matches
<1>9. LineEndingAt(a \o b, i) = LineEndingAt(a, i)
  <2>1. SubSeq(a \o b, m, n) = SubSeq(a, m, n)
    <3>1. Slice(a \o b, m, n) = Slice(a, m, n)
      BY <1>8, SameSlice
    <3> QED
      BY <3>1 DEF Slice
  <2> QED
    BY <1>5, <2>1 DEF LineEndingAt, LineStart, m, n
<1>10. i \in Newlines(a \o b) <=> i \in Newlines(a)
  BY <1>1, <1>2
<1> QED
  BY <1>9, <1>10 DEF LinesAt

LEMMA LinesAtRight ==
    ASSUME NEW S, NEW a \in Seq(S), NEW b \in Seq(S), Complete(a),
           NEW i \in 1..Len(b)
    PROVE  LinesAt(a \o b, Len(a) + i) = LinesAt(b, i)
<1> DEFINE n == Len(a)
           p == LineStart(b, i)
<1>1. n \in Nat /\ i \in Nat /\ Len(b) \in Nat /\ n + i \in Nat
  BY LenProperties
<1>2. p \in {0} \cup {j \in Newlines(b) : j < i} /\ p \in 0..Len(b) /\ p < i
      /\ \A j \in Newlines(b) : j < i => j <= p
  <2>1. i > 0
    BY <1>1
  <2> HIDE DEF n
  <2> QED
    BY <1>1, <2>1, LineStartIs
<1>3. Newlines(a) \subseteq 1..n /\ Newlines(b) \subseteq 1..Len(b)
      /\ Newlines(a \o b) \subseteq Nat
  <2>1. a \o b \in Seq(S)
    BY ConcatProperties
  <2> QED
    BY <2>1, NewlinesIn, NewlinesBelow
<1>4. \A j \in Nat : j \in Newlines(a \o b) <=> \/ j \in Newlines(a)
                                                \/ j - n \in Newlines(b)
  BY NewlinesOfConcat
<1>5. n \in {0} \cup Newlines(a)
  BY CompleteLast
<1> HIDE DEF n, p
<1>6. LineStart(a \o b, n + i) = n + p
  <2> DEFINE T == {0} \cup {j \in Newlines(a \o b) : j < n + i}
  <2>1. T \subseteq Nat
    BY <1>3
  <2>2. n + p \in T
    <3>1. CASE p = 0
      BY <1>1, <1>4, <1>5, <3>1
    <3>2. CASE p # 0
      <4>1. p \in Newlines(b) /\ n + p \in Nat /\ (n + p) - n = p /\ n + p < n + i
        BY <1>1, <1>2, <3>2
      <4>2. n + p \in Newlines(a \o b)
        BY <1>4, <4>1
      <4> QED
        BY <4>1, <4>2
    <3> QED
      BY <3>1, <3>2
  <2>3. ASSUME NEW j \in T PROVE j <= n + p
    <3>1. CASE j = 0 \/ j \in Newlines(a)
      BY <1>1, <1>2, <1>3, <3>1
    <3>2. CASE j - n \in Newlines(b) /\ j < n + i
      <4>1. j \in Nat
        BY <2>1
      <4>2. j - n < i
        BY <1>1, <3>2, <4>1
      <4>3. j - n <= p
        BY <1>2, <3>2, <4>2
      <4> QED
        BY <1>1, <1>2, <4>1, <4>3
    <3> QED
      BY <1>4, <2>1, <3>1, <3>2
  <2> HIDE DEF T
  <2>4. Max(T) = n + p
    BY <2>1, <2>2, <2>3, MaxUnique
  <2> QED
    BY <2>4 DEF T, LineStart
<1>7. \A k \in (p + 1)..(i - 1) : (a \o b)[n + k] = b[k]
  <2> TAKE k \in (p + 1)..(i - 1)
  <2>1. n + k \in 1..(n + Len(b)) /\ ~(n + k <= n) /\ (n + k) - n = k
    BY <1>1, <1>2
  <2> QED
    BY <2>1, ConcatProperties DEF n
<1>8. SubSeq(a \o b, (n + p) + 1, (n + i) - 1) = SubSeq(b, p + 1, i - 1)
  <2> DEFINE m == p + 1
             l == i - 1
             mm == (n + p) + 1
             ll == (n + i) - 1
  <2>1. m \in Int /\ l \in Int /\ mm \in Int /\ ll \in Int /\ mm - m = n /\ ll - l = n
    BY <1>1, <1>2
  <2>2. \A k \in m..l : (a \o b)[n + k] = b[k]
    BY <1>7
  <2> HIDE DEF m, l, mm, ll
  <2>3. Matches(a \o b, mm, ll, b, m, l)
    BY <2>1, <2>2 DEF Matches
  <2>4. SubSeq(a \o b, mm, ll) = SubSeq(b, m, l)
    <3>1. Slice(a \o b, mm, ll) = Slice(b, m, l)
      BY <2>3, SameSlice
    <3> QED
      BY <3>1 DEF Slice
  <2> QED
    BY <2>4, Zenon DEF m, l, mm, ll
<1>9. LineEndingAt(a \o b, n + i) = LineEndingAt(b, i)
  <2>1. LineEndingAt(a \o b, n + i)
          = TrimEnd(SubSeq(a \o b, LineStart(a \o b, n + i) + 1, (n + i) - 1))
    BY DEF LineEndingAt, LineStart
  <2>2. LineEndingAt(b, i) = TrimEnd(SubSeq(b, p + 1, i - 1))
    BY DEF LineEndingAt, LineStart, p
  <2> QED
    BY <1>6, <1>8, <2>1, <2>2
<1>10. n + i \in Newlines(a \o b) <=> i \in Newlines(b)
  <2>1. n + i \notin Newlines(a) /\ (n + i) - n = i
    BY <1>1, <1>3
  <2> QED
    BY <1>1, <1>4, <2>1
<1>11. LinesAt(a \o b, n + i) = LinesAt(b, i)
  BY <1>9, <1>10 DEF LinesAt
<1> QED
  BY <1>11 DEF n

LEMMA LinesOfConcat ==
    ASSUME NEW S, NEW a \in Seq(S), NEW b \in Seq(S), Complete(a)
    PROVE  LinesOf(a \o b) = LinesOf(a) \o LinesOf(b)
<1>1. a \o b \in Seq(S) /\ Len(a \o b) = Len(a) + Len(b) /\ Len(a) \in Nat /\ Len(b) \in Nat
  BY ConcatProperties, LenProperties
<1> DEFINE T == Seq(Seq(S))
           pa == PiecesOf(a)
           pb == PiecesOf(b)
           pab == PiecesOf(a \o b)
<1>2. /\ pa \in Seq(T) /\ Len(pa) = Len(a)
      /\ \A i \in 1..Len(a) : pa[i] = LinesAt(a, i)
  BY PiecesTyped
<1>3. /\ pb \in Seq(T) /\ Len(pb) = Len(b)
      /\ \A i \in 1..Len(b) : pb[i] = LinesAt(b, i)
  BY PiecesTyped
<1>4. /\ pab \in Seq(T) /\ Len(pab) = Len(a) + Len(b)
      /\ \A i \in 1..(Len(a) + Len(b)) : pab[i] = LinesAt(a \o b, i)
  BY <1>1, PiecesTyped
<1>5. \A i \in 1..Len(a) : LinesAt(a \o b, i) = LinesAt(a, i)
  BY LinesAtLeft
<1>6. \A i \in 1..Len(b) : LinesAt(a \o b, Len(a) + i) = LinesAt(b, i)
  BY LinesAtRight
<1> HIDE DEF T, pa, pb, pab
<1>7. /\ pa \o pb \in Seq(T) /\ Len(pa \o pb) = Len(a) + Len(b)
      /\ \A i \in 1..(Len(a) + Len(b)) :
            (pa \o pb)[i] = IF i <= Len(a) THEN pa[i] ELSE pb[i - Len(a)]
  <2>1. /\ pa \o pb \in Seq(T) /\ Len(pa \o pb) = Len(pa) + Len(pb)
        /\ \A i \in 1..(Len(pa) + Len(pb)) :
              (pa \o pb)[i] = IF i <= Len(pa) THEN pa[i] ELSE pb[i - Len(pa)]
    <3>1. pa \in Seq(T) /\ pb \in Seq(T)
      BY <1>2, <1>3
    <3> QED
      BY <3>1, ConcatProperties
  <2> QED
    BY <1>2, <1>3, <2>1
<1>8. ASSUME NEW i \in 1..(Len(a) + Len(b)) PROVE pab[i] = (pa \o pb)[i]
  <2>1. CASE i <= Len(a)
    <3>1. i \in 1..Len(a)
      BY <1>1, <2>1
    <3> QED
      BY <1>2, <1>4, <1>5, <1>7, <2>1, <3>1
  <2>2. CASE ~(i <= Len(a))
    <3>1. i - Len(a) \in 1..Len(b) /\ Len(a) + (i - Len(a)) = i
      BY <1>1, <2>2
    <3> QED
      BY <1>3, <1>4, <1>6, <1>7, <2>2, <3>1
  <2> QED
    BY <2>1, <2>2
<1>9. pab = pa \o pb
  BY <1>4, <1>7, <1>8, SeqEqual
<1>10. FlattenSeq(pa \o pb) = FlattenSeq(pa) \o FlattenSeq(pb)
  BY <1>2, <1>3, FlattenConcat DEF T
<1> QED
  BY <1>9, <1>10 DEF LinesOf, PiecesOf, pa, pb, pab

LEMMA UnfinishedIs ==
    ASSUME NEW S, NEW s \in Seq(S)
    PROVE  \E a, u \in Seq(S) :
              s = a \o u /\ Complete(a) /\ Newlines(u) = {} /\ u = Unfinished(s)
<1> DEFINE k == LineStart(s, Len(s) + 1)
           a == SubSeq(s, 1, k)
           u == SubSeq(s, k + 1, Len(s))
<1>1. Newlines(s) = {i \in 1..Len(s) : s[i] = "nl"} /\ Len(s) \in Nat
  BY NewlinesIn, LenProperties
<1>2. /\ k \in 0..Len(s) /\ k \in {0} \cup Newlines(s)
      /\ \A j \in Newlines(s) : j <= k
  BY <1>1, LineStartIs
<1>3. Unfinished(s) = u
  <2>1. {j \in Newlines(s) : j < Len(s) + 1} = Newlines(s)
    BY <1>1
  <2> QED
    BY <2>1 DEF Unfinished, LineStart
<1> HIDE DEF k
<1>4. /\ a \in Seq(S) /\ Len(a) = k /\ \A i \in 1..k : a[i] = s[i]
      /\ u \in Seq(S) /\ Len(u) = Len(s) - k
      /\ \A i \in 1..(Len(s) - k) : u[i] = s[k + i]
  <2>1. k \in Int /\ Len(s) \in Int /\ 1 \in Int /\ k + 1 \in Int /\ k <= Len(s)
        /\ Len(s) <= Len(s) /\ 1 <= 1 /\ 1 <= k + 1
    BY <1>1, <1>2
  <2>2. /\ a \in Seq(S) /\ Len(a) = (IF 1 <= k THEN k - 1 + 1 ELSE 0)
        /\ \A i \in 1..(k - 1 + 1) : a[i] = s[1 + i - 1]
    BY <2>1, SubSeqTyped
  <2>3. /\ u \in Seq(S) /\ Len(u) = (IF k + 1 <= Len(s) THEN Len(s) - (k + 1) + 1 ELSE 0)
        /\ \A i \in 1..(Len(s) - (k + 1) + 1) : u[i] = s[(k + 1) + i - 1]
    BY <2>1, SubSeqTyped
  <2> HIDE DEF a, u
  <2>4. Len(a) = k /\ \A i \in 1..k : a[i] = s[i]
    BY <1>2, <2>1, <2>2
  <2>5. Len(u) = Len(s) - k /\ \A i \in 1..(Len(s) - k) : u[i] = s[k + i]
    BY <1>2, <2>1, <2>3
  <2> QED
    BY <2>2, <2>3, <2>4, <2>5
<1> HIDE DEF a, u
<1>5. s = a \o u
  <2>1. /\ a \o u \in Seq(S) /\ Len(a \o u) = Len(s)
        /\ \A i \in 1..Len(s) : (a \o u)[i] = IF i <= k THEN a[i] ELSE u[i - k]
    <3>1. /\ a \o u \in Seq(S) /\ Len(a \o u) = Len(a) + Len(u)
          /\ \A i \in 1..(Len(a) + Len(u)) :
                (a \o u)[i] = IF i <= Len(a) THEN a[i] ELSE u[i - Len(a)]
      BY <1>4, ConcatProperties
    <3>2. Len(a) = k /\ Len(a) + Len(u) = Len(s)
      BY <1>1, <1>2, <1>4
    <3> QED
      BY <3>1, <3>2
  <2>2. ASSUME NEW i \in 1..Len(s) PROVE s[i] = (a \o u)[i]
    <3>1. CASE i <= k
      BY <1>2, <1>4, <2>1, <3>1
    <3>2. CASE ~(i <= k)
      <4>1. i - k \in 1..(Len(s) - k) /\ k + (i - k) = i
        BY <1>1, <1>2, <3>2
      <4> QED
        BY <1>4, <2>1, <3>2, <4>1
    <3> QED
      BY <3>1, <3>2
  <2> QED
    BY <2>1, <2>2, SeqEqual
<1>6. Complete(a)
  <2>1. CASE k = 0
    BY <1>4, <2>1, EmptySeq DEF Complete
  <2>2. CASE k # 0
    BY <1>1, <1>2, <1>4, <2>2 DEF Complete
  <2> QED
    BY <2>1, <2>2
<1>7. Newlines(u) = {}
  <2> SUFFICES ASSUME NEW i \in Newlines(u) PROVE FALSE
    OBVIOUS
  <2>1. i \in 1..(Len(s) - k) /\ u[i] = "nl"
    BY <1>4, NewlinesIn
  <2>2. k + i \in 1..Len(s) /\ s[k + i] = "nl" /\ ~(k + i <= k)
    BY <1>1, <1>2, <1>4, <2>1
  <2> QED
    BY <1>1, <1>2, <2>2
<1> QED
  BY <1>3, <1>4, <1>5, <1>6, <1>7

LEMMA NoNewline ==
    ASSUME NEW S, NEW s \in Seq(S), Newlines(s) = {}
    PROVE  LinesOf(s) = <<>> /\ Unfinished(s) = s
<1>1. \A i \in 1..Len(s) : LinesAt(s, i) = <<>>
  BY DEF LinesAt
<1>2. PiecesOf(s) = [i \in 1..Len(s) |-> <<>>] /\ Len(s) \in Nat
  BY <1>1, LenProperties DEF PiecesOf
<1>3. LinesOf(s) = <<>>
  BY <1>2, FlattenEmpties DEF LinesOf, PiecesOf
<1>4. PICK a \in Seq(S), u \in Seq(S) :
         s = a \o u /\ Complete(a) /\ Newlines(u) = {} /\ u = Unfinished(s)
  BY UnfinishedIs
<1>5. a = <<>>
  <2> SUFFICES ASSUME a # <<>> PROVE FALSE
    OBVIOUS
  <2>1. Len(a) \in Nat /\ Len(a) # 0
    BY EmptySeq, LenProperties
  <2>2. Len(a) \in Newlines(a)
    BY <1>4, <2>1, CompleteLast
  <2>3. Len(a) \in Newlines(s)
    BY <1>4, <2>1, <2>2, NewlinesOfConcat
  <2> QED
    BY <2>3
<1>6. a \o u = u
  BY <1>5, ConcatEmptySeq
<1> QED
  BY <1>3, <1>4, <1>6

(* Cutting a text after a newline is the way to find its unfinished line.  *)
LEMMA UnfinishedAfter ==
    ASSUME NEW S, NEW a \in Seq(S), NEW u \in Seq(S), Complete(a), Newlines(u) = {}
    PROVE  Unfinished(a \o u) = u
<1> DEFINE w == a \o u
           n == Len(a)
           T == {0} \cup Newlines(w)
<1>1. /\ w \in Seq(S) /\ Len(w) = n + Len(u) /\ n \in Nat /\ Len(u) \in Nat
      /\ \A i \in 1..(n + Len(u)) : w[i] = IF i <= n THEN a[i] ELSE u[i - n]
  BY ConcatProperties, LenProperties
<1>2. \A j \in Nat : j \in Newlines(w) <=> j \in Newlines(a)
  BY NewlinesOfConcat
<1>3. Newlines(w) \subseteq Nat /\ \A j \in Newlines(a) : j <= n
  BY <1>1, NewlinesBelow
<1>4. n \in T /\ T \subseteq Nat /\ \A j \in T : j <= n
  BY <1>1, <1>2, <1>3, CompleteLast
<1> HIDE DEF w, n, T
<1>5. Max(T) = n
  BY <1>4, MaxUnique
<1>6. Unfinished(w) = SubSeq(w, n + 1, Len(w))
  BY <1>5 DEF Unfinished, T
<1>7. n + 1 \in Int /\ Len(w) \in Int /\ 1 <= n + 1 /\ Len(w) <= Len(w)
  BY <1>1
<1>8. /\ SubSeq(w, n + 1, Len(w)) \in Seq(S)
      /\ Len(SubSeq(w, n + 1, Len(w)))
           = IF n + 1 <= Len(w) THEN Len(w) - (n + 1) + 1 ELSE 0
      /\ \A i \in 1..(Len(w) - (n + 1) + 1) :
            SubSeq(w, n + 1, Len(w))[i] = w[n + 1 + i - 1]
  BY <1>1, <1>7, SubSeqTyped
<1> DEFINE v == SubSeq(w, n + 1, Len(w))
<1>9. v \in Seq(S) /\ Len(v) = Len(u) /\ \A i \in 1..Len(u) : v[i] = w[n + i]
  <2> HIDE DEF v
  <2>1. /\ v \in Seq(S)
        /\ Len(v) = IF n + 1 <= Len(w) THEN Len(w) - (n + 1) + 1 ELSE 0
        /\ \A i \in 1..(Len(w) - (n + 1) + 1) : v[i] = w[n + 1 + i - 1]
    BY <1>8 DEF v
  <2> QED
    BY <1>1, <2>1
<1>10. \A i \in 1..Len(u) : w[n + i] = u[i]
  <2> TAKE i \in 1..Len(u)
  <2>1. n + i \in 1..(n + Len(u)) /\ ~(n + i <= n) /\ (n + i) - n = i
    BY <1>1
  <2> QED
    BY <1>1, <2>1
<1> HIDE DEF v
<1>11. v = u
  BY <1>9, <1>10, SeqEqual
<1> QED
  BY <1>6, <1>11 DEF v, w

LEMMA CompleteConcat ==
    ASSUME NEW S, NEW a \in Seq(S), NEW b \in Seq(S), Complete(a), Complete(b)
    PROVE  Complete(a \o b)
<1>1. CASE b = <<>>
  BY <1>1, ConcatEmptySeq
<1>2. CASE b # <<>>
  <2>1. Len(b) \in Nat /\ Len(b) # 0 /\ Len(a) \in Nat
    BY <1>2, EmptySeq, LenProperties
  <2>2. Len(b) \in Newlines(b)
    BY <2>1, CompleteLast
  <2>3. Len(a) + Len(b) \in Newlines(a \o b)
    <3>1. Len(a) + Len(b) \in Nat /\ (Len(a) + Len(b)) - Len(a) = Len(b)
      BY <2>1
    <3> QED
      BY <2>2, <3>1, NewlinesOfConcat
  <2>4. Len(a \o b) = Len(a) + Len(b)
    BY ConcatProperties
  <2> QED
    BY <2>3, <2>4 DEF Newlines, Complete
<1> QED
  BY <1>1, <1>2

LEMMA UnfinishedOfConcat ==
    ASSUME NEW S, NEW a \in Seq(S), NEW b \in Seq(S), Complete(a)
    PROVE  Unfinished(a \o b) = Unfinished(b)
<1>1. PICK c \in Seq(S), u \in Seq(S) :
         b = c \o u /\ Complete(c) /\ Newlines(u) = {} /\ u = Unfinished(b)
  BY UnfinishedIs
<1>2. a \o b = (a \o c) \o u
  <2>1. Cat(Cat(a, c), u) = Cat(a, Cat(c, u))
    BY <1>1, CatAssociative
  <2> QED
    BY <1>1, <2>1, Zenon DEF Cat
<1>3. a \o c \in Seq(S) /\ Complete(a \o c)
  BY <1>1, CompleteConcat, ConcatProperties
<1>4. Unfinished((a \o c) \o u) = u
  BY <1>1, <1>3, UnfinishedAfter
<1> QED
  BY <1>1, <1>2, <1>4

(* More text after a text: the complete lines stay, and what is found      *)
(* further on is found in its unfinished line with the new text behind it. *)
LEMMA MoreText ==
    ASSUME NEW S, NEW s \in Seq(S), NEW d \in Seq(S)
    PROVE  /\ LinesOf(s \o d) = LinesOf(s) \o LinesOf(Unfinished(s) \o d)
           /\ Unfinished(s \o d) = Unfinished(Unfinished(s) \o d)
<1>1. PICK a \in Seq(S), u \in Seq(S) :
         s = a \o u /\ Complete(a) /\ Newlines(u) = {} /\ u = Unfinished(s)
  BY UnfinishedIs
<1>2. s \o d = a \o (u \o d)
  BY <1>1
<1>3. u \o d \in Seq(S)
  BY ConcatProperties
<1>4. LinesOf(a \o (u \o d)) = LinesOf(a) \o LinesOf(u \o d)
  BY <1>1, <1>3, LinesOfConcat
<1>5. Unfinished(a \o (u \o d)) = Unfinished(u \o d)
  BY <1>1, <1>3, UnfinishedOfConcat
<1>6. LinesOf(s) = LinesOf(a)
  <2>1. LinesOf(a \o u) = LinesOf(a) \o LinesOf(u)
    BY <1>1, LinesOfConcat
  <2>2. LinesOf(u) = <<>>
    BY <1>1, NoNewline
  <2>3. LinesOf(a) \in Seq(Seq(S))
    BY PiecesTyped
  <2>4. LinesOf(a) \o <<>> = LinesOf(a)
    BY <2>3, ConcatEmptySeq
  <2> QED
    BY <1>1, <2>1, <2>2, <2>4, Zenon
<1> QED
  BY <1>1, <1>2, <1>4, <1>5, <1>6, Zenon

(* The first line of a text and the rest of it.                            *)
NonEmpty(text) == IF text # <<>> THEN <<text>> ELSE <<>>

LEMMA FirstLine ==
    ASSUME NEW S, NEW s \in Seq(S), NEW e, e = FirstNewline(s), e # 0
    PROVE  /\ SubSeq(s, 1, e - 1) \in Seq(S)
           /\ \A i \in 1..Len(SubSeq(s, 1, e - 1)) : SubSeq(s, 1, e - 1)[i] # "nl"
           /\ SubSeq(s, e + 1, Len(s)) \in Seq(S)
           /\ LinesOf(s) = NonEmpty(TrimEnd(SubSeq(s, 1, e - 1)))
                             \o LinesOf(SubSeq(s, e + 1, Len(s)))
           /\ Unfinished(s) = Unfinished(SubSeq(s, e + 1, Len(s)))
<1>1. e \in 1..Len(s) /\ e \in Newlines(s) /\ \A j \in Newlines(s) : e <= j
  BY FirstNewlineIs
<1>2. Newlines(s) = {i \in 1..Len(s) : s[i] = "nl"} /\ Len(s) \in Nat
  BY NewlinesIn, LenProperties
<1> DEFINE a == SubSeq(s, 1, e)
           b == SubSeq(s, 1, e - 1)
           rest == SubSeq(s, e + 1, Len(s))
<1>3. 1 \in Int /\ e \in Int /\ e - 1 \in Int /\ e + 1 \in Int /\ Len(s) \in Int
      /\ e <= Len(s) /\ e - 1 <= Len(s) /\ 1 <= 1 /\ Len(s) <= Len(s) /\ 1 <= e + 1
  BY <1>1, <1>2
<1>4. a \in Seq(S) /\ Len(a) = e /\ \A i \in 1..e : a[i] = s[i]
  <2>1. /\ a \in Seq(S) /\ Len(a) = (IF 1 <= e THEN e - 1 + 1 ELSE 0)
        /\ \A i \in 1..(e - 1 + 1) : a[i] = s[1 + i - 1]
    BY <1>3, SubSeqTyped
  <2> HIDE DEF a
  <2> QED
    BY <1>1, <1>3, <2>1
<1>5. b \in Seq(S) /\ Len(b) = e - 1 /\ \A i \in 1..(e - 1) : b[i] = s[i]
  <2>1. /\ b \in Seq(S) /\ Len(b) = (IF 1 <= e - 1 THEN (e - 1) - 1 + 1 ELSE 0)
        /\ \A i \in 1..((e - 1) - 1 + 1) : b[i] = s[1 + i - 1]
    BY <1>3, SubSeqTyped
  <2> HIDE DEF b
  <2> QED
    BY <1>1, <1>3, <2>1
<1>6. rest \in Seq(S)
  BY <1>3, SubSeqTyped
<1>7. s = a \o rest
  <2>1. 1 \in 1..(Len(s) + 1) /\ e \in (1 - 1)..Len(s) /\ Len(s) \in e..Len(s)
    BY <1>1, <1>2
  <2>2. a \o rest = SubSeq(s, 1, Len(s))
    BY <2>1, ConcatAdjacentSubSeq
  <2> QED
    BY <2>2, SubSeqFull
<1> HIDE DEF a, b, rest
<1>8. a # <<>> /\ Complete(a)
  BY <1>1, <1>2, <1>4 DEF Complete
<1>9. Newlines(a) = {e}
  <2>1. Newlines(a) = {i \in 1..e : a[i] = "nl"}
    BY <1>4, NewlinesIn
  <2>2. \A i \in 1..e : a[i] = "nl" <=> i \in Newlines(s)
    BY <1>1, <1>2, <1>4
  <2> QED
    BY <1>1, <1>2, <2>1, <2>2
<1>10. LineEndingAt(a, e) = TrimEnd(b)
  <2>1. {j \in Newlines(a) : j < e} = {}
    BY <1>3, <1>9
  <2>2. Max({0}) = 0
    <3>1. {0} \subseteq Nat /\ 0 \in {0} /\ \A y \in {0} : y <= 0
      OBVIOUS
    <3> QED
      BY <3>1, MaxUnique
  <2>3. LineEndingAt(a, e) = TrimEnd(SubSeq(a, 1, e - 1))
    <3>1. {0} \cup {} = {0} /\ 0 + 1 = 1
      OBVIOUS
    <3> QED
      BY <2>1, <2>2, <3>1 DEF LineEndingAt
  <2>4. SubSeq(a, 1, e - 1) = b
    <3> DEFINE n == e - 1
    <3>1. n \in Int /\ \A i \in 1..n : a[(1 - 1) + i] = s[i]
      BY <1>3, <1>4
    <3>2. 1 - 1 = n - n
      BY <1>3
    <3> HIDE DEF n
    <3>3. Matches(a, 1, n, s, 1, n)
      BY <3>1, <3>2 DEF Matches
    <3>4. Slice(a, 1, n) = Slice(s, 1, n)
      BY <3>3, SameSlice
    <3> QED
      BY <3>4 DEF Slice, n, b
  <2> QED
    BY <2>3, <2>4
<1>11. LinesOf(a) = NonEmpty(TrimEnd(b))
  <2> DEFINE empties == [i \in 1..(e - 1) |-> <<>>]
  <2>1. LinesAt(a, e) = NonEmpty(TrimEnd(b))
    BY <1>9, <1>10 DEF LinesAt, NonEmpty
  <2>2. \A i \in 1..(e - 1) : LinesAt(a, i) = <<>>
    BY <1>3, <1>9 DEF LinesAt
  <2>3. /\ PiecesOf(a) \in Seq(Seq(Seq(S))) /\ Len(PiecesOf(a)) = e
        /\ \A i \in 1..e : PiecesOf(a)[i] = LinesAt(a, i)
    BY <1>4, PiecesTyped
  <2>4. e - 1 \in Nat
    BY <1>1
  <2>5. empties \in Seq(Seq(Seq(S))) /\ Len(empties) = e - 1
    <3> DEFINE R == Seq(Seq(S))
               n == e - 1
    <3>1. <<>> \in R /\ n \in Nat
      BY <2>4, EmptySeq
    <3> HIDE DEF R, n
    <3>2. [i \in 1..n |-> <<>>] \in Seq(R) /\ Len([i \in 1..n |-> <<>>]) = n
      BY <3>1
    <3> QED
      BY <3>2 DEF R, n
  <2>6. \A i \in 1..(e - 1) : empties[i] = <<>>
    OBVIOUS
  <2>7. FlattenSeq(empties) = <<>>
    BY <2>4, FlattenEmpties
  <2> HIDE DEF empties
  <2>8. LinesAt(a, e) \in Seq(Seq(S))
    BY <1>1, <1>4, LinesAtTyped
  <2>9. /\ Append(empties, LinesAt(a, e)) \in Seq(Seq(Seq(S)))
        /\ Len(Append(empties, LinesAt(a, e))) = e
        /\ \A i \in 1..(e - 1) : Append(empties, LinesAt(a, e))[i] = <<>>
        /\ Append(empties, LinesAt(a, e))[e] = LinesAt(a, e)
    BY <1>3, <2>5, <2>6, <2>8, AppendProperties
  <2>10. PiecesOf(a) = Append(empties, LinesAt(a, e))
    <3>1. \A i \in 1..e : PiecesOf(a)[i] = Append(empties, LinesAt(a, e))[i]
      <4> TAKE i \in 1..e
      <4>1. i = e \/ i \in 1..(e - 1)
        BY <1>3
      <4> QED
        BY <2>2, <2>3, <2>9, <4>1
    <3> QED
      BY <2>3, <2>9, <3>1, SeqEqual
  <2>11. FlattenSeq(Append(empties, LinesAt(a, e))) = FlattenSeq(empties) \o LinesAt(a, e)
    BY <2>5, <2>8, FlattenAppend
  <2>12. <<>> \o LinesAt(a, e) = LinesAt(a, e)
    BY <2>8, ConcatEmptySeq
  <2>13. LinesOf(a) = FlattenSeq(PiecesOf(a))
    BY DEF LinesOf, PiecesOf
  <2> QED
    BY <2>1, <2>7, <2>10, <2>11, <2>12, <2>13, Zenon
<1>12. LinesOf(s) = LinesOf(a) \o LinesOf(rest)
  BY <1>4, <1>6, <1>7, <1>8, LinesOfConcat
<1>13. Unfinished(s) = Unfinished(rest)
  BY <1>4, <1>6, <1>7, <1>8, UnfinishedOfConcat
<1>14. \A i \in 1..Len(b) : b[i] # "nl"
  <2> TAKE i \in 1..Len(b)
  <2>1. i \in 1..Len(s) /\ i < e /\ b[i] = s[i]
    BY <1>1, <1>2, <1>5
  <2> QED
    BY <1>1, <1>2, <2>1
<1> QED
  BY <1>5, <1>6, <1>11, <1>12, <1>13, <1>14 DEF b, rest

-----------------------------------------------------------------------------
(* Decoding.                                                               *)

LEMMA CharAtIs ==
    ASSUME NEW bytes \in Seq(Bytes), NEW i \in 1..Len(bytes)
    PROVE  /\ CharAt(bytes, i) \in Seq(Chars)
           /\ bytes[i] \in {"lead", "cont"} =>
                 CharAt(bytes, i) \in {<<"char">>, <<>>, <<"bad">>}
           /\ bytes[i] \notin {"lead", "cont"} =>
                 /\ CharAt(bytes, i) = <<bytes[i]>>
                 /\ bytes[i] \in Chars \ {"char", "bad"}
<1>1. bytes[i] \in Bytes /\ Len(bytes) \in Nat
  BY ElementOfSeq, LenProperties
<1>2. bytes[i] \in {"lead", "cont"} =>
         CharAt(bytes, i) \in {<<"char">>, <<>>, <<"bad">>}
  BY DEF CharAt
<1>3. bytes[i] \notin {"lead", "cont"} =>
         CharAt(bytes, i) = <<bytes[i]>> /\ bytes[i] \in Chars \ {"char", "bad"}
  <2> SUFFICES ASSUME bytes[i] \notin {"lead", "cont"}
               PROVE  CharAt(bytes, i) = <<bytes[i]>> /\ bytes[i] \in Chars \ {"char", "bad"}
    OBVIOUS
  <2>1. ~WholeAt(bytes, i)
    BY DEF WholeAt
  <2>2. ~WholeAt(bytes, i - 1)
    <3>1. (i - 1) + 1 = i
      OBVIOUS
    <3> QED
      BY <3>1 DEF WholeAt
  <2> QED
    BY <1>1, <2>1, <2>2 DEF CharAt, Chars, Bytes
<1>4. <<"char">> \in Seq(Chars) /\ <<>> \in Seq(Chars) /\ <<"bad">> \in Seq(Chars)
  BY EmptySeq DEF Chars
<1>5. bytes[i] \in Chars => <<bytes[i]>> \in Seq(Chars)
  OBVIOUS
<1> QED
  BY <1>2, <1>3, <1>4, <1>5

LEMMA DecodePieces ==
    ASSUME NEW bytes \in Seq(Bytes), NEW ss,
           ss = [i \in DOMAIN bytes |-> CharAt(bytes, i)]
    PROVE  /\ ss \in Seq(Seq(Chars)) /\ Len(ss) = Len(bytes)
           /\ \A i \in 1..Len(bytes) : ss[i] = CharAt(bytes, i)
<1>1. DOMAIN bytes = 1..Len(bytes) /\ Len(bytes) \in Nat
  BY LenProperties
<1> DEFINE R == Seq(Chars)
<1>2. \A i \in 1..Len(bytes) : CharAt(bytes, i) \in R
  BY CharAtIs
<1> HIDE DEF R
<1>3. /\ ss \in Seq(R) /\ Len(ss) = Len(bytes)
      /\ \A i \in 1..Len(bytes) : ss[i] = CharAt(bytes, i)
  BY <1>1, <1>2
<1> QED
  BY <1>3 DEF R

LEMMA DecodeTyped ==
    ASSUME NEW bytes \in Seq(Bytes)
    PROVE  Decode(bytes) \in Seq(Chars)
<1>1. [i \in DOMAIN bytes |-> CharAt(bytes, i)] \in Seq(Seq(Chars))
  BY DecodePieces
<1> QED
  BY <1>1, FlattenType DEF Decode

LEMMA RestPieces ==
    ASSUME NEW S, NEW s \in Seq(S), NEW ss, ss = [i \in DOMAIN s |-> RestOf(s[i])]
    PROVE  /\ ss \in Seq(Seq(S)) /\ Len(ss) = Len(s)
           /\ \A i \in 1..Len(s) : ss[i] = RestOf(s[i])
<1>1. DOMAIN s = 1..Len(s) /\ Len(s) \in Nat
  BY LenProperties
<1> DEFINE R == Seq(S)
<1>2. \A i \in 1..Len(s) : RestOf(s[i]) \in R
  <2> TAKE i \in 1..Len(s)
  <2>1. s[i] \in S
    BY ElementOfSeq
  <2>2. <<>> \in R /\ <<s[i]>> \in R
    BY <2>1, EmptySeq
  <2> HIDE DEF R
  <2> QED
    BY <2>2 DEF RestOf
<1> HIDE DEF R
<1>3. /\ ss \in Seq(R) /\ Len(ss) = Len(s)
      /\ \A i \in 1..Len(s) : ss[i] = RestOf(s[i])
  BY <1>1, <1>2
<1> QED
  BY <1>3 DEF R

LEMMA RestTyped ==
    ASSUME NEW S, NEW s \in Seq(S)
    PROVE  Rest(s) \in Seq(S)
<1>1. [i \in DOMAIN s |-> RestOf(s[i])] \in Seq(Seq(S))
  BY RestPieces
<1> QED
  BY <1>1, FlattenType DEF Rest

LEMMA RestConcat ==
    ASSUME NEW S, NEW a \in Seq(S), NEW b \in Seq(S)
    PROVE  Rest(a \o b) = Rest(a) \o Rest(b)
<1> DEFINE T == Seq(S)
           w == a \o b
           pa == [i \in DOMAIN a |-> RestOf(a[i])]
           pb == [i \in DOMAIN b |-> RestOf(b[i])]
           pw == [i \in DOMAIN w |-> RestOf(w[i])]
<1>1. /\ w \in Seq(S) /\ Len(w) = Len(a) + Len(b) /\ Len(a) \in Nat /\ Len(b) \in Nat
      /\ \A i \in 1..(Len(a) + Len(b)) : w[i] = IF i <= Len(a) THEN a[i] ELSE b[i - Len(a)]
  BY ConcatProperties, LenProperties
<1>2. pa \in Seq(T) /\ Len(pa) = Len(a) /\ \A i \in 1..Len(a) : pa[i] = RestOf(a[i])
  BY RestPieces
<1>3. pb \in Seq(T) /\ Len(pb) = Len(b) /\ \A i \in 1..Len(b) : pb[i] = RestOf(b[i])
  BY RestPieces
<1>4. pw \in Seq(T) /\ Len(pw) = Len(w) /\ \A i \in 1..Len(w) : pw[i] = RestOf(w[i])
  <2>1. w \in Seq(S)
    BY <1>1
  <2> HIDE DEF w
  <2> QED
    BY <2>1, RestPieces
<1> HIDE DEF T, w, pa, pb, pw
<1>5. /\ pa \o pb \in Seq(T) /\ Len(pa \o pb) = Len(a) + Len(b)
      /\ \A i \in 1..(Len(a) + Len(b)) :
            (pa \o pb)[i] = IF i <= Len(a) THEN pa[i] ELSE pb[i - Len(a)]
  <2>1. /\ pa \o pb \in Seq(T) /\ Len(pa \o pb) = Len(pa) + Len(pb)
        /\ \A i \in 1..(Len(pa) + Len(pb)) :
              (pa \o pb)[i] = IF i <= Len(pa) THEN pa[i] ELSE pb[i - Len(pa)]
    <3>1. pa \in Seq(T) /\ pb \in Seq(T)
      BY <1>2, <1>3
    <3> QED
      BY <3>1, ConcatProperties
  <2> QED
    BY <1>2, <1>3, <2>1
<1>6. ASSUME NEW i \in 1..(Len(a) + Len(b)) PROVE pw[i] = (pa \o pb)[i]
  <2>1. CASE i <= Len(a)
    <3>1. i \in 1..Len(a)
      BY <1>1, <2>1
    <3> QED
      BY <1>1, <1>2, <1>4, <1>5, <2>1, <3>1
  <2>2. CASE ~(i <= Len(a))
    <3>1. i - Len(a) \in 1..Len(b)
      BY <1>1, <2>2
    <3> QED
      BY <1>1, <1>3, <1>4, <1>5, <2>2, <3>1
  <2> QED
    BY <2>1, <2>2
<1>7. pw = pa \o pb
  BY <1>1, <1>4, <1>5, <1>6, SeqEqual
<1>8. FlattenSeq(pa \o pb) = FlattenSeq(pa) \o FlattenSeq(pb)
  BY <1>2, <1>3, FlattenConcat DEF T
<1> QED
  BY <1>7, <1>8 DEF Rest, pa, pb, pw, w

LEMMA RestEmpty == Rest(<<>>) = <<>>
<1>1. [i \in DOMAIN <<>> |-> RestOf(<<>>[i])] = <<>>
  OBVIOUS
<1> QED
  BY <1>1, FlattenEmpty DEF Rest

LEMMA RestOne == \A c : Rest(<<c>>) = RestOf(c)
<1> TAKE c
<1>1. RestOf(c) \in Seq({c})
  <2>1. <<>> \in Seq({c}) /\ <<c>> \in Seq({c})
    BY EmptySeq
  <2> QED
    BY <2>1 DEF RestOf
<1>2. FlattenSeq(<<RestOf(c)>>) = RestOf(c)
  BY <1>1, FlattenOne
<1>3. [i \in DOMAIN <<c>> |-> RestOf(<<c>>[i])] = <<RestOf(c)>>
  OBVIOUS
<1> QED
  BY <1>2, <1>3 DEF Rest

(* Taking what a flattened text keeps of every piece.                      *)
LEMMA RestOfFlat ==
    ASSUME NEW S, NEW ss \in Seq(Seq(S)), NEW tt \in Seq(Seq(S)),
           Len(ss) = Len(tt), \A i \in 1..Len(ss) : Rest(ss[i]) = tt[i]
    PROVE  Rest(FlattenSeq(ss)) = FlattenSeq(tt)
<1> DEFINE R == Seq(S)
           T == {n \in Nat : \A p, q \in Seq(R) :
                    Len(p) = n /\ Len(q) = n /\ (\A i \in 1..n : Rest(p[i]) = q[i])
                      => Rest(FlattenSeq(p)) = FlattenSeq(q)}
<1>1. 0 \in T
  <2>1. \A p \in Seq(R) : Len(p) = 0 => p = <<>>
    BY EmptySeq
  <2>2. \A p, q \in Seq(R) : Len(p) = 0 /\ Len(q) = 0 =>
           Rest(FlattenSeq(p)) = FlattenSeq(q)
    BY <2>1, RestEmpty, FlattenEmpty
  <2> QED
    BY <2>2
<1>2. ASSUME NEW n \in Nat, n \in T PROVE n + 1 \in T
  <2> SUFFICES ASSUME NEW p \in Seq(R), NEW q \in Seq(R),
                      Len(p) = n + 1, Len(q) = n + 1,
                      \A i \in 1..(n + 1) : Rest(p[i]) = q[i]
               PROVE  Rest(FlattenSeq(p)) = FlattenSeq(q)
    OBVIOUS
  <2> HIDE DEF R, T
  <2>1. p # <<>> /\ q # <<>>
    OBVIOUS
  <2>2. PICK pp \in Seq(R), x \in R : p = Append(pp, x)
    BY <2>1, SequenceEmptyOrAppend
  <2>3. PICK qq \in Seq(R), y \in R : q = Append(qq, y)
    BY <2>1, SequenceEmptyOrAppend
  <2>4. Len(pp) = n /\ (\A i \in 1..n : p[i] = pp[i]) /\ p[n + 1] = x
    BY <2>2, AppendProperties
  <2>5. Len(qq) = n /\ (\A i \in 1..n : q[i] = qq[i]) /\ q[n + 1] = y
    BY <2>3, AppendProperties
  <2>6. \A i \in 1..n : Rest(pp[i]) = qq[i]
    <3> TAKE i \in 1..n
    <3>1. i \in 1..(n + 1)
      OBVIOUS
    <3>2. Rest(p[i]) = q[i]
      BY <3>1
    <3> QED
      BY <2>4, <2>5, <3>2
  <2>7. Rest(x) = y
    BY <2>4, <2>5
  <2>8. Rest(FlattenSeq(pp)) = FlattenSeq(qq)
    BY <1>2, <2>4, <2>5, <2>6 DEF T
  <2>9. FlattenSeq(p) = FlattenSeq(pp) \o x /\ FlattenSeq(pp) \in Seq(S) /\ x \in Seq(S)
    BY <2>2, FlattenAppend, FlattenType DEF R
  <2>10. FlattenSeq(q) = FlattenSeq(qq) \o y
    BY <2>3, FlattenAppend DEF R
  <2>11. Rest(FlattenSeq(pp) \o x) = Rest(FlattenSeq(pp)) \o Rest(x)
    BY <2>9, RestConcat
  <2> QED
    BY <2>7, <2>8, <2>9, <2>10, <2>11, Zenon
<1> HIDE DEF T
<1>3. Nat \subseteq T
  BY <1>1, <1>2, NatSetInduction
<1>4. Len(ss) \in T
  BY <1>3
<1> QED
  BY <1>4 DEF T

(* Decoding keeps every byte that is a character of its own.               *)
LEMMA RestOfDecode ==
    ASSUME NEW bytes \in Seq(Bytes)
    PROVE  Rest(Decode(bytes)) = Rest(bytes)
<1> DEFINE C == Bytes \cup Chars
           ss == [i \in DOMAIN bytes |-> CharAt(bytes, i)]
           tt == [i \in DOMAIN bytes |-> RestOf(bytes[i])]
<1>1. ss \in Seq(Seq(Chars)) /\ Len(ss) = Len(bytes)
      /\ \A i \in 1..Len(bytes) : ss[i] = CharAt(bytes, i)
  BY DecodePieces
<1>2. bytes \in Seq(C)
  BY SeqMonotonic
<1>3. tt \in Seq(Seq(C)) /\ Len(tt) = Len(bytes)
      /\ \A i \in 1..Len(bytes) : tt[i] = RestOf(bytes[i])
  <2> HIDE DEF C
  <2> QED
    BY <1>2, RestPieces
<1>4. ss \in Seq(Seq(C))
  <2>1. Seq(Chars) \subseteq Seq(C)
    BY SeqMonotonic
  <2> HIDE DEF C, ss
  <2> QED
    BY <1>1, <2>1, SeqMonotonic
<1> HIDE DEF ss, tt
<1>5. ASSUME NEW i \in 1..Len(bytes) PROVE Rest(CharAt(bytes, i)) = RestOf(bytes[i])
  <2>1. /\ bytes[i] \in {"lead", "cont"} =>
              CharAt(bytes, i) \in {<<"char">>, <<>>, <<"bad">>}
        /\ bytes[i] \notin {"lead", "cont"} =>
              /\ CharAt(bytes, i) = <<bytes[i]>>
              /\ bytes[i] \in Chars \ {"char", "bad"}
    BY CharAtIs
  <2>4. CASE bytes[i] \in {"lead", "cont"}
    <3>1. RestOf(bytes[i]) = <<>> /\ RestOf("char") = <<>> /\ RestOf("bad") = <<>>
      BY <2>4 DEF RestOf
    <3> QED
      BY <2>1, <2>4, <3>1, RestEmpty, RestOne
  <2>5. CASE bytes[i] \notin {"lead", "cont"}
    BY <2>1, <2>5, RestOne
  <2> QED
    BY <2>4, <2>5
<1>6. \A i \in 1..Len(ss) : Rest(ss[i]) = tt[i]
  BY <1>1, <1>3, <1>5
<1>7. Rest(FlattenSeq(ss)) = FlattenSeq(tt)
  BY <1>1, <1>3, <1>4, <1>6, RestOfFlat
<1> QED
  BY <1>7 DEF Decode, Rest, ss, tt

-----------------------------------------------------------------------------
(* Classifying.                                                            *)

LEMMA TrimStartIs ==
    ASSUME NEW S, NEW s \in Seq(S), NEW skipped
    PROVE  \E k \in 0..Len(s) :
              /\ TrimStart(s, skipped) \in Seq(S)
              /\ Len(TrimStart(s, skipped)) = Len(s) - k
              /\ \A i \in 1..(Len(s) - k) : TrimStart(s, skipped)[i] = s[k + i]
              /\ \A i \in 1..k : s[i] \in skipped
              /\ k < Len(s) => s[k + 1] \notin skipped
<1> DEFINE I == {i \in 1..Len(s) : s[i] \notin skipped}
           first == IF I # {} THEN Min(I) ELSE 0
           r == IF first = 0 THEN <<>> ELSE SubSeq(s, first, Len(s))
<1>1. TrimStart(s, skipped) = r
  BY DEF TrimStart, SelectInSeq
<1>2. I \subseteq 1..Len(s) /\ Len(s) \in Nat /\ \A i \in 1..Len(s) : i \in I <=> s[i] \notin skipped
  BY LenProperties
<1> HIDE DEF I
<1>3. /\ first \in 0..Len(s)
      /\ first = 0 <=> I = {}
      /\ first # 0 => first \in I
      /\ \A j \in I : first <= j
  BY <1>2, FirstOrZero
<1> HIDE DEF first
<1>4. CASE first = 0
  <2>1. r = <<>> /\ <<>> \in Seq(S) /\ Len(<<>>) = 0
    BY <1>4, EmptySeq
  <2>2. \A i \in 1..Len(s) : s[i] \in skipped
    BY <1>2, <1>3, <1>4
  <2>3. Len(s) \in 0..Len(s) /\ Len(s) - Len(s) = 0 /\ ~(Len(s) < Len(s))
    BY <1>2
  <2>4. /\ TrimStart(s, skipped) \in Seq(S)
        /\ Len(TrimStart(s, skipped)) = Len(s) - Len(s)
    BY <1>1, <2>1, <2>3
  <2>5. \A i \in 1..(Len(s) - Len(s)) : FALSE
    BY <2>3
  <2> WITNESS Len(s) \in 0..Len(s)
  <2> QED
    BY <2>2, <2>3, <2>4, <2>5
<1>5. CASE first # 0
  <2> DEFINE k == first - 1
  <2>1. k \in 0..Len(s) /\ first = k + 1 /\ k < Len(s)
    BY <1>2, <1>3, <1>5
  <2>2. 1 <= first /\ first \in Int /\ Len(s) \in Int /\ Len(s) <= Len(s)
    BY <1>2, <1>3, <1>5
  <2>3. /\ SubSeq(s, first, Len(s)) \in Seq(S)
        /\ Len(SubSeq(s, first, Len(s))) = IF first <= Len(s) THEN Len(s) - first + 1 ELSE 0
        /\ \A i \in 1..(Len(s) - first + 1) : SubSeq(s, first, Len(s))[i] = s[first + i - 1]
    BY <2>2, SubSeqTyped
  <2>4. r = SubSeq(s, first, Len(s))
    BY <1>5
  <2> HIDE DEF r, k
  <2>5. r \in Seq(S) /\ Len(r) = Len(s) - k /\ \A i \in 1..(Len(s) - k) : r[i] = s[k + i]
    <3>1. \A i \in 1..(Len(s) - k) : i \in 1..(Len(s) - first + 1) /\ first + i - 1 = k + i
      BY <1>2, <2>1
    <3> QED
      BY <1>2, <2>1, <2>3, <2>4, <3>1
  <2>6. \A i \in 1..k : s[i] \in skipped
    BY <1>2, <1>3, <2>1
  <2>7. s[k + 1] \notin skipped
    BY <1>2, <1>3, <1>5, <2>1
  <2> QED
    BY <1>1, <2>1, <2>5, <2>6, <2>7
<1> QED
  BY <1>4, <1>5

(* The place of a severity: behind white space, then brackets.             *)
LEMMA ClassifyIs ==
    ASSUME NEW S, NEW s \in Seq(S \ {"nl"}), NEW w \in Words
    PROVE  Classify(s) = w <=>
             \E i \in DOMAIN s, j \in 0..Len(s) :
                /\ j < i /\ i < Len(s) /\ s[i] = w /\ s[i + 1] = "end"
                /\ \A k \in 1..j : s[k] = "sp"
                /\ \A k \in (j + 1)..(i - 1) : s[k] = "br"
<1> DEFINE n == Len(s)
           R == S \ {"nl"}
           u == TrimStart(s, Spaces)
           v == TrimStart(u, Brackets)
<1>1. n \in Nat /\ DOMAIN s = 1..n /\ \A i \in 1..n : s[i] # "nl"
  BY LenProperties, ElementOfSeq
<1>2. PICK a \in 0..n :
         /\ u \in Seq(R) /\ Len(u) = n - a
         /\ \A i \in 1..(n - a) : u[i] = s[a + i]
         /\ \A i \in 1..a : s[i] \in Spaces
         /\ a < n => s[a + 1] \notin Spaces
  BY TrimStartIs
<1> HIDE DEF u
<1>3. PICK b \in 0..(n - a) :
         /\ v \in Seq(R) /\ Len(v) = (n - a) - b
         /\ \A i \in 1..((n - a) - b) : v[i] = u[b + i]
         /\ \A i \in 1..b : u[i] \in Brackets
         /\ b < n - a => u[b + 1] \notin Brackets
  <2>1. \E b \in 0..Len(u) :
         /\ v \in Seq(R) /\ Len(v) = Len(u) - b
         /\ \A i \in 1..(Len(u) - b) : v[i] = u[b + i]
         /\ \A i \in 1..b : u[i] \in Brackets
         /\ b < Len(u) => u[b + 1] \notin Brackets
    BY <1>2, TrimStartIs
  <2> QED
    BY <1>2, <2>1
<1> HIDE DEF v, R, n
<1>4. Classify(s) = IF Announces(v) THEN v[1] ELSE "info"
  BY DEF Classify, u, v
<1>5. a \in Nat /\ b \in Nat /\ a + b <= n
  BY <1>1, <1>2, <1>3
<1>6. Len(v) > 1 <=> a + b + 1 < n
  BY <1>1, <1>3, <1>5
<1>7. a + b < n => v[1] = s[a + b + 1]
  <2> SUFFICES ASSUME a + b < n PROVE v[1] = s[a + b + 1]
    OBVIOUS
  <2>1. 1 \in 1..((n - a) - b) /\ b + 1 \in 1..(n - a) /\ a + (b + 1) = a + b + 1
    BY <1>1, <1>5
  <2> QED
    BY <1>2, <1>3, <2>1
<1>15. a + b + 1 < n => v[2] = s[a + b + 2]
  <2> SUFFICES ASSUME a + b + 1 < n PROVE v[2] = s[a + b + 2]
    OBVIOUS
  <2>1. 2 \in 1..((n - a) - b) /\ b + 2 \in 1..(n - a) /\ a + (b + 2) = a + b + 2
    BY <1>1, <1>5
  <2> QED
    BY <1>2, <1>3, <2>1
<1>16. Announces(v) <=> /\ a + b + 1 < n
                        /\ s[a + b + 1] \in Words /\ s[a + b + 2] = "end"
  <2>1. a + b + 1 < n => a + b < n
    BY <1>1, <1>5
  <2> QED
    BY <1>6, <1>7, <1>15, <2>1 DEF Announces
<1>8. \A i \in 1..a : s[i] = "sp"
  <2> TAKE i \in 1..a
  <2>1. i \in 1..n /\ s[i] \in Spaces
    BY <1>1, <1>2, <1>5
  <2> QED
    BY <1>1, <2>1 DEF Spaces
<1>9. \A i \in (a + 1)..(a + b) : s[i] = "br"
  <2> TAKE i \in (a + 1)..(a + b)
  <2>1. i - a \in 1..b /\ i - a \in 1..(n - a) /\ a + (i - a) = i
    BY <1>1, <1>5
  <2>2. u[i - a] \in Brackets /\ u[i - a] = s[i]
    BY <1>2, <1>3, <2>1
  <2> QED
    BY <2>2 DEF Brackets
<1>10. a + b < n => s[a + b + 1] # "br" /\ s[a + 1] # "sp"
  <2> SUFFICES ASSUME a + b < n PROVE s[a + b + 1] # "br" /\ s[a + 1] # "sp"
    OBVIOUS
  <2>1. b + 1 \in 1..(n - a) /\ a + (b + 1) = a + b + 1 /\ a < n /\ b < n - a
    BY <1>1, <1>5
  <2> QED
    BY <1>2, <1>3, <2>1 DEF Spaces, Brackets
<1>11. ASSUME a + b = n PROVE \A i \in 1..n : s[i] = "sp" \/ s[i] = "br"
  <2> TAKE i \in 1..n
  <2>1. i \in 1..a \/ i \in (a + 1)..(a + b)
    BY <1>1, <1>5, <1>11
  <2> QED
    BY <1>8, <1>9, <2>1
<1>12. w # "sp" /\ w # "br" /\ w # "info"
  BY DEF Words
<1>13. ASSUME Classify(s) = w
       PROVE  \E i \in 1..n, j \in 0..n :
                /\ j < i /\ i < n /\ s[i] = w /\ s[i + 1] = "end"
                /\ \A k \in 1..j : s[k] = "sp"
                /\ \A k \in (j + 1)..(i - 1) : s[k] = "br"
  <2>1. a + b + 1 < n /\ s[a + b + 1] = w /\ s[a + b + 2] = "end"
    <3>1. a + b + 1 < n => a + b < n
      BY <1>1, <1>5
    <3> QED
      BY <1>4, <1>7, <1>12, <1>13, <1>16, <3>1
  <2> DEFINE i == a + b + 1
  <2>2. /\ i \in 1..n /\ a \in 0..n /\ a < i /\ i - 1 = a + b /\ i < n
        /\ i + 1 = a + b + 2
    BY <1>1, <1>5, <2>1
  <2>3. s[i] = w /\ s[i + 1] = "end"
    BY <2>1, <2>2
  <2> HIDE DEF i
  <2> QED
    BY <1>8, <1>9, <2>2, <2>3
<1>14. ASSUME NEW i \in 1..n, NEW j \in 0..n, j < i, i < n, s[i] = w,
              s[i + 1] = "end",
              \A k \in 1..j : s[k] = "sp",
              \A k \in (j + 1)..(i - 1) : s[k] = "br"
       PROVE  Classify(s) = w
  <2>1. a + b < n
    BY <1>1, <1>5, <1>11, <1>12, <1>14
  <2>2. a = j
    <3>1. ~(a < j)
      <4> SUFFICES ASSUME a < j PROVE FALSE
        OBVIOUS
      <4>1. a + 1 \in 1..j
        BY <1>1, <1>5
      <4> QED
        BY <1>10, <1>14, <2>1, <4>1
    <3>2. ~(j < a)
      <4> SUFFICES ASSUME j < a PROVE FALSE
        OBVIOUS
      <4>1. j + 1 \in 1..a
        BY <1>1, <1>5
      <4>2. s[j + 1] = "sp"
        BY <1>8, <4>1
      <4>3. j + 1 = i \/ j + 1 \in (j + 1)..(i - 1)
        BY <1>1, <1>14
      <4> QED
        BY <1>12, <1>14, <4>2, <4>3
    <3> QED
      BY <1>1, <1>5, <3>1, <3>2
  <2>3. a + b + 1 = i
    <3>1. ~(a + b + 1 < i)
      <4> SUFFICES ASSUME a + b + 1 < i PROVE FALSE
        OBVIOUS
      <4>1. a + b + 1 \in (j + 1)..(i - 1)
        BY <1>1, <1>5, <2>2
      <4> QED
        BY <1>10, <1>14, <2>1, <4>1
    <3>2. ~(i < a + b + 1)
      <4> SUFFICES ASSUME i < a + b + 1 PROVE FALSE
        OBVIOUS
      <4>1. i \in (a + 1)..(a + b)
        BY <1>1, <1>5, <1>14, <2>2
      <4> QED
        BY <1>9, <1>12, <1>14, <4>1
    <3> QED
      BY <1>1, <1>5, <3>1, <3>2
  <2>4. a + b + 1 < n /\ a + b + 2 = i + 1
    BY <1>1, <1>5, <1>14, <2>3
  <2> QED
    BY <1>4, <1>7, <1>14, <1>16, <2>1, <2>3, <2>4
<1> QED
  BY <1>1, <1>13, <1>14 DEF n

LEMMA ClassifyTyped == \A s : Classify(s) \in Words \cup {"info"}
BY DEF Classify, Announces

-----------------------------------------------------------------------------
(* Types and the mutex.                                                    *)

LEMMA WriterInit == Init => TypeOK /\ HolderInv
<1> SUFFICES ASSUME Init PROVE TypeOK /\ HolderInv
  OBVIOUS
<1>1. /\ <<>> \in Seq(Chars) /\ <<>> \in Seq(Bytes) /\ <<>> \in Seq(Chars \ {"nl"})
      /\ <<>> \in Seq([level : Words \cup {"info"}, text : Seq(Chars)])
  BY EmptySeq
<1>2. 0 \in 0..MaxWrites
  BY LogAssumption
<1>3. TypeOK
  BY <1>1, <1>2, Zenon DEF Init, TypeOK
<1>4. HolderInv
  BY ThreadAssumption DEF Init, HolderInv
<1> QED
  BY <1>3, <1>4

LEMMA DrainedTyped ==
    ASSUME TypeOK, NEW t \in Threads, DrainLine(t)
    PROVE  /\ FirstNewline(buffer) # 0
           /\ buffer' = SubSeq(buffer, FirstNewline(buffer) + 1, Len(buffer))
           /\ buffer' \in Seq(Chars)
           /\ line' = [line EXCEPT ![t] =
                         TrimEnd(SubSeq(buffer, 1, FirstNewline(buffer) - 1))]
           /\ line' \in [Threads -> Seq(Chars \ {"nl"})]
<1> DEFINE e == FirstNewline(buffer)
           b == SubSeq(buffer, 1, e - 1)
<1>1. /\ e # 0 /\ buffer' = SubSeq(buffer, e + 1, Len(buffer))
      /\ line' = [line EXCEPT ![t] = TrimEnd(b)]
  BY DEF DrainLine
<1>2. buffer \in Seq(Chars) /\ line \in [Threads -> Seq(Chars \ {"nl"})]
  BY DEF TypeOK
<1>3. /\ b \in Seq(Chars) /\ buffer' \in Seq(Chars)
      /\ \A i \in 1..Len(b) : b[i] # "nl"
  BY <1>1, <1>2, FirstLine
<1> HIDE DEF b, e
<1>4. b \in Seq(Chars \ {"nl"})
  BY <1>3
<1>5. TrimEnd(b) \in Seq(Chars \ {"nl"})
  BY <1>4, TrimEndTyped
<1> QED
  BY <1>1, <1>2, <1>3, <1>5 DEF b, e

LEMMA WriterStepTyped ==
    ASSUME TypeOK, NEW t \in Threads, Step(t)
    PROVE  TypeOK'
<1> USE DEF TypeOK
<1>1. CASE AppendChunk(t)
  <2>1. chunk[t] \in Seq(Bytes)
    BY ChunkAssumption, EmptySeq
  <2>2. Decode(chunk[t]) \in Seq(Chars)
    BY <2>1, DecodeTyped
  <2>3. buffer' \in Seq(Chars) /\ received' \in Seq(Chars) /\ raw' \in Seq(Bytes)
    BY <1>1, <2>1, <2>2, ConcatProperties DEF AppendChunk
  <2> QED
    BY <1>1, <2>3 DEF AppendChunk
<1>2. CASE DrainLine(t)
  <2>1. buffer' \in Seq(Chars) /\ line' \in [Threads -> Seq(Chars \ {"nl"})]
    BY <1>2, DrainedTyped
  <2>2. /\ pc' \in [Threads -> {"idle", "lock", "scan", "emit"}]
        /\ UNCHANGED <<lineLock, chunk, writes, raw, received, records, panicked>>
    BY <1>2 DEF DrainLine
  <2> QED
    BY <2>1, <2>2
<1>3. ASSUME Hand(t)
      PROVE  /\ records' \in Seq([level : Words \cup {"info"}, text : Seq(Chars)])
             /\ line' \in [Threads -> Seq(Chars \ {"nl"})]
  <2>1. line[t] \in Seq(Chars)
    BY SeqMonotonic
  <2>2. Classify(line[t]) \in Words \cup {"info"}
    BY ClassifyTyped
  <2>3. [level |-> Classify(line[t]), text |-> line[t]]
          \in [level : Words \cup {"info"}, text : Seq(Chars)]
    BY <2>1, <2>2
  <2>4. <<>> \in Seq(Chars \ {"nl"})
    BY EmptySeq
  <2> QED
    BY <1>3, <2>3, <2>4, AppendProperties DEF Hand
<1>4. CASE EmitLine(t) \/ EmitPanics(t)
  BY <1>3, <1>4 DEF EmitLine, EmitPanics
<1>5. CASE Finish(t)
  BY <1>5 DEF Finish
<1> QED
  BY <1>1, <1>2, <1>4, <1>5 DEF Step

LEMMA WriterTypeNext == TypeOK /\ [Next]_vars => TypeOK'
<1> SUFFICES ASSUME TypeOK, [Next]_vars PROVE TypeOK'
  OBVIOUS
<1>1. ASSUME NEW t \in Threads, NEW bytes \in Chunks, WriteLog(t, bytes)
      PROVE  TypeOK'
  BY <1>1, LogAssumption DEF WriteLog, TypeOK
<1>2. CASE Done \/ UNCHANGED vars
  BY <1>2 DEF Done, vars, TypeOK
<1> QED
  BY <1>1, <1>2, WriterStepTyped DEF Next

LEMMA HolderNext == TypeOK /\ HolderInv /\ [Next]_vars => HolderInv'
<1> SUFFICES ASSUME TypeOK, HolderInv, [Next]_vars PROVE HolderInv'
  OBVIOUS
<1> USE ThreadAssumption DEF TypeOK, HolderInv
<1>1. ASSUME NEW t \in Threads, NEW bytes \in Chunks, WriteLog(t, bytes)
      PROVE  HolderInv'
  BY <1>1 DEF WriteLog
<1>2. ASSUME NEW t \in Threads, AppendChunk(t) PROVE HolderInv'
  BY <1>2 DEF AppendChunk
<1>3. ASSUME NEW t \in Threads, DrainLine(t) PROVE HolderInv'
  BY <1>3 DEF DrainLine
<1>4. ASSUME NEW t \in Threads, EmitLine(t) \/ EmitPanics(t) \/ Finish(t)
      PROVE  HolderInv'
  BY <1>4 DEF EmitLine, EmitPanics, Hand, Finish
<1>5. CASE Done \/ UNCHANGED vars
  BY <1>5 DEF Done, vars
<1> QED
  BY <1>1, <1>2, <1>3, <1>4, <1>5 DEF Next, Step

(* Every state of the writer is of the declared types.                     *)
THEOREM WriterTypeCorrect == Spec => []TypeOK
BY WriterInit, WriterTypeNext, PTL DEF Spec

LEMMA HolderInvariant == Spec => [](TypeOK /\ HolderInv)
BY WriterInit, WriterTypeNext, HolderNext, PTL DEF Spec

-----------------------------------------------------------------------------
(* No line stays behind.                                                   *)

LEMMA CaughtUpNext ==
    TypeOK /\ HolderInv /\ CaughtUp /\ [Next]_vars => CaughtUp'
<1> SUFFICES ASSUME TypeOK, HolderInv, CaughtUp, [Next]_vars PROVE CaughtUp'
  OBVIOUS
<1>1. ASSUME NEW t \in Threads, NEW bytes \in Chunks, WriteLog(t, bytes)
      PROVE  CaughtUp'
  BY <1>1 DEF WriteLog, CaughtUp, Newlines
<1>2. ASSUME NEW t \in Threads, AppendChunk(t) PROVE CaughtUp'
  BY <1>2, ThreadAssumption DEF AppendChunk, CaughtUp
<1>3. ASSUME NEW t \in Threads, DrainLine(t) \/ EmitLine(t) PROVE CaughtUp'
  <2>1. lineLock' = lineLock /\ pc[t] \in {"scan", "emit"}
    BY <1>3 DEF DrainLine, EmitLine, Hand
  <2> QED
    BY <2>1, ThreadAssumption DEF HolderInv, CaughtUp
<1>4. ASSUME NEW t \in Threads, EmitPanics(t) PROVE CaughtUp'
  BY <1>4 DEF EmitPanics, CaughtUp
<1>5. ASSUME NEW t \in Threads, Finish(t) PROVE CaughtUp'
  <2>1. Newlines(buffer) = {}
    BY <1>5, FirstNewlineIs DEF Finish, TypeOK
  <2> QED
    BY <1>5, <2>1 DEF Finish, CaughtUp, Newlines
<1>6. CASE Done \/ UNCHANGED vars
  BY <1>6 DEF Done, vars, CaughtUp, Newlines
<1> QED
  BY <1>1, <1>2, <1>3, <1>4, <1>5, <1>6 DEF Next, Step

(* write_log does not return before it has handed over every complete line *)
(* of LINE_BUFFER, those included that a logger's panic left there, unless *)
(* it panics itself.                                                       *)
THEOREM LinesNotHeldBack == Spec => []CaughtUp
<1>1. Init => CaughtUp
  BY DEF Init, CaughtUp, Newlines
<1> QED
  BY <1>1, CaughtUpNext, HolderInvariant, PTL DEF Spec

-----------------------------------------------------------------------------
(* No line is lost, repeated, reordered or cut.                            *)

LEMMA NoneInFlight == FlattenSeq(SetToSeq({})) = <<>>
<1>1. Cardinality({}) = 0 /\ 1..0 = {}
  BY FS_EmptySet
<1>2. \E f \in [1..0 -> {}] : IsInjective(f)
  <2>1. [i \in 1..0 |-> i] \in [1..0 -> {}] /\ IsInjective([i \in 1..0 |-> i])
    BY <1>1 DEF IsInjective
  <2> QED
    BY <2>1
<1>3. SetToSeq({}) \in [1..0 -> {}]
  BY <1>1, <1>2 DEF SetToSeq
<1>4. SetToSeq({}) = <<>>
  BY <1>1, <1>3
<1> QED
  BY <1>4, FlattenEmpty

LEMMA OneInFlight ==
    ASSUME NEW S, NEW x \in Seq(S)
    PROVE  FlattenSeq(SetToSeq({x})) = x
<1>1. Cardinality({x}) = 1
  BY FS_Singleton
<1>2. \E f \in [1..1 -> {x}] : IsInjective(f)
  <2>1. [i \in 1..1 |-> x] \in [1..1 -> {x}] /\ IsInjective([i \in 1..1 |-> x])
    BY DEF IsInjective
  <2> QED
    BY <2>1
<1>3. SetToSeq({x}) \in [1..1 -> {x}]
  BY <1>1, <1>2 DEF SetToSeq
<1>4. SetToSeq({x}) = <<x>>
  BY <1>3
<1> QED
  BY <1>4, FlattenOne

LEMMA HandedTyped ==
    ASSUME TypeOK
    PROVE  Handed \in Seq(Seq(Chars))
<1> DEFINE L == Seq(Chars)
<1>1. records \in Seq([level : Words \cup {"info"}, text : L])
  BY DEF TypeOK
<1> HIDE DEF L
<1>2. Len(records) \in Nat /\ DOMAIN records = 1..Len(records)
      /\ \A n \in 1..Len(records) : records[n].text \in L
  <2> DEFINE R == [level : Words \cup {"info"}, text : L]
  <2>1. records \in Seq(R) /\ \A r \in R : r.text \in L
    BY <1>1
  <2> HIDE DEF R
  <2> QED
    BY <2>1, LenProperties, ElementOfSeq
<1>3. Handed \in Seq(L)
  BY <1>2 DEF Handed
<1> QED
  BY <1>3 DEF L

(* A line that is handed over goes from the one in flight to those handed. *)
LEMMA HandedNext ==
    ASSUME TypeOK, NEW t \in Threads, Hand(t)
    PROVE  /\ Handed' = Handed \o <<line[t]>>
           /\ line[t] \in Seq(Chars)
<1> DEFINE L == Seq(Chars)
           R == [level : Words \cup {"info"}, text : L]
           r == [level |-> Classify(line[t]), text |-> line[t]]
<1>1. line[t] \in L
  <2>1. line[t] \in Seq(Chars \ {"nl"})
    BY DEF TypeOK
  <2> QED
    BY <2>1, SeqMonotonic
<1>2. records \in Seq(R) /\ records' = Append(records, r)
  BY DEF TypeOK, Hand
<1>3. r \in R /\ r.text = line[t]
  BY <1>1, ClassifyTyped
<1> HIDE DEF R, r
<1>4. /\ Len(records) \in Nat /\ DOMAIN records = 1..Len(records)
      /\ records' \in Seq(R) /\ Len(records') = Len(records) + 1
      /\ \A n \in 1..Len(records) : records'[n] = records[n]
      /\ records'[Len(records) + 1] = r
  BY <1>2, <1>3, AppendProperties, LenProperties
<1>5. DOMAIN records' = 1..(Len(records) + 1)
  BY <1>4, LenProperties
<1>6. Handed \in Seq(L) /\ Len(Handed) = Len(records)
      /\ \A n \in 1..Len(records) : Handed[n] = records[n].text
  BY <1>4, HandedTyped DEF Handed
<1> HIDE DEF L
<1>7. /\ Append(Handed, line[t]) \in Seq(L)
      /\ Len(Append(Handed, line[t])) = Len(records) + 1
      /\ \A n \in 1..Len(records) : Append(Handed, line[t])[n] = records[n].text
      /\ Append(Handed, line[t])[Len(records) + 1] = line[t]
  BY <1>1, <1>6, AppendProperties
<1>8. Handed' = [n \in 1..(Len(records) + 1) |-> records'[n].text]
  BY <1>5 DEF Handed
<1>9. \A n \in 1..(Len(records) + 1) : records'[n].text = Append(Handed, line[t])[n]
  <2> TAKE n \in 1..(Len(records) + 1)
  <2>1. n \in 1..Len(records) \/ n = Len(records) + 1
    BY <1>4
  <2> QED
    BY <1>3, <1>4, <1>7, <2>1
<1>10. Append(Handed, line[t])
         = [n \in 1..(Len(records) + 1) |-> Append(Handed, line[t])[n]]
  BY <1>7, LenProperties
<1>11. Handed' = Append(Handed, line[t])
  BY <1>8, <1>9, <1>10
<1> QED
  BY <1>1, <1>6, <1>11, AppendIsConcat DEF L

(* The line in flight is that of the thread that has the buffer.           *)
InFlightOf(p, l) ==
    FlattenSeq(SetToSeq({<<l[t]>> : t \in {u \in Threads : p[u] = "emit"}}))

LEMMA InFlightOne ==
    ASSUME NEW p, NEW l, NEW t \in Threads, p[t] = "emit",
           \A u \in Threads : p[u] = "emit" => u = t
    PROVE  InFlightOf(p, l) = <<l[t]>>
<1>1. {u \in Threads : p[u] = "emit"} = {t}
  OBVIOUS
<1>2. {<<l[u]>> : u \in {u \in Threads : p[u] = "emit"}} = {<<l[t]>>}
  BY <1>1
<1>3. <<l[t]>> \in Seq({l[t]})
  OBVIOUS
<1> QED
  BY <1>2, <1>3, OneInFlight DEF InFlightOf

LEMMA InFlightNone ==
    ASSUME NEW p, NEW l, \A u \in Threads : p[u] # "emit"
    PROVE  InFlightOf(p, l) = <<>>
<1>1. {<<l[u]>> : u \in {u \in Threads : p[u] = "emit"}} = {}
  OBVIOUS
<1> QED
  BY <1>1, NoneInFlight DEF InFlightOf

LEMMA InFlightIs == InFlight = InFlightOf(pc, line) /\ InFlight' = InFlightOf(pc', line')
BY DEF InFlight, InFlightOf

(* Nothing is written, handed over or in flight at the start.              *)
LEMMA LinesInit == Init => LinesConserved
<1> SUFFICES ASSUME Init PROVE LinesConserved
  OBVIOUS
<1>1. buffer = <<>> /\ received = <<>> /\ records = <<>>
      /\ \A u \in Threads : pc[u] # "emit"
  BY DEF Init
<1>2. InFlight = <<>>
  BY <1>1, InFlightIs, InFlightNone
<1>3. Handed = <<>>
  BY <1>1 DEF Handed
<1>4. <<>> \in Seq({}) /\ Newlines(<<>>) = {}
  BY EmptySeq DEF Newlines
<1>5. LinesOf(<<>>) = <<>>
  BY <1>4, NoNewline
<1>6. (<<>> \o <<>>) \o <<>> = <<>>
  BY <1>4, ConcatEmptySeq
<1> QED
  BY <1>1, <1>2, <1>3, <1>5, <1>6 DEF LinesConserved

LEMMA LinesAppend ==
    ASSUME TypeOK, HolderInv, LinesConserved, NEW t \in Threads, AppendChunk(t)
    PROVE  LinesConserved'
<1> DEFINE d == Decode(chunk[t])
           L == Seq(Chars)
           x == LinesOf(Unfinished(buffer) \o d)
<1>1. buffer \in Seq(Chars) /\ received \in Seq(Chars)
  BY DEF TypeOK
<1>2. d \in Seq(Chars)
  <2>1. chunk[t] \in Seq(Bytes)
    BY ChunkAssumption, EmptySeq DEF TypeOK
  <2> QED
    BY <2>1, DecodeTyped
<1>3. buffer' = buffer \o d /\ received' = received \o d /\ records' = records
  BY DEF AppendChunk
<1> HIDE DEF d
<1>4. /\ LinesOf(buffer') = LinesOf(buffer) \o x
      /\ Unfinished(buffer') = Unfinished(Unfinished(buffer) \o d)
  BY <1>1, <1>2, <1>3, MoreText
<1>5. /\ LinesOf(received') = LinesOf(received) \o LinesOf(Unfinished(received) \o d)
      /\ Unfinished(received') = Unfinished(Unfinished(received) \o d)
  BY <1>1, <1>2, <1>3, MoreText
<1>6. Unfinished(received) = Unfinished(buffer)
  BY DEF LinesConserved
<1>7. Handed' = Handed
  BY <1>3 DEF Handed
<1>8. InFlight = <<>> /\ InFlight' = <<>>
  <2>1. \A u \in Threads : pc[u] # "emit" /\ pc'[u] # "emit"
    BY ThreadAssumption DEF AppendChunk, HolderInv, TypeOK
  <2> QED
    BY <2>1, InFlightIs, InFlightNone
<1>9. x \in Seq(L) /\ LinesOf(buffer) \in Seq(L)
  <2>1. Unfinished(buffer) \o d \in Seq(Chars)
    <3>1. Unfinished(buffer) \in Seq(Chars)
      BY <1>1, UnfinishedIs
    <3> QED
      BY <1>2, <3>1, ConcatProperties
  <2> QED
    BY <1>1, <2>1, PiecesTyped
<1>10. Handed \o <<>> = Handed /\ Handed \in Seq(L)
  BY HandedTyped, ConcatEmptySeq
<1> HIDE DEF x, L
<1>11. Handed \o (LinesOf(buffer) \o x) = (Handed \o LinesOf(buffer)) \o x
  BY <1>9, <1>10
<1>12. Handed \o LinesOf(buffer) = LinesOf(received)
  BY <1>8, <1>10 DEF LinesConserved
<1>13. LinesOf(received') = LinesOf(received) \o x
  BY <1>5, <1>6 DEF x
<1>14. Handed' \o InFlight' \o LinesOf(buffer') = LinesOf(received')
  BY <1>4, <1>7, <1>8, <1>10, <1>11, <1>12, <1>13, Zenon
<1> QED
  BY <1>4, <1>5, <1>6, <1>14 DEF LinesConserved

LEMMA LinesDrain ==
    ASSUME TypeOK, HolderInv, LinesConserved, NEW t \in Threads, DrainLine(t)
    PROVE  LinesConserved'
<1> DEFINE e == FirstNewline(buffer)
           text == TrimEnd(SubSeq(buffer, 1, e - 1))
           rest == SubSeq(buffer, e + 1, Len(buffer))
           L == Seq(Chars)
<1>1. buffer \in Seq(Chars)
  BY DEF TypeOK
<1>2. /\ e # 0 /\ buffer' = rest /\ line' = [line EXCEPT ![t] = text]
      /\ pc' = IF text = <<>> THEN pc ELSE [pc EXCEPT ![t] = "emit"]
      /\ records' = records /\ received' = received
  BY DEF DrainLine
<1>3. /\ LinesOf(buffer) = NonEmpty(text) \o LinesOf(rest)
      /\ Unfinished(buffer) = Unfinished(rest)
      /\ rest \in Seq(Chars) /\ SubSeq(buffer, 1, e - 1) \in Seq(Chars)
  BY <1>1, <1>2, FirstLine
<1>4. text \in Seq(Chars)
  BY <1>3, TrimEndTyped
<1> HIDE DEF text, rest
<1>5. InFlight = <<>> /\ InFlight' = NonEmpty(text)
  <2>1. pc[t] = "scan" /\ \A u \in Threads : pc[u] # "emit"
    BY ThreadAssumption DEF DrainLine, HolderInv
  <2>2. InFlight = <<>>
    BY <2>1, InFlightIs, InFlightNone
  <2>3. CASE text = <<>>
    BY <1>2, <2>1, <2>3, InFlightIs, InFlightNone DEF NonEmpty
  <2>4. CASE text # <<>>
    <3>1. pc'[t] = "emit" /\ line'[t] = text /\ \A u \in Threads : pc'[u] = "emit" => u = t
      BY <1>2, <2>1, <2>4 DEF TypeOK
    <3>2. InFlightOf(pc', line') = <<line'[t]>>
      BY <3>1, InFlightOne
    <3> QED
      BY <2>2, <2>4, <3>1, <3>2, InFlightIs DEF NonEmpty
  <2> QED
    BY <2>2, <2>3, <2>4
<1>6. Handed' = Handed
  BY <1>2 DEF Handed
<1>7. Handed \in Seq(L) /\ Handed \o <<>> = Handed
  BY HandedTyped, ConcatEmptySeq
<1>8. NonEmpty(text) \in Seq(L) /\ LinesOf(rest) \in Seq(L)
  <2>1. <<text>> \in Seq(L) /\ <<>> \in Seq(L)
    BY <1>4, EmptySeq
  <2>2. LinesOf(rest) \in Seq(L)
    BY <1>3, PiecesTyped
  <2> QED
    BY <2>1, <2>2 DEF NonEmpty
<1> HIDE DEF L
<1>9. Handed \o (NonEmpty(text) \o LinesOf(rest)) = (Handed \o NonEmpty(text)) \o LinesOf(rest)
  BY <1>7, <1>8
<1>10. Handed \o InFlight \o LinesOf(buffer) = Handed' \o InFlight' \o LinesOf(buffer')
  BY <1>2, <1>3, <1>5, <1>6, <1>7, <1>9, Zenon
<1> QED
  BY <1>2, <1>3, <1>10, Zenon DEF LinesConserved

LEMMA LinesEmit ==
    ASSUME TypeOK, HolderInv, LinesConserved, NEW t \in Threads,
           EmitLine(t) \/ EmitPanics(t)
    PROVE  LinesConserved'
<1> DEFINE L == Seq(Chars)
<1>1. Hand(t) /\ buffer' = buffer /\ received' = received
  BY DEF EmitLine, EmitPanics
<1>2. pc[t] = "emit" /\ (\A u \in Threads : pc[u] = "emit" => u = t)
      /\ \A u \in Threads : pc'[u] # "emit"
  BY <1>1 DEF Hand, EmitLine, EmitPanics, HolderInv, TypeOK
<1>3. InFlight = <<line[t]>> /\ InFlight' = <<>>
  BY <1>2, InFlightIs, InFlightOne, InFlightNone
<1>4. Handed' = Handed \o <<line[t]>> /\ line[t] \in L
  BY <1>1, HandedNext
<1>5. (Handed \o <<line[t]>>) \o <<>> = Handed \o <<line[t]>>
  <2>1. Handed \in Seq(L) /\ <<line[t]>> \in Seq(L)
    BY <1>4, HandedTyped
  <2> HIDE DEF L
  <2>2. Handed \o <<line[t]>> \in Seq(L)
    BY <2>1, ConcatProperties
  <2> QED
    BY <2>2, ConcatEmptySeq
<1>6. Handed' \o InFlight' \o LinesOf(buffer') = Handed \o InFlight \o LinesOf(buffer)
  BY <1>1, <1>3, <1>4, <1>5, Zenon
<1> QED
  BY <1>1, <1>6, Zenon DEF LinesConserved

LEMMA LinesNext ==
    TypeOK /\ HolderInv /\ LinesConserved /\ [Next]_vars => LinesConserved'
<1> SUFFICES ASSUME TypeOK, HolderInv, LinesConserved, [Next]_vars
             PROVE  LinesConserved'
  OBVIOUS
<1>1. ASSUME UNCHANGED <<buffer, received, records, line>>,
             \A u \in Threads : pc'[u] = "emit" <=> pc[u] = "emit"
      PROVE  LinesConserved'
  <2>1. {u \in Threads : pc'[u] = "emit"} = {u \in Threads : pc[u] = "emit"}
    BY <1>1
  <2>2. InFlight' = InFlight
    BY <1>1, <2>1 DEF InFlight
  <2>3. Handed' = Handed
    BY <1>1 DEF Handed
  <2> QED
    BY <1>1, <2>2, <2>3, Zenon DEF LinesConserved
<1>2. ASSUME NEW t \in Threads, NEW bytes \in Chunks, WriteLog(t, bytes)
      PROVE  LinesConserved'
  BY <1>1, <1>2 DEF WriteLog, TypeOK
<1>3. ASSUME NEW t \in Threads, Finish(t) PROVE LinesConserved'
  BY <1>1, <1>3 DEF Finish, TypeOK
<1>4. CASE Done \/ UNCHANGED vars
  BY <1>1, <1>4 DEF Done, vars
<1> QED
  BY <1>2, <1>3, <1>4, LinesAppend, LinesDrain, LinesEmit DEF Next, Step

(* The lines handed to the logger are those the library wrote, in its      *)
(* order, whichever chunks they came in, whatever thread wrote them and    *)
(* wherever the logger panicked; an unfinished one waits in LINE_BUFFER.   *)
THEOREM NoLineLost == Spec => []LinesConserved
BY LinesInit, LinesNext, HolderInvariant, PTL DEF Spec

-----------------------------------------------------------------------------
(* What is in a line, and its severity.                                    *)

LEMMA RestNext == TypeOK /\ RestReadable /\ [Next]_vars => RestReadable'
<1> SUFFICES ASSUME TypeOK, RestReadable, [Next]_vars PROVE RestReadable'
  OBVIOUS
<1>1. ASSUME NEW t \in Threads, AppendChunk(t) PROVE RestReadable'
  <2> DEFINE b == chunk[t]
  <2>1. b \in Seq(Bytes)
    BY ChunkAssumption, EmptySeq DEF TypeOK
  <2>2. Decode(b) \in Seq(Chars)
    BY <2>1, DecodeTyped
  <2>3. received' = received \o Decode(b) /\ raw' = raw \o b
    BY <1>1 DEF AppendChunk
  <2> HIDE DEF b
  <2>4. Rest(received \o Decode(b)) = Rest(received) \o Rest(Decode(b))
    BY <2>2, RestConcat DEF TypeOK
  <2>5. Rest(raw \o b) = Rest(raw) \o Rest(b)
    BY <2>1, RestConcat DEF TypeOK
  <2>6. Rest(Decode(b)) = Rest(b)
    BY <2>1, RestOfDecode
  <2> QED
    BY <2>3, <2>4, <2>5, <2>6, Zenon DEF RestReadable
<1>2. ASSUME UNCHANGED <<received, raw>> PROVE RestReadable'
  BY <1>2 DEF RestReadable, Rest
<1>3. (\E t \in Threads : AppendChunk(t)) \/ UNCHANGED <<received, raw>>
  BY DEF Next, Step, WriteLog, DrainLine, EmitLine, EmitPanics, Hand, Finish,
     Done, vars
<1> QED
  BY <1>1, <1>2, <1>3

(* "Lossy conversion keeps the rest of the line readable" (logging.rs): a  *)
(* chunk that ends in the middle of a character, or begins there, costs no *)
(* other character, and no newline.                                        *)
THEOREM RestStaysReadable == Spec => []RestReadable
<1>1. Init => RestReadable
  BY DEF Init, RestReadable
<1> QED
  BY <1>1, RestNext, HolderInvariant, PTL DEF Spec

LEMMA RecordNext == TypeOK /\ RecordInv /\ [Next]_vars => RecordInv'
<1> SUFFICES ASSUME TypeOK, RecordInv, [Next]_vars PROVE RecordInv'
  OBVIOUS
<1>1. ASSUME NEW t \in Threads, Hand(t) PROVE RecordInv'
  <2> DEFINE R == [level : Words \cup {"info"}, text : Seq(Chars)]
             r == [level |-> Classify(line[t]), text |-> line[t]]
  <2>1. line[t] \in Seq(Chars \ {"nl"})
    BY DEF TypeOK
  <2>2. line[t] \in Seq(Chars)
    BY <2>1, SeqMonotonic
  <2>3. records \in Seq(R) /\ records' = Append(records, r)
    BY <1>1 DEF TypeOK, Hand
  <2>4. r \in R /\ r.text = line[t] /\ r.level = Classify(line[t])
    BY <2>2, ClassifyTyped
  <2> HIDE DEF R, r
  <2>5. /\ records' \in Seq(R) /\ Len(records) \in Nat
        /\ Len(records') = Len(records) + 1
        /\ \A n \in 1..Len(records) : records'[n] = records[n]
        /\ records'[Len(records) + 1] = r
    BY <2>3, <2>4, AppendProperties, LenProperties
  <2>6. DOMAIN records = 1..Len(records) /\ DOMAIN records' = 1..(Len(records) + 1)
    BY <2>3, <2>5, LenProperties
  <2> SUFFICES ASSUME NEW n \in DOMAIN records'
               PROVE  /\ records'[n].text \in Seq(Chars \ {"nl"})
                      /\ records'[n].level = Classify(records'[n].text)
    BY DEF RecordInv
  <2>7. n \in DOMAIN records \/ n = Len(records) + 1
    BY <2>5, <2>6
  <2> QED
    BY <2>1, <2>4, <2>5, <2>6, <2>7 DEF RecordInv
<1>2. ASSUME UNCHANGED records PROVE RecordInv'
  BY <1>2 DEF RecordInv
<1>3. (\E t \in Threads : Hand(t)) \/ UNCHANGED records
  BY DEF Next, Step, WriteLog, AppendChunk, DrainLine, EmitLine, EmitPanics,
     Finish, Done, vars
<1> QED
  BY <1>1, <1>2, <1>3

(* A record has the severity its line announces behind white space and     *)
(* brackets, in however many pieces the announcement came.                 *)
THEOREM SeverityAlwaysKept == Spec => []SeverityKept
<1>1. Init => RecordInv
  BY DEF Init, RecordInv
<1>2. RecordInv => SeverityKept
  <2> SUFFICES ASSUME RecordInv, NEW n \in DOMAIN records, NEW w \in Words
               PROVE  LET s == records[n].text
                      IN  records[n].level = w <=>
                            \E i \in DOMAIN s, j \in 0..Len(s) :
                               /\ j < i /\ i < Len(s) /\ s[i] = w /\ s[i + 1] = "end"
                               /\ \A k \in 1..j : s[k] = "sp"
                               /\ \A k \in (j + 1)..(i - 1) : s[k] = "br"
    BY DEF SeverityKept
  <2> DEFINE s == records[n].text
  <2>1. s \in Seq(Chars \ {"nl"}) /\ records[n].level = Classify(s)
    BY DEF RecordInv
  <2> HIDE DEF s
  <2>2. Classify(s) = w <=>
          \E i \in DOMAIN s, j \in 0..Len(s) :
             /\ j < i /\ i < Len(s) /\ s[i] = w /\ s[i + 1] = "end"
             /\ \A k \in 1..j : s[k] = "sp"
             /\ \A k \in (j + 1)..(i - 1) : s[k] = "br"
    BY <2>1, ClassifyIs
  <2> QED
    BY <2>1, <2>2, Zenon DEF s
<1> QED
  BY <1>1, <1>2, RecordNext, HolderInvariant, PTL DEF Spec
=============================================================================
