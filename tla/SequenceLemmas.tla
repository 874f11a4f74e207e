--------------------------- MODULE SequenceLemmas ---------------------------
(***************************************************************************)
(* Facts about the operators of the community modules that the models of   *)
(* the log writer and of the documents are built from: the least and the   *)
(* greatest of a set of numbers, the first and the last position at which  *)
(* a sequence passes a test, the elements of a sequence, FlattenSeq, and   *)
(* FlattenSeq of what a function makes of each element.                    *)
(*                                                                         *)
(* Induction is stated over sets of numbers and of sequences instead of    *)
(* predicates: from the library's theorem that < is well founded on Nat.   *)
(***************************************************************************)
EXTENDS Integers, SequencesExt, SequenceTheorems, WellFoundedInduction, TLAPS

-----------------------------------------------------------------------------
(* Numbers.                                                                *)

LEMMA NatMin ==
    ASSUME NEW T, T \subseteq Nat, T # {}
    PROVE  \E x \in T : \A y \in T : x <= y
<1> DEFINE R == OpToRel(<, Nat)
<1>1. IsWellFoundedOn(R, Nat)
  BY NatLessThanWellFounded
<1>2. \A x, y \in T : y < x => <<y, x>> \in R
  BY DEF OpToRel
<1> HIDE DEF R
<1>3. PICK x \in T : \A y \in T : ~(<<y, x>> \in R)
  BY <1>1, WFMin
<1>4. \A y \in T : ~(y < x)
  BY <1>2, <1>3
<1>5. \A y \in T : x <= y
  BY <1>4
<1> QED
  BY <1>5

(* Induction over a set of numbers.                                        *)
LEMMA NatSetInduction ==
    ASSUME NEW T, 0 \in T, \A n \in Nat : n \in T => n + 1 \in T
    PROVE  Nat \subseteq T
<1> SUFFICES ASSUME Nat \ T # {} PROVE FALSE
  OBVIOUS
<1>1. PICK n \in Nat \ T : \A m \in Nat \ T : n <= m
  BY NatMin
<1>2. n # 0 /\ n - 1 \in Nat /\ n - 1 \in T
  BY <1>1
<1> QED
  BY <1>1, <1>2

LEMMA MinIs ==
    ASSUME NEW T, T \subseteq Nat, T # {}
    PROVE  Min(T) \in T /\ \A y \in T : Min(T) <= y
BY NatMin DEF Min

LEMMA MaxIs ==
    ASSUME NEW T, T \subseteq Nat, T # {}, NEW n \in Nat, \A y \in T : y <= n
    PROVE  Max(T) \in T /\ \A y \in T : y <= Max(T)
<1>1. PICK z \in {n - y : y \in T} : \A x \in {n - y : y \in T} : z <= x
  <2>1. {n - y : y \in T} # {}
    OBVIOUS
  <2>2. \A y \in T : y \in Nat /\ n - y \in Nat
    OBVIOUS
  <2>3. {n - y : y \in T} \subseteq Nat
    BY <2>2
  <2> QED
    BY <2>1, <2>3, NatMin
<1>2. PICK x \in T : z = n - x
  BY <1>1
<1>3. \A y \in T : x >= y
  <2> TAKE y \in T
  <2>1. n - x <= n - y
    BY <1>1, <1>2
  <2> QED
    BY <2>1
<1>4. Max(T) \in T /\ \A y \in T : Max(T) >= y
  BY <1>3 DEF Max
<1>5. \A y \in T : y \in Nat /\ Max(T) \in Nat
  BY <1>4
<1> QED
  BY <1>4, <1>5

(* Two maxima are equal when each bounds the other's set.                  *)
LEMMA MaxUnique ==
    ASSUME NEW T, T \subseteq Nat, NEW x \in T, \A y \in T : y <= x
    PROVE  Max(T) = x
<1>1. x \in Nat /\ T # {}
  OBVIOUS
<1>2. Max(T) \in T /\ \A y \in T : y <= Max(T)
  BY <1>1, MaxIs
<1>3. Max(T) \in Nat /\ x <= Max(T) /\ Max(T) <= x
  BY <1>2
<1> QED
  BY <1>1, <1>3

(* What SelectInSeq and SelectLastInSeq make of the positions that pass.   *)
LEMMA FirstOrZero ==
    ASSUME NEW n \in Nat, NEW I, I \subseteq 1..n,
           NEW k, k = IF I # {} THEN Min(I) ELSE 0
    PROVE  /\ k \in 0..n
           /\ k = 0 <=> I = {}
           /\ k # 0 => k \in I
           /\ \A j \in I : k <= j
<1>1. CASE I = {}
  BY <1>1
<1>2. CASE I # {}
  <2>1. I \subseteq Nat
    OBVIOUS
  <2>2. k \in I /\ \A j \in I : k <= j
    BY <1>2, <2>1, MinIs
  <2> QED
    BY <1>2, <2>2
<1> QED
  BY <1>1, <1>2

LEMMA LastOrZero ==
    ASSUME NEW n \in Nat, NEW I, I \subseteq 1..n,
           NEW k, k = IF I # {} THEN Max(I) ELSE 0
    PROVE  /\ k \in 0..n
           /\ k = 0 <=> I = {}
           /\ k # 0 => k \in I
           /\ \A j \in I : j <= k
<1>1. CASE I = {}
  BY <1>1
<1>2. CASE I # {}
  <2>1. I \subseteq Nat /\ \A j \in I : j <= n
    OBVIOUS
  <2>2. k \in I /\ \A j \in I : j <= k
    BY <1>2, <2>1, MaxIs
  <2> QED
    BY <1>2, <2>2
<1> QED
  BY <1>1, <1>2

-----------------------------------------------------------------------------
(* Concatenation and Append, by names the provers do not look into.        *)
Cat(a, b) == a \o b
Put(p, x) == Append(p, x)

LEMMA CatAssociative ==
    ASSUME NEW S, NEW a \in Seq(S), NEW b \in Seq(S), NEW c \in Seq(S)
    PROVE  Cat(Cat(a, b), c) = Cat(a, Cat(b, c))
BY DEF Cat

LEMMA CatAppend ==
    ASSUME NEW S, NEW a \in Seq(S), NEW b \in Seq(S), NEW x \in S
    PROVE  Cat(a, Append(b, x)) = Append(Cat(a, b), x) /\ Cat(a, b) \in Seq(S)
BY DEF Cat

LEMMA PutIs ==
    ASSUME NEW S, NEW p \in Seq(S), NEW x \in S
    PROVE  /\ Put(p, x) \in Seq(S) /\ Len(Put(p, x)) = Len(p) + 1
           /\ Put(p, x)[Len(p) + 1] = x
           /\ \A i \in 1..Len(p) : Put(p, x)[i] = p[i]
<1>1. Append(p, x) \in Seq(S) /\ Len(Append(p, x)) = Len(p) + 1
  OBVIOUS
<1>2. Append(p, x)[Len(p) + 1] = x
  OBVIOUS
<1>3. \A i \in 1..Len(p) : Append(p, x)[i] = p[i]
  OBVIOUS
<1> QED
  BY <1>1, <1>2, <1>3 DEF Put

LEMMA PutFour ==
    ASSUME NEW a, NEW b, NEW c, NEW d
    PROVE  Put(Put(Put(Put(<<>>, a), b), c), d) = <<a, b, c, d>>
<1> DEFINE S == {a, b, c, d}
           p == Put(<<>>, a)
           q == Put(p, b)
           r == Put(q, c)
           t == Put(r, d)
           u == <<a, b, c, d>>
<1>0. a \in S /\ b \in S /\ c \in S /\ d \in S
  OBVIOUS
<1>1. p \in Seq(S) /\ Len(p) = 1 /\ p[1] = a
  BY DEF Put
<1>2. u \in Seq(S) /\ Len(u) = 4 /\ u[1] = a /\ u[2] = b /\ u[3] = c /\ u[4] = d
  OBVIOUS
<1> HIDE DEF p, u, S
<1>3. q \in Seq(S) /\ Len(q) = 2 /\ q[1] = a /\ q[2] = b
  <2>1. /\ q \in Seq(S) /\ Len(q) = Len(p) + 1 /\ q[Len(p) + 1] = b
        /\ \A i \in 1..Len(p) : q[i] = p[i]
    <3>1. p \in Seq(S) /\ b \in S
      BY <1>0, <1>1
    <3> QED
      BY ONLY <3>1, PutIs
  <2> HIDE DEF q
  <2> QED
    BY <1>1, <2>1
<1> HIDE DEF q
<1>4. r \in Seq(S) /\ Len(r) = 3 /\ r[1] = a /\ r[2] = b /\ r[3] = c
  <2>1. /\ r \in Seq(S) /\ Len(r) = Len(q) + 1 /\ r[Len(q) + 1] = c
        /\ \A i \in 1..Len(q) : r[i] = q[i]
    <3>1. q \in Seq(S) /\ c \in S
      BY <1>0, <1>3
    <3> QED
      BY ONLY <3>1, PutIs
  <2> HIDE DEF r
  <2> QED
    BY <1>3, <2>1
<1> HIDE DEF r
<1>5. t \in Seq(S) /\ Len(t) = 4 /\ t[1] = a /\ t[2] = b /\ t[3] = c /\ t[4] = d
  <2>1. /\ t \in Seq(S) /\ Len(t) = Len(r) + 1 /\ t[Len(r) + 1] = d
        /\ \A i \in 1..Len(r) : t[i] = r[i]
    <3>1. r \in Seq(S) /\ d \in S
      BY <1>0, <1>4
    <3> QED
      BY ONLY <3>1, PutIs
  <2> HIDE DEF t
  <2> QED
    BY <1>4, <2>1
<1> HIDE DEF t
<1>6. \A i \in 1..4 : t[i] = u[i]
  BY <1>5, <1>2
<1>7. t = u
  BY <1>5, <1>6, <1>2, SeqEqual
<1> QED
  BY <1>7, Zenon DEF t, r, q, p, u

(* Induction over the sequences of a set.                                  *)
LEMMA SeqSetInduction ==
    ASSUME NEW S, NEW T, <<>> \in T,
           \A s \in Seq(S), x \in S : s \in T => Put(s, x) \in T
    PROVE  Seq(S) \subseteq T
<1> DEFINE N == {n \in Nat : \A s \in Seq(S) : Len(s) = n => s \in T}
<1>1. 0 \in N
  <2>1. \A s \in Seq(S) : Len(s) = 0 => s = <<>>
    BY EmptySeq
  <2> QED
    BY <2>1
<1>2. ASSUME NEW n \in Nat, n \in N PROVE n + 1 \in N
  <2> SUFFICES ASSUME NEW s \in Seq(S), Len(s) = n + 1 PROVE s \in T
    OBVIOUS
  <2>1. s # <<>>
    OBVIOUS
  <2>2. PICK r \in Seq(S), x \in S : s = Append(r, x)
    BY <2>1, SequenceEmptyOrAppend
  <2>3. Len(r) = n
    BY <2>2, AppendProperties
  <2>4. r \in T
    BY <1>2, <2>3
  <2> QED
    BY <2>2, <2>4 DEF Put
<1> HIDE DEF N
<1>3. Nat \subseteq N
  BY <1>1, <1>2, NatSetInduction
<1>4. \A s \in Seq(S) : Len(s) \in N
  BY <1>3
<1> QED
  BY <1>4 DEF N

(* The elements of a sequence.                                             *)
LEMMA ToSetPut ==
    ASSUME NEW S, NEW s \in Seq(S), NEW x \in S
    PROVE  ToSet(Put(s, x)) = ToSet(s) \cup {x}
<1> DEFINE w == Put(s, x)
           n == Len(s)
<1>1. /\ w \in Seq(S) /\ Len(w) = n + 1 /\ w[n + 1] = x
      /\ \A i \in 1..n : w[i] = s[i]
  BY PutIs
<1> HIDE DEF w
<1>2. n \in Nat /\ DOMAIN s = 1..n /\ DOMAIN w = 1..(n + 1)
  BY <1>1, LenProperties
<1> HIDE DEF n
<1>3. 1..(n + 1) = 1..n \cup {n + 1}
  BY <1>2
<1>4. ToSet(w) = ToSet(s) \cup {x}
  BY <1>1, <1>2, <1>3 DEF ToSet
<1> QED
  BY <1>4 DEF w

LEMMA ToSetEmpty == ToSet(<<>>) = {}
<1>1. DOMAIN <<>> = 1..0 /\ 1..0 = {}
  BY EmptySeq, LenProperties
<1> QED
  BY <1>1 DEF ToSet

LEMMA ToSetCat ==
    ASSUME NEW S, NEW a \in Seq(S), NEW b \in Seq(S)
    PROVE  ToSet(Cat(a, b)) = ToSet(a) \cup ToSet(b)
<1> DEFINE T == {r \in Seq(S) : ToSet(Cat(a, r)) = ToSet(a) \cup ToSet(r)}
<1>1. <<>> \in T
  <2>1. <<>> \in Seq(S) /\ Cat(a, <<>>) = a
    BY EmptySeq, ConcatEmptySeq DEF Cat
  <2> QED
    BY <2>1, ToSetEmpty
<1>2. ASSUME NEW r \in Seq(S), NEW x \in S, r \in T PROVE Put(r, x) \in T
  <2>1. Cat(a, Put(r, x)) = Put(Cat(a, r), x) /\ Cat(a, r) \in Seq(S)
    BY CatAppend DEF Put
  <2>2. ToSet(Put(Cat(a, r), x)) = ToSet(Cat(a, r)) \cup {x}
    BY <2>1, ToSetPut
  <2>3. ToSet(Put(r, x)) = ToSet(r) \cup {x} /\ Put(r, x) \in Seq(S)
    BY ToSetPut, PutIs
  <2>4. ToSet(Cat(a, r)) = ToSet(a) \cup ToSet(r)
    BY <1>2
  <2> QED
    BY <2>1, <2>2, <2>3, <2>4
<1> HIDE DEF T
<1>3. b \in T
  BY <1>1, <1>2, SeqSetInduction
<1> QED
  BY <1>3 DEF T

LEMMA PrefixSelf == ASSUME NEW S, NEW t \in Seq(S) PROVE IsPrefix(t, t)
<1>1. Len(t) \in Nat
  BY LenProperties
<1> QED
  BY <1>1 DEF IsPrefix

LEMMA PrefixPut ==
    ASSUME NEW S, NEW s \in Seq(S), NEW t \in Seq(S), NEW x \in S, IsPrefix(s, t)
    PROVE  IsPrefix(s, Put(t, x))
<1> DEFINE w == Put(t, x)
           n == Len(s)
<1>1. /\ w \in Seq(S) /\ Len(w) = Len(t) + 1
      /\ \A i \in 1..Len(t) : w[i] = t[i]
  BY ONLY t \in Seq(S), x \in S, PutIs
<1> HIDE DEF w
<1>2. n \in Nat /\ Len(t) \in Nat /\ n <= Len(t) /\ SubSeq(s, 1, n) = SubSeq(t, 1, n)
  BY LenProperties DEF IsPrefix
<1>3. SubSeq(w, 1, n) = SubSeq(t, 1, n)
  BY <1>1, <1>2
<1> QED
  BY <1>1, <1>2, <1>3 DEF IsPrefix, w

-----------------------------------------------------------------------------
(* FlattenSeq.                                                             *)

(* f[i] is what the first i sequences of ss flatten to.                    *)
Flattens(f, ss) ==
    \A i \in 1..Len(ss) : f[i] = IF i = 1 THEN ss[i] ELSE f[i - 1] \o ss[i]

LEMMA FlattenEmpty == FlattenSeq(<<>>) = <<>>
<1>1. Len(<<>>) = 0
  OBVIOUS
<1> QED
  BY <1>1 DEF FlattenSeq

LEMMA FlattensExists ==
    ASSUME NEW ss, NEW n \in Nat
    PROVE  \E f : f = [i \in 1..n |-> IF i = 1 THEN ss[i] ELSE f[i - 1] \o ss[i]]
<1> DEFINE T == {m \in Nat : \E f : f = [i \in 1..m |->
                   IF i = 1 THEN ss[i] ELSE f[i - 1] \o ss[i]]}
<1>1. 0 \in T
  <2>1. 1..0 = {}
    OBVIOUS
  <2> DEFINE e == [i \in {} |-> i]
  <2>2. e = [i \in 1..0 |-> IF i = 1 THEN ss[i] ELSE e[i - 1] \o ss[i]]
    BY <2>1
  <2> HIDE DEF e
  <2> QED
    BY <2>2
<1>2. ASSUME NEW m \in Nat, m \in T PROVE m + 1 \in T
  <2>1. PICK f : f = [i \in 1..m |-> IF i = 1 THEN ss[i] ELSE f[i - 1] \o ss[i]]
    BY <1>2
  <2> DEFINE g == [i \in 1..(m + 1) |->
                     IF i <= m THEN f[i]
                     ELSE IF i = 1 THEN ss[i] ELSE f[i - 1] \o ss[i]]
  <2>2. ASSUME NEW i \in 1..(m + 1)
        PROVE  g[i] = IF i = 1 THEN ss[i] ELSE g[i - 1] \o ss[i]
    <3>1. ASSUME i <= m
          PROVE  f[i] = IF i = 1 THEN ss[i] ELSE f[i - 1] \o ss[i]
      <4>1. i \in 1..m
        BY <3>1
      <4> QED
        BY <2>1, <4>1
    <3>2. i # 1 => i - 1 \in 1..(m + 1) /\ i - 1 <= m
      OBVIOUS
    <3>3. g[i] = IF i = 1 THEN ss[i] ELSE f[i - 1] \o ss[i]
      BY <3>1
    <3>4. i # 1 => g[i - 1] = f[i - 1]
      BY <3>2
    <3> QED
      BY <3>3, <3>4
  <2>3. g = [i \in 1..(m + 1) |-> g[i]]
    OBVIOUS
  <2> HIDE DEF g
  <2>4. g = [i \in 1..(m + 1) |-> IF i = 1 THEN ss[i] ELSE g[i - 1] \o ss[i]]
    BY <2>2, <2>3
  <2>5. m + 1 \in Nat
    OBVIOUS
  <2> QED
    BY <2>4, <2>5, Zenon
<1> HIDE DEF T
<1>3. n \in T
  BY <1>1, <1>2, NatSetInduction
<1> QED
  BY <1>3 DEF T

LEMMA FlattenIs ==
    ASSUME NEW ss, Len(ss) \in Nat \ {0}
    PROVE  \E f : Flattens(f, ss) /\ FlattenSeq(ss) = f[Len(ss)]
<1> DEFINE e(f) == [i \in 1..Len(ss) |-> IF i = 1 THEN ss[i] ELSE f[i - 1] \o ss[i]]
           g == CHOOSE f : f = e(f)
<1>1. FlattenSeq(ss) = g[Len(ss)]
  BY DEF FlattenSeq
<1>2. \E f : f = e(f)
  BY FlattensExists
<1> HIDE DEF e
<1>3. g = e(g)
  BY <1>2
<1> HIDE DEF g
<1>4. Flattens(g, ss)
  BY <1>3 DEF Flattens, e
<1> QED
  BY <1>1, <1>4

LEMMA FlattensAgree ==
    ASSUME NEW ss, NEW tt, NEW f, NEW g, NEW n \in Nat,
           n <= Len(ss), n <= Len(tt), Len(ss) \in Nat, Len(tt) \in Nat,
           \A i \in 1..n : ss[i] = tt[i],
           Flattens(f, ss), Flattens(g, tt)
    PROVE  \A i \in 1..n : f[i] = g[i]
<1> DEFINE T == {i \in Nat : i \in 1..n => f[i] = g[i]}
<1>1. 0 \in T
  OBVIOUS
<1>2. ASSUME NEW i \in Nat, i \in T PROVE i + 1 \in T
  <2> SUFFICES ASSUME i + 1 \in 1..n PROVE f[i + 1] = g[i + 1]
    OBVIOUS
  <2>1. /\ f[i + 1] = IF i + 1 = 1 THEN ss[i + 1] ELSE f[(i + 1) - 1] \o ss[i + 1]
        /\ g[i + 1] = IF i + 1 = 1 THEN tt[i + 1] ELSE g[(i + 1) - 1] \o tt[i + 1]
    <3>1. i + 1 \in 1..Len(ss) /\ i + 1 \in 1..Len(tt)
      OBVIOUS
    <3> QED
      BY <3>1 DEF Flattens
  <2>2. i # 0 => f[i] = g[i]
    BY <1>2
  <2> QED
    BY <2>1, <2>2
<1> HIDE DEF T
<1>3. Nat \subseteq T
  BY <1>1, <1>2, NatSetInduction
<1> QED
  BY <1>3 DEF T

LEMMA FlattenAppend ==
    ASSUME NEW S, NEW ss \in Seq(Seq(S)), NEW x \in Seq(S)
    PROVE  FlattenSeq(Append(ss, x)) = FlattenSeq(ss) \o x
<1> DEFINE tt == Append(ss, x)
           n == Len(ss)
<1>1. n \in Nat /\ Len(tt) = n + 1 /\ tt[n + 1] = x /\ \A i \in 1..n : tt[i] = ss[i]
  BY AppendProperties
<1> HIDE DEF tt, n
<1>2. PICK g : Flattens(g, tt) /\ FlattenSeq(tt) = g[n + 1]
  <2>1. Len(tt) \in Nat \ {0}
    BY <1>1
  <2> QED
    BY <1>1, <2>1, FlattenIs
<1>3. g[n + 1] = IF n + 1 = 1 THEN x ELSE g[(n + 1) - 1] \o x
  BY <1>1, <1>2 DEF Flattens
<1>4. CASE n = 0
  <2>1. ss = <<>>
    BY <1>4, EmptySeq DEF n
  <2> QED
    BY <1>2, <1>3, <1>4, <2>1, FlattenEmpty, ConcatEmptySeq DEF tt
<1>5. CASE n # 0
  <2>1. PICK f : Flattens(f, ss) /\ FlattenSeq(ss) = f[n]
    BY <1>1, <1>5, FlattenIs DEF n
  <2>2. n <= Len(ss) /\ n <= Len(tt) /\ Len(ss) \in Nat /\ Len(tt) \in Nat
    BY <1>1 DEF n
  <2> n \in Nat /\ \A i \in 1..n : ss[i] = tt[i]
    BY <1>1
  <2>3. \A i \in 1..n : f[i] = g[i]
    BY <1>2, <2>1, <2>2, FlattensAgree
  <2>4. f[n] = g[n] /\ (n + 1) - 1 = n /\ n + 1 # 1
    BY <1>1, <1>5, <2>3
  <2> QED
    BY <1>2, <1>3, <2>1, <2>4 DEF tt
<1> QED
  BY <1>4, <1>5

LEMMA FlattenType ==
    ASSUME NEW S, NEW ss \in Seq(Seq(S))
    PROVE  FlattenSeq(ss) \in Seq(S)
<1> DEFINE T == {n \in Nat : \A tt \in Seq(Seq(S)) :
                               Len(tt) = n => FlattenSeq(tt) \in Seq(S)}
<1>1. 0 \in T
  <2>1. \A tt \in Seq(Seq(S)) : Len(tt) = 0 => tt = <<>>
    BY EmptySeq
  <2>2. <<>> \in Seq(S)
    BY EmptySeq
  <2> QED
    BY <2>1, <2>2, FlattenEmpty
<1>2. ASSUME NEW n \in Nat, n \in T PROVE n + 1 \in T
  <2> SUFFICES ASSUME NEW tt \in Seq(Seq(S)), Len(tt) = n + 1
               PROVE  FlattenSeq(tt) \in Seq(S)
    OBVIOUS
  <2>1. tt # <<>>
    OBVIOUS
  <2>2. PICK uu \in Seq(Seq(S)), x \in Seq(S) : tt = Append(uu, x)
    BY <2>1, SequenceEmptyOrAppend
  <2>3. Len(uu) = n
    BY <2>2, AppendProperties
  <2>4. FlattenSeq(uu) \in Seq(S)
    BY <1>2, <2>3
  <2> QED
    BY <2>2, <2>4, FlattenAppend, ConcatProperties
<1> HIDE DEF T
<1>3. Nat \subseteq T
  BY <1>1, <1>2, NatSetInduction
<1>4. Len(ss) \in T
  BY <1>3
<1> QED
  BY <1>4 DEF T

LEMMA FlattenConcat ==
    ASSUME NEW S, NEW ss \in Seq(Seq(S)), NEW tt \in Seq(Seq(S))
    PROVE  FlattenSeq(ss \o tt) = FlattenSeq(ss) \o FlattenSeq(tt)
<1> DEFINE T == {n \in Nat : \A uu \in Seq(Seq(S)) : Len(uu) = n =>
                    FlattenSeq(Cat(ss, uu)) = Cat(FlattenSeq(ss), FlattenSeq(uu))}
<1>1. 0 \in T
  <2>1. \A uu \in Seq(Seq(S)) : Len(uu) = 0 => uu = <<>>
    BY EmptySeq
  <2>2. ss \o <<>> = ss /\ FlattenSeq(ss) \o <<>> = FlattenSeq(ss)
    BY ConcatEmptySeq, FlattenType
  <2> QED
    BY <2>1, <2>2, FlattenEmpty DEF Cat
<1>2. ASSUME NEW n \in Nat, n \in T PROVE n + 1 \in T
  <2> SUFFICES ASSUME NEW uu \in Seq(Seq(S)), Len(uu) = n + 1
               PROVE  FlattenSeq(Cat(ss, uu)) = Cat(FlattenSeq(ss), FlattenSeq(uu))
    OBVIOUS
  <2>1. uu # <<>>
    OBVIOUS
  <2>2. PICK vv \in Seq(Seq(S)), x \in Seq(S) : uu = Append(vv, x)
    BY <2>1, SequenceEmptyOrAppend
  <2>3. Len(vv) = n
    BY <2>2, AppendProperties
  <2>4. FlattenSeq(Cat(ss, vv)) = Cat(FlattenSeq(ss), FlattenSeq(vv))
    BY <1>2, <2>3
  <2>5. Cat(ss, uu) = Append(Cat(ss, vv), x) /\ Cat(ss, vv) \in Seq(Seq(S))
    BY <2>2, CatAppend
  <2>6. FlattenSeq(Cat(ss, uu)) = Cat(FlattenSeq(Cat(ss, vv)), x)
    BY <2>5, FlattenAppend DEF Cat
  <2>7. FlattenSeq(uu) = Cat(FlattenSeq(vv), x)
    BY <2>2, FlattenAppend DEF Cat
  <2>8. FlattenSeq(ss) \in Seq(S) /\ FlattenSeq(vv) \in Seq(S)
    BY FlattenType
  <2>9. Cat(Cat(FlattenSeq(ss), FlattenSeq(vv)), x)
          = Cat(FlattenSeq(ss), Cat(FlattenSeq(vv), x))
    BY <2>8, CatAssociative
  <2> QED
    BY <2>4, <2>6, <2>7, <2>9, Zenon
<1> HIDE DEF T
<1>3. Nat \subseteq T
  BY <1>1, <1>2, NatSetInduction
<1>4. Len(tt) \in T
  BY <1>3
<1> QED
  BY <1>4 DEF T, Cat

LEMMA FlattenOne ==
    ASSUME NEW S, NEW x \in Seq(S)
    PROVE  FlattenSeq(<<x>>) = x
<1>1. <<x>> = Append(<<>>, x) /\ <<>> \in Seq(Seq(S))
  BY EmptySeq
<1>2. FlattenSeq(Append(<<>>, x)) = FlattenSeq(<<>>) \o x
  BY <1>1, FlattenAppend
<1> QED
  BY <1>1, <1>2, FlattenEmpty, ConcatEmptySeq

LEMMA FlattenEmpties ==
    ASSUME NEW n \in Nat, NEW ss, ss = [i \in 1..n |-> <<>>]
    PROVE  FlattenSeq(ss) = <<>>
<1>1. ss \in Seq(Seq({}))
  BY EmptySeq
<1>2. FlattenSeq(ss) \in Seq({})
  BY <1>1, FlattenType
<1>3. \A s \in Seq({}) : s = <<>>
  <2> TAKE s \in Seq({})
  <2>1. Len(s) \in Nat /\ \A i \in 1..Len(s) : s[i] \in {}
    BY ElementOfSeq
  <2> QED
    BY <2>1, EmptySeq
<1> QED
  BY <1>2, <1>3

-----------------------------------------------------------------------------
(* FlattenSeq of what a function makes of each element of a sequence.      *)
Gather(f, s) == FlattenSeq([i \in DOMAIN s |-> f[s[i]]])

LEMMA GatherEmpty == ASSUME NEW f PROVE Gather(f, <<>>) = <<>>
<1>1. DOMAIN <<>> = 1..0 /\ 1..0 = {}
  BY EmptySeq, LenProperties
<1>2. [i \in DOMAIN <<>> |-> f[<<>>[i]]] = [i \in 1..0 |-> <<>>]
  BY <1>1
<1> QED
  BY <1>2, FlattenEmpties DEF Gather

LEMMA GatherPut ==
    ASSUME NEW S, NEW V, NEW f \in [S -> Seq(V)], NEW s \in Seq(S), NEW x \in S
    PROVE  Gather(f, Put(s, x)) = Cat(Gather(f, s), f[x])
<1> DEFINE R == Seq(V)
           n == Len(s)
           w == Put(s, x)
           p == [i \in 1..n |-> f[s[i]]]
           q == [i \in 1..(n + 1) |-> f[w[i]]]
<1>1. n \in Nat /\ DOMAIN s = 1..n /\ \A i \in 1..n : s[i] \in S
  BY LenProperties, ElementOfSeq
<1>2. /\ w \in Seq(S) /\ Len(w) = n + 1 /\ w[n + 1] = x
      /\ \A i \in 1..n : w[i] = s[i]
  BY ONLY s \in Seq(S), x \in S, PutIs
<1>3. DOMAIN w = 1..(n + 1)
  BY <1>2, LenProperties
<1> HIDE DEF w, n
<1>4. \A y \in S : f[y] \in R
  OBVIOUS
<1> HIDE DEF R
<1>5. p \in Seq(R) /\ Len(p) = n
  BY <1>1, <1>4
<1>6. \A i \in 1..(n + 1) : w[i] \in S
  <2> TAKE i \in 1..(n + 1)
  <2>1. i \in 1..n \/ i = n + 1
    BY <1>1
  <2> QED
    BY <1>1, <1>2, <2>1
<1>7. q \in Seq(R) /\ Len(q) = n + 1
  BY <1>1, <1>4, <1>6
<1>8. q[n + 1] = f[x] /\ \A i \in 1..n : q[i] = p[i]
  BY <1>1, <1>2
<1>9. f[x] \in R
  BY <1>4
<1> HIDE DEF p, q
<1>10. q = Append(p, f[x])
  <2> DEFINE v == Put(p, f[x])
  <2>1. /\ v \in Seq(R) /\ Len(v) = Len(p) + 1 /\ v[Len(p) + 1] = f[x]
        /\ \A i \in 1..Len(p) : v[i] = p[i]
    <3>1. p \in Seq(R) /\ f[x] \in R
      BY <1>5, <1>9
    <3> QED
      BY ONLY <3>1, PutIs
  <2> HIDE DEF v
  <2>2. \A i \in 1..(n + 1) : i \in 1..n \/ i = n + 1
    BY <1>1
  <2>3. \A i \in 1..(n + 1) : q[i] = v[i]
    BY <1>5, <1>8, <2>1, <2>2
  <2>4. q = v
    BY <1>5, <1>7, <2>1, <2>3, SeqEqual
  <2> QED
    BY <2>4 DEF v, Put
<1>11. FlattenSeq(Append(p, f[x])) = FlattenSeq(p) \o f[x]
  BY <1>5, <1>9, FlattenAppend DEF R
<1>12. Gather(f, s) = FlattenSeq(p) /\ Gather(f, w) = FlattenSeq(q)
  BY <1>1, <1>3 DEF Gather, p, q
<1> QED
  BY <1>10, <1>11, <1>12, Zenon DEF Cat, w

Grows(f, S) ==
    \A s \in Seq(S), x \in S : Gather(f, Put(s, x)) = Cat(Gather(f, s), f[x])

LEMMA GatherGrows ==
    ASSUME NEW S, NEW V, NEW f \in [S -> Seq(V)]
    PROVE  Grows(f, S)
<1>1. ASSUME NEW s \in Seq(S), NEW x \in S
      PROVE  Gather(f, Put(s, x)) = Cat(Gather(f, s), f[x])
  BY ONLY f \in [S -> Seq(V)], GatherPut
<1> QED
  BY <1>1 DEF Grows

LEMMA GatherType ==
    ASSUME NEW S, NEW V, NEW f \in [S -> Seq(V)], NEW s \in Seq(S)
    PROVE  Gather(f, s) \in Seq(V)
<1> DEFINE T == {r \in Seq(S) : Gather(f, r) \in Seq(V)}
<1>1. <<>> \in T
  <2>1. <<>> \in Seq(S) /\ <<>> \in Seq(V)
    BY EmptySeq
  <2> QED
    BY <2>1, GatherEmpty
<1>2. ASSUME NEW r \in Seq(S), NEW x \in S, r \in T PROVE Put(r, x) \in T
  <2>1. Gather(f, r) \in Seq(V) /\ f[x] \in Seq(V)
    BY <1>2
  <2>2. Cat(Gather(f, r), f[x]) \in Seq(V)
    BY <2>1, ConcatProperties DEF Cat
  <2>3. Put(r, x) \in Seq(S)
    BY PutIs
  <2> QED
    <3>1. Gather(f, Put(r, x)) = Cat(Gather(f, r), f[x])
      BY GatherGrows, Zenon DEF Grows
    <3> QED
      BY <2>2, <2>3, <3>1
<1> HIDE DEF T
<1>3. s \in T
  BY <1>1, <1>2, SeqSetInduction
<1> QED
  BY <1>3 DEF T

LEMMA GatherCat ==
    ASSUME NEW S, NEW V, NEW f \in [S -> Seq(V)], NEW a \in Seq(S), NEW b \in Seq(S)
    PROVE  Gather(f, Cat(a, b)) = Cat(Gather(f, a), Gather(f, b))
<1> DEFINE T == {r \in Seq(S) : Gather(f, Cat(a, r)) = Cat(Gather(f, a), Gather(f, r))}
<1>1. <<>> \in T
  <2>1. <<>> \in Seq(S) /\ Gather(f, a) \in Seq(V)
    BY EmptySeq, GatherType
  <2>2. Cat(a, <<>>) = a /\ Cat(Gather(f, a), <<>>) = Gather(f, a)
    BY <2>1, ConcatEmptySeq DEF Cat
  <2> QED
    BY <2>1, <2>2, GatherEmpty
<1>2. ASSUME NEW r \in Seq(S), NEW x \in S, r \in T PROVE Put(r, x) \in T
  <2>1. Cat(a, Put(r, x)) = Put(Cat(a, r), x) /\ Cat(a, r) \in Seq(S)
    BY CatAppend DEF Put
  <2>2. Gather(f, Put(Cat(a, r), x)) = Cat(Gather(f, Cat(a, r)), f[x])
    BY <2>1, GatherGrows, Zenon DEF Grows
  <2>3. Gather(f, Put(r, x)) = Cat(Gather(f, r), f[x])
    BY GatherGrows, Zenon DEF Grows
  <2>4. Gather(f, a) \in Seq(V) /\ Gather(f, r) \in Seq(V) /\ f[x] \in Seq(V)
    BY GatherType
  <2>5. Cat(Cat(Gather(f, a), Gather(f, r)), f[x]) = Cat(Gather(f, a), Cat(Gather(f, r), f[x]))
    BY <2>4, CatAssociative
  <2>6. Gather(f, Cat(a, r)) = Cat(Gather(f, a), Gather(f, r))
    BY <1>2
  <2>7. Gather(f, Cat(a, Put(r, x))) = Cat(Gather(f, a), Gather(f, Put(r, x)))
    BY <2>1, <2>2, <2>3, <2>5, <2>6, Zenon
  <2>8. Put(r, x) \in Seq(S)
    BY PutIs
  <2> QED
    BY <2>7, <2>8
<1> HIDE DEF T
<1>3. b \in T
  BY <1>1, <1>2, SeqSetInduction
<1> QED
  BY <1>3 DEF T

Splits(f, S) ==
    \A a, b \in Seq(S) : Gather(f, Cat(a, b)) = Cat(Gather(f, a), Gather(f, b))

LEMMA GatherSplits ==
    ASSUME NEW S, NEW V, NEW f \in [S -> Seq(V)]
    PROVE  Splits(f, S)
<1>1. ASSUME NEW a \in Seq(S), NEW b \in Seq(S)
      PROVE  Gather(f, Cat(a, b)) = Cat(Gather(f, a), Gather(f, b))
  BY ONLY f \in [S -> Seq(V)], GatherCat
<1> QED
  BY <1>1 DEF Splits

(* Two in a row are one.                                                   *)
Composes(h, g, f, S) == \A x \in S : h[x] = Gather(g, f[x])
Fuses(h, g, f, S) == \A s \in Seq(S) : Gather(g, Gather(f, s)) = Gather(h, s)

LEMMA GatherGather ==
    ASSUME NEW S, NEW V, NEW W, NEW f \in [S -> Seq(V)], NEW g \in [V -> Seq(W)],
           NEW h \in [S -> Seq(W)], Composes(h, g, f, S)
    PROVE  Fuses(h, g, f, S)
<1>1. ASSUME NEW r \in Seq(S), NEW x \in S
      PROVE  Gather(f, Put(r, x)) = Cat(Gather(f, r), f[x])
  BY GatherGrows, Zenon DEF Grows
<1>2. ASSUME NEW r \in Seq(S), NEW x \in S
      PROVE  Gather(h, Put(r, x)) = Cat(Gather(h, r), h[x])
  BY GatherGrows, Zenon DEF Grows
<1>3. ASSUME NEW a \in Seq(V), NEW b \in Seq(V)
      PROVE  Gather(g, Cat(a, b)) = Cat(Gather(g, a), Gather(g, b))
  <2>1. Splits(g, V)
    BY GatherSplits, Zenon
  <2> QED
    BY <2>1, Zenon DEF Splits
<1> DEFINE T == {r \in Seq(S) : Gather(g, Gather(f, r)) = Gather(h, r)}
<1>4. <<>> \in T
  <2>1. <<>> \in Seq(S)
    BY EmptySeq
  <2> QED
    BY <2>1, GatherEmpty
<1>5. ASSUME NEW r \in Seq(S), NEW x \in S, r \in T PROVE Put(r, x) \in T
  <2>1. Gather(f, Put(r, x)) = Cat(Gather(f, r), f[x])
    BY <1>1, Zenon
  <2>2. Gather(h, Put(r, x)) = Cat(Gather(h, r), h[x])
    BY <1>2, Zenon
  <2>3. Gather(f, r) \in Seq(V) /\ f[x] \in Seq(V)
    BY GatherType
  <2>4. Gather(g, Cat(Gather(f, r), f[x])) = Cat(Gather(g, Gather(f, r)), Gather(g, f[x]))
    BY <1>3, <2>3, Zenon
  <2>5. Gather(g, Gather(f, r)) = Gather(h, r) /\ h[x] = Gather(g, f[x])
    BY <1>5 DEF Composes
  <2>6. Gather(g, Gather(f, Put(r, x))) = Gather(h, Put(r, x))
    BY <2>1, <2>2, <2>4, <2>5, Zenon
  <2>7. Put(r, x) \in Seq(S)
    BY PutIs
  <2> QED
    BY <2>6, <2>7
<1> HIDE DEF T
<1>6. Seq(S) \subseteq T
  BY <1>4, <1>5, SeqSetInduction
<1> QED
  BY <1>6 DEF T, Fuses

(* Two that give as much for each element give as much for all.            *)
AsMuch(f, g, S) == \A x \in S : Len(f[x]) = Len(g[x])
AsMuchForAll(f, g, S) == \A s \in Seq(S) : Len(Gather(f, s)) = Len(Gather(g, s))

LEMMA GatherLen ==
    ASSUME NEW S, NEW V, NEW W, NEW f \in [S -> Seq(V)], NEW g \in [S -> Seq(W)],
           AsMuch(f, g, S)
    PROVE  AsMuchForAll(f, g, S)
<1>1. ASSUME NEW r \in Seq(S), NEW x \in S
      PROVE  Gather(f, Put(r, x)) = Cat(Gather(f, r), f[x])
  BY GatherGrows, Zenon DEF Grows
<1>2. ASSUME NEW r \in Seq(S), NEW x \in S
      PROVE  Gather(g, Put(r, x)) = Cat(Gather(g, r), g[x])
  BY GatherGrows, Zenon DEF Grows
<1> DEFINE T == {r \in Seq(S) : Len(Gather(f, r)) = Len(Gather(g, r))}
<1>3. <<>> \in T
  <2>1. <<>> \in Seq(S)
    BY EmptySeq
  <2> QED
    BY <2>1, GatherEmpty
<1>4. ASSUME NEW r \in Seq(S), NEW x \in S, r \in T PROVE Put(r, x) \in T
  <2>1. Gather(f, Put(r, x)) = Cat(Gather(f, r), f[x])
    BY <1>1, Zenon
  <2>2. Gather(g, Put(r, x)) = Cat(Gather(g, r), g[x])
    BY <1>2, Zenon
  <2>3. /\ Gather(f, r) \in Seq(V) /\ f[x] \in Seq(V)
        /\ Gather(g, r) \in Seq(W) /\ g[x] \in Seq(W)
    BY GatherType
  <2>4. Len(Cat(Gather(f, r), f[x])) = Len(Gather(f, r)) + Len(f[x])
    BY ONLY <2>3, ConcatProperties DEF Cat
  <2>5. Len(Cat(Gather(g, r), g[x])) = Len(Gather(g, r)) + Len(g[x])
    BY ONLY <2>3, ConcatProperties DEF Cat
  <2>6. Len(Gather(f, r)) = Len(Gather(g, r)) /\ Len(f[x]) = Len(g[x])
    BY <1>4 DEF AsMuch
  <2>7. Len(Gather(f, Put(r, x))) = Len(Gather(g, Put(r, x)))
    BY <2>1, <2>2, <2>4, <2>5, <2>6, Zenon
  <2>8. Put(r, x) \in Seq(S)
    BY PutIs
  <2> QED
    BY <2>7, <2>8
<1> HIDE DEF T
<1>5. Seq(S) \subseteq T
  BY <1>3, <1>4, SeqSetInduction
<1> QED
  BY <1>5 DEF T, AsMuchForAll

LEMMA GatherNone ==
    ASSUME NEW S, NEW f, NEW s \in Seq(S), \A i \in 1..Len(s) : f[s[i]] = <<>>
    PROVE  Gather(f, s) = <<>>
<1>1. Len(s) \in Nat /\ DOMAIN s = 1..Len(s)
  BY LenProperties
<1>2. [i \in DOMAIN s |-> f[s[i]]] = [i \in 1..Len(s) |-> <<>>]
  BY <1>1
<1> QED
  BY <1>1, <1>2, FlattenEmpties DEF Gather

OnlyAt(f, s, j) == \A i \in 1..Len(s) : i # j => f[s[i]] = <<>>

LEMMA GatherOne ==
    ASSUME NEW S, NEW V, NEW f \in [S -> Seq(V)], NEW s \in Seq(S),
           NEW j \in 1..Len(s), OnlyAt(f, s, j)
    PROVE  Gather(f, s) = f[s[j]]
<1> DEFINE only(r, k) == \A i \in 1..Len(r) : i # k => f[r[i]] = <<>>
           T == {r \in Seq(S) : \A k \in 1..Len(r) : only(r, k) => Gather(f, r) = f[r[k]]}
<1>1. <<>> \in T
  <2>1. <<>> \in Seq(S) /\ 1..Len(<<>>) = {}
    BY EmptySeq
  <2> QED
    BY <2>1
<1>2. ASSUME NEW r \in Seq(S), NEW x \in S, r \in T PROVE Put(r, x) \in T
  <2> DEFINE w == Put(r, x)
             n == Len(r)
  <2>1. /\ w \in Seq(S) /\ Len(w) = n + 1 /\ w[n + 1] = x
        /\ \A i \in 1..n : w[i] = r[i]
    BY ONLY r \in Seq(S), x \in S, PutIs
  <2>2. Gather(f, w) = Cat(Gather(f, r), f[x])
    BY GatherGrows, Zenon DEF Grows
  <2>3. Gather(f, r) \in Seq(V) /\ f[x] \in Seq(V) /\ n \in Nat
    BY GatherType
  <2> SUFFICES ASSUME NEW k \in 1..(n + 1), only(w, k)
               PROVE  Gather(f, w) = f[w[k]]
    BY <2>1
  <2> HIDE DEF w
  <2>4. \A i \in 1..n : i \in 1..(n + 1) /\ i # n + 1
    BY <2>3
  <2>5. CASE k = n + 1
    <3>1. \A i \in 1..n : f[r[i]] = <<>>
      BY <2>1, <2>4, <2>5
    <3>2. Gather(f, r) = <<>>
      BY <3>1, GatherNone
    <3>3. Cat(<<>>, f[x]) = f[x]
      BY <2>3, ConcatEmptySeq DEF Cat
    <3> QED
      BY <2>1, <2>2, <2>5, <3>2, <3>3, Zenon
  <2>6. CASE k # n + 1
    <3>1. k \in 1..n /\ n + 1 \in 1..(n + 1)
      BY <2>3, <2>6
    <3>2. only(r, k)
      BY <2>1, <2>4
    <3>3. Gather(f, r) = f[r[k]]
      BY <1>2, <3>1, <3>2
    <3>4. f[x] = <<>>
      BY <2>1, <2>6, <3>1
    <3>5. Cat(Gather(f, r), <<>>) = Gather(f, r)
      BY <2>3, ConcatEmptySeq DEF Cat
    <3> QED
      BY <2>1, <2>2, <3>1, <3>3, <3>4, <3>5, Zenon
  <2> QED
    BY <2>5, <2>6
<1> HIDE DEF T
<1>3. s \in T
  BY <1>1, <1>2, SeqSetInduction
<1> QED
  BY <1>3 DEF T, OnlyAt

LEMMA GatherHas ==
    ASSUME NEW S, NEW V, NEW f \in [S -> Seq(V)], NEW s \in Seq(S), NEW v
    PROVE  v \in ToSet(Gather(f, s)) <=> \E x \in ToSet(s) : v \in ToSet(f[x])
<1> DEFINE has(r) == \E y \in ToSet(r) : v \in ToSet(f[y])
           T == {r \in Seq(S) : v \in ToSet(Gather(f, r)) <=> has(r)}
<1>1. <<>> \in T
  <2>1. <<>> \in Seq(S)
    BY EmptySeq
  <2> QED
    BY <2>1, GatherEmpty, ToSetEmpty
<1>2. ASSUME NEW r \in Seq(S), NEW x \in S, r \in T PROVE Put(r, x) \in T
  <2>1. Gather(f, Put(r, x)) = Cat(Gather(f, r), f[x])
    BY GatherGrows, Zenon DEF Grows
  <2>2. Gather(f, r) \in Seq(V) /\ f[x] \in Seq(V)
    BY GatherType
  <2>3. ToSet(Cat(Gather(f, r), f[x])) = ToSet(Gather(f, r)) \cup ToSet(f[x])
    BY ONLY <2>2, ToSetCat
  <2>4. ToSet(Put(r, x)) = ToSet(r) \cup {x} /\ Put(r, x) \in Seq(S)
    BY ToSetPut, PutIs
  <2>5. v \in ToSet(Gather(f, r)) <=> has(r)
    BY <1>2
  <2>6. has(Put(r, x)) <=> has(r) \/ v \in ToSet(f[x])
    BY <2>4, Zenon
  <2>7. v \in ToSet(Gather(f, Put(r, x))) <=> has(r) \/ v \in ToSet(f[x])
    BY <2>1, <2>3, <2>5
  <2> QED
    BY <2>4, <2>6, <2>7, Zenon
<1> HIDE DEF T
<1>3. s \in T
  BY <1>1, <1>2, SeqSetInduction
<1> QED
  BY <1>3 DEF T
=============================================================================
