------------------------------ MODULE IniLemmas ------------------------------
(***************************************************************************)
(* How a document of IniDocument reads when it grows: by one line, by a    *)
(* document that starts with a header, and by one that may not.            *)
(***************************************************************************)
EXTENDS IniDocument, SequenceLemmas

(* What a line contributes.                                                *)
Piece(doc, section, key, i) ==
    IF ~doc[i].header /\ doc[i].key = key /\ SectionAt(doc, i) = section
    THEN <<doc[i].value>> ELSE <<>>
Pieces(doc, section, key) == [i \in DOMAIN doc |-> Piece(doc, section, key, i)]
Values(doc) == {doc[i].value : i \in DOMAIN doc}

LEMMA ReadIs ==
    ASSUME NEW doc, NEW s, NEW k
    PROVE  Read(doc, s, k) = FlattenSeq(Pieces(doc, s, k))
BY DEF Read, Pieces, Piece

LEMMA PiecesTyped ==
    ASSUME NEW S, NEW doc \in Seq(S), NEW s, NEW k, NEW V, Values(doc) \subseteq V
    PROVE  /\ Pieces(doc, s, k) \in Seq(Seq(V))
           /\ Len(Pieces(doc, s, k)) = Len(doc)
<1> DEFINE n == Len(doc)
           p == Pieces(doc, s, k)
<1>1. n \in Nat /\ DOMAIN doc = 1..n
  BY LenProperties
<1>2. \A i \in 1..n : Piece(doc, s, k, i) \in Seq(V)
  <2> TAKE i \in 1..n
  <2>1. doc[i].value \in V
    BY <1>1 DEF Values
  <2>2. <<doc[i].value>> \in Seq(V) /\ <<>> \in Seq(V)
    BY <2>1, EmptySeq
  <2> QED
    BY <2>2 DEF Piece
<1>3. p = [i \in 1..n |-> Piece(doc, s, k, i)]
  BY <1>1 DEF Pieces
<1> HIDE DEF n, p
<1> QED
  BY <1>1, <1>2, <1>3, LenProperties DEF n, p

LEMMA ReadTyped ==
    ASSUME NEW S, NEW doc \in Seq(S), NEW s, NEW k
    PROVE  Read(doc, s, k) \in Seq({x.value : x \in S})
<1> DEFINE V == {x.value : x \in S}
           p == Pieces(doc, s, k)
<1>1. Values(doc) \subseteq V
  BY ElementOfSeq, LenProperties DEF Values
<1> HIDE DEF V, p
<1>2. p \in Seq(Seq(V))
  BY <1>1, PiecesTyped DEF p
<1>3. FlattenSeq(p) \in Seq(V)
  BY <1>2, FlattenType
<1> QED
  BY <1>3, ReadIs DEF p, V

(* The section of a line depends on what comes before it alone.            *)
LEMMA SectionAtPrefix ==
    ASSUME NEW a, NEW b, NEW i \in Nat, \A j \in 1..i : a[j] = b[j]
    PROVE  SectionAt(a, i) = SectionAt(b, i)
<1>1. {j \in 1..i : a[j].header} = {j \in 1..i : b[j].header}
  OBVIOUS
<1>2. {j \in 1..i : a[j].header} # {} => Max({j \in 1..i : a[j].header}) \in 1..i
  <2> DEFINE T == {j \in 1..i : a[j].header}
  <2>1. T \subseteq Nat /\ \A y \in T : y <= i
    OBVIOUS
  <2> HIDE DEF T
  <2>2. T # {} => Max(T) \in T
    BY <2>1, MaxIs
  <2> QED
    BY <2>2 DEF T
<1> QED
  BY <1>1, <1>2 DEF SectionAt

(* A header begins a section, and a line goes on in the section it is in.  *)
LEMMA SectionOfNext ==
    ASSUME NEW doc, NEW i \in Nat
    PROVE  SectionAt(doc, i + 1) = IF doc[i + 1].header THEN doc[i + 1].key
                                   ELSE SectionAt(doc, i)
<1> DEFINE T == {j \in 1..i : doc[j].header}
           U == {j \in 1..(i + 1) : doc[j].header}
<1>1. CASE doc[i + 1].header
  <2>1. i + 1 \in U /\ U \subseteq Nat /\ \A y \in U : y <= i + 1
    BY <1>1
  <2> HIDE DEF U
  <2>2. Max(U) = i + 1
    BY <2>1, MaxUnique
  <2> QED
    BY <1>1, <2>1, <2>2 DEF SectionAt, U
<1>2. CASE ~doc[i + 1].header
  <2>1. U = T
    <3>1. \A j \in 1..(i + 1) : j \in 1..i \/ j = i + 1
      OBVIOUS
    <3>2. 1..i \subseteq 1..(i + 1)
      OBVIOUS
    <3> QED
      BY <1>2, <3>1, <3>2
  <2> QED
    BY <1>2, <2>1 DEF SectionAt
<1> QED
  BY <1>1, <1>2

LEMMA NoSectionYet == ASSUME NEW doc PROVE SectionAt(doc, 0) = Unset
<1>1. {j \in 1..0 : doc[j].header} = {}
  OBVIOUS
<1> QED
  BY <1>1 DEF SectionAt

(* A document that starts with a header reads the same behind another one. *)
LEMMA SectionBehind ==
    ASSUME NEW S, NEW a \in Seq(S), NEW b \in Seq(S), b # <<>> => b[1].header,
           NEW j \in 1..Len(b)
    PROVE  SectionAt(a \o b, Len(a) + j) = SectionAt(b, j)
<1> DEFINE n == Len(a)
           w == a \o b
           T == {i \in Nat : i \in 1..Len(b) => SectionAt(w, n + i) = SectionAt(b, i)}
<1>1. n \in Nat /\ Len(b) \in Nat /\ \A i \in 1..Len(b) : w[n + i] = b[i]
  BY ConcatProperties, LenProperties
<1>2. b # <<>>
  BY EmptySeq
<1> HIDE DEF n, w
<1>3. 0 \in T
  OBVIOUS
<1>4. ASSUME NEW i \in Nat, i \in T PROVE i + 1 \in T
  <2> SUFFICES ASSUME i + 1 \in 1..Len(b)
               PROVE  SectionAt(w, n + (i + 1)) = SectionAt(b, i + 1)
    OBVIOUS
  <2>1. n + (i + 1) = (n + i) + 1 /\ n + i \in Nat /\ w[(n + i) + 1] = b[i + 1]
    BY <1>1
  <2>2. SectionAt(w, (n + i) + 1) = IF b[i + 1].header THEN b[i + 1].key
                                    ELSE SectionAt(w, n + i)
    <3> DEFINE m == n + i
    <3> HIDE DEF m
    <3>1. m \in Nat
      BY <2>1 DEF m
    <3>2. SectionAt(w, m + 1) = IF w[m + 1].header THEN w[m + 1].key ELSE SectionAt(w, m)
      BY ONLY <3>1, SectionOfNext
    <3> QED
      BY <2>1, <3>2 DEF m
  <2>3. SectionAt(b, i + 1) = IF b[i + 1].header THEN b[i + 1].key
                              ELSE SectionAt(b, i)
    BY SectionOfNext
  <2>4. CASE i = 0
    BY <1>2, <2>1, <2>2, <2>3, <2>4
  <2>5. CASE i # 0
    <3>1. i \in 1..Len(b)
      BY <1>1, <2>5
    <3>2. SectionAt(w, n + i) = SectionAt(b, i)
      BY <1>4, <3>1
    <3> QED
      BY <2>1, <2>2, <2>3, <3>2
  <2> QED
    BY <2>4, <2>5
<1> HIDE DEF T
<1>5. Nat \subseteq T
  BY <1>3, <1>4, NatSetInduction
<1>6. j \in Nat /\ j \in T
  BY <1>1, <1>5
<1> QED
  BY <1>6 DEF T, n, w

LEMMA SectionBefore ==
    ASSUME NEW S, NEW a \in Seq(S), NEW b \in Seq(S), NEW i \in 0..Len(a)
    PROVE  SectionAt(a \o b, i) = SectionAt(a, i)
<1>1. Len(a) \in Nat /\ i \in Nat /\ \A j \in 1..i : (a \o b)[j] = a[j]
  BY ConcatProperties, LenProperties
<1> DEFINE w == a \o b
<1>2. \A j \in 1..i : w[j] = a[j]
  BY <1>1
<1> HIDE DEF w
<1>3. SectionAt(w, i) = SectionAt(a, i)
  BY <1>1, <1>2, SectionAtPrefix
<1> QED
  BY <1>3 DEF w

LEMMA ReadAppend ==
    ASSUME NEW S, NEW doc \in Seq(S), NEW e \in S, NEW s, NEW k
    PROVE  /\ SectionAt(Append(doc, e), Len(doc) + 1) =
                 IF e.header THEN e.key ELSE SectionAt(doc, Len(doc))
           /\ Read(Append(doc, e), s, k) =
                 Read(doc, s, k) \o
                    IF ~e.header /\ e.key = k /\ SectionAt(doc, Len(doc)) = s
                    THEN <<e.value>> ELSE <<>>
<1> DEFINE V == {x.value : x \in S}
           w == Append(doc, e)
           n == Len(doc)
           p == Pieces(doc, s, k)
           x == Piece(w, s, k, n + 1)
<1>1. /\ n \in Nat /\ DOMAIN doc = 1..n
      /\ w \in Seq(S) /\ DOMAIN w = 1..(n + 1) /\ Len(w) = n + 1
      /\ w[n + 1] = e /\ \A i \in 1..n : w[i] = doc[i]
  BY AppendProperties, LenProperties
<1>2. Values(doc) \subseteq V /\ Values(w) \subseteq V
  <2> SUFFICES ASSUME NEW d \in Seq(S) PROVE Values(d) \subseteq V
    BY <1>1
  <2> QED
    BY ElementOfSeq, LenProperties DEF Values
<1>3. /\ p \in Seq(Seq(V)) /\ Pieces(w, s, k) \in Seq(Seq(V))
      /\ Len(p) = n /\ Len(Pieces(w, s, k)) = n + 1
  BY <1>1, <1>2, PiecesTyped
<1>4. /\ \A i \in 1..n : p[i] = Piece(doc, s, k, i)
      /\ \A i \in 1..(n + 1) : Pieces(w, s, k)[i] = Piece(w, s, k, i)
  BY <1>1 DEF Pieces
<1> HIDE DEF w, p, n
<1>5. \A i \in 0..n : SectionAt(w, i) = SectionAt(doc, i)
  <2> TAKE i \in 0..n
  <2>1. i \in Nat /\ \A j \in 1..i : w[j] = doc[j]
    BY <1>1
  <2> QED
    BY <2>1, SectionAtPrefix
<1>6. \A i \in 1..n : Piece(w, s, k, i) = Piece(doc, s, k, i)
  BY <1>1, <1>5 DEF Piece
<1>7. SectionAt(w, n + 1) = IF e.header THEN e.key ELSE SectionAt(doc, n)
  <2>1. SectionAt(w, n + 1) = IF e.header THEN e.key ELSE SectionAt(w, n)
    BY <1>1, SectionOfNext
  <2> QED
    BY <1>1, <1>5, <2>1
<1>8. x = IF ~e.header /\ e.key = k /\ SectionAt(doc, n) = s THEN <<e.value>> ELSE <<>>
  BY <1>1, <1>7 DEF Piece
<1>9. x \in Seq(V)
  <2>1. <<e.value>> \in Seq(V) /\ <<>> \in Seq(V)
    BY EmptySeq
  <2> QED
    BY <1>8, <2>1
<1>10. Pieces(w, s, k)[n + 1] = x
  BY <1>1, <1>4
<1> HIDE DEF x
<1>11. Pieces(w, s, k) = Append(p, x)
  <2> DEFINE R == Seq(V)
             q == Pieces(w, s, k)
  <2>1. q \in Seq(R) /\ Len(q) = n + 1 /\ p \in Seq(R) /\ x \in R /\ q[n + 1] = x
        /\ \A i \in 1..n : q[i] = p[i]
    <3>1. q \in Seq(R) /\ p \in Seq(R)
      BY <1>3
    <3>2. \A i \in 1..n : q[i] = p[i]
      <4> TAKE i \in 1..n
      <4>1. i \in 1..(n + 1)
        BY <1>1
      <4>2. q[i] = Piece(w, s, k, i) /\ p[i] = Piece(doc, s, k, i)
        BY <1>4, <4>1
      <4>3. Piece(w, s, k, i) = Piece(doc, s, k, i)
        BY <1>6
      <4> HIDE DEF q
      <4> QED
        BY <4>2, <4>3
    <3>3. Len(q) = n + 1 /\ q[n + 1] = x
      BY <1>3, <1>10
    <3> HIDE DEF q
    <3> QED
      BY <1>9, <3>1, <3>2, <3>3
  <2> HIDE DEF R, q
  <2>2. /\ Append(p, x) \in Seq(R) /\ Len(Append(p, x)) = n + 1
        /\ \A i \in 1..n : Append(p, x)[i] = p[i]
        /\ Append(p, x)[n + 1] = x
    BY <1>3, <2>1, AppendProperties
  <2>3. \A i \in 1..(n + 1) : q[i] = Append(p, x)[i]
    <3> TAKE i \in 1..(n + 1)
    <3>1. i \in 1..n \/ i = n + 1
      BY <1>1
    <3> QED
      BY <2>1, <2>2, <3>1
  <2>4. q = Append(p, x)
    BY <2>1, <2>2, <2>3, SeqEqual
  <2> QED
    BY <2>4 DEF q
<1>12. FlattenSeq(Append(p, x)) = FlattenSeq(p) \o x
  BY <1>3, <1>9, FlattenAppend
<1>13. Read(w, s, k) = Read(doc, s, k) \o x
  BY <1>11, <1>12, ReadIs, Zenon DEF p
<1> QED
  BY <1>7, <1>8, <1>13, Zenon DEF w, n

LEMMA ReadConcat ==
    ASSUME NEW S, NEW a \in Seq(S), NEW b \in Seq(S), b # <<>> => b[1].header,
           NEW s, NEW k
    PROVE  Read(a \o b, s, k) = Read(a, s, k) \o Read(b, s, k)
<1> DEFINE V == {e.value : e \in S}
           w == a \o b
           pa == Pieces(a, s, k)
           pb == Pieces(b, s, k)
           n == Len(a)
           m == Len(b)
<1>1. /\ n \in Nat /\ m \in Nat /\ DOMAIN a = 1..n /\ DOMAIN b = 1..m
      /\ w \in Seq(S) /\ DOMAIN w = 1..(n + m) /\ Len(w) = n + m
      /\ \A i \in 1..n : w[i] = a[i]
      /\ \A i \in 1..m : w[n + i] = b[i]
  BY ConcatProperties, LenProperties
<1>2. Values(a) \subseteq V /\ Values(b) \subseteq V /\ Values(w) \subseteq V
  <2> SUFFICES ASSUME NEW d \in Seq(S) PROVE Values(d) \subseteq V
    BY <1>1
  <2> QED
    BY ElementOfSeq, LenProperties DEF Values
<1>3. /\ pa \in Seq(Seq(V)) /\ pb \in Seq(Seq(V)) /\ Pieces(w, s, k) \in Seq(Seq(V))
      /\ Len(pa) = n /\ Len(pb) = m /\ Len(Pieces(w, s, k)) = n + m
  BY <1>1, <1>2, PiecesTyped
<1>4. /\ \A i \in 1..n : pa[i] = Piece(a, s, k, i)
      /\ \A i \in 1..m : pb[i] = Piece(b, s, k, i)
      /\ \A i \in 1..(n + m) : Pieces(w, s, k)[i] = Piece(w, s, k, i)
  BY <1>1 DEF Pieces
<1>5. \A i \in 1..n : Piece(w, s, k, i) = Piece(a, s, k, i)
  <2> TAKE i \in 1..n
  <2>1. SectionAt(w, i) = SectionAt(a, i)
    BY <1>1, SectionBefore
  <2> HIDE DEF w
  <2> QED
    BY <1>1, <2>1 DEF Piece
<1>6. \A i \in 1..m : Piece(w, s, k, n + i) = Piece(b, s, k, i)
  <2> TAKE i \in 1..m
  <2>1. SectionAt(w, n + i) = SectionAt(b, i)
    BY SectionBehind
  <2> HIDE DEF w
  <2> QED
    BY <1>1, <2>1 DEF Piece
<1> HIDE DEF w, pa, pb, n, m
<1>7. Pieces(w, s, k) = pa \o pb
  <2> DEFINE R == Seq(V)
             v == pa \o pb
             p == Pieces(w, s, k)
  <2>1. /\ v \in Seq(R) /\ Len(v) = n + m
        /\ \A i \in 1..(n + m) : v[i] = IF i <= n THEN pa[i] ELSE pb[i - n]
    <3>1. pa \in Seq(R) /\ pb \in Seq(R)
      BY <1>3
    <3> HIDE DEF R
    <3> QED
      BY <1>3, <3>1, ConcatProperties
  <2>2. \A i \in 1..(n + m) : p[i] = v[i]
    <3> TAKE i \in 1..(n + m)
    <3>1. CASE i <= n
      <4>1. i \in 1..n
        BY <1>1, <3>1
      <4>2. Piece(w, s, k, i) = Piece(a, s, k, i)
        BY <1>5, <4>1
      <4> HIDE DEF v
      <4> QED
        BY <1>4, <2>1, <3>1, <4>1, <4>2
    <3>2. CASE ~(i <= n)
      <4>1. i - n \in 1..m /\ n + (i - n) = i
        BY <1>1, <3>2
      <4>2. Piece(w, s, k, n + (i - n)) = Piece(b, s, k, i - n)
        BY <1>6, <4>1
      <4> HIDE DEF v
      <4> QED
        BY <1>4, <2>1, <3>2, <4>1, <4>2
    <3> QED
      BY <3>1, <3>2
  <2>3. p \in Seq(R)
    BY <1>3
  <2> HIDE DEF R, v, p
  <2>4. p = v
    BY <1>3, <2>1, <2>2, <2>3, SeqEqual DEF p
  <2> QED
    BY <2>4 DEF p, v
<1>8. FlattenSeq(pa \o pb) = FlattenSeq(pa) \o FlattenSeq(pb)
  BY <1>3, FlattenConcat
<1> QED
  BY <1>7, <1>8, ReadIs, Zenon DEF w, pa, pb

(* A document as far as it is written: its entries, the section a line     *)
(* would go to, and the values it gives to one key of one section.         *)
Reads(S, doc, section, values, s, k) ==
    /\ doc \in Seq(S)
    /\ SectionAt(doc, Len(doc)) = section
    /\ Read(doc, s, k) = values

LEMMA NothingReads ==
    ASSUME NEW S, NEW s, NEW k
    PROVE  Reads(S, <<>>, Unset, <<>>, s, k)
<1>1. <<>> \in Seq(S) /\ Len(<<>>) = 0
  BY EmptySeq
<1>2. DOMAIN <<>> = 1..0 /\ 1..0 = {}
  BY <1>1, LenProperties
<1>3. Pieces(<<>>, s, k) = [i \in 1..0 |-> <<>>]
  BY <1>2 DEF Pieces
<1>4. FlattenSeq(Pieces(<<>>, s, k)) = <<>>
  BY <1>3, FlattenEmpties
<1>5. Read(<<>>, s, k) = <<>>
  BY <1>4, ReadIs
<1> QED
  BY <1>1, <1>5, NoSectionYet DEF Reads

(* A document that may begin without a header: until it has one, its lines *)
(* go to the last section of the document before it.                       *)
Taken(section, s, before) == IF s = section THEN before ELSE <<>>

Behind(S, a, section, r, s, k) ==
    /\ SectionAt(Cat(a, r), Len(Cat(a, r))) =
          IF SectionAt(r, Len(r)) = Unset THEN section ELSE SectionAt(r, Len(r))
    /\ SectionAt(r, Len(r)) = Unset => Read(r, s, k) = <<>>
    /\ Read(Cat(a, r), s, k) =
          Cat(Cat(Read(a, s, k), Taken(section, s, Read(r, Unset, k))), Read(r, s, k))

LEMMA BehindGrows ==
    ASSUME NEW S, NEW a \in Seq(S), NEW section, NEW s, NEW k, s # Unset,
           section # Unset, NEW r \in Seq(S), NEW e \in S,
           Behind(S, a, section, r, s, k), e.header => e.key # Unset
    PROVE  Behind(S, a, section, Put(r, e), s, k)
<1> DEFINE V == {x.value : x \in S}
           u == SectionAt(r, Len(r))
           w == Cat(a, r)
           piece(d, z) == IF ~e.header /\ e.key = k /\ SectionAt(d, Len(d)) = z
                          THEN <<e.value>> ELSE <<>>
           x == Read(a, s, k)
           y == Read(r, Unset, k)
           z == Read(r, s, k)
<1>1. /\ w \in Seq(S) /\ Cat(a, Put(r, e)) = Put(w, e)
      /\ Len(Put(r, e)) = Len(r) + 1 /\ Len(Put(w, e)) = Len(w) + 1
  <2>1. w \in Seq(S) /\ Cat(a, Put(r, e)) = Put(w, e)
    BY CatAppend DEF Put
  <2> HIDE DEF w
  <2> QED
    BY <2>1, AppendProperties DEF Put
<1>2. /\ SectionAt(Put(r, e), Len(r) + 1) = IF e.header THEN e.key ELSE u
      /\ Read(Put(r, e), s, k) = Cat(z, piece(r, s))
      /\ Read(Put(r, e), Unset, k) = Cat(y, piece(r, Unset))
  <2>1. \A t : /\ SectionAt(Append(r, e), Len(r) + 1) = IF e.header THEN e.key ELSE u
               /\ Read(Append(r, e), t, k) = Read(r, t, k) \o piece(r, t)
    BY ReadAppend
  <2> HIDE DEF u, piece
  <2> QED
    BY <2>1, Zenon DEF Put, Cat
<1>3. /\ SectionAt(Put(w, e), Len(w) + 1) = IF e.header THEN e.key
                                           ELSE SectionAt(w, Len(w))
      /\ Read(Put(w, e), s, k) = Cat(Read(w, s, k), piece(w, s))
  <2> HIDE DEF w
  <2>1. /\ SectionAt(Append(w, e), Len(w) + 1) = IF e.header THEN e.key
                                               ELSE SectionAt(w, Len(w))
        /\ Read(Append(w, e), s, k) = Read(w, s, k) \o piece(w, s)
    BY <1>1, ReadAppend
  <2> HIDE DEF piece
  <2> QED
    BY <2>1, Zenon DEF Put, Cat
<1>4. /\ SectionAt(w, Len(w)) = IF u = Unset THEN section ELSE u
      /\ u = Unset => z = <<>>
      /\ Read(w, s, k) = Cat(Cat(x, Taken(section, s, y)), z)
  BY Zenon DEF Behind
<1>5. x \in Seq(V) /\ y \in Seq(V) /\ z \in Seq(V)
  BY ReadTyped
<1>6. <<e.value>> \in Seq(V) /\ <<>> \in Seq(V)
  <2>1. e.value \in V
    OBVIOUS
  <2> HIDE DEF V
  <2> QED
    BY <2>1, EmptySeq
<1>7. CASE e.header
  <2>1. piece(r, s) = <<>> /\ piece(r, Unset) = <<>> /\ piece(w, s) = <<>>
    BY <1>7
  <2> HIDE DEF V, u, w, piece, x, y, z
  <2>2. Cat(z, <<>>) = z /\ Cat(y, <<>>) = y
    BY <1>5, ConcatEmptySeq DEF Cat
  <2>3. Cat(Read(w, s, k), <<>>) = Read(w, s, k)
    <3>1. Read(w, s, k) \in Seq(V)
      BY <1>1, ReadTyped DEF V
    <3> QED
      BY <3>1, ConcatEmptySeq DEF Cat
  <2> QED
    BY <1>1, <1>2, <1>3, <1>4, <1>7, <2>1, <2>2, <2>3, Zenon DEF Behind, u, z, y, x
<1>8. CASE ~e.header
  <2>1. piece(r, s) = (IF e.key = k /\ u = s THEN <<e.value>> ELSE <<>>)
        /\ piece(r, Unset) = (IF e.key = k /\ u = Unset THEN <<e.value>> ELSE <<>>)
        /\ piece(w, s) = (IF e.key = k /\ SectionAt(w, Len(w)) = s THEN <<e.value>> ELSE <<>>)
    BY <1>8
  <2> HIDE DEF V, u, w, piece, x, y, z
  <2>2. Taken(section, s, y) \in Seq(V)
    BY <1>5, <1>6 DEF Taken
  <2>3. CASE u = Unset
    <3>1. z = <<>> /\ piece(r, s) = <<>>
      BY <1>4, <2>1, <2>3
    <3>2. Cat(Cat(Cat(x, Taken(section, s, y)), z), piece(w, s))
            = Cat(Cat(x, Taken(section, s, Cat(y, piece(r, Unset)))), <<>>)
      <4> DEFINE p == piece(w, s)
      <4>1. p \in Seq(V) /\ Cat(x, y) \in Seq(V) /\ Cat(y, p) \in Seq(V)
        BY <1>5, <1>6, <2>1 DEF Cat
      <4>2. CASE section = s
        <5>1. piece(r, Unset) = p
          BY <1>4, <2>1, <2>3, <4>2
        <5> HIDE DEF p
        <5>2. /\ Cat(Cat(x, y), <<>>) = Cat(x, y)
              /\ Cat(Cat(x, Cat(y, p)), <<>>) = Cat(x, Cat(y, p))
              /\ Cat(Cat(x, y), p) = Cat(x, Cat(y, p))
          BY <1>5, <4>1, ConcatEmptySeq, CatAssociative DEF Cat
        <5> QED
          BY <3>1, <4>2, <5>1, <5>2, Zenon DEF Taken, p
      <4>3. CASE section # s
        <5>1. p = <<>>
          BY <1>4, <2>1, <2>3, <4>3
        <5> HIDE DEF p
        <5> QED
          BY <3>1, <4>3, <5>1, <1>5, ConcatEmptySeq DEF Taken, Cat, p
      <4> QED
        BY <4>2, <4>3
    <3>3. Cat(z, piece(r, s)) = <<>>
      BY <3>1 DEF Cat
    <3> QED
      BY <1>1, <1>2, <1>3, <1>4, <1>8, <2>3, <3>2, <3>3, Zenon DEF Behind, u, x, y, z
  <2>4. CASE u # Unset
    <3>1. piece(r, Unset) = <<>> /\ piece(w, s) = piece(r, s)
          /\ piece(r, s) \in Seq(V)
      BY <1>4, <1>6, <2>1, <2>4
    <3>2. Cat(y, <<>>) = y
      BY <1>5, ConcatEmptySeq DEF Cat
    <3>3. Cat(Cat(Cat(x, Taken(section, s, y)), z), piece(r, s))
            = Cat(Cat(x, Taken(section, s, y)), Cat(z, piece(r, s)))
      <4>1. Cat(x, Taken(section, s, y)) \in Seq(V)
        BY <1>5, <2>2 DEF Cat
      <4> QED
        BY <1>5, <3>1, <4>1, CatAssociative
    <3> QED
      BY <1>1, <1>2, <1>3, <1>4, <1>8, <2>4, <3>1, <3>2, <3>3, Zenon
         DEF Behind, u, x, y, z
  <2> QED
    BY <2>3, <2>4
<1> QED
  BY <1>7, <1>8

LEMMA ReadBehind ==
    ASSUME NEW S, NEW a \in Seq(S), NEW b \in Seq(S), NEW s, NEW k, s # Unset,
           SectionAt(a, Len(a)) # Unset,
           \A e \in ToSet(b) : e.header => e.key # Unset
    PROVE  Read(Cat(a, b), s, k) =
               Cat(Cat(Read(a, s, k),
                       Taken(SectionAt(a, Len(a)), s, Read(b, Unset, k))),
                   Read(b, s, k))
<1> DEFINE section == SectionAt(a, Len(a))
           B == ToSet(b)
           T == {r \in Seq(B) : Behind(S, a, section, r, s, k)}
<1>1. B \subseteq S /\ b \in Seq(B)
  <2>1. B \subseteq S
    BY ElementOfSeq, LenProperties DEF ToSet
  <2>2. b \in Seq(B)
    BY LenProperties DEF ToSet
  <2> QED
    BY <2>1, <2>2
<1> HIDE DEF section, B
<1>2. <<>> \in T
  <2>1. SectionAt(<<>>, Len(<<>>)) = Unset /\ \A t : Read(<<>>, t, k) = <<>>
    BY NothingReads DEF Reads
  <2>2. /\ Cat(a, <<>>) = a /\ \A t : Read(a, t, k) \in Seq({e.value : e \in S})
    BY ReadTyped, ConcatEmptySeq DEF Cat
  <2>3. Cat(Cat(Read(a, s, k), Taken(section, s, <<>>)), <<>>) = Read(a, s, k)
    BY <2>2, ConcatEmptySeq DEF Cat, Taken
  <2>4. Behind(S, a, section, <<>>, s, k)
    <3>1. Cat(a, <<>>) = a /\ SectionAt(a, Len(a)) = section
      BY <2>2 DEF section
    <3>2. /\ Read(<<>>, s, k) = <<>> /\ Read(<<>>, Unset, k) = <<>>
          /\ SectionAt(<<>>, Len(<<>>)) = Unset
      BY <2>1
    <3> QED
      BY <2>3, <3>1, <3>2, Zenon DEF Behind
  <2> QED
    BY <2>4, EmptySeq
<1>3. ASSUME NEW r \in Seq(B), NEW e \in B, r \in T PROVE Put(r, e) \in T
  <2>1. r \in Seq(S) /\ e \in S /\ (e.header => e.key # Unset)
    BY <1>1 DEF B
  <2>2. Behind(S, a, section, Put(r, e), s, k)
    BY <1>3, <2>1, BehindGrows, Zenon DEF section
  <2>3. Put(r, e) \in Seq(B)
    BY PutIs
  <2> QED
    BY <2>2, <2>3
<1> HIDE DEF T
<1>4. b \in T
  BY <1>1, <1>2, <1>3, SeqSetInduction
<1> QED
  BY <1>4, Zenon DEF T, Behind, section

(* A document has nothing in a section it does not begin.                  *)
LEMMA NoSuchSection ==
    ASSUME NEW S, NEW doc \in Seq(S), NEW s, NEW k, s # Unset,
           \A i \in DOMAIN doc : doc[i].header => doc[i].key # s
    PROVE  Read(doc, s, k) = <<>>
<1> DEFINE n == Len(doc)
           p == Pieces(doc, s, k)
<1>1. n \in Nat /\ DOMAIN doc = 1..n
  BY LenProperties
<1>2. \A i \in 1..n : SectionAt(doc, i) # s
  <2> TAKE i \in 1..n
  <2> DEFINE T == {j \in 1..i : doc[j].header}
  <2>1. T \subseteq Nat /\ i \in Nat /\ \A j \in T : j <= i
    BY <1>1
  <2>2. \A j \in T : doc[j].key # s
    BY <1>1
  <2>3. SectionAt(doc, i) = IF T = {} THEN Unset ELSE doc[Max(T)].key
    BY DEF SectionAt
  <2> HIDE DEF T
  <2>4. T # {} => Max(T) \in T
    BY <2>1, MaxIs
  <2> QED
    BY <2>2, <2>3, <2>4
<1>3. p = [i \in 1..n |-> <<>>]
  BY <1>1, <1>2 DEF Pieces, Piece
<1> HIDE DEF p, n
<1>4. FlattenSeq(p) = <<>>
  BY <1>1, <1>3, FlattenEmpties
<1> QED
  BY <1>4, ReadIs DEF p

(* A value that is read stands on a line.                                  *)
LEMMA ReadHas ==
    ASSUME NEW S, NEW doc \in Seq(S), NEW s, NEW k, NEW v \in ToSet(Read(doc, s, k))
    PROVE  \E i \in DOMAIN doc : /\ ~doc[i].header /\ doc[i].key = k
                                 /\ doc[i].value = v /\ SectionAt(doc, i) = s
<1> DEFINE D == 1..Len(doc)
           V == Values(doc)
           f == Pieces(doc, s, k)
           numbers == [i \in D |-> i]
<1>1. Len(doc) \in Nat /\ DOMAIN doc = D
  BY LenProperties
<1>2. numbers \in Seq(D) /\ DOMAIN numbers = D /\ ToSet(numbers) = D
  BY <1>1 DEF ToSet
<1>3. f \in [D -> Seq(V)]
  <2>1. f \in Seq(Seq(V)) /\ Len(f) = Len(doc)
    BY PiecesTyped
  <2> DEFINE R == Seq(V)
  <2> HIDE DEF R, f
  <2>2. f \in Seq(R)
    BY <2>1 DEF R
  <2> QED
    BY <2>1, <2>2, LenProperties DEF R
<1>4. f = [i \in DOMAIN numbers |-> f[numbers[i]]]
  BY <1>1, <1>2 DEF Pieces
<1> HIDE DEF V, f, numbers, D
<1>5. Read(doc, s, k) = Gather(f, numbers)
  BY <1>4, ReadIs DEF f, Gather
<1>6. PICK i \in D : v \in ToSet(f[i])
  BY <1>2, <1>3, <1>5, GatherHas
<1>7. f[i] = Piece(doc, s, k, i)
  BY <1>1 DEF f, Pieces
<1>8. ToSet(<<doc[i].value>>) = {doc[i].value}
  BY DEF ToSet
<1> QED
  BY <1>1, <1>6, <1>7, <1>8, ToSetEmpty DEF Piece

-----------------------------------------------------------------------------
(* A value that is there under a condition.                                *)
Given(b, v) == IF b THEN <<v>> ELSE <<>>

LEMMA CatNothing ==
    ASSUME NEW x
    PROVE  /\ Cat(<<>>, <<>>) = <<>>
           /\ Cat(<<x>>, <<>>) = <<x>> /\ Cat(<<>>, <<x>>) = <<x>>
BY DEF Cat

(* A header begins a section, a line adds its value to the one it is in.   *)
LEMMA HeaderReads ==
    ASSUME NEW S, NEW doc, NEW section, NEW values, NEW s, NEW k, NEW name,
           Reads(S, doc, section, values, s, k), Header(name) \in S
    PROVE  Reads(S, Put(doc, Header(name)), name, values, s, k)
<1> DEFINE e == Header(name)
<1>1. doc \in Seq(S) /\ Read(doc, s, k) = values
  BY DEF Reads
<1>2. e \in S /\ e.header = TRUE /\ e.key = name
  BY DEF Header
<1> HIDE DEF e
<1>3. Append(doc, e) \in Seq(S) /\ Len(Append(doc, e)) = Len(doc) + 1
  BY <1>1, <1>2, AppendProperties
<1>4. /\ SectionAt(Append(doc, e), Len(doc) + 1) = name
      /\ Read(Append(doc, e), s, k) = Read(doc, s, k) \o <<>>
  <2> DEFINE last == SectionAt(doc, Len(doc))
             piece == IF ~e.header /\ e.key = k /\ last = s THEN <<e.value>> ELSE <<>>
             begun == IF e.header THEN e.key ELSE last
  <2>1. begun = name /\ piece = <<>>
    BY <1>2
  <2>2. /\ SectionAt(Append(doc, e), Len(doc) + 1) = begun
        /\ Read(Append(doc, e), s, k) = Read(doc, s, k) \o piece
    BY <1>1, <1>2, ReadAppend
  <2> HIDE DEF begun, piece
  <2> QED
    BY <2>1, <2>2
<1>5. Read(doc, s, k) \o <<>> = Read(doc, s, k)
  BY <1>1, ReadTyped, ConcatEmptySeq
<1> QED
  BY <1>1, <1>3, <1>4, <1>5 DEF Reads, Put, e

LEMMA EntryReads ==
    ASSUME NEW S, NEW doc, NEW section, NEW values, NEW s, NEW k, NEW e \in S,
           Reads(S, doc, section, values, s, k), e.header = FALSE
    PROVE  Reads(S, Put(doc, e), section,
                 Cat(values, Given(s = section /\ k = e.key, e.value)), s, k)
<1>1. /\ doc \in Seq(S) /\ Read(doc, s, k) = values
      /\ SectionAt(doc, Len(doc)) = section
  BY DEF Reads
<1>2. Append(doc, e) \in Seq(S) /\ Len(Append(doc, e)) = Len(doc) + 1
  BY <1>1, AppendProperties
<1>3. /\ SectionAt(Append(doc, e), Len(doc) + 1) = section
      /\ Read(Append(doc, e), s, k) = Read(doc, s, k)
            \o IF e.key = k /\ section = s THEN <<e.value>> ELSE <<>>
  BY <1>1, ReadAppend
<1>4. Given(s = section /\ k = e.key, e.value)
        = IF e.key = k /\ section = s THEN <<e.value>> ELSE <<>>
  BY DEF Given
<1> QED
  BY <1>1, <1>2, <1>3, <1>4 DEF Reads, Put, Cat

LEMMA LineReads ==
    ASSUME NEW S, NEW doc, NEW section, NEW values, NEW s, NEW k,
           NEW key, NEW v,
           Reads(S, doc, section, values, s, k), Line(key, v) \in S
    PROVE  Reads(S, Put(doc, Line(key, v)), section,
                 Cat(values, Given(s = section /\ k = key, v)), s, k)
<1> DEFINE e == Line(key, v)
<1>1. e \in S /\ e.header = FALSE /\ e.key = key /\ e.value = v
  BY DEF Line
<1> HIDE DEF e
<1>2. Reads(S, Put(doc, e), section,
            Cat(values, Given(s = section /\ k = e.key, e.value)), s, k)
  BY <1>1, EntryReads, Zenon
<1> QED
  BY <1>1, <1>2, Zenon DEF e

-----------------------------------------------------------------------------
(* A section of lines and no other header gives each key what its lines    *)
(* give it, and the keys of other sections nothing.                        *)
Pick(L, k) == [e \in L |-> IF e.key = k THEN <<e.value>> ELSE <<>>]

LEMMA PickType ==
    ASSUME NEW L, NEW k
    PROVE  Pick(L, k) \in [L -> Seq({e.value : e \in L})]
<1> DEFINE V == {e.value : e \in L}
<1>1. ASSUME NEW e \in L PROVE (IF e.key = k THEN <<e.value>> ELSE <<>>) \in Seq(V)
  <2>1. e.value \in V
    OBVIOUS
  <2> HIDE DEF V
  <2>2. <<e.value>> \in Seq(V) /\ <<>> \in Seq(V)
    BY <2>1, EmptySeq
  <2> QED
    BY <2>2
<1> HIDE DEF V
<1> QED
  BY <1>1 DEF Pick, V

AreLines(L, S) == L \subseteq S /\ \A e \in L : e.header = FALSE

LEMMA SectionReads ==
    ASSUME NEW S, NEW L, AreLines(L, S),
           NEW name, Header(name) \in S, NEW b \in Seq(L), NEW s, NEW k
    PROVE  /\ Cat(<<Header(name)>>, b)[1].header = TRUE
           /\ Reads(S, Cat(<<Header(name)>>, b), name,
                    IF s = name THEN Gather(Pick(L, k), b) ELSE <<>>, s, k)
<1> DEFINE V == {e.value : e \in L}
           h == <<Header(name)>>
           values(r) == IF s = name THEN Gather(Pick(L, k), r) ELSE <<>>
           T == {r \in Seq(L) : Reads(S, Cat(h, r), name, values(r), s, k)}
<1>1. h = Put(<<>>, Header(name)) /\ Cat(h, <<>>) = h
  BY DEF Put, Cat
<1>2. Len(h) = 1 /\ h[1].header = TRUE
  BY DEF Header
<1>3. h \in Seq(S)
  <2> DEFINE e == Header(name)
  <2>1. e \in S
    OBVIOUS
  <2> HIDE DEF e
  <2> QED
    BY <2>1 DEF e
<1>4. Pick(L, k) \in [L -> Seq(V)]
  BY PickType
<1>5. ASSUME NEW r \in Seq(L), NEW e \in L
      PROVE  Gather(Pick(L, k), Put(r, e)) = Cat(Gather(Pick(L, k), r), Pick(L, k)[e])
  BY <1>4, GatherGrows, Zenon DEF Grows
<1> HIDE DEF V, h
<1>6. <<>> \in T
  <2>1. Reads(S, h, name, <<>>, s, k)
    BY <1>1, NothingReads, HeaderReads, Zenon
  <2>2. values(<<>>) = <<>> /\ <<>> \in Seq(L)
    BY GatherEmpty, EmptySeq
  <2> QED
    BY <1>1, <2>1, <2>2, Zenon
<1>7. ASSUME NEW r \in Seq(L), NEW e \in L, r \in T PROVE Put(r, e) \in T
  <2>1. Reads(S, Cat(h, r), name, values(r), s, k)
    BY <1>7
  <2>2. r \in Seq(S) /\ e \in S /\ e.header = FALSE
    <3>1. r \in Seq(L) /\ L \subseteq S
      BY DEF AreLines
    <3>2. r \in Seq(S)
      BY ONLY <3>1
    <3> QED
      BY <3>2 DEF AreLines
  <2>3. Cat(h, Put(r, e)) = Put(Cat(h, r), e) /\ Cat(h, r) \in Seq(S)
    BY ONLY <1>3, <2>2, CatAppend DEF Put
  <2>4. Reads(S, Put(Cat(h, r), e), name,
              Cat(values(r), Given(s = name /\ k = e.key, e.value)), s, k)
    BY <2>1, <2>2, EntryReads, Zenon
  <2>5. Cat(values(r), Given(s = name /\ k = e.key, e.value)) = values(Put(r, e))
    <3>1. CASE s = name
      <4>1. Given(s = name /\ k = e.key, e.value) = Pick(L, k)[e]
        BY <3>1 DEF Given, Pick
      <4> QED
        BY <1>5, <3>1, <4>1
    <3>2. CASE s # name
      BY <3>2, CatNothing DEF Given
    <3> QED
      BY <3>1, <3>2
  <2>6. Put(r, e) \in Seq(L)
    BY PutIs
  <2> QED
    BY <2>3, <2>4, <2>5, <2>6, Zenon
<1> HIDE DEF T
<1>8. b \in T
  BY <1>6, <1>7, SeqSetInduction
<1>9. Cat(h, b)[1] = h[1]
  <2>1. h \in Seq(S) /\ b \in Seq(S) /\ Len(h) = 1
    <3>1. b \in Seq(L) /\ L \subseteq S
      BY DEF AreLines
    <3>2. b \in Seq(S)
      BY ONLY <3>1
    <3> QED
      BY <1>3, <1>2, <3>2
  <2>2. Cat(h, b)[1] = IF 1 <= Len(h) THEN h[1] ELSE b[1 - Len(h)]
    <3>1. Len(h \o b) = Len(h) + Len(b) /\ Len(b) \in Nat
      BY ONLY <2>1, ConcatProperties, LenProperties
    <3>2. 1 \in 1..(Len(h) + Len(b))
      BY <2>1, <3>1
    <3> QED
      BY ONLY <2>1, <3>2, ConcatProperties DEF Cat
  <2> QED
    BY <2>1, <2>2
<1> QED
  BY <1>2, <1>8, <1>9 DEF T, h
=============================================================================
