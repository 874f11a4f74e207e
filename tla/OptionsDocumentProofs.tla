------------------------ MODULE OptionsDocumentProofs ------------------------
(***************************************************************************)
(* Theorems about OptionsDocument, for every set of settings and of raw    *)
(* keys and any number of calls: build() refuses what is invalid and       *)
(* nothing else, and the document of an accepted request says what was     *)
(* asked for, in the section it was asked for, and nothing else.           *)
(***************************************************************************)
EXTENDS OptionsDocument, IniLemmas

-----------------------------------------------------------------------------
(* The document as a function of the fields of the builder.                *)
Raws == [section : Sections, key : RawKeys, value : {RawValue}]

TypedLine(ty) ==
    [o \in OptionNames |-> IF ty[o] = Empty(o) THEN <<>>
                           ELSE <<Line(Key(o), Written(o, ty[o]))>>]
RawLine(s) ==
    [r \in Raws |-> IF r.section = s THEN <<Line(r.key, r.value)>> ELSE <<>>]

BodyOf(ty, rw, s) == Cat(Gather(TypedLine(ty), Options[s]), Gather(RawLine(s), rw))
SectionOf(ty, rw, s) == Cat(<<Header(s)>>, BodyOf(ty, rw, s))
DebugOf(ty, rw) == IF BodyOf(ty, rw, "debug") = <<>> THEN <<>>
                   ELSE SectionOf(ty, rw, "debug")
TextOf(ty, rw) ==
    Cat(Cat(Cat(SectionOf(ty, rw, "compiler"), SectionOf(ty, rw, "scheduler")),
            SectionOf(ty, rw, "graph")), DebugOf(ty, rw))

(* Its lines and its headers.                                              *)
LinesOf(ty) == {Line(Key(o), Written(o, ty[o])) : o \in OptionNames}
               \cup {Line(r.key, r.value) : r \in Raws}
EntriesOf(ty) == LinesOf(ty) \cup {Header(s) : s \in Sections}

LEMMA SectionNames == Sections = {"compiler", "scheduler", "graph", "debug"}
BY DEF Sections, Options

LEMMA OptionsTyped ==
    ASSUME NEW s \in Sections
    PROVE  Options[s] \in Seq(OptionNames) /\ ToSet(Options[s]) \subseteq OptionNames
<1>1. ToSet(Options[s]) \subseteq OptionNames
  BY DEF OptionNames
<1> DEFINE t == Options[s]
<1>2. \E n \in Nat : DOMAIN t = 1..n /\ t = [i \in 1..n |-> t[i]]
  <2>1. CASE s = "compiler"
    BY <2>1 DEF Options
  <2>2. CASE s = "scheduler"
    BY <2>2 DEF Options
  <2>3. CASE s = "graph"
    BY <2>3 DEF Options
  <2>4. CASE s = "debug"
    BY <2>4 DEF Options
  <2> QED
    BY <2>1, <2>2, <2>3, <2>4, SectionNames
<1>3. \A i \in DOMAIN t : t[i] \in OptionNames
  BY <1>1 DEF ToSet
<1> HIDE DEF t
<1>4. t \in Seq(OptionNames)
  BY <1>2, <1>3
<1> QED
  BY <1>1, <1>4 DEF t

(* In each section every option has a key of its own.                      *)
LEMMA KeysApart ==
    ASSUME NEW s \in Sections, NEW i \in 1..Len(Options[s]), NEW j \in 1..Len(Options[s]),
           Key(Options[s][i]) = Key(Options[s][j])
    PROVE  i = j
<1>1. \A k, l \in 1..6 :
         Key(Options["compiler"][k]) = Key(Options["compiler"][l]) => k = l
  BY SMTT(30) DEF Options, Key
<1>2. \A k, l \in 1..8 :
         Key(Options["scheduler"][k]) = Key(Options["scheduler"][l]) => k = l
  BY SMTT(60) DEF Options, Key
<1>3. \A k, l \in 1..4 :
         Key(Options["graph"][k]) = Key(Options["graph"][l]) => k = l
  BY SMTT(30) DEF Options, Key
<1>4. /\ Len(Options["compiler"]) = 6 /\ Len(Options["scheduler"]) = 8
      /\ Len(Options["graph"]) = 4 /\ Len(Options["debug"]) = 1
  BY DEF Options
<1>5. CASE s = "compiler"
  BY <1>1, <1>4, <1>5
<1>6. CASE s = "scheduler"
  BY <1>2, <1>4, <1>6
<1>7. CASE s = "graph"
  BY <1>3, <1>4, <1>7
<1>8. CASE s = "debug"
  BY <1>4, <1>8
<1> QED
  BY <1>5, <1>6, <1>7, <1>8, SectionNames

LEMMA KeyOfFeatures ==
    ASSUME NEW o \in OptionNames
    PROVE  Key(o) = "disable_feature" <=> o = "disable_features"
<1>1. \A i \in 1..6 : Options["compiler"][i] # "disable_feature"
  BY DEF Options
<1>2. \A i \in 1..8 : Options["scheduler"][i] # "disable_feature"
  BY DEF Options
<1>3. \A i \in 1..4 : Options["graph"][i] # "disable_feature"
  BY DEF Options
<1>4. \A i \in 1..1 : Options["debug"][i] # "disable_feature"
  BY DEF Options
<1>5. /\ DOMAIN Options["compiler"] = 1..6 /\ DOMAIN Options["scheduler"] = 1..8
      /\ DOMAIN Options["graph"] = 1..4 /\ DOMAIN Options["debug"] = 1..1
  BY DEF Options
<1>6. o # "disable_feature"
  BY <1>1, <1>2, <1>3, <1>4, <1>5, SectionNames DEF OptionNames, ToSet
<1> QED
  BY <1>6 DEF Key

LEMMA LinesTyped ==
    ASSUME NEW ty, NEW s
    PROVE  /\ TypedLine(ty) \in [OptionNames -> Seq(LinesOf(ty))]
           /\ RawLine(s) \in [Raws -> Seq(LinesOf(ty))]
<1> DEFINE L == LinesOf(ty)
<1>1. ASSUME NEW e \in L PROVE <<e>> \in Seq(L)
  OBVIOUS
<1>2. <<>> \in Seq(L)
  BY EmptySeq
<1>3. \A o \in OptionNames : Line(Key(o), Written(o, ty[o])) \in L
  BY DEF LinesOf
<1>4. \A r \in Raws : Line(r.key, r.value) \in L
  BY DEF LinesOf
<1> HIDE DEF L
<1>5. TypedLine(ty) \in [OptionNames -> Seq(L)]
  BY <1>1, <1>2, <1>3 DEF TypedLine
<1>6. RawLine(s) \in [Raws -> Seq(L)]
  BY <1>1, <1>2, <1>4 DEF RawLine
<1> QED
  BY <1>5, <1>6 DEF L

LEMMA BodyTyped ==
    ASSUME NEW ty, NEW rw \in Seq(Raws), NEW s \in Sections
    PROVE  /\ Gather(TypedLine(ty), Options[s]) \in Seq(LinesOf(ty))
           /\ Gather(RawLine(s), rw) \in Seq(LinesOf(ty))
           /\ BodyOf(ty, rw, s) \in Seq(LinesOf(ty))
<1>1. Gather(TypedLine(ty), Options[s]) \in Seq(LinesOf(ty))
  BY OptionsTyped, LinesTyped, GatherType
<1>2. Gather(RawLine(s), rw) \in Seq(LinesOf(ty))
  BY LinesTyped, GatherType
<1>3. BodyOf(ty, rw, s) \in Seq(LinesOf(ty))
  BY <1>1, <1>2, ConcatProperties DEF BodyOf, Cat
<1> QED
  BY <1>1, <1>2, <1>3

(* What the model writes.                                                  *)
LEMMA TextNow ==
    ASSUME raw \in Seq(Raws)
    PROVE  Text = TextOf(typed, raw)
<1>1. ASSUME NEW s \in Sections PROVE TypedLines(s) = Gather(TypedLine(typed), Options[s])
  <2> DEFINE t == Options[s]
             give(o) == IF typed[o] = Empty(o) THEN <<>>
                        ELSE <<Line(Key(o), Written(o, typed[o]))>>
  <2>1. \A i \in DOMAIN t : t[i] \in OptionNames
    BY OptionsTyped DEF ToSet
  <2>2. \A i \in DOMAIN t : TypedLine(typed)[t[i]] = give(t[i])
    BY <2>1 DEF TypedLine
  <2>3. TypedLines(s) = FlattenSeq([i \in DOMAIN t |-> give(t[i])])
    BY DEF TypedLines, Each
  <2> HIDE DEF give, t
  <2>4. [i \in DOMAIN t |-> give(t[i])] = [i \in DOMAIN t |-> TypedLine(typed)[t[i]]]
    BY <2>2
  <2> QED
    BY <2>3, <2>4 DEF Gather, t
<1>2. ASSUME NEW s PROVE RawLines(s) = Gather(RawLine(s), raw)
  <2> DEFINE give(r) == IF r.section = s THEN <<Line(r.key, r.value)>> ELSE <<>>
  <2>1. \A i \in DOMAIN raw : raw[i] \in Raws
    BY ElementOfSeq, LenProperties
  <2>2. \A i \in DOMAIN raw : RawLine(s)[raw[i]] = give(raw[i])
    BY <2>1 DEF RawLine
  <2>3. RawLines(s) = FlattenSeq([i \in DOMAIN raw |-> give(raw[i])])
    BY DEF RawLines, Each
  <2> HIDE DEF give
  <2>4. [i \in DOMAIN raw |-> give(raw[i])] = [i \in DOMAIN raw |-> RawLine(s)[raw[i]]]
    BY <2>2
  <2> QED
    BY <2>3, <2>4 DEF Gather
<1>3. ASSUME NEW s \in Sections
      PROVE  Body(s) = BodyOf(typed, raw, s) /\ SectionText(s) = SectionOf(typed, raw, s)
  BY <1>1, <1>2, Zenon DEF Body, BodyOf, SectionText, SectionOf, Cat
<1>4. /\ "compiler" \in Sections /\ "scheduler" \in Sections
      /\ "graph" \in Sections /\ "debug" \in Sections
  BY SectionNames
<1> QED
  BY <1>3, <1>4, Zenon DEF Text, TextOf, DebugOf, Cat

(* The options validation and the types single out.                        *)
LEMMA OptionNamed ==
    {"disable_features", "ignore_ops", "cpu_tensor_alignment",
     "softmax_int16_neg_exp_range", "separate_io_regions", "cop_format"}
      \subseteq OptionNames
<1>1. {"cop_format"} \subseteq ToSet(Options["compiler"])
  BY DEF Options, ToSet
<1>2. {"cpu_tensor_alignment", "separate_io_regions", "disable_features"}
        \subseteq ToSet(Options["scheduler"])
  BY DEF Options, ToSet
<1>3. {"ignore_ops", "softmax_int16_neg_exp_range"} \subseteq ToSet(Options["graph"])
  BY DEF Options, ToSet
<1>4. \A s \in Sections : ToSet(Options[s]) \subseteq OptionNames
  BY DEF OptionNames
<1> QED
  BY <1>1, <1>2, <1>3, <1>4, SectionNames

-----------------------------------------------------------------------------
(* The document read.                                                      *)
BodyReads(ty, rw, s, k) == Gather(Pick(LinesOf(ty), k), BodyOf(ty, rw, s))

(* A part of the text: its entries, and that it begins with a header.      *)
Part(S, d) == d \in Seq(S) /\ (d # <<>> => d[1].header = TRUE)

LEMMA PartReads ==
    ASSUME NEW S, NEW a, NEW b, Part(S, a), Part(S, b), NEW s, NEW k
    PROVE  /\ Cat(a, b) \in Seq(S)
           /\ Read(Cat(a, b), s, k) = Cat(Read(a, s, k), Read(b, s, k))
<1>1. a \in Seq(S) /\ b \in Seq(S) /\ (b # <<>> => b[1].header)
  BY DEF Part
<1>2. a \o b \in Seq(S)
  BY <1>1
<1>3. Read(a \o b, s, k) = Read(a, s, k) \o Read(b, s, k)
  BY ONLY <1>1, ReadConcat
<1> QED
  BY <1>2, <1>3 DEF Cat

LEMMA PartsCat ==
    ASSUME NEW S, NEW a, NEW b, Part(S, a), Part(S, b), a # <<>>
    PROVE  Part(S, Cat(a, b)) /\ Cat(a, b) # <<>>
<1>1. a \in Seq(S) /\ b \in Seq(S) /\ a[1].header = TRUE
  BY DEF Part
<1>2. a \o b \in Seq(S) /\ Len(a \o b) = Len(a) + Len(b) /\ Len(a) \in Nat \ {0}
      /\ Len(b) \in Nat
  BY ONLY <1>1, a # <<>>, ConcatProperties, EmptySeq, LenProperties
<1>3. (a \o b)[1] = a[1]
  <2>1. 1 \in 1..(Len(a) + Len(b)) /\ 1 <= Len(a)
    BY <1>2
  <2> QED
    BY ONLY <1>1, <2>1, ConcatProperties
<1>4. a \o b # <<>>
  BY <1>2, EmptySeq
<1> QED
  BY <1>1, <1>2, <1>3, <1>4 DEF Part, Cat

LEMMA SectionOfReads ==
    ASSUME NEW ty, NEW rw \in Seq(Raws), NEW name \in Sections, NEW s, NEW k
    PROVE  /\ Part(EntriesOf(ty), SectionOf(ty, rw, name))
           /\ SectionOf(ty, rw, name) # <<>>
           /\ Read(SectionOf(ty, rw, name), s, k)
                = IF s = name THEN BodyReads(ty, rw, name, k) ELSE <<>>
<1> DEFINE S == EntriesOf(ty)
           L == LinesOf(ty)
           b == BodyOf(ty, rw, name)
<1>1. L \subseteq S /\ Header(name) \in S
  BY DEF EntriesOf
<1>2. AreLines(L, S)
  BY DEF LinesOf, Line, AreLines, EntriesOf
<1>3. b \in Seq(L)
  BY BodyTyped
<1> HIDE DEF S, L, b
<1>4. /\ Cat(<<Header(name)>>, b)[1].header = TRUE
      /\ Reads(S, Cat(<<Header(name)>>, b), name,
               IF s = name THEN Gather(Pick(L, k), b) ELSE <<>>, s, k)
  BY <1>1, <1>2, <1>3, SectionReads, Zenon
<1>5. Cat(<<Header(name)>>, b) # <<>>
  BY <1>3, ConcatProperties, EmptySeq DEF Cat
<1> QED
  BY <1>4, <1>5, Zenon DEF Part, Reads, SectionOf, BodyReads, S, L, b

LEMMA DebugReads ==
    ASSUME NEW ty, NEW rw \in Seq(Raws), NEW s, NEW k
    PROVE  /\ Part(EntriesOf(ty), DebugOf(ty, rw))
           /\ Read(DebugOf(ty, rw), s, k)
                = IF s = "debug" THEN BodyReads(ty, rw, "debug", k) ELSE <<>>
<1>1. "debug" \in Sections
  BY SectionNames
<1>2. CASE BodyOf(ty, rw, "debug") = <<>>
  <2>1. DebugOf(ty, rw) = <<>> /\ BodyReads(ty, rw, "debug", k) = <<>>
    BY <1>2, GatherEmpty DEF DebugOf, BodyReads
  <2>2. Part(EntriesOf(ty), <<>>) /\ Read(<<>>, s, k) = <<>>
    BY NothingReads DEF Part, Reads
  <2> QED
    BY <2>1, <2>2
<1>3. CASE BodyOf(ty, rw, "debug") # <<>>
  <2>1. DebugOf(ty, rw) = SectionOf(ty, rw, "debug")
    BY <1>3 DEF DebugOf
  <2> QED
    BY <1>1, <2>1, SectionOfReads
<1> QED
  BY <1>2, <1>3

LEMMA TextReads ==
    ASSUME NEW ty, NEW rw \in Seq(Raws), NEW s \in Sections, NEW k
    PROVE  /\ TextOf(ty, rw) \in Seq(EntriesOf(ty))
           /\ Read(TextOf(ty, rw), s, k) = BodyReads(ty, rw, s, k)
<1> DEFINE S == EntriesOf(ty)
           a == SectionOf(ty, rw, "compiler")
           b == SectionOf(ty, rw, "scheduler")
           c == SectionOf(ty, rw, "graph")
           d == DebugOf(ty, rw)
           of(name) == IF s = name THEN BodyReads(ty, rw, name, k) ELSE <<>>
<1>1. /\ "compiler" \in Sections /\ "scheduler" \in Sections
      /\ "graph" \in Sections /\ "debug" \in Sections
  BY SectionNames
<1>2. ASSUME NEW name \in Sections
      PROVE  /\ Part(S, SectionOf(ty, rw, name)) /\ SectionOf(ty, rw, name) # <<>>
             /\ Read(SectionOf(ty, rw, name), s, k) = of(name)
  BY SectionOfReads
<1>3. Part(S, d) /\ Read(d, s, k) = of("debug")
  BY DebugReads
<1> HIDE DEF S, d, of
<1>4. /\ Part(S, a) /\ a # <<>> /\ Read(a, s, k) = of("compiler")
      /\ Part(S, b) /\ b # <<>> /\ Read(b, s, k) = of("scheduler")
      /\ Part(S, c) /\ c # <<>> /\ Read(c, s, k) = of("graph")
  BY <1>1, <1>2, Zenon
<1> HIDE DEF a, b, c
<1> DEFINE ab == Cat(a, b)
           abc == Cat(ab, c)
<1>5. Part(S, ab) /\ ab # <<>> /\ Read(ab, s, k) = Cat(of("compiler"), of("scheduler"))
  <2>1. Part(S, a) /\ Part(S, b) /\ a # <<>>
    BY <1>4
  <2>2. Part(S, ab) /\ ab # <<>>
    BY ONLY <2>1, PartsCat
  <2>3. /\ Cat(a, b) \in Seq(S)
        /\ Read(Cat(a, b), s, k) = Cat(Read(a, s, k), Read(b, s, k))
    BY ONLY <2>1, PartReads
  <2> QED
    BY <1>4, <2>2, <2>3, Zenon
<1> HIDE DEF ab
<1>6. Part(S, abc) /\ abc # <<>>
      /\ Read(abc, s, k) = Cat(Cat(of("compiler"), of("scheduler")), of("graph"))
  <2>1. Part(S, ab) /\ Part(S, c) /\ ab # <<>>
    BY <1>4, <1>5
  <2>2. Part(S, abc) /\ abc # <<>>
    BY ONLY <2>1, PartsCat
  <2>3. /\ Cat(ab, c) \in Seq(S)
        /\ Read(Cat(ab, c), s, k) = Cat(Read(ab, s, k), Read(c, s, k))
    BY ONLY <2>1, PartReads
  <2> QED
    BY <1>4, <1>5, <2>2, <2>3, Zenon
<1> HIDE DEF abc
<1>7. /\ Cat(abc, d) \in Seq(S)
      /\ Read(Cat(abc, d), s, k)
           = Cat(Cat(Cat(of("compiler"), of("scheduler")), of("graph")), of("debug"))
  <2>1. Part(S, abc) /\ Part(S, d)
    BY <1>3, <1>6
  <2>2. Cat(abc, d) \in Seq(S)
        /\ Read(Cat(abc, d), s, k) = Cat(Read(abc, s, k), Read(d, s, k))
    BY ONLY <2>1, PartReads
  <2> QED
    BY <1>3, <1>6, <2>2, Zenon
<1>8. TextOf(ty, rw) = Cat(abc, d)
  BY DEF TextOf, a, b, c, d, ab, abc
<1> DEFINE body == BodyReads(ty, rw, s, k)
<1>9. body \in Seq({e.value : e \in LinesOf(ty)})
  BY BodyTyped, PickType, GatherType DEF BodyReads
<1>10. Cat(<<>>, <<>>) = <<>> /\ Cat(<<>>, body) = body /\ Cat(body, <<>>) = body
  BY <1>9, CatNothing, ConcatEmptySeq DEF Cat
<1>11. Cat(Cat(Cat(of("compiler"), of("scheduler")), of("graph")), of("debug")) = body
  <2> HIDE DEF body
  <2>1. \A name \in Sections : of(name) = IF s = name THEN body ELSE <<>>
    BY DEF of, body
  <2> QED
    BY <1>10, <2>1, SectionNames
<1> QED
  BY <1>7, <1>8, <1>11, Zenon DEF S

-----------------------------------------------------------------------------
(* What a history of setter calls has set.                                 *)
Calls == {[how |-> "typed", where |-> g[1], value |-> g[2]] : g \in Settings}
         \cup {[how |-> "raw", where |-> s, value |-> k] : s \in Sections, k \in RawKeys}

Mine(calls, o) ==
    {i \in DOMAIN calls : calls[i].how = "typed" /\ calls[i].where = o}
LastIn(calls, o) ==
    IF Mine(calls, o) = {} THEN Empty(o) ELSE calls[Max(Mine(calls, o))].value
TypedIn(calls) == [o \in OptionNames |-> LastIn(calls, o)]

RawOf == [a \in Calls |->
            IF a.how = "raw"
            THEN <<[section |-> a.where, key |-> a.value, value |-> RawValue]>>
            ELSE <<>>]
RawIn(calls) == Gather(RawOf, calls)

LEMMA CallsAre ==
    ASSUME NEW a \in Calls
    PROVE  \/ a.how = "typed" /\ \E g \in Settings : a.where = g[1] /\ a.value = g[2]
           \/ a.how = "raw" /\ a.where \in Sections /\ a.value \in RawKeys
BY DEF Calls

LEMMA RawOfTyped == RawOf \in [Calls -> Seq(Raws)]
<1>1. ASSUME NEW a \in Calls PROVE RawOf[a] \in Seq(Raws)
  <2>1. CASE a.how = "raw"
    <3> DEFINE r == [section |-> a.where, key |-> a.value, value |-> RawValue]
    <3>1. r \in Raws
      BY <2>1, CallsAre DEF Raws
    <3>2. RawOf[a] = <<r>>
      BY <2>1 DEF RawOf
    <3> HIDE DEF r
    <3> QED
      BY <3>1, <3>2
  <2>2. CASE a.how # "raw"
    <3>1. RawOf[a] = <<>>
      BY <2>2 DEF RawOf
    <3> QED
      BY <3>1, EmptySeq
  <2> QED
    BY <2>1, <2>2
<1>2. RawOf = [a \in Calls |-> RawOf[a]]
  BY DEF RawOf
<1> QED
  BY <1>1, <1>2

LEMMA RawInTyped ==
    ASSUME NEW calls \in Seq(Calls)
    PROVE  RawIn(calls) \in Seq(Raws)
BY RawOfTyped, GatherType DEF RawIn

LEMMA RawInPut ==
    ASSUME NEW calls \in Seq(Calls), NEW a \in Calls
    PROVE  /\ a.how = "typed" => RawIn(Put(calls, a)) = RawIn(calls)
           /\ a.how = "raw" =>
                RawIn(Put(calls, a)) =
                  Append(RawIn(calls),
                         [section |-> a.where, key |-> a.value, value |-> RawValue])
<1>1. RawIn(Put(calls, a)) = Cat(RawIn(calls), RawOf[a])
  BY RawOfTyped, GatherGrows, Zenon DEF RawIn, Grows
<1>2. RawIn(calls) \in Seq(Raws)
  BY RawInTyped
<1>3. ASSUME a.how = "typed" PROVE RawIn(Put(calls, a)) = RawIn(calls)
  <2>1. RawOf[a] = <<>>
    BY <1>3 DEF RawOf
  <2> QED
    BY <1>1, <1>2, <2>1, ConcatEmptySeq DEF Cat
<1>4. ASSUME a.how = "raw"
      PROVE  RawIn(Put(calls, a)) =
               Append(RawIn(calls),
                      [section |-> a.where, key |-> a.value, value |-> RawValue])
  <2> DEFINE r == [section |-> a.where, key |-> a.value, value |-> RawValue]
  <2>1. RawOf[a] = <<r>>
    BY <1>4 DEF RawOf
  <2>2. r \in Raws
    BY <1>4, CallsAre DEF Raws
  <2> HIDE DEF r
  <2>3. RawIn(calls) \o <<r>> = Append(RawIn(calls), r)
    BY <1>2, <2>2
  <2> QED
    BY <1>1, <2>1, <2>3 DEF Cat, r
<1> QED
  BY <1>3, <1>4

(* A typed call counts from then on, and leaves the other options alone.   *)
LEMMA LastInPut ==
    ASSUME NEW calls \in Seq(Calls), NEW a \in Calls, NEW o
    PROVE  LastIn(Put(calls, a), o) = IF a.how = "typed" /\ a.where = o THEN a.value
                                      ELSE LastIn(calls, o)
<1> DEFINE w == Put(calls, a)
           n == Len(calls)
           T == Mine(calls, o)
           U == Mine(w, o)
<1>1. /\ w \in Seq(Calls) /\ Len(w) = n + 1 /\ w[n + 1] = a
      /\ \A i \in 1..n : w[i] = calls[i]
  BY PutIs
<1> HIDE DEF w
<1>2. n \in Nat /\ DOMAIN calls = 1..n /\ DOMAIN w = 1..(n + 1)
  BY <1>1, LenProperties
<1> HIDE DEF n
<1>3. 1..(n + 1) = 1..n \cup {n + 1} /\ n + 1 \notin 1..n
  BY <1>2
<1>4. U = T \cup {i \in {n + 1} : a.how = "typed" /\ a.where = o}
  BY <1>1, <1>2, <1>3 DEF Mine
<1>5. T \subseteq 1..n
  BY <1>2 DEF Mine
<1>6. CASE a.how = "typed" /\ a.where = o
  <2>1. n + 1 \in U /\ U \subseteq Nat /\ \A i \in U : i <= n + 1
    BY <1>2, <1>4, <1>5, <1>6
  <2> HIDE DEF U
  <2>2. Max(U) = n + 1
    BY <2>1, MaxUnique
  <2> QED
    BY <1>1, <1>6, <2>1, <2>2 DEF LastIn, U, w
<1>7. CASE ~(a.how = "typed" /\ a.where = o)
  <2>1. U = T
    BY <1>4, <1>7
  <2>2. T # {} => Max(T) \in 1..n
    <3>1. T \subseteq Nat /\ \A i \in T : i <= n
      BY <1>2, <1>5
    <3> HIDE DEF T
    <3> QED
      BY <1>2, <1>5, <3>1, MaxIs
  <2> QED
    BY <1>1, <1>7, <2>1, <2>2 DEF LastIn, U, T, w
<1> QED
  BY <1>6, <1>7

(* What an option holds is what its type lets through.                     *)
LEMMA LastInType ==
    ASSUME NEW calls \in Seq(Calls), NEW o
    PROVE  LastIn(calls, o) = Empty(o) \/ SettingType(o, LastIn(calls, o))
<1> DEFINE T == Mine(calls, o)
           n == Len(calls)
<1>1. n \in Nat /\ DOMAIN calls = 1..n
  BY LenProperties
<1>2. CASE T = {}
  BY <1>2 DEF LastIn
<1>3. CASE T # {}
  <2>1. T \subseteq Nat /\ \A i \in T : i <= n
    BY <1>1 DEF Mine
  <2>2. Max(T) \in T
    <3> HIDE DEF T
    <3> QED
      BY <1>1, <1>3, <2>1, MaxIs
  <2> DEFINE a == calls[Max(T)]
  <2>3. a \in Calls /\ a.how = "typed" /\ a.where = o
    <3>1. Max(T) \in 1..n /\ a.how = "typed" /\ a.where = o
      BY <1>1, <2>2 DEF Mine
    <3> HIDE DEF T
    <3> QED
      BY <3>1, ElementOfSeq
  <2>4. LastIn(calls, o) = a.value
    BY <1>3 DEF LastIn
  <2> HIDE DEF a
  <2>5. PICK g \in Settings : a.where = g[1] /\ a.value = g[2]
    BY <2>3, CallsAre
  <2>6. SettingType(g[1], g[2])
    BY SettingAssumption
  <2> QED
    BY <2>3, <2>4, <2>5, <2>6
<1> QED
  BY <1>2, <1>3

-----------------------------------------------------------------------------
(* build() as a function of a history of calls.                            *)
InvalidAlignmentIn(ty) ==
    /\ ty["cpu_tensor_alignment"] # Unset
    /\ \/ ty["cpu_tensor_alignment"] < 16
       \/ ~IsPowerOfTwo(ty["cpu_tensor_alignment"])
SoftmaxRangeOutOfRangeIn(ty) ==
    /\ ty["softmax_int16_neg_exp_range"] # Unset
    /\ ~SoftmaxInRange(ty["softmax_int16_neg_exp_range"])
SeparateIoRequiresCop2In(ty) ==
    ty["separate_io_regions"] = TRUE /\ ty["cop_format"] # "COP2"

Accepts(ty) == /\ ~InvalidAlignmentIn(ty) /\ ~SoftmaxRangeOutOfRangeIn(ty)
               /\ ~SeparateIoRequiresCop2In(ty)

(* What build() returns after the calls.                                   *)
ResultOf(result, calls) ==
    /\ result.error \in Outcomes \ {"not_built"}
    /\ result.error = "none" <=> Accepts(TypedIn(calls))
    /\ result.text = IF result.error = "none"
                     THEN TextOf(TypedIn(calls), RawIn(calls)) ELSE <<>>

LEMMA ValidationNow ==
    /\ Validation \in Outcomes \ {"not_built"}
    /\ Validation = "none" <=> Accepts(typed)
<1> DEFINE a == InvalidAlignment
           b == SoftmaxRangeOutOfRange
           c == SeparateIoRequiresCop2
<1>1. /\ InvalidAlignmentIn(typed) = a /\ SoftmaxRangeOutOfRangeIn(typed) = b
      /\ SeparateIoRequiresCop2In(typed) = c
  BY DEF InvalidAlignmentIn, InvalidAlignment, SoftmaxRangeOutOfRangeIn,
         SoftmaxRangeOutOfRange, SeparateIoRequiresCop2In, SeparateIoRequiresCop2
<1>2. Accepts(typed) <=> ~a /\ ~b /\ ~c
  BY <1>1 DEF Accepts
<1> HIDE DEF a, b, c
<1>3. Validation = CASE a -> "InvalidAlignment"
                     [] ~a /\ b -> "SoftmaxRangeOutOfRange"
                     [] ~a /\ ~b /\ c -> "SeparateIoRequiresCop2"
                     [] OTHER -> "none"
  BY DEF Validation, a, b, c
<1> QED
  BY <1>2, <1>3 DEF Outcomes

-----------------------------------------------------------------------------
(* The inductive invariant: the fields are what the calls so far have set, *)
(* and what build() returned last is what it makes of the calls before it. *)
IInv ==
    /\ asked \in Seq(Calls) /\ Len(asked) <= MaxSets
    /\ builtFor \in Seq(Calls) /\ IsPrefix(builtFor, asked)
    /\ typed = TypedIn(asked)
    /\ raw = RawIn(asked)
    /\ \/ built.error = "not_built" /\ built.text = <<>>
       \/ ResultOf(built, builtFor)

LEMMA InitIInv == Init => IInv
<1> SUFFICES ASSUME Init PROVE IInv
  OBVIOUS
<1>1. <<>> \in Seq(Calls) /\ Len(<<>>) = 0 /\ DOMAIN <<>> = {}
  BY EmptySeq, LenProperties
<1>2. IsPrefix(<<>>, <<>>)
  BY <1>1, PrefixSelf
<1>3. TypedIn(<<>>) = [o \in OptionNames |-> Empty(o)]
  BY <1>1 DEF TypedIn, LastIn, Mine
<1>4. RawIn(<<>>) = <<>>
  BY GatherEmpty DEF RawIn
<1> QED
  BY <1>1, <1>2, <1>3, <1>4, BoundAssumption DEF Init, IInv

(* A setter, in terms of the call it is.                                   *)
LEMMA AskIInv ==
    ASSUME IInv, NEW a \in Calls, Len(asked) < MaxSets, asked' = Append(asked, a),
           typed' = TypedIn(Put(asked, a)), raw' = RawIn(Put(asked, a)),
           UNCHANGED <<built, builtFor>>
    PROVE  IInv'
<1>1. asked \in Seq(Calls) /\ builtFor \in Seq(Calls) /\ IsPrefix(builtFor, asked)
  BY DEF IInv
<1>2. Put(asked, a) \in Seq(Calls) /\ Len(Put(asked, a)) = Len(asked) + 1
  BY ONLY <1>1, a \in Calls, PutIs
<1>3. IsPrefix(builtFor, Put(asked, a))
  BY <1>1, PrefixPut
<1>4. Len(asked) + 1 <= MaxSets
  BY <1>1, BoundAssumption, LenProperties
<1>5. asked' = Put(asked, a)
  BY DEF Put
<1>6. ResultOf(built, builtFor)' <=> ResultOf(built, builtFor)
  BY DEF ResultOf, Accepts, TypedIn
<1> QED
  BY <1>1, <1>2, <1>3, <1>4, <1>5, <1>6 DEF IInv

LEMMA NextIInv == IInv /\ [Next]_vars => IInv'
<1> SUFFICES ASSUME IInv, [Next]_vars PROVE IInv'
  OBVIOUS
<1>1. asked \in Seq(Calls) /\ builtFor \in Seq(Calls) /\ typed = TypedIn(asked)
      /\ raw = RawIn(asked)
  BY DEF IInv
<1>2. ASSUME NEW g \in Settings, Set(g[1], g[2]) PROVE IInv'
  <2> DEFINE a == [how |-> "typed", where |-> g[1], value |-> g[2]]
             p == Put(asked, a)
  <2>1. a \in Calls /\ a.how = "typed" /\ a.where = g[1] /\ a.value = g[2]
    BY DEF Calls
  <2>2. /\ asked' = Append(asked, a) /\ typed' = [typed EXCEPT ![g[1]] = g[2]]
        /\ Len(asked) < MaxSets /\ UNCHANGED <<raw, built, builtFor>>
    BY <1>2 DEF Set, Ask
  <2> HIDE DEF a
  <2>3. \A o \in OptionNames : LastIn(p, o) = IF g[1] = o THEN g[2] ELSE LastIn(asked, o)
    BY <1>1, <2>1, LastInPut
  <2>4. RawIn(p) = RawIn(asked)
    BY <1>1, <2>1, RawInPut
  <2> HIDE DEF p
  <2>5. typed' = TypedIn(p)
    BY <1>1, <2>2, <2>3 DEF TypedIn
  <2> QED
    BY <1>1, <2>1, <2>2, <2>4, <2>5, AskIInv DEF p
<1>3. ASSUME NEW s \in Sections, NEW k \in RawKeys, Raw(s, k) PROVE IInv'
  <2> DEFINE a == [how |-> "raw", where |-> s, value |-> k]
             p == Put(asked, a)
  <2>1. a \in Calls /\ a.how = "raw" /\ a.where = s /\ a.value = k
    BY DEF Calls
  <2>2. /\ asked' = Append(asked, a)
        /\ raw' = Append(raw, [section |-> s, key |-> k, value |-> RawValue])
        /\ Len(asked) < MaxSets /\ UNCHANGED <<typed, built, builtFor>>
    BY <1>3 DEF Raw, Ask
  <2> HIDE DEF a
  <2>3. \A o \in OptionNames : LastIn(p, o) = LastIn(asked, o)
    BY <1>1, <2>1, LastInPut
  <2>4. RawIn(p) = Append(RawIn(asked), [section |-> s, key |-> k, value |-> RawValue])
    BY <1>1, <2>1, RawInPut
  <2> HIDE DEF p
  <2>5. typed' = TypedIn(p)
    BY <1>1, <2>2, <2>3 DEF TypedIn
  <2> QED
    BY <1>1, <2>1, <2>2, <2>4, <2>5, AskIInv DEF p
<1>4. CASE Build
  <2>1. /\ built' = [error |-> Validation,
                     text |-> IF Validation = "none" THEN Text ELSE <<>>]
        /\ builtFor' = asked /\ UNCHANGED <<typed, raw, asked>>
    BY <1>4 DEF Build
  <2>2. raw \in Seq(Raws)
    BY <1>1, RawInTyped
  <2>3. Text = TextOf(TypedIn(asked), RawIn(asked))
    BY <1>1, <2>2, TextNow
  <2>4. ResultOf(built', asked)
    BY <1>1, <2>1, <2>3, ValidationNow DEF ResultOf
  <2>5. IsPrefix(asked, asked)
    BY <1>1, PrefixSelf
  <2> QED
    BY <1>1, <2>1, <2>4, <2>5 DEF IInv, ResultOf, Accepts, TypedIn
<1>5. CASE UNCHANGED vars
  BY <1>5 DEF IInv, vars, ResultOf, Accepts, TypedIn
<1> QED
  BY <1>2, <1>3, <1>4, <1>5 DEF Next

LEMMA AlwaysIInv == Spec => []IInv
<1>1. Init => IInv
  BY InitIInv
<1>2. IInv /\ [Next]_vars => IInv'
  BY NextIInv
<1> QED
  BY <1>1, <1>2, PTL DEF Spec

(* TypeOK: an option holds what its setter takes, raw() has put what it    *)
(* takes into `raw`, and a refused build() returns no text.                *)
THEOREM OptionsTypeCorrect == Spec => []TypeOK
<1>1. IInv => TypeOK
  <2> SUFFICES ASSUME IInv PROVE TypeOK
    OBVIOUS
  <2>1. \A o \in OptionNames : /\ typed[o] = LastIn(asked, o)
                               /\ typed[o] = Empty(o) \/ SettingType(o, typed[o])
    BY LastInType DEF IInv, TypedIn
  <2>2. "disable_features" \in OptionNames /\ "ignore_ops" \in OptionNames
    BY OptionNamed
  <2>3. typed["disable_features"] \subseteq ToSet(FeatureNames)
    BY <2>1, <2>2 DEF Empty, SettingType
  <2>4. typed["ignore_ops"] \in Seq(STRING)
    BY <2>1, <2>2, EmptySeq DEF Empty, SettingType
  <2>5. raw \in Seq(Raws)
    BY RawInTyped DEF IInv
  <2>6. DOMAIN typed = OptionNames
    BY DEF IInv, TypedIn
  <2>7. built.error \in Outcomes /\ (built.error # "none" => built.text = <<>>)
    BY DEF IInv, ResultOf, Outcomes
  <2> QED
    BY <2>3, <2>4, <2>5, <2>6, <2>7 DEF IInv, TypeOK, Raws
<1> QED
  BY <1>1, AlwaysIInv, PTL

-----------------------------------------------------------------------------
(* What validation lets through is what is documented.                     *)
LEMMA AlignmentsAre ==
    ASSUME NEW n \in Nat
    PROVE  ~(n < 16) /\ IsPowerOfTwo(n) <=> IsAlignment(n)
BY SMTT(30) DEF IsPowerOfTwo, IsAlignment

LEMMA SoftmaxRangesAre ==
    /\ SoftmaxRanges \subseteq Int
    /\ \A r \in Int : SoftmaxInRange(r) <=> r \in SoftmaxRanges
<1> DEFINE top == 131069
<1>1. SoftmaxRanges = 1..top
  BY DEF SoftmaxRanges
<1>2. top \in Int /\ 2 * 65535 = top + 1
  OBVIOUS
<1>3. \A r \in Int : r # NaN
  BY SettingAssumption, Zenon
<1> HIDE DEF top
<1>4. 1..top \subseteq Int
  BY <1>2
<1>5. ASSUME NEW r \in Int PROVE r > 0 /\ r < top + 1 <=> r \in 1..top
  BY <1>2
<1>6. ASSUME NEW r \in Int PROVE SoftmaxInRange(r) <=> r > 0 /\ r < top + 1
  BY <1>2, <1>3 DEF SoftmaxInRange
<1> QED
  BY <1>1, <1>4, <1>5, <1>6

(* RefusedIffInvalid: build() refuses what the documentation of the        *)
(* setters rules out in what the last call of each has set, and nothing    *)
(* else.                                                                   *)
THEOREM InvalidOptionsRefused == Spec => []RefusedIffInvalid
<1>1. IInv => RefusedIffInvalid
  <2> SUFFICES ASSUME IInv, built.error # "not_built" PROVE RefusedIffInvalid
    BY Zenon DEF RefusedIffInvalid
  <2> DEFINE ty == TypedIn(builtFor)
             alignment == LastOf("cpu_tensor_alignment")
             range == LastOf("softmax_int16_neg_exp_range")
  <2>1. builtFor \in Seq(Calls) /\ (built.error = "none" <=> Accepts(ty))
    BY DEF IInv, ResultOf
  <2>2. \A o : LastOf(o) = LastIn(builtFor, o)
    BY DEF LastOf, LastIn, Mine
  <2>3. /\ ty["cpu_tensor_alignment"] = alignment
        /\ ty["softmax_int16_neg_exp_range"] = range
        /\ ty["separate_io_regions"] = LastOf("separate_io_regions")
        /\ ty["cop_format"] = LastOf("cop_format")
    BY <2>2, OptionNamed DEF TypedIn
  <2>4. /\ alignment = Unset \/ alignment \in Nat
        /\ range = Unset \/ range \in Int \cup {NaN}
    BY <2>1, <2>2, LastInType DEF Empty, SettingType
  <2> HIDE DEF ty, alignment, range
  <2>5. ~InvalidAlignmentIn(ty) <=> alignment = Unset \/ IsAlignment(alignment)
    <3>1. CASE alignment = Unset
      BY <2>3, <3>1 DEF InvalidAlignmentIn
    <3>2. CASE alignment # Unset
      <4>1. ~InvalidAlignmentIn(ty) <=> ~(alignment < 16) /\ IsPowerOfTwo(alignment)
        BY <2>3, <3>2, Zenon DEF InvalidAlignmentIn
      <4>2. alignment \in Nat
        BY <2>4, <3>2
      <4> QED
        BY <3>2, <4>1, <4>2, AlignmentsAre
    <3> QED
      BY <3>1, <3>2
  <2>6. ~SoftmaxRangeOutOfRangeIn(ty) <=> range = Unset \/ range \in SoftmaxRanges
    <3>1. ~SoftmaxRangeOutOfRangeIn(ty) <=> range = Unset \/ SoftmaxInRange(range)
      BY <2>3 DEF SoftmaxRangeOutOfRangeIn
    <3>2. CASE range = Unset
      BY <3>1, <3>2
    <3>3. CASE range = NaN
      <4>1. ~SoftmaxInRange(range)
        BY <3>3 DEF SoftmaxInRange
      <4>2. NaN # Unset /\ NaN \notin SoftmaxRanges
        BY SettingAssumption, SoftmaxRangesAre, Zenon
      <4> QED
        BY <3>1, <3>3, <4>1, <4>2, Zenon
    <3>4. CASE range \in Int
      <4>1. range # Unset
        BY <3>4, SettingAssumption, Zenon
      <4> QED
        BY <3>1, <3>4, <4>1, SoftmaxRangesAre, Zenon
    <3> QED
      BY <2>4, <3>2, <3>3, <3>4, Zenon
  <2>7. ~SeparateIoRequiresCop2In(ty)
          <=> (LastOf("separate_io_regions") = TRUE => LastOf("cop_format") = "COP2")
    BY <2>3 DEF SeparateIoRequiresCop2In
  <2>8. built.error = "none"
          <=> /\ alignment = Unset \/ IsAlignment(alignment)
              /\ range = Unset \/ range \in SoftmaxRanges
              /\ LastOf("separate_io_regions") = TRUE => LastOf("cop_format") = "COP2"
    BY <2>1, <2>5, <2>6, <2>7, Zenon DEF Accepts
  <2> QED
    BY <2>8, Zenon DEF RefusedIffInvalid, alignment, range
<1> QED
  BY <1>1, AlwaysIInv, PTL

-----------------------------------------------------------------------------
(* What the body of a section gives a key: what the typed options give it, *)
(* then what the raw calls do.                                             *)
TypedGives(ty, k) ==
    [o \in OptionNames |-> IF ty[o] # Empty(o) /\ Key(o) = k
                           THEN <<Written(o, ty[o])>> ELSE <<>>]
RawGives(s, k) ==
    [a \in Calls |-> IF a.how = "raw" /\ a.where = s /\ a.value = k
                     THEN <<RawValue>> ELSE <<>>]
Settles(s, k) ==
    [r \in Raws |-> IF r.section = s /\ r.key = k THEN <<r.value>> ELSE <<>>]

(* One line gives its value to its key.                                    *)
LEMMA PickLine ==
    ASSUME NEW L, NEW key, NEW v, Line(key, v) \in L, NEW k
    PROVE  /\ Gather(Pick(L, k), <<Line(key, v)>>) = IF key = k THEN <<v>> ELSE <<>>
           /\ Gather(Pick(L, k), <<>>) = <<>>
<1> DEFINE e == Line(key, v)
           V == {x.value : x \in L}
           f == Pick(L, k)
<1>1. e \in L /\ e.key = key /\ e.value = v
  BY DEF Line
<1> HIDE DEF e, V
<1>2. f \in [L -> Seq(V)]
  BY PickType DEF V
<1>3. f[e] = IF key = k THEN <<v>> ELSE <<>>
  BY <1>1 DEF Pick
<1> HIDE DEF f
<1>4. <<>> \in Seq(L) /\ Put(<<>>, e) = <<e>> /\ Gather(f, <<>>) = <<>>
  BY EmptySeq, GatherEmpty DEF Put
<1>5. Gather(f, Put(<<>>, e)) = Cat(<<>>, f[e])
  <2>1. Gather(f, Put(<<>>, e)) = Cat(Gather(f, <<>>), f[e])
    BY <1>1, <1>2, <1>4, GatherGrows, Zenon DEF Grows
  <2> QED
    BY <1>4, <2>1, Zenon
<1>6. Cat(<<>>, f[e]) = f[e]
  BY <1>3, CatNothing
<1> QED
  BY <1>3, <1>4, <1>5, <1>6, Zenon DEF e, f

LEMMA RawGivesTyped ==
    ASSUME NEW s, NEW k
    PROVE  /\ RawGives(s, k) \in [Calls -> Seq({RawValue})]
           /\ Settles(s, k) \in [Raws -> Seq({RawValue})]
<1>1. <<RawValue>> \in Seq({RawValue}) /\ <<>> \in Seq({RawValue})
  BY EmptySeq
<1>2. \A r \in Raws : r.value = RawValue
  BY DEF Raws
<1> QED
  BY <1>1, <1>2 DEF RawGives, Settles

LEMMA TypedPart ==
    ASSUME NEW ty, NEW s \in Sections, NEW k
    PROVE  Gather(Pick(LinesOf(ty), k), Gather(TypedLine(ty), Options[s]))
             = Gather(TypedGives(ty, k), Options[s])
<1> DEFINE L == LinesOf(ty)
           V == {x.value : x \in L}
           f == TypedLine(ty)
           g == Pick(L, k)
           h == TypedGives(ty, k)
<1>1. f \in [OptionNames -> Seq(L)] /\ g \in [L -> Seq(V)]
  BY LinesTyped, PickType
<1>2. ASSUME NEW o \in OptionNames PROVE h[o] = Gather(g, f[o]) /\ h[o] \in Seq(V)
  <2> DEFINE v == Written(o, ty[o])
  <2>1. Line(Key(o), v) \in L
    BY DEF LinesOf
  <2>2. v \in V
    <3>1. Line(Key(o), v).value = v
      BY DEF Line
    <3> HIDE DEF L
    <3> QED
      BY <2>1, <3>1
  <2>3. h[o] = IF ty[o] # Empty(o) /\ Key(o) = k THEN <<v>> ELSE <<>>
    BY DEF TypedGives
  <2>4. f[o] = IF ty[o] = Empty(o) THEN <<>> ELSE <<Line(Key(o), v)>>
    BY DEF TypedLine
  <2> HIDE DEF v, h, f, V, L
  <2>5. /\ Gather(g, <<Line(Key(o), v)>>) = IF Key(o) = k THEN <<v>> ELSE <<>>
        /\ Gather(g, <<>>) = <<>>
    BY <2>1, PickLine
  <2>6. <<v>> \in Seq(V) /\ <<>> \in Seq(V)
    BY <2>2, EmptySeq
  <2> HIDE DEF g
  <2> QED
    BY <2>3, <2>4, <2>5, <2>6
<1>3. h \in [OptionNames -> Seq(V)]
  <2>1. h = [o \in OptionNames |-> h[o]]
    BY DEF TypedGives
  <2> HIDE DEF h, V
  <2> QED
    BY <1>2, <2>1
<1>4. Options[s] \in Seq(OptionNames)
  BY OptionsTyped
<1> HIDE DEF L, V, f, g, h
<1>5. Gather(g, Gather(f, Options[s])) = Gather(h, Options[s])
  <2>1. Composes(h, g, f, OptionNames)
    BY <1>2 DEF Composes
  <2>2. Fuses(h, g, f, OptionNames)
    BY <1>1, <1>3, <2>1, GatherGather, Zenon
  <2> QED
    BY <1>4, <2>2, Zenon DEF Fuses
<1> QED
  BY <1>5 DEF L, f, g, h

LEMMA RawPart ==
    ASSUME NEW ty, NEW calls \in Seq(Calls), NEW s \in Sections, NEW k
    PROVE  Gather(Pick(LinesOf(ty), k), Gather(RawLine(s), RawIn(calls)))
             = Gather(RawGives(s, k), calls)
<1> DEFINE L == LinesOf(ty)
           V == {x.value : x \in L}
           f == RawLine(s)
           g == Pick(L, k)
           h == Settles(s, k)
<1>1. f \in [Raws -> Seq(L)] /\ g \in [L -> Seq(V)]
  BY LinesTyped, PickType
<1>2. ASSUME NEW r \in Raws PROVE h[r] = Gather(g, f[r]) /\ h[r] \in Seq(V)
  <2>1. Line(r.key, r.value) \in L
    BY DEF LinesOf
  <2>2. r.value \in V
    <3>1. Line(r.key, r.value).value = r.value
      BY DEF Line
    <3> HIDE DEF L
    <3> QED
      BY <2>1, <3>1
  <2>3. h[r] = IF r.section = s /\ r.key = k THEN <<r.value>> ELSE <<>>
    BY DEF Settles
  <2>4. f[r] = IF r.section = s THEN <<Line(r.key, r.value)>> ELSE <<>>
    BY DEF RawLine
  <2> HIDE DEF h, f, V, L
  <2>5. /\ Gather(g, <<Line(r.key, r.value)>>) = IF r.key = k THEN <<r.value>> ELSE <<>>
        /\ Gather(g, <<>>) = <<>>
    BY <2>1, PickLine
  <2>6. <<r.value>> \in Seq(V) /\ <<>> \in Seq(V)
    BY <2>2, EmptySeq
  <2> HIDE DEF g
  <2> QED
    BY <2>3, <2>4, <2>5, <2>6
<1>3. h \in [Raws -> Seq(V)]
  <2>1. h = [r \in Raws |-> h[r]]
    BY DEF Settles
  <2> HIDE DEF h, V
  <2> QED
    BY <1>2, <2>1
<1>4. RawIn(calls) \in Seq(Raws)
  BY RawInTyped
<1> HIDE DEF L, V, f, g
<1>5. Gather(g, Gather(f, RawIn(calls))) = Gather(h, RawIn(calls))
  <2>1. Composes(h, g, f, Raws)
    BY <1>2 DEF Composes
  <2> HIDE DEF h
  <2>2. Fuses(h, g, f, Raws)
    BY <1>1, <1>3, <2>1, GatherGather, Zenon
  <2> QED
    BY <1>4, <2>2, Zenon DEF Fuses
<1>6. Gather(h, RawIn(calls)) = Gather(RawGives(s, k), calls)
  <2> DEFINE w == RawGives(s, k)
  <2>1. ASSUME NEW a \in Calls PROVE w[a] = Gather(h, RawOf[a])
    <3> DEFINE r == [section |-> a.where, key |-> a.value, value |-> RawValue]
    <3>1. CASE a.how = "raw"
      <4>1. r \in Raws /\ RawOf[a] = <<r>>
        BY <3>1, CallsAre DEF Raws, RawOf
      <4>2. h[r] = RawGives(s, k)[a]
        BY <3>1, <4>1 DEF Settles, RawGives
      <4> HIDE DEF r
      <4>3. <<r>> = Put(<<>>, r) /\ <<>> \in Seq(Raws) /\ Gather(h, <<>>) = <<>>
        BY EmptySeq, GatherEmpty DEF Put
      <4>4. Gather(h, Put(<<>>, r)) = Cat(Gather(h, <<>>), h[r])
        <5>1. h \in [Raws -> Seq({RawValue})] /\ r \in Raws
          BY <4>1, RawGivesTyped
        <5> HIDE DEF h
        <5>2. Grows(h, Raws)
          BY <5>1, GatherGrows, Zenon
        <5> QED
          BY <4>3, <5>1, <5>2, Zenon DEF Grows
      <4>5. Cat(<<>>, RawGives(s, k)[a]) = RawGives(s, k)[a]
        BY CatNothing DEF RawGives
      <4> QED
        BY <4>1, <4>2, <4>3, <4>4, <4>5, Zenon
    <3>2. CASE a.how # "raw"
      BY <3>2, GatherEmpty DEF RawGives, RawOf
    <3> QED
      BY <3>1, <3>2
  <2>2. /\ h \in [Raws -> Seq({RawValue})]
        /\ w \in [Calls -> Seq({RawValue})]
    BY RawGivesTyped
  <2> HIDE DEF h, w
  <2>3. Composes(w, h, RawOf, Calls)
    BY <2>1 DEF Composes
  <2>4. Fuses(w, h, RawOf, Calls)
    BY <2>2, <2>3, RawOfTyped, GatherGather, Zenon
  <2> QED
    BY <2>4, Zenon DEF Fuses, RawIn, w
<1> QED
  BY <1>5, <1>6, Zenon DEF L, f, g

LEMMA ResultReads ==
    ASSUME NEW ty, NEW calls \in Seq(Calls), NEW s \in Sections, NEW k
    PROVE  Read(TextOf(ty, RawIn(calls)), s, k)
             = Cat(Gather(TypedGives(ty, k), Options[s]), Gather(RawGives(s, k), calls))
<1> DEFINE L == LinesOf(ty)
           g == Pick(L, k)
           V == {x.value : x \in L}
           a == Gather(TypedLine(ty), Options[s])
           b == Gather(RawLine(s), RawIn(calls))
<1>1. RawIn(calls) \in Seq(Raws)
  BY RawInTyped
<1>2. a \in Seq(L) /\ b \in Seq(L)
  BY <1>1, BodyTyped
<1>3. g \in [L -> Seq(V)]
  BY PickType
<1>4. Read(TextOf(ty, RawIn(calls)), s, k) = Gather(g, Cat(a, b))
  BY <1>1, TextReads DEF BodyReads, BodyOf
<1>5. Gather(g, Cat(a, b)) = Cat(Gather(g, a), Gather(g, b))
  <2> HIDE DEF g, a, b, L, V
  <2>1. Splits(g, L)
    BY <1>3, GatherSplits, Zenon
  <2> QED
    BY <1>2, <2>1, Zenon DEF Splits
<1>6. Gather(g, a) = Gather(TypedGives(ty, k), Options[s])
  BY TypedPart
<1>7. Gather(g, b) = Gather(RawGives(s, k), calls)
  BY RawPart
<1> HIDE DEF a, b, g
<1> QED
  BY <1>4, <1>5, <1>6, <1>7, Zenon

(* At most one typed option gives a key of a section a value.              *)
LEMMA TypedGiven ==
    ASSUME NEW ty, NEW s \in Sections, NEW k
    PROVE  \/ /\ Gather(TypedGives(ty, k), Options[s]) = <<>>
              /\ \A o \in ToSet(Options[s]) : Key(o) = k => ty[o] = Empty(o)
           \/ \E o \in ToSet(Options[s]) :
                 /\ Key(o) = k /\ ty[o] # Empty(o)
                 /\ Gather(TypedGives(ty, k), Options[s]) = <<Written(o, ty[o])>>
                 /\ \A p \in ToSet(Options[s]) : Key(p) = k => p = o
<1> DEFINE t == Options[s]
           f == TypedGives(ty, k)
           n == Len(t)
           V == {Written(o, ty[o]) : o \in OptionNames}
           there(o) == ty[o] # Empty(o) /\ Key(o) = k
<1>1. t \in Seq(OptionNames) /\ n \in Nat /\ DOMAIN t = 1..n
      /\ \A i \in 1..n : t[i] \in OptionNames
  BY OptionsTyped, LenProperties, ElementOfSeq
<1>2. ToSet(t) = {t[i] : i \in 1..n}
  BY <1>1 DEF ToSet
<1>3. \A o \in OptionNames : f[o] = IF there(o) THEN <<Written(o, ty[o])>> ELSE <<>>
  BY DEF TypedGives
<1>4. f \in [OptionNames -> Seq(V)]
  <2>1. ASSUME NEW o \in OptionNames PROVE f[o] \in Seq(V)
    <3> DEFINE v == Written(o, ty[o])
    <3>1. v \in V
      OBVIOUS
    <3> HIDE DEF v, V
    <3>2. <<v>> \in Seq(V) /\ <<>> \in Seq(V)
      BY <3>1, EmptySeq
    <3> QED
      BY <1>3, <3>2 DEF v
  <2>2. f = [o \in OptionNames |-> f[o]]
    BY DEF TypedGives
  <2> HIDE DEF f, V
  <2> QED
    BY <2>1, <2>2
<1>5. \A i, j \in 1..n : Key(t[i]) = Key(t[j]) => i = j
  BY KeysApart
<1> HIDE DEF t, f, n, V
<1>6. CASE \A i \in 1..n : ~there(t[i])
  <2>1. \A i \in 1..n : f[t[i]] = <<>>
    BY <1>1, <1>3, <1>6
  <2>2. Gather(f, t) = <<>>
    BY <1>1, <2>1, GatherNone DEF n
  <2>3. \A o \in ToSet(t) : Key(o) = k => ty[o] = Empty(o)
    BY <1>2, <1>6
  <2> QED
    BY <2>2, <2>3 DEF f, t
<1>7. ASSUME NEW j \in 1..n, there(t[j])
      PROVE  \E o \in ToSet(t) :
                /\ Key(o) = k /\ ty[o] # Empty(o)
                /\ Gather(f, t) = <<Written(o, ty[o])>>
                /\ \A p \in ToSet(t) : Key(p) = k => p = o
  <2>1. \A i \in 1..n : i # j => f[t[i]] = <<>>
    BY <1>1, <1>3, <1>5, <1>7
  <2>2. Gather(f, t) = f[t[j]]
    <3>1. t \in Seq(OptionNames) /\ j \in 1..Len(t)
          /\ OnlyAt(f, t, j)
      BY <1>1, <2>1 DEF n, OnlyAt
    <3> QED
      BY ONLY <1>4, <3>1, GatherOne
  <2>3. f[t[j]] = <<Written(t[j], ty[t[j]])>>
    BY <1>1, <1>3, <1>7
  <2>4. \A p \in ToSet(t) : Key(p) = k => p = t[j]
    BY <1>2, <1>5, <1>7
  <2>5. t[j] \in ToSet(t)
    BY <1>2
  <2> QED
    BY <1>7, <2>2, <2>3, <2>4, <2>5, Zenon
<1> QED
  BY <1>6, <1>7 DEF f, t

AtMostOne(values) == values = <<>> \/ \E x : values = <<x>>

LEMMA TypedAtMostOne ==
    ASSUME NEW ty, NEW s \in Sections, NEW k
    PROVE  AtMostOne(Gather(TypedGives(ty, k), Options[s]))
<1> DEFINE a == Gather(TypedGives(ty, k), Options[s])
<1>1. a = <<>> \/ \E o \in ToSet(Options[s]) : a = <<Written(o, ty[o])>>
  BY TypedGiven
<1> HIDE DEF a
<1>2. ASSUME a = <<>> PROVE AtMostOne(a)
  BY <1>2 DEF AtMostOne
<1>3. ASSUME NEW o \in ToSet(Options[s]), a = <<Written(o, ty[o])>>
      PROVE  AtMostOne(a)
  BY <1>3 DEF AtMostOne
<1>4. AtMostOne(a)
  BY <1>1, <1>2, <1>3
<1> QED
  BY <1>4 DEF a

(* The flags that are set are the ones whose names are written.            *)
LEMMA FeaturesBack ==
    ASSUME NEW v, v \subseteq ToSet(FeatureNames)
    PROVE  ToSet(ToRegorValue(v)) = v
<1> DEFINE t == FeatureNames
           S == ToSet(t)
           give(name) == IF name \in v THEN <<name>> ELSE <<>>
           f == [name \in S |-> give(name)]
<1>1. t \in Seq(S)
  <2>1. \E n \in Nat : DOMAIN t = 1..n /\ t = [i \in 1..n |-> t[i]]
    BY DEF FeatureNames
  <2>2. \A i \in DOMAIN t : t[i] \in S
    BY DEF ToSet
  <2> HIDE DEF t, S
  <2> QED
    BY <2>1, <2>2
<1>2. \A name \in S : give(name) \in Seq(S)
  <2> HIDE DEF S
  <2>1. <<>> \in Seq(S)
    BY EmptySeq
  <2> QED
    BY <2>1
<1>3. f \in [S -> Seq(S)]
  <2> HIDE DEF S, give
  <2> QED
    BY <1>2
<1>4. ToRegorValue(v) = Gather(f, t)
  <2>1. \A i \in DOMAIN t : t[i] \in S
    BY DEF ToSet
  <2>2. ToRegorValue(v) = FlattenSeq([i \in DOMAIN t |-> give(t[i])])
    BY DEF ToRegorValue, Each
  <2> HIDE DEF give, t, S
  <2>3. [i \in DOMAIN t |-> give(t[i])] = [i \in DOMAIN t |-> f[t[i]]]
    BY <2>1
  <2> HIDE DEF f
  <2> QED
    BY <2>2, <2>3 DEF Gather
<1>5. \A name \in S : ToSet(f[name]) = {name} \cap v
  <2>1. ASSUME NEW x PROVE ToSet(<<x>>) = {x}
    BY DEF ToSet
  <2> HIDE DEF S
  <2> QED
    BY <2>1, ToSetEmpty
<1>6. v \subseteq S
  OBVIOUS
<1> HIDE DEF t, f
<1>7. ASSUME NEW x PROVE x \in ToSet(Gather(f, t)) <=> \E name \in S : x \in ToSet(f[name])
  <2> HIDE DEF S
  <2>1. x \in ToSet(Gather(f, t)) <=> \E name \in ToSet(t) : x \in ToSet(f[name])
    BY <1>1, <1>3, GatherHas
  <2> QED
    BY <2>1 DEF S
<1> HIDE DEF S
<1> QED
  BY <1>4, <1>5, <1>6, <1>7

(* The raw calls, and the values they give.                                *)
LEMMA RawCallsAre ==
    ASSUME builtFor \in Seq(Calls), NEW s, NEW k
    PROVE  /\ Gather(RawGives(s, k), builtFor) \in Seq({RawValue})
           /\ Len(RawCalls(s, k)) = Len(Gather(RawGives(s, k), builtFor))
<1> DEFINE give(a) == IF a.how = "raw" /\ a.where = s /\ a.value = k THEN <<a>> ELSE <<>>
           f == [a \in Calls |-> give(a)]
           g == RawGives(s, k)
<1>1. g \in [Calls -> Seq({RawValue})]
  BY RawGivesTyped
<1>2. f \in [Calls -> Seq(Calls)]
  <2>1. \A a \in Calls : <<a>> \in Seq(Calls) /\ <<>> \in Seq(Calls)
    BY EmptySeq
  <2> QED
    BY <2>1
<1>3. AsMuch(f, g, Calls)
  BY DEF RawGives, AsMuch
<1>4. RawCalls(s, k) = Gather(f, builtFor)
  <2>1. \A i \in DOMAIN builtFor : builtFor[i] \in Calls
    BY ElementOfSeq, LenProperties
  <2>2. RawCalls(s, k) = FlattenSeq([i \in DOMAIN builtFor |-> give(builtFor[i])])
    BY DEF RawCalls, Each
  <2> HIDE DEF give
  <2>3. [i \in DOMAIN builtFor |-> give(builtFor[i])]
          = [i \in DOMAIN builtFor |-> f[builtFor[i]]]
    BY <2>1
  <2> HIDE DEF f
  <2> QED
    BY <2>2, <2>3 DEF Gather
<1> HIDE DEF f, g
<1>5. Len(Gather(f, builtFor)) = Len(Gather(g, builtFor))
  <2>1. AsMuchForAll(f, g, Calls)
    BY <1>1, <1>2, <1>3, GatherLen, Zenon
  <2> QED
    BY <2>1 DEF AsMuchForAll
<1>6. Gather(g, builtFor) \in Seq({RawValue})
  BY <1>1, GatherType
<1> QED
  BY <1>4, <1>5, <1>6 DEF g

(* The document of an accepted request, read key by key.                   *)
LEMMA AcceptedReads ==
    ASSUME IInv, built.error = "none", NEW s \in Sections, NEW k
    PROVE  /\ Read(built.text, s, k)
                = Cat(Gather(TypedGives(TypedIn(builtFor), k), Options[s]),
                      Gather(RawGives(s, k), builtFor))
           /\ built.text = TextOf(TypedIn(builtFor), RawIn(builtFor))
           /\ builtFor \in Seq(Calls)
           /\ \A o \in OptionNames : TypedIn(builtFor)[o] = LastOf(o)
<1>1. builtFor \in Seq(Calls) /\ ResultOf(built, builtFor)
  BY DEF IInv
<1>2. built.text = TextOf(TypedIn(builtFor), RawIn(builtFor))
  BY <1>1 DEF ResultOf
<1>3. Read(TextOf(TypedIn(builtFor), RawIn(builtFor)), s, k)
        = Cat(Gather(TypedGives(TypedIn(builtFor), k), Options[s]),
              Gather(RawGives(s, k), builtFor))
  BY <1>1, ResultReads
<1>4. \A o \in OptionNames : TypedIn(builtFor)[o] = LastOf(o)
  BY DEF LastOf, TypedIn, LastIn, Mine
<1> QED
  BY <1>1, <1>2, <1>3, <1>4, Zenon

(* Two parts of a sequence, the second of one value.                       *)
LEMMA PartsTyped ==
    ASSUME NEW a, NEW b, NEW v, NEW x, b \in Seq({v}), a = <<>> \/ a = <<x>>
    PROVE  a \in Seq({v, x}) /\ b \in Seq({v, x})
<1> DEFINE S == {v, x}
<1>1. v \in S /\ x \in S /\ {v} \subseteq S
  OBVIOUS
<1> DEFINE T == {v}
<1> HIDE DEF S, T
<1>2. b \in Seq(T) /\ T \subseteq S /\ <<x>> \in Seq(S) /\ <<>> \in Seq(S)
  BY <1>1, EmptySeq DEF T
<1>3. b \in Seq(S)
  BY ONLY <1>2
<1> QED
  BY <1>2, <1>3 DEF S

InParts(a, b, v, x) ==
    /\ Len(Cat(a, b)) - Len(b) = Len(a)
    /\ \A i \in (Len(a) + 1)..Len(Cat(a, b)) : Cat(a, b)[i] = v
    /\ \A i \in 1..Len(a) : Cat(a, b)[i] = x

LEMMA PartsOf ==
    ASSUME NEW a, NEW b, NEW v, NEW x, b \in Seq({v}), a = <<>> \/ a = <<x>>
    PROVE  InParts(a, b, v, x)
<1> DEFINE S == {v, x}
<1>1. a \in Seq(S) /\ b \in Seq(S)
  BY PartsTyped
<1>2. /\ Len(a) \in {0, 1}
      /\ \A i \in 1..Len(a) : a[i] = x
  <2>1. CASE a = <<>>
    BY <2>1, EmptySeq
  <2>2. CASE a = <<x>>
    BY <2>2
  <2> QED
    BY <2>1, <2>2
<1>3. Len(b) \in Nat /\ \A i \in 1..Len(b) : b[i] = v
  BY LenProperties, ElementOfSeq
<1> HIDE DEF S
<1>4. /\ Len(a \o b) = Len(a) + Len(b)
      /\ \A i \in 1..(Len(a) + Len(b)) :
            (a \o b)[i] = IF i <= Len(a) THEN a[i] ELSE b[i - Len(a)]
  BY ONLY <1>1, ConcatProperties
<1>5. \A i \in (Len(a) + 1)..(Len(a) + Len(b)) :
         i \in 1..(Len(a) + Len(b)) /\ ~(i <= Len(a)) /\ i - Len(a) \in 1..Len(b)
  BY <1>2, <1>3
<1>6. \A i \in 1..Len(a) : i \in 1..(Len(a) + Len(b)) /\ i <= Len(a)
  BY <1>2, <1>3
<1>7. Len(Cat(a, b)) = Len(a) + Len(b) /\ Len(Cat(a, b)) - Len(b) = Len(a)
  BY <1>2, <1>3, <1>4 DEF Cat
<1> QED
  BY <1>2, <1>3, <1>4, <1>5, <1>6, <1>7 DEF Cat, InParts

LEMMA LastValue ==
    ASSUME NEW a, NEW b, NEW v, NEW x, b \in Seq({v}), a = <<>> \/ a = <<x>>,
           v \in ToSet(b)
    PROVE  v \in ToSet(Cat(a, b))
<1> DEFINE S == {v, x}
<1>1. a \in Seq(S) /\ b \in Seq(S)
  BY PartsTyped
<1> HIDE DEF S
<1>2. ToSet(Cat(a, b)) = ToSet(a) \cup ToSet(b)
  BY <1>1, ToSetCat
<1> QED
  BY <1>2

(* DocumentSaysWhatWasAsked: an accepted document gives each key of each   *)
(* section the last value the typed setters gave it, if any, then the raw  *)
(* ones, and nothing else.                                                 *)
THEOREM DocumentFaithful == Spec => []DocumentSaysWhatWasAsked
<1>1. IInv => DocumentSaysWhatWasAsked
  <2> SUFFICES ASSUME IInv, built.error = "none", NEW s \in Sections, NEW key
               PROVE  LET values == Read(built.text, s, key)
                          typedCount == Len(values) - Len(RawCalls(s, key))
                          plain(v) == IF key = "disable_feature" THEN ToSet(v) ELSE v
                      IN  /\ typedCount \in {0, 1}
                          /\ {plain(values[i]) : i \in 1..typedCount}
                               = TypedValues(s, key)
                          /\ \A i \in (typedCount + 1)..Len(values) :
                                values[i] = RawValue
    BY DEF DocumentSaysWhatWasAsked
  <2> DEFINE ty == TypedIn(builtFor)
             a == Gather(TypedGives(ty, key), Options[s])
             b == Gather(RawGives(s, key), builtFor)
             values == Read(built.text, s, key)
             typedCount == Len(values) - Len(RawCalls(s, key))
             plain(v) == IF key = "disable_feature" THEN ToSet(v) ELSE v
  <2>1. values = Cat(a, b) /\ builtFor \in Seq(Calls)
        /\ \A o \in OptionNames : ty[o] = LastOf(o)
    BY AcceptedReads, Zenon
  <2>2. b \in Seq({RawValue}) /\ Len(RawCalls(s, key)) = Len(b)
    BY <2>1, RawCallsAre
  <2>3. ToSet(Options[s]) \subseteq OptionNames
    BY OptionsTyped
  <2>4. ASSUME a = <<>>,
               \A o \in ToSet(Options[s]) : Key(o) = key => ty[o] = Empty(o)
        PROVE  /\ typedCount \in {0, 1}
               /\ {plain(values[i]) : i \in 1..typedCount} = TypedValues(s, key)
               /\ \A i \in (typedCount + 1)..Len(values) : values[i] = RawValue
    <3>1. TypedValues(s, key) = {}
      BY <2>1, <2>3, <2>4 DEF TypedValues
    <3> HIDE DEF a, b, values, plain
    <3>2. /\ Len(Cat(a, b)) - Len(b) = 0
          /\ \A i \in (0 + 1)..Len(Cat(a, b)) : Cat(a, b)[i] = RawValue
      <4>1. Len(a) = 0
        BY <2>4, EmptySeq
      <4> QED
        <5>1. InParts(a, b, RawValue, RawValue)
          BY <2>2, <2>4, PartsOf, Zenon
        <5> QED
          BY <4>1, <5>1 DEF InParts
    <3>3. typedCount = 0
      BY <2>1, <2>2, <3>2
    <3> HIDE DEF typedCount
    <3>4. \A i \in (typedCount + 1)..Len(values) : values[i] = RawValue
      BY <2>1, <3>2, <3>3
    <3>5. {plain(values[i]) : i \in 1..typedCount} = {}
      BY <3>3
    <3> QED
      BY <3>1, <3>3, <3>4, <3>5 DEF typedCount, values, plain
  <2>5. ASSUME NEW o \in ToSet(Options[s]), Key(o) = key, ty[o] # Empty(o),
               a = <<Written(o, ty[o])>>,
               \A p \in ToSet(Options[s]) : Key(p) = key => p = o
        PROVE  /\ typedCount \in {0, 1}
               /\ {plain(values[i]) : i \in 1..typedCount} = TypedValues(s, key)
               /\ \A i \in (typedCount + 1)..Len(values) : values[i] = RawValue
    <3> DEFINE x == Written(o, ty[o])
    <3>1. TypedValues(s, key) = {ty[o]}
      BY <2>1, <2>3, <2>5 DEF TypedValues
    <3>2. plain(x) = ty[o]
      <4>1. key = "disable_feature" <=> o = "disable_features"
        BY <2>3, <2>5, KeyOfFeatures
      <4>2. CASE o = "disable_features"
        <5>1. ty[o] \subseteq ToSet(FeatureNames)
          <6>1. ty[o] = LastIn(builtFor, o)
            BY <2>3 DEF TypedIn
          <6> QED
            BY <2>1, <4>2, <6>1, LastInType DEF Empty, SettingType
        <5>2. x = ToRegorValue(ty[o])
          BY <4>2 DEF Written
        <5> QED
          BY <4>1, <4>2, <5>1, <5>2, FeaturesBack
      <4>3. CASE o # "disable_features"
        BY <4>1, <4>3 DEF Written
      <4> QED
        BY <4>2, <4>3
    <3> HIDE DEF a, b, values, plain, x
    <3>3. /\ Len(Cat(a, b)) - Len(b) = 1
          /\ \A i \in (1 + 1)..Len(Cat(a, b)) : Cat(a, b)[i] = RawValue
          /\ \A i \in 1..1 : Cat(a, b)[i] = x
      <4>1. a = <<x>>
        BY <2>5 DEF x
      <4>2. Len(a) = 1
        BY <4>1
      <4> QED
        <5>1. InParts(a, b, RawValue, x)
          BY <2>2, <4>1, PartsOf, Zenon
        <5> QED
          BY <4>2, <5>1 DEF InParts
    <3>4. typedCount = 1
      BY <2>1, <2>2, <3>3
    <3> HIDE DEF typedCount
    <3>5. \A i \in (typedCount + 1)..Len(values) : values[i] = RawValue
      BY <2>1, <3>3, <3>4
    <3>6. {plain(values[i]) : i \in 1..typedCount} = {plain(x)}
      <4>1. 1..typedCount = {1} /\ values[1] = x
        BY <2>1, <3>3, <3>4
      <4> QED
        BY <4>1
    <3> QED
      BY <3>1, <3>2, <3>4, <3>5, <3>6
  <2> HIDE DEF a, values, typedCount, plain
  <2>6. /\ typedCount \in {0, 1}
        /\ {plain(values[i]) : i \in 1..typedCount} = TypedValues(s, key)
        /\ \A i \in (typedCount + 1)..Len(values) : values[i] = RawValue
    <3>1. \/ a = <<>> /\ \A o \in ToSet(Options[s]) : Key(o) = key => ty[o] = Empty(o)
          \/ \E o \in ToSet(Options[s]) :
                /\ Key(o) = key /\ ty[o] # Empty(o) /\ a = <<Written(o, ty[o])>>
                /\ \A p \in ToSet(Options[s]) : Key(p) = key => p = o
      BY TypedGiven DEF a
    <3> QED
      BY <2>4, <2>5, <3>1
  <2> QED
    BY <2>6 DEF values, typedCount, plain
<1> QED
  BY <1>1, AlwaysIInv, PTL

(* NothingIsDropped: every option set has a value in its section, and      *)
(* every raw call has a line there.                                        *)
THEOREM NothingDropped == Spec => []NothingIsDropped
<1>1. IInv => NothingIsDropped
  <2> SUFFICES ASSUME IInv, built.error = "none" PROVE NothingIsDropped
    BY DEF NothingIsDropped
  <2> DEFINE ty == TypedIn(builtFor)
             text == built.text
  <2>1. /\ builtFor \in Seq(Calls) /\ text = TextOf(ty, RawIn(builtFor))
        /\ \A o \in OptionNames : ty[o] = LastOf(o)
    <3>1. "debug" \in Sections
      BY SectionNames
    <3> QED
      BY <3>1, AcceptedReads, Zenon
  <2>2. RawIn(builtFor) \in Seq(Raws)
    BY <2>1, RawInTyped
  <2>3. ASSUME NEW s \in Sections, NEW k
        PROVE  /\ Read(text, s, k) = Cat(Gather(TypedGives(ty, k), Options[s]),
                                         Gather(RawGives(s, k), builtFor))
               /\ Gather(RawGives(s, k), builtFor) \in Seq({RawValue})
    BY <2>1, AcceptedReads, RawCallsAre
  <2>4. ASSUME NEW s \in Sections, NEW o \in ToSet(Options[s]), LastOf(o) # Empty(o)
        PROVE  Read(text, s, Key(o)) # <<>>
    <3> DEFINE a == Gather(TypedGives(ty, Key(o)), Options[s])
               b == Gather(RawGives(s, Key(o)), builtFor)
    <3>1. ty[o] # Empty(o)
      BY <2>1, <2>4, OptionsTyped
    <3>2. PICK p \in ToSet(Options[s]) : a = <<Written(p, ty[p])>>
      BY <3>1, TypedGiven
    <3> DEFINE x == Written(p, ty[p])
    <3>3. b \in Seq({RawValue}) /\ Read(text, s, Key(o)) = Cat(a, b) /\ a = <<x>>
      BY <2>3, <3>2
    <3> HIDE DEF a, b, x, text
    <3>4. InParts(a, b, RawValue, x)
      BY <3>3, PartsOf, Zenon
    <3>5. Len(Cat(a, b)) - Len(b) = 1 /\ Len(b) \in Nat
      BY <3>3, <3>4, LenProperties DEF InParts
    <3>6. Cat(a, b) # <<>>
      <4> SUFFICES ASSUME Cat(a, b) = <<>> PROVE FALSE
        OBVIOUS
      <4>1. Len(Cat(a, b)) = 0
        BY EmptySeq
      <4> QED
        BY <3>5, <4>1
    <3> QED
      BY <3>3, <3>6
  <2>5. ASSUME NEW i \in DOMAIN builtFor, builtFor[i].how = "raw"
        PROVE  \E j \in DOMAIN text :
                  /\ text[j] = Line(builtFor[i].value, RawValue)
                  /\ SectionAt(text, j) = builtFor[i].where
    <3> DEFINE c == builtFor[i]
               s == c.where
               k == c.value
               S == EntriesOf(ty)
               f == RawGives(s, k)
               a == Gather(TypedGives(ty, k), Options[s])
               b == Gather(f, builtFor)
    <3>1. c \in Calls /\ c \in ToSet(builtFor) /\ s \in Sections
      <4>1. c \in Calls
        BY <2>1, ElementOfSeq, LenProperties
      <4> QED
        BY <2>5, <4>1, CallsAre DEF ToSet
    <3>2. RawValue \in ToSet(b)
      <4>1. f[c] = <<RawValue>>
        BY <2>5, <3>1 DEF RawGives
      <4>2. RawValue \in ToSet(f[c])
        BY <4>1 DEF ToSet
      <4>3. f \in [Calls -> Seq({RawValue})]
        BY RawGivesTyped
      <4> HIDE DEF f, c
      <4> QED
        BY <2>1, <3>1, <4>2, <4>3, GatherHas
    <3>3. Read(text, s, k) = Cat(a, b) /\ b \in Seq({RawValue})
      BY <2>3, <3>1
    <3>4. text \in Seq(S)
      BY <2>1, <2>2, <3>1, TextReads
    <3>5. RawValue \in ToSet(Read(text, s, k))
      <4>1. AtMostOne(a)
        BY <3>1, TypedAtMostOne, Zenon
      <4> HIDE DEF a, b, c, s, k, S
      <4>2. ASSUME NEW x, a = <<>> \/ a = <<x>>
            PROVE  RawValue \in ToSet(Cat(a, b))
        BY <3>2, <3>3, <4>2, LastValue, Zenon
      <4>3. RawValue \in ToSet(Cat(a, b))
        BY <4>1, <4>2 DEF AtMostOne
      <4> QED
        BY <3>3, <4>3
    <3>6. PICK j \in DOMAIN text : /\ ~text[j].header /\ text[j].key = k
                                   /\ text[j].value = RawValue
                                   /\ SectionAt(text, j) = s
      BY <3>4, <3>5, ReadHas
    <3>7. text[j] \in S
      <4> HIDE DEF S, text
      <4> QED
        BY <3>4, <3>6, ElementOfSeq, LenProperties
    <3>8. ASSUME NEW e \in S, ~e.header PROVE e = Line(e.key, e.value)
      BY <3>8 DEF EntriesOf, LinesOf, Line, Header
    <3>9. text[j] = Line(k, RawValue)
      BY <3>6, <3>7, <3>8
    <3> QED
      BY <3>6, <3>9
  <2> QED
    BY <2>4, <2>5, Zenon DEF NothingIsDropped
<1> QED
  BY <1>1, AlwaysIInv, PTL
=============================================================================
