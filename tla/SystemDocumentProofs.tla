------------------------ MODULE SystemDocumentProofs ------------------------
(***************************************************************************)
(* Theorems about SystemDocument, for every set of names and of Vela inis: *)
(* what build() writes reads back in each section as it was set, and       *)
(* selects the accelerator it was built for.                               *)
(***************************************************************************)
EXTENDS SystemDocument, IniLemmas, FiniteSetTheorems

-----------------------------------------------------------------------------
(* The text as a function of the fields, and in front of the ini.          *)
NameLineOf(f, key) == IF f[key] = Unset THEN <<>> ELSE <<Line(key, f[key])>>

FrontOf(f) == <<Header("architecture"), Line("macs", Macs[f.accelerator]),
                Line("cores", Cores(f.accelerator)), Header("vela")>>
              \o NameLineOf(f, "system_config_name")
              \o NameLineOf(f, "memory_mode_name")

TextOf(f) == FrontOf(f) \o f.vela_ini

NameGiven(f, key, s, k) == Given(s = "vela" /\ k = key /\ f[key] # Unset, f[key])

(* What the library finds there for each section and key.                  *)
FrontReads(f, s, k) ==
    LET macs == Given(s = "architecture" /\ k = "macs", Macs[f.accelerator])
        cores == Given(s = "architecture" /\ k = "cores", Cores(f.accelerator))
    IN  Cat(Cat(Cat(macs, cores), NameGiven(f, "system_config_name", s, k)),
            NameGiven(f, "memory_mode_name", s, k))

(* The entries of a document in which nothing is written that is not set.  *)
Entries(f) ==
    {Header("architecture"), Header("vela"),
     Line("macs", Macs[f.accelerator]), Line("cores", Cores(f.accelerator))}
    \cup {Line(key, f[key]) : key \in {x \in NameKeys : f[x] # Unset}}
    \cup ToSet(f.vela_ini)

-----------------------------------------------------------------------------
(* The accelerators.                                                       *)

(* The MAC count tells the accelerators of an architecture apart.          *)
LEMMA MacsTellApart ==
    ASSUME NEW a \in Accelerators, NEW b \in Accelerators,
           Architecture(a) = Architecture(b), Macs[a] = Macs[b]
    PROVE  a = b
BY DEF Accelerators, Macs, Architecture

LEMMA NumbersOf ==
    ASSUME NEW a \in Accelerators
    PROVE  /\ Macs[a] \in Nat /\ Cores(a) \in Nat
           /\ Macs[a] # Unset /\ Cores(a) # Unset
           /\ Architecture(a) \in Architectures
<1>1. Macs[a] \in Nat
  BY DEF Accelerators, Macs
<1>2. Cores(a) \in Nat
  BY DEF Cores
<1> QED
  BY <1>1, <1>2, IniAssumption DEF Architecture, Architectures

-----------------------------------------------------------------------------
(* A name that is not set is no line, and one that is set is one.          *)
LEMMA NameReads ==
    ASSUME NEW S, NEW doc, NEW values, NEW s, NEW k, NEW f, NEW key,
           Reads(S, doc, "vela", values, s, k),
           f[key] # Unset => Line(key, f[key]) \in S
    PROVE  Reads(S, Cat(doc, NameLineOf(f, key)), "vela",
                 Cat(values, NameGiven(f, key, s, k)), s, k)
<1>1. doc \in Seq(S) /\ Read(doc, s, k) = values
  BY DEF Reads
<1>2. CASE f[key] = Unset
  <2>1. NameLineOf(f, key) = <<>> /\ NameGiven(f, key, s, k) = <<>>
    BY <1>2 DEF NameLineOf, NameGiven, Given
  <2>2. doc \o <<>> = doc
    BY <1>1, ConcatEmptySeq
  <2>3. values \o <<>> = values
    BY <1>1, ReadTyped, ConcatEmptySeq
  <2>4. Cat(doc, <<>>) = doc /\ Cat(values, <<>>) = values
    BY <2>2, <2>3 DEF Cat
  <2> QED
    BY <2>1, <2>4, Zenon
<1>3. CASE f[key] # Unset
  <2> DEFINE e == Line(key, f[key])
  <2>1. Reads(S, Put(doc, e), "vela",
              Cat(values, Given(s = "vela" /\ k = key, f[key])), s, k)
    BY <1>3, LineReads, Zenon
  <2>2. NameLineOf(f, key) = <<e>>
    BY <1>3 DEF NameLineOf
  <2>3. e \in S
    BY <1>3
  <2> HIDE DEF e
  <2>4. Append(doc, e) = doc \o <<e>>
    BY <1>1, <2>3
  <2>5. Put(doc, e) = Cat(doc, <<e>>)
    BY <2>4 DEF Put, Cat
  <2>6. NameGiven(f, key, s, k) = Given(s = "vela" /\ k = key, f[key])
    BY <1>3 DEF NameGiven, Given
  <2> QED
    BY <2>1, <2>2, <2>5, <2>6, Zenon
<1> QED
  BY <1>2, <1>3

(* What build() writes in front of the ini, read.                          *)
LEMMA FrontIs ==
    ASSUME NEW f, NEW s, NEW k
    PROVE  Reads(Entries(f), FrontOf(f), "vela", FrontReads(f, s, k), s, k)
<1> DEFINE S == Entries(f)
           macs == Line("macs", Macs[f.accelerator])
           cores == Line("cores", Cores(f.accelerator))
           d1 == Put(<<>>, Header("architecture"))
           d2 == Put(d1, macs)
           d3 == Put(d2, cores)
           d4 == Put(d3, Header("vela"))
           g1 == Given(s = "architecture" /\ k = "macs", Macs[f.accelerator])
           g2 == Given(s = "architecture" /\ k = "cores", Cores(f.accelerator))
           system_config == "system_config_name"
           memory_mode == "memory_mode_name"
<1>1. /\ Header("architecture") \in S /\ Header("vela") \in S
      /\ macs \in S /\ cores \in S
      /\ f[system_config] # Unset => Line(system_config, f[system_config]) \in S
      /\ f[memory_mode] # Unset => Line(memory_mode, f[memory_mode]) \in S
  BY DEF Entries, NameKeys
<1>2. Cat(<<>>, g1) = g1
  <2> DEFINE v == Macs[f.accelerator]
  <2>1. g1 = <<>> \/ g1 = <<v>>
    BY DEF Given
  <2> HIDE DEF g1, v
  <2> QED
    BY <2>1 DEF Cat
<1>3. FrontOf(f) = Cat(Cat(d4, NameLineOf(f, system_config)), NameLineOf(f, memory_mode))
  <2> DEFINE h == Header("architecture")
             v == Header("vela")
  <2> HIDE DEF h, v, macs, cores
  <2>1. Put(Put(Put(Put(<<>>, h), macs), cores), v) = <<h, macs, cores, v>>
    BY PutFour, Zenon
  <2> QED
    BY <2>1 DEF FrontOf, Cat, h, v, macs, cores
<1> HIDE DEF S
<1>4. Reads(S, d1, "architecture", <<>>, s, k)
  BY <1>1, NothingReads, HeaderReads, Zenon
<1>5. Reads(S, d2, "architecture", g1, s, k)
  <2>1. Reads(S, d2, "architecture", Cat(<<>>, g1), s, k)
    BY <1>1, <1>4, LineReads, Zenon
  <2> QED
    BY <1>2, <2>1, Zenon
<1>6. Reads(S, d3, "architecture", Cat(g1, g2), s, k)
  BY <1>1, <1>5, LineReads, Zenon
<1>7. Reads(S, d4, "vela", Cat(g1, g2), s, k)
  BY <1>1, <1>6, HeaderReads, Zenon
<1>8. Reads(S, Cat(d4, NameLineOf(f, system_config)), "vela",
            Cat(Cat(g1, g2), NameGiven(f, system_config, s, k)), s, k)
  BY <1>1, <1>7, NameReads, Zenon
<1>9. Reads(S, Cat(Cat(d4, NameLineOf(f, system_config)),
                   NameLineOf(f, memory_mode)), "vela",
            Cat(Cat(Cat(g1, g2), NameGiven(f, system_config, s, k)),
                NameGiven(f, memory_mode, s, k)), s, k)
  BY <1>1, <1>8, NameReads, Zenon
<1> QED
  BY <1>3, <1>9, Zenon DEF S, FrontReads

LEMMA FrontReadsAre ==
    ASSUME NEW f
    PROVE  /\ FrontReads(f, "architecture", "macs") = <<Macs[f.accelerator]>>
           /\ FrontReads(f, "architecture", "cores") = <<Cores(f.accelerator)>>
           /\ \A key \in NameKeys : FrontReads(f, "vela", key) =
                 IF f[key] = Unset THEN <<>> ELSE <<f[key]>>
           /\ \A s, k : s \notin {"architecture", "vela"} => FrontReads(f, s, k) = <<>>
<1>1. FrontReads(f, "architecture", "macs") = <<Macs[f.accelerator]>>
  BY CatNothing DEF FrontReads, NameGiven, Given
<1>2. FrontReads(f, "architecture", "cores") = <<Cores(f.accelerator)>>
  BY CatNothing DEF FrontReads, NameGiven, Given
<1>3. ASSUME NEW key \in NameKeys
      PROVE  FrontReads(f, "vela", key) = IF f[key] = Unset THEN <<>> ELSE <<f[key]>>
  <2>1. key = "system_config_name" \/ key = "memory_mode_name"
    BY DEF NameKeys
  <2>2. CASE key = "system_config_name"
    BY <2>2, CatNothing DEF FrontReads, NameGiven, Given
  <2>3. CASE key = "memory_mode_name"
    BY <2>3, CatNothing DEF FrontReads, NameGiven, Given
  <2> QED
    BY <2>1, <2>2, <2>3
<1>4. ASSUME NEW s, NEW k, s \notin {"architecture", "vela"}
      PROVE  FrontReads(f, s, k) = <<>>
  BY <1>4, CatNothing DEF FrontReads, NameGiven, Given
<1> QED
  BY <1>1, <1>2, <1>3, <1>4

(* The ini after it adds its own sections, and to [vela] the lines it has  *)
(* before the first of them.                                               *)
LEMMA TextReads ==
    ASSUME NEW f \in Fields, NEW s, NEW k, s # Unset
    PROVE  /\ TextOf(f) \in Seq(Entries(f))
           /\ TextOf(f) # <<>>
           /\ Read(TextOf(f), s, k) =
                 Cat(Cat(FrontReads(f, s, k), Taken("vela", s, Read(f.vela_ini, Unset, k))),
                     Read(f.vela_ini, s, k))
<1> DEFINE S == Entries(f)
           a == FrontOf(f)
           b == f.vela_ini
<1>1. /\ a \in Seq(S) /\ Read(a, s, k) = FrontReads(f, s, k)
      /\ SectionAt(a, Len(a)) = "vela"
  BY FrontIs DEF Reads
<1>2. b \in Seq(ToSet(b)) /\ \A e \in ToSet(b) : e.header => e.key # Unset
  BY IniAssumption DEF Fields, ToSet
<1>3. ToSet(b) \subseteq S
  BY DEF Entries
<1> HIDE DEF S
<1>4. b \in Seq(S)
  <2> DEFINE T == ToSet(b)
  <2>1. b \in Seq(T) /\ T \subseteq S
    BY <1>2, <1>3
  <2> HIDE DEF T, b
  <2> QED
    BY <2>1
<1>5. a # <<>>
  <2>1. Read(a, "architecture", "macs") = <<Macs[f.accelerator]>>
    <3>1. Read(a, "architecture", "macs") = FrontReads(f, "architecture", "macs")
      BY FrontIs, Zenon DEF Reads
    <3> QED
      BY <3>1, FrontReadsAre, Zenon
  <2>2. Read(<<>>, "architecture", "macs") = <<>>
    BY NothingReads DEF Reads
  <2>3. <<Macs[f.accelerator]>> # <<>>
    OBVIOUS
  <2> QED
    BY <2>1, <2>2, <2>3, Zenon
<1> HIDE DEF a, b
<1>6. a \o b \in Seq(S) /\ a \o b # <<>>
  BY <1>1, <1>4, <1>5
<1>7. Read(Cat(a, b), s, k) =
         Cat(Cat(Read(a, s, k), Taken("vela", s, Read(b, Unset, k))), Read(b, s, k))
  <2>1. "vela" # Unset
    BY IniAssumption
  <2> QED
    BY <1>1, <1>2, <1>4, <2>1, ReadBehind
<1>8. a \o b = Cat(a, b) /\ TextOf(f) = a \o b
  BY DEF Cat, TextOf, a, b
<1> QED
  BY <1>1, <1>6, <1>7, <1>8, Zenon DEF b, S

-----------------------------------------------------------------------------
(* The inductive invariant: the text is what the fields it was built from  *)
(* make it, and no call changes the accelerator.                           *)
IInv ==
    /\ system \in Fields /\ textFor \in Fields
    /\ architecture \in Architectures
    /\ textFor.accelerator = system.accelerator
    /\ text = <<>> \/ text = TextOf(textFor)

LEMMA InitIInv == Init => IInv
BY IniAssumption DEF Init, IInv, Fields

LEMMA NextIInv == IInv /\ [Next]_vars => IInv'
<1> SUFFICES ASSUME IInv, [Next]_vars PROVE IInv'
  OBVIOUS
<1>1. ASSUME NEW key \in NameKeys, NEW name \in Names, SetName(key, name)
      PROVE  IInv'
  <2>1. key = "system_config_name" \/ key = "memory_mode_name"
    BY DEF NameKeys
  <2>2. system' \in Fields /\ system'.accelerator = system.accelerator
    BY <1>1, <2>1 DEF IInv, SetName, Fields
  <2> QED
    BY <1>1, <2>2 DEF IInv, SetName, TextOf, FrontOf, NameLineOf
<1>2. ASSUME NEW ini \in Inis, VelaIni(ini)
      PROVE  IInv'
  <2>1. system' \in Fields /\ system'.accelerator = system.accelerator
    BY <1>2 DEF IInv, VelaIni, Fields
  <2> QED
    BY <1>2, <2>1 DEF IInv, VelaIni, TextOf, FrontOf, NameLineOf
<1>3. CASE Build
  <2>1. text' = TextOf(textFor')
    BY <1>3 DEF Build, Text, Leading, NameLine, TextOf, FrontOf, NameLineOf
  <2> QED
    BY <1>3, <2>1 DEF IInv, Build
<1>4. CASE UNCHANGED vars
  BY <1>4 DEF IInv, vars, TextOf, FrontOf, NameLineOf
<1> QED
  BY <1>1, <1>2, <1>3, <1>4 DEF Next

LEMMA AlwaysIInv == Spec => []IInv
<1>1. Init => IInv
  BY InitIInv
<1>2. IInv /\ [Next]_vars => IInv'
  BY NextIInv
<1> QED
  BY <1>1, <1>2, PTL DEF Spec

(* TypeOK: the fields are fields, and build() writes nothing that was not  *)
(* set.                                                                    *)
THEOREM SystemTypeCorrect == Spec => []TypeOK
<1>1. IInv => TypeOK
  <2> SUFFICES ASSUME IInv, NEW i \in DOMAIN text
               PROVE  text[i].header \/ text[i].value # Unset
    BY DEF IInv, TypeOK
  <2> DEFINE S == Entries(textFor)
  <2>1. CASE text = <<>>
    BY <2>1
  <2>2. CASE text = TextOf(textFor)
    <3>1. text \in Seq(S)
      <4>1. "vela" # Unset
        BY IniAssumption
      <4> QED
        BY <2>2, <4>1, TextReads DEF IInv
    <3>2. text[i] \in S
      BY <3>1, ElementOfSeq, LenProperties
    <3>3. ASSUME NEW e \in S PROVE e.header \/ e.value # Unset
      <4>1. CASE e \in {Header("architecture"), Header("vela")}
        BY <4>1 DEF Header
      <4>2. CASE e \in {Line("macs", Macs[textFor.accelerator]),
                        Line("cores", Cores(textFor.accelerator))}
        BY <4>2, NumbersOf DEF IInv, Fields, Line
      <4>3. CASE e \in {Line(key, textFor[key]) :
                           key \in {x \in NameKeys : textFor[x] # Unset}}
        BY <4>3 DEF Line
      <4>4. CASE e \in ToSet(textFor.vela_ini)
        BY <4>4, IniAssumption DEF IInv, Fields, ToSet
      <4> QED
        BY <4>1, <4>2, <4>3, <4>4 DEF Entries
    <3> QED
      BY <3>2, <3>3
  <2> QED
    BY <2>1, <2>2 DEF IInv
<1> QED
  BY <1>1, AlwaysIInv, PTL

(* SectionsReadBack: every section but [architecture] gives a key the name *)
(* that was set for it, then, in [vela], the lines the ini has before its  *)
(* first header, and then what the ini itself gives it.                    *)
THEOREM IniSectionsReadBack == Spec => []SectionsReadBack
<1>1. IInv => SectionsReadBack
  <2> SUFFICES ASSUME IInv, text = TextOf(textFor),
                      NEW s \in Headers(text) \ {"architecture"},
                      NEW k \in NameKeys \cup Keys(text)
               PROVE  Read(text, s, k) = NameOf(s, k) \o Stray(s, k)
                                         \o Read(textFor.vela_ini, s, k)
    BY DEF IInv, SectionsReadBack
  <2> DEFINE ini == textFor.vela_ini
  <2>1. textFor \in Fields /\ ini \in Inis
    BY DEF IInv, Fields
  <2>2. s # Unset
    <3>1. PICK i \in DOMAIN text : text[i].header /\ s = text[i].key
      BY DEF Headers
    <3>2. text \in Seq(Entries(textFor))
      BY <2>1, TextReads, IniAssumption
    <3>3. text[i] \in Entries(textFor)
      BY <3>2, ElementOfSeq, LenProperties
    <3>4. CASE text[i] \in {Header("architecture"), Header("vela")}
      BY <3>1, <3>4, IniAssumption DEF Header
    <3>5. CASE text[i] \in ToSet(ini)
      BY <2>1, <3>1, <3>5, IniAssumption DEF ToSet
    <3> QED
      BY <3>1, <3>3, <3>4, <3>5 DEF Entries, Line
  <2>3. Read(text, s, k) =
           Cat(Cat(FrontReads(textFor, s, k), Taken("vela", s, Read(ini, Unset, k))),
               Read(ini, s, k))
    BY <2>1, <2>2, TextReads, Zenon
  <2>4. FrontReads(textFor, s, k) = NameOf(s, k)
    <3>1. CASE s = "vela" /\ k \in NameKeys
      BY <3>1, FrontReadsAre DEF NameOf
    <3>2. CASE s = "vela" /\ k \notin NameKeys
      BY <3>2, CatNothing DEF FrontReads, NameGiven, Given, NameKeys, NameOf
    <3>3. CASE s # "vela"
      BY <3>3, FrontReadsAre DEF NameOf
    <3> QED
      BY <3>1, <3>2, <3>3
  <2>5. Taken("vela", s, Read(ini, Unset, k)) = Stray(s, k)
    BY DEF Taken, Stray
  <2> QED
    BY <2>3, <2>4, <2>5 DEF Cat
<1> QED
  BY <1>1, AlwaysIInv, PTL

(* AcceleratorSelected: with the architecture of its accelerator a         *)
(* document selects that accelerator alone, by its MAC count, and names    *)
(* its cores; with another architecture at most one, and not that one.     *)
THEOREM DocumentSelectsAccelerator == Spec => []AcceleratorSelected
<1>1. IInv => AcceleratorSelected
  <2> SUFFICES ASSUME IInv, text = TextOf(textFor) PROVE AcceleratorSelected
    BY DEF IInv, AcceleratorSelected
  <2> DEFINE ini == textFor.vela_ini
             x == system.accelerator
  <2>1. textFor \in Fields /\ ini \in Inis /\ x \in Accelerators
        /\ x = textFor.accelerator
    BY DEF IInv, Fields
  <2>2. /\ ini \in Seq(ToSet(ini)) /\ "architecture" # Unset
        /\ \A i \in DOMAIN ini : ini[i].header => ini[i].key # "architecture"
    BY <2>1, IniAssumption
  <2>3. ASSUME NEW k PROVE Read(text, "architecture", k)
                             = Cat(FrontReads(textFor, "architecture", k), <<>>)
    <3>1. Read(ini, "architecture", k) = <<>>
      BY <2>2, NoSuchSection
    <3>2. Taken("vela", "architecture", Read(ini, Unset, k)) = <<>>
      BY DEF Taken
    <3>3. Cat(FrontReads(textFor, "architecture", k), <<>>)
             = FrontReads(textFor, "architecture", k)
      <4>1. FrontReads(textFor, "architecture", k) \in Seq({e.value : e \in Entries(textFor)})
        BY FrontIs, ReadTyped DEF Reads
      <4> QED
        BY <4>1, ConcatEmptySeq DEF Cat
    <3> QED
      BY <2>1, <2>2, <3>1, <3>2, <3>3, TextReads, Zenon
  <2>4. /\ Read(text, "architecture", "macs") = <<Macs[x]>>
        /\ Read(text, "architecture", "cores") = <<Cores(x)>>
    <3>1. Read(text, "architecture", "macs") = Cat(<<Macs[x]>>, <<>>)
      BY <2>1, <2>3, FrontReadsAre, Zenon
    <3>2. Read(text, "architecture", "cores") = Cat(<<Cores(x)>>, <<>>)
      BY <2>1, <2>3, FrontReadsAre, Zenon
    <3> QED
      BY <3>1, <3>2, CatNothing, Zenon
  <2>5. ASSUME NEW a \in Accelerators
        PROVE  a \in Selected <=> Architecture(a) = architecture /\ Macs[a] = Macs[x]
    <3> DEFINE m == Macs[x]
    <3>1. Read(text, "architecture", "macs") = <<m>>
      BY <2>4
    <3> HIDE DEF m
    <3>2. <<m>> = <<Macs[a]>> <=> m = Macs[a]
      OBVIOUS
    <3> QED
      BY <3>1, <3>2 DEF Selected, m
  <2>6. Selected \subseteq Accelerators
    BY DEF Selected
  <2>7. Selected = {} \/ \E a \in Accelerators : Selected = {a}
    <3>1. \A a, b \in Selected : a = b
      BY <2>5, <2>6, MacsTellApart
    <3> QED
      BY <2>6, <3>1
  <2>8. Cardinality(Selected) <= 1
    <3>1. Cardinality(Selected) = 0 \/ Cardinality(Selected) = 1
      BY <2>7, FS_EmptySet, FS_Singleton, Zenon
    <3> QED
      BY <3>1
  <2>9. x \in Selected <=> architecture = Architecture(x)
    BY <2>1, <2>5
  <2> QED
    BY <2>4, <2>8, <2>9 DEF AcceleratorSelected
<1> QED
  BY <1>1, AlwaysIInv, PTL
=============================================================================
