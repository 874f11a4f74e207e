--------------------------- MODULE OptionsDocument ---------------------------
(***************************************************************************)
(* CompilerOptions of options.rs: its setters, the validation of build()   *)
(* and the sectioned document build() writes.  The program calls setters   *)
(* in any order, any number of times, and builds whenever it likes: build  *)
(* takes `&self`, so a builder that was refused can be corrected.          *)
(***************************************************************************)
EXTENDS IniDocument

CONSTANTS
    NaN,            \* the f32 that is not a number
    RawValue,       \* a value given to raw()
    RawKeys,        \* the keys given to raw()
    Settings,       \* <<option, value>>: the setter calls the program may make
    MaxSets         \* bound: how many setters it calls

ASSUME BoundAssumption == MaxSets \in Nat

VARIABLES
    typed,          \* option -> the value set, or Empty
    raw,            \* the field `raw`
    built,          \* the result of the last build
    \* History variables.
    asked,          \* the setter calls made, in order
    builtFor        \* those made before the last build

vars == <<typed, raw, built, asked, builtFor>>

-----------------------------------------------------------------------------
(* The options, named by setter, in the order build writes them.           *)
Options ==
    [compiler  |-> <<"output_format", "cop_format", "enable_debug_db",
                     "perf_report", "verbose_high_level_command_stream",
                     "verbose_register_command_stream">>,
     scheduler |-> <<"optimize", "arena_cache_size", "tensor_allocator",
                     "cpu_tensor_alignment", "separate_io_regions",
                     "disable_features", "verbose_schedule",
                     "verbose_allocation">>,
     graph     |-> <<"ignore_ops", "verbose_graph", "verbose_quantization",
                     "softmax_int16_neg_exp_range">>,
     debug     |-> <<"trace">>]

Sections == DOMAIN Options
OptionNames == UNION {ToSet(Options[s]) : s \in Sections}

(* The flags of SchedulerFeature.                                          *)
FeatureNames == <<"WeightBuffering", "Cascading", "Grouping", "FWD",
                  "Sparsity", "FMStaging", "ReuseIFM">>

(* What the types of the setters let through: SchedulerFeature,            *)
(* Vec<String>, u32 and f32, the last as a number of halves: a fraction    *)
(* between two integers is taken for the half between them, from which no  *)
(* comparison of build tells it.                                           *)
SettingType(o, v) ==
    /\ o = "disable_features" => v \subseteq ToSet(FeatureNames)
    /\ o = "ignore_ops" => v \in Seq(STRING)
    /\ o = "cpu_tensor_alignment" => v \in Nat
    /\ o = "softmax_int16_neg_exp_range" => v \in Int \cup {NaN}

ASSUME SettingAssumption ==
    /\ Unset \notin Int /\ NaN \notin Int /\ NaN # Unset
    /\ \A setting \in Settings : /\ setting[1] \in OptionNames
                                 /\ SettingType(setting[1], setting[2])

(* The keys that are not spelled like their setter.                        *)
Key(o) ==
    CASE o = "enable_debug_db"  -> "enable_db"
      [] o = "arena_cache_size" -> "arena_size_limit"
      [] o = "disable_features" -> "disable_feature"
      [] o \in {"verbose_schedule", "verbose_graph"} -> "verbose"
      [] OTHER -> o

(* CompilerOptions::default: None, no flags, no operators.                 *)
Empty(o) == CASE o = "disable_features" -> {}
              [] o = "ignore_ops"       -> <<>>
              [] OTHER                  -> Unset

(* What the elements of a sequence give, in order.                         *)
Each(seq, Give(_)) == FlattenSeq([i \in DOMAIN seq |-> Give(seq[i])])

(* SchedulerFeature::to_regor_value: the names of the flags set, in the    *)
(* order of its table (joined by `|`).                                     *)
ToRegorValue(features) ==
    Each(FeatureNames, LAMBDA name : IF name \in features THEN <<name>> ELSE <<>>)

Written(o, v) == IF o = "disable_features" THEN ToRegorValue(v) ELSE v

-----------------------------------------------------------------------------
(* build: first the validation.                                            *)

(* u32::is_power_of_two, by halves: 2^31 is no integer of TLC.             *)
IsPowerOfTwo(n) == n = 1 \/ \E k \in 0..30 : n - 2^k = 2^k

(* Slip: the range is refused by what lies outside it, which NaN does not. *)
SoftmaxNotOutside(r) == r = NaN \/ (r > 0 /\ r < 2 * 65535)

(* 0.0 < r < 65535.0; each comparison with NaN is false.                   *)
SoftmaxInRange(r) == r # NaN /\ r > 0 /\ r < 2 * 65535

InvalidAlignment ==
    /\ typed["cpu_tensor_alignment"] # Unset
    /\ \/ typed["cpu_tensor_alignment"] < 16
       \/ ~IsPowerOfTwo(typed["cpu_tensor_alignment"])
SoftmaxRangeOutOfRange ==
    /\ typed["softmax_int16_neg_exp_range"] # Unset
    /\ ~SoftmaxInRange(typed["softmax_int16_neg_exp_range"])
SeparateIoRequiresCop2 ==
    typed["separate_io_regions"] = TRUE /\ typed["cop_format"] # "COP2"

Validation == CASE InvalidAlignment       -> "InvalidAlignment"
                [] ~InvalidAlignment /\ SoftmaxRangeOutOfRange
                                          -> "SoftmaxRangeOutOfRange"
                [] ~InvalidAlignment /\ ~SoftmaxRangeOutOfRange
                   /\ SeparateIoRequiresCop2 -> "SeparateIoRequiresCop2"
                [] OTHER                  -> "none"

(* Then the text: in each section the typed options, then the raw ones.    *)
TypedLines(s) ==
    Each(Options[s], LAMBDA o : IF typed[o] = Empty(o) THEN <<>>
                                ELSE <<Line(Key(o), Written(o, typed[o]))>>)

(* Slip: write_raw does not pick out the section it is called for.         *)
RawLinesOfAll(s) == [i \in DOMAIN raw |-> Line(raw[i].key, raw[i].value)]

(* write_raw.                                                              *)
RawLines(s) ==
    Each(raw, LAMBDA r : IF r.section = s THEN <<Line(r.key, r.value)>> ELSE <<>>)

Body(s) == TypedLines(s) \o RawLines(s)
SectionText(s) == <<Header(s)>> \o Body(s)

(* Slip: a raw setting does not bring the debug section about.             *)
TextDebugIfTraced ==
    SectionText("compiler") \o SectionText("scheduler") \o SectionText("graph")
    \o IF TypedLines("debug") = <<>> THEN <<>> ELSE SectionText("debug")

(* The debug section is there only for something to stand in it.           *)
Text == SectionText("compiler") \o SectionText("scheduler")
        \o SectionText("graph")
        \o IF Body("debug") = <<>> THEN <<>> ELSE SectionText("debug")

-----------------------------------------------------------------------------
Outcomes == {"InvalidAlignment", "SoftmaxRangeOutOfRange",
             "SeparateIoRequiresCop2", "none", "not_built"}

TypeOK ==
    /\ DOMAIN typed = OptionNames
    /\ typed["disable_features"] \subseteq ToSet(FeatureNames)
    /\ typed["ignore_ops"] \in Seq(STRING)
    /\ raw \in Seq([section : Sections, key : RawKeys, value : {RawValue}])
    /\ built.error \in Outcomes
    /\ built.error # "none" => built.text = <<>>
    /\ Len(asked) <= MaxSets /\ IsPrefix(builtFor, asked)

Init ==
    /\ typed = [o \in OptionNames |-> Empty(o)]
    /\ raw = <<>>
    /\ built = [error |-> "not_built", text |-> <<>>]
    /\ asked = <<>> /\ builtFor = <<>>

Ask(how, where, value) ==
    /\ Len(asked) < MaxSets
    /\ asked' = Append(asked, [how |-> how, where |-> where, value |-> value])

(* A typed setter replaces what an earlier call has set.                   *)
Set(o, v) ==
    /\ Ask("typed", o, v)
    /\ typed' = [typed EXCEPT ![o] = v]
    /\ UNCHANGED <<raw, built, builtFor>>

(* raw accumulates.                                                        *)
Raw(s, key) ==
    /\ Ask("raw", s, key)
    /\ raw' = Append(raw, [section |-> s, key |-> key, value |-> RawValue])
    /\ UNCHANGED <<typed, built, builtFor>>

(* Slip: the text is written whatever the validation says.                 *)
BuildAnyway ==
    /\ built' = [error |-> Validation, text |-> Text]
    /\ builtFor' = asked
    /\ UNCHANGED <<typed, raw, asked>>

Build ==
    /\ built' = [error |-> Validation,
                 text  |-> IF Validation = "none" THEN Text ELSE <<>>]
    /\ builtFor' = asked
    /\ UNCHANGED <<typed, raw, asked>>

Next == \/ \E setting \in Settings : Set(setting[1], setting[2])
        \/ \E s \in Sections, key \in RawKeys : Raw(s, key)
        \/ Build

Spec == Init /\ [][Next]_vars

-----------------------------------------------------------------------------
(* Properties, in terms of the setter calls and of the document as read.   *)

(* What the calls ask for: the last typed call of an option counts, unless *)
(* it is for no flags or no operators; every raw call does.                *)
LastOf(o) ==
    LET mine == {i \in DOMAIN builtFor :
                    builtFor[i].how = "typed" /\ builtFor[i].where = o}
    IN  IF mine = {} THEN Empty(o) ELSE builtFor[Max(mine)].value

TypedValues(s, key) ==
    {LastOf(o) : o \in {p \in ToSet(Options[s]) :
                           Key(p) = key /\ LastOf(p) # Empty(p)}}

RawCalls(s, key) ==
    Each(builtFor, LAMBDA a : IF a.how = "raw" /\ a.where = s /\ a.value = key
                              THEN <<a>> ELSE <<>>)

(* An accepted document, read section by section, says what the calls ask  *)
(* for and nothing else: every typed option once, with the last value it   *)
(* was given, in its own section although `verbose` is a key of two, and   *)
(* every raw setting in the section it was meant for, after the typed ones *)
(* it may be there to override.                                            *)
DocumentSaysWhatWasAsked ==
    built.error = "none" =>
        \A s \in Sections : \A key \in Keys(built.text) :
            LET values == Read(built.text, s, key)
                typedCount == Len(values) - Len(RawCalls(s, key))
                plain(v) == IF key = "disable_feature" THEN ToSet(v) ELSE v
            IN  /\ typedCount \in {0, 1}
                /\ {plain(values[i]) : i \in 1..typedCount}
                     = TypedValues(s, key)
                /\ \A i \in (typedCount + 1)..Len(values) :
                      values[i] = RawValue

(* The same from the other side: nothing that was asked for is missing.    *)
NothingIsDropped ==
    built.error = "none" =>
        /\ \A s \in Sections : \A o \in ToSet(Options[s]) :
              LastOf(o) # Empty(o) => Read(built.text, s, Key(o)) # <<>>
        /\ \A i \in DOMAIN builtFor : builtFor[i].how = "raw" =>
              \E j \in DOMAIN built.text :
                 /\ built.text[j] = Line(builtFor[i].value, RawValue)
                 /\ SectionAt(built.text, j) = builtFor[i].where

(* The alignments and the ranges the documentation of the setters allows:  *)
(* powers of two from 16, and what lies between 0 and 65535.              *)
IsAlignment(n) == \E k \in 3..30 : n - 2^k = 2^k
SoftmaxRanges == 1..131069

(* build refuses what the documentation of the setters rules out, NaN      *)
(* included, and nothing else: an earlier bad value that a later call has  *)
(* replaced does not count, a raw setting is not looked at.                *)
RefusedIffInvalid ==
    LET alignment == LastOf("cpu_tensor_alignment")
        range == LastOf("softmax_int16_neg_exp_range")
        valid == /\ alignment = Unset \/ IsAlignment(alignment)
                 /\ range = Unset \/ range \in SoftmaxRanges
                 /\ LastOf("separate_io_regions") = TRUE
                      => LastOf("cop_format") = "COP2"
    IN  built.error # "not_built" => (built.error = "none" <=> valid)
=============================================================================
