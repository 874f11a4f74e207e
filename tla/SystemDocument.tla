---------------------------- MODULE SystemDocument ----------------------------
(***************************************************************************)
(* SystemConfig of options.rs, the document its build() writes, the        *)
(* accelerators, and what they select: Compiler::new names an architecture *)
(* and the system configuration a MAC count, and the library looks the     *)
(* count up in the table of that architecture (AcceleratorConfig::macs).   *)
(***************************************************************************)
EXTENDS IniDocument

CONSTANTS
    Names,          \* names given to system_config_name and the like
    Inis            \* the Vela ini documents: sequences of headers and lines

(* Out of the box there is no ini.  One the program gives supplies the     *)
(* sections System_Config.* and Memory_Mode.*, or others, though not       *)
(* [architecture], and gives every key a value.  Nothing keeps it from     *)
(* beginning without a header.                                             *)
ASSUME IniAssumption ==
    /\ Unset \notin Nat \cup Names \cup {"architecture", "vela"}
    /\ <<>> \in Inis
    /\ \A ini \in Inis :
          /\ ini \in Seq(ToSet(ini))
          /\ \A i \in DOMAIN ini :
                IF ini[i].header THEN ini[i].key \notin {"architecture", Unset}
                                 ELSE ini[i].value # Unset

VARIABLES
    system,         \* the fields of the SystemConfig
    text,           \* what the last build returned
    architecture,   \* what the program gives to Compiler::new
    textFor         \* (history) the fields at the time of the last build

vars == <<system, text, architecture, textFor>>

-----------------------------------------------------------------------------
(* The accelerators.                                                       *)
Macs == [EthosU55_32 |-> 32, EthosU55_64 |-> 64, EthosU55_128 |-> 128,
         EthosU55_256 |-> 256, EthosU65_256 |-> 256, EthosU65_512 |-> 512,
         EthosU85_128 |-> 128, EthosU85_256 |-> 256, EthosU85_512 |-> 512,
         EthosU85_1024 |-> 1024, EthosU85_2048 |-> 2048]

Accelerators == DOMAIN Macs
Architectures == {"EthosU55", "EthosU65", "EthosU85"}

(* Slip: the U65 parts are taken for U85 ones.                             *)
ArchitectureMerged(a) ==
    CASE a \in {"EthosU55_32", "EthosU55_64", "EthosU55_128", "EthosU55_256"}
                -> "EthosU55"
      [] OTHER  -> "EthosU85"

Architecture(a) ==
    CASE a \in {"EthosU55_32", "EthosU55_64", "EthosU55_128", "EthosU55_256"}
                -> "EthosU55"
      [] a \in {"EthosU65_256", "EthosU65_512"}
                -> "EthosU65"
      [] OTHER  -> "EthosU85"

Cores(a) == IF a \in {"EthosU65_512", "EthosU85_2048"} THEN 2 ELSE 1

-----------------------------------------------------------------------------
(* build.                                                                  *)
NameKeys == {"system_config_name", "memory_mode_name"}

(* Slip: the key is written whether it is set or not.                      *)
NameLineAlways(key) == <<Line(key, system[key])>>

NameLine(key) == IF system[key] = Unset THEN <<>> ELSE <<Line(key, system[key])>>

Leading ==
    <<Header("architecture"), Line("macs", Macs[system.accelerator]),
      Line("cores", Cores(system.accelerator)), Header("vela")>>

(* Slip: the ini comes before the names.                                   *)
TextIniFirst == Leading \o system.vela_ini \o NameLine("system_config_name")
                \o NameLine("memory_mode_name")

(* The ini is appended unchanged.                                          *)
Text == Leading \o NameLine("system_config_name")
        \o NameLine("memory_mode_name") \o system.vela_ini

-----------------------------------------------------------------------------
Fields == [accelerator : Accelerators, vela_ini : Inis,
           system_config_name : Names \cup {Unset},
           memory_mode_name : Names \cup {Unset}]

(* Nothing is written that was not set.                                    *)
TypeOK ==
    /\ system \in Fields /\ textFor \in Fields
    /\ architecture \in Architectures
    /\ \A i \in DOMAIN text : text[i].header \/ text[i].value # Unset

Init ==
    /\ system \in [accelerator : Accelerators, vela_ini : {<<>>},
                   system_config_name : {Unset}, memory_mode_name : {Unset}]
    /\ architecture \in Architectures
    /\ text = <<>>
    /\ textFor = system

SetName(key, name) ==
    /\ system' = [system EXCEPT ![key] = name]
    /\ UNCHANGED <<text, architecture, textFor>>

VelaIni(ini) ==
    /\ system' = [system EXCEPT !.vela_ini = ini]
    /\ UNCHANGED <<text, architecture, textFor>>

Build ==
    /\ text' = Text
    /\ textFor' = system
    /\ UNCHANGED <<system, architecture>>

Next == \/ \E key \in NameKeys, name \in Names : SetName(key, name)
        \/ \E ini \in Inis : VelaIni(ini)
        \/ Build

Spec == Init /\ [][Next]_vars

-----------------------------------------------------------------------------
(* Properties.                                                             *)

(* The accelerators the library can take from a document.                  *)
Selected == {a \in Accelerators :
                /\ Architecture(a) = architecture
                /\ Read(text, "architecture", "macs") = <<Macs[a]>>}

(* "It matches the architecture's configuration table on the MAC count     *)
(* alone": with the architecture of its accelerator, a document selects    *)
(* that accelerator and no other, and names its number of cores; with      *)
(* another architecture it selects at most one, and never that one.        *)
AcceleratorSelected ==
    text # <<>> =>
        /\ Cardinality(Selected) <= 1
        /\ system.accelerator \in Selected
             <=> architecture = Architecture(system.accelerator)
        /\ \A a \in Selected : a = system.accelerator =>
              Read(text, "architecture", "cores") = <<Cores(a)>>

(* What build() writes for a key of a section, by itself: the name set for *)
(* it, if it has one.                                                      *)
NameOf(section, key) ==
    IF section = "vela" /\ key \in NameKeys /\ textFor[key] # Unset
    THEN <<textFor[key]>> ELSE <<>>

(* What the ini has before its first header, which no section of its own   *)
(* claims and [vela], the section open when it is appended, takes over.    *)
Stray(section, key) ==
    IF section = "vela" THEN Read(textFor.vela_ini, Unset, key) ELSE <<>>

(* Every section but [architecture] gives each key its name, if one was    *)
(* set, then the stray lines of the ini if it is [vela], and then what the *)
(* ini itself gives it, and nothing else: the names come first and go to   *)
(* no other section, and the ini, "appended verbatim" (options.rs:709),    *)
(* loses nothing to them.                                                  *)
SectionsReadBack ==
    text # <<>> =>
        \A section \in Headers(text) \ {"architecture"} :
            \A key \in NameKeys \cup Keys(text) :
                Read(text, section, key) =
                    NameOf(section, key) \o Stray(section, key)
                    \o Read(textFor.vela_ini, section, key)
=============================================================================
