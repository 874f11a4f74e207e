--------------------------- MODULE MCSystemDocument ---------------------------
(***************************************************************************)
(* Model checking SystemDocument: all accelerators, with each architecture *)
(* and a Vela ini of two sections, one that begins without a header, or    *)
(* none.                                                                   *)
(***************************************************************************)
EXTENDS SystemDocument

CONSTANTS high_end, deep_embedded

MCNames == {high_end, deep_embedded}
MCIni == <<Header("System_Config"), Line("core_clock", high_end),
           Header("Memory_Mode"), Line("arena_mem_area", deep_embedded)>>
MCBareIni == <<Line("system_config_name", deep_embedded), Header("Memory_Mode"),
               Line("arena_mem_area", high_end)>>
MCInis == {<<>>, MCIni, MCBareIni}
=============================================================================
