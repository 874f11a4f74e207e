-------------------------- MODULE MCOptionsDocument --------------------------
(***************************************************************************)
(* Model checking OptionsDocument: every setter, with the values at the    *)
(* edges of what build accepts, and a raw key that two sections have.      *)
(***************************************************************************)
EXTENDS OptionsDocument

MCSettings ==
    (({"enable_debug_db", "perf_report", "verbose_high_level_command_stream",
       "verbose_register_command_stream", "verbose_allocation",
       "verbose_quantization", "trace"} \X {TRUE})
     \cup ({"verbose_schedule", "separate_io_regions"} \X {TRUE, FALSE})
     \cup {<<"verbose_graph", TRUE>>, <<"output_format", "Raw">>, <<"optimize", "Size">>,
           <<"tensor_allocator", "HillClimb">>,
           <<"arena_cache_size", 2097152>>}
     \cup {"cop_format"} \X {"COP1", "COP2"}
     \cup {"cpu_tensor_alignment"} \X {0, 8, 16, 24}
     \cup {"softmax_int16_neg_exp_range"} \X {NaN, 0, 1, 131069, 131070}
     \cup {"disable_features"} \X {{}, {"FWD", "Cascading"}}
     \cup {"ignore_ops"} \X {<<>>, <<"CONV_2D", "FULLY_CONNECTED">>})

MCRawKeys == {"verbose"}
=============================================================================
