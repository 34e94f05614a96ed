----------------------------- MODULE MCPluginBus -----------------------------
(* Model-checking instance of PluginBus: fsp needs hap, hap2 offers HAP too *)
(* and refuses to run beside a second HAP, fsp offers two protocols.        *)
EXTENDS PluginBus

MCPlugins == {"hap", "hap2", "fsp"}
MCProtocols == {"LOG", "GIT", "HAP", "FSP", "DIR"}
MCProvides == [hap |-> <<"HAP">>, hap2 |-> <<"HAP">>, fsp |-> <<"FSP", "DIR">>]
MCRequires == [hap |-> <<"LOG">>, hap2 |-> <<"LOG">>, fsp |-> <<"HAP", "LOG">>]
MCConflicts == [hap |-> <<>>, hap2 |-> <<"HAP">>, fsp |-> <<>>]
MCBuiltins == <<"LOG", "GIT">>
MCBootOrder == <<"hap", "fsp">>
\* The second route of fsp may fail: the first is then taken back.
MCNoMemory == {<<"fsp", 1>>}
MCListings == {<<"fsp", "hap", "hap2", "fsp">>}
=============================================================================
