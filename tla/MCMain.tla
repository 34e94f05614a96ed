------------------------------- MODULE MCMain -------------------------------
(* The main program with the plugins of this repository: what each declares *)
(* in its plugin.yml, and the order of the table boot_order.  Any subset of *)
(* them may be installed.  compress, storage, permission, terminal, audit   *)
(* and console declare the same requirements as shell and stand behind it.  *)
EXTENDS HwMain

BootPlugins == {"git", "hap", "pmp", "fsp", "np", "sp", "crypto", "loader", "shell"}
BootBuiltins == <<"METAPROTO", "BUS", "PARAM", "LOG", "GIT">>
BootProtocols ==
  ToSet(BootBuiltins) \cup {"HAP", "PMP", "FSP", "NP", "SP", "CRYPTO", "LOADER", "SHELL"}

\* The provides sections.
BootProvides ==
  [git |-> <<"GIT">>, hap |-> <<"HAP">>, pmp |-> <<"PMP">>, fsp |-> <<"FSP">>,
   np |-> <<"NP">>, sp |-> <<"SP">>, crypto |-> <<"CRYPTO">>, loader |-> <<"LOADER">>,
   shell |-> <<"SHELL">>]

Base == <<"LOG", "PARAM", "METAPROTO">>

\* The requires sections.
BootRequires ==
  [git |-> Base, hap |-> Base, pmp |-> <<"HAP">> \o Base,
   fsp |-> <<"HAP", "PMP">> \o Base, np |-> <<"HAP">> \o Base,
   sp |-> <<"PMP", "FSP", "HAP">> \o Base, crypto |-> <<"SP">> \o Base,
   loader |-> <<"HAP", "PMP", "FSP">> \o Base, shell |-> Base]

\* Two plugins the others need may run out of memory in registering.
BootNoMemory == {<<"hap", 0>>, <<"fsp", 0>>}

BootConflicts == [p \in BootPlugins |-> <<>>]

\* The entries of the table for these plugins.
boot_order == <<"git", "hap", "pmp", "fsp", "np", "sp", "crypto", "loader", "shell">>

\* Every set of installed plugins, read in one (unrelated) order.
BootListings ==
  {SelectSeq(<<"crypto", "fsp", "git", "hap", "loader", "np", "pmp", "shell", "sp">>,
             LAMBDA p : p \in S) : S \in SUBSET BootPlugins}

\* These declarations and this table agree.
ASSUME RepositoryTable == TableInOrder
=============================================================================
