---------------------------- MODULE MCLibraries ----------------------------
(* Model-checking instance of the plugins that serve one call at a time and  *)
(* share nothing with each other: audit log and the text of its lines,       *)
(* codecs, cryptography, the reader of plugin.yml, consoles, the command     *)
(* interpreter, paths, the rules of matching and the loader.  A behaviour     *)
(* uses one of them, and the others stay as they are.                        *)
EXTENDS AuditLog, AuditText, Compress, Crypto, PluginYml, Console, Interpreter, Paths, Matching,
        Executables

VARIABLE part         \* the plugin this behaviour uses

NoFault == [files |-> {2, 3}, reconf |-> FALSE, crash |-> FALSE, io |-> FALSE, full |-> FALSE]
\* Crashes and failing calls; a changing configuration; a disk that fills up
\* while the process stays up.
MCWorlds == {[NoFault EXCEPT !.crash = TRUE, !.io = TRUE],
             [NoFault EXCEPT !.reconf = TRUE],
             [NoFault EXCEPT !.files = {1, 2, 3}, !.io = TRUE, !.full = TRUE]}

\* One chunk and its neighbours, and more than one.
MCTexts == {[n \in 1 .. len |-> <<"byte", n>>] : len \in {0, 1, 2, 3, 5}}
MCWritten == {<<"a">>, <<"\n">>, <<"a", "\n", "a">>}
\* Aliases for a command, for themselves, for the builtin alias; an empty one.  Settings
\* typed with more arguments, and behind an alias.
MCLines == {<<"ls">>, <<"alias", "ll=ls", "-a">>, <<"ll", "echo=">>}
MCDefinitions == {<<"ll", <<"alias">>>>, <<"ls", <<"ll">>>>, <<"echo", <<"ls", "-l">>>>}
MCSettings == [w \in {"ll=ls", "echo="} |->
                 IF w = "ll=ls" THEN <<"ll", <<"ls">>>> ELSE <<"echo", <<>>>>]


Upto(S, least, most) == UNION {[1 .. len -> S] : len \in least .. most}
\* What separates, what stands for it, and neither.
EventTexts == Upto({"1", "|", "\\", "\n", "n"}, 0, 2)
MCEvents == [seq : {<<"7">>, <<"1", "0">>}, ts : {<<"5">>}, subject : EventTexts,
             action : {<<"a">>}, target : {<<>>, <<"1">>},
             result : {<<"0">>, <<"-", "1">>, <<"1", "3">>}, detail : EventTexts]
\* As many names as fit in the stack, one more, and one more taken back.
DeepPaths == {<<"", "a", "b", "a", "b", "a">>, <<"", "a", "b", "a", "b", "a", "b">>,
              <<"", "a", "b", "a", "b", "a", "b", "..">>}
\* Buffers that hold every result, one name, and not even the root.
Components == {"", ".", "..", "a", "b"}
MCPathCalls ==
  [op : {"normalize"}, path : Upto(Components, 1, 4) \cup DeepPaths, cap : {3, 9, 11}]
    \cup [op : {"parent"}, path : Upto(Components, 1, 3) \cup DeepPaths, cap : {1, 3, 9}]
    \cup [op : {"join"}, path : Upto({"", "..", "a"}, 1, 3), name : Upto(Components, 1, 2), cap : {9}]
MCCwd == <<"", "c">>
MCPatterns == Upto({"a", "*", "?"}, 0, 3)
MCGlobTexts == Upto({"a", "b", "*"}, 0, 3)
MCVersions == {<<>>, <<Junk, 1>>, <<1>>, <<1, 0>>, <<1, 2>>, <<1, 0, 1>>, <<1, 1, 0>>,
               <<1, 0, 2>>, <<1, Junk, 2>>, <<2, 0>>}

ElfHeader == [lead |-> "ELF", line |-> <<>>, len |-> 500, version |-> 1, data |-> 1, class |-> 64,
              type |-> 3, phnum |-> 0, half |-> (56 :> 0 @@ 60 :> 0 @@ 62 :> 0),
              entries |-> <<>>, sections |-> <<>>]
Scripts == {[ElfHeader EXCEPT !.lead = "#!", !.line = l] :
              l \in {<<>>, <<"\n">>, <<" ", "s">>, <<"s", "\n">>, <<"s", "h", " ", "a">>, <<"s", "h">>,
                    <<"l", "o", "n", "g", "\n">>, <<"l", "o", "n", "g", "e", "r">>}}
Leads == {[ElfHeader EXCEPT !.lead = l, !.len = 20] :
            l \in {"", "other", "PE", "MACHO", "MACHOBE", "WASM", "APK", "JAVA", "ELF"}}
\* A table of program headers, and what may follow it in the file.
Tables == {<<>>, <<"PT_LOAD">>, <<"PT_LOAD", "PT_LOAD">>, <<"PT_INTERP", "PT_LOAD">>,
           <<"PT_PHDR", "PT_INTERP", "PT_LOAD", "PT_LOAD">>}
\* Behind an ELF32 header these bytes are the low half of the first segment's offset.
Counts(c, table) == IF c = 64 THEN {Len(table)} ELSE {0, 52}
Programs == UNION {{[ElfHeader EXCEPT !.type = t, !.data = order, !.class = c,
                                      !.entries = table \o after, !.phnum = Len(table),
                                      !.half = (56 :> n @@ 60 :> 0 @@ 62 :> 0)] :
                      n \in Counts(c, table)} :
                     t \in {1, 2, 3}, order \in {1, 2}, c \in {32, 64}, table \in Tables,
                     after \in {<<>>, <<"PT_INTERP">>}}
\* Names of sections that fill their buffer exactly, or just not.
Sectioned == {[ElfHeader EXCEPT !.sections = names,
                                !.half = (56 :> 0 @@ 60 :> n @@ 62 :> strings)] :
                names \in {<<0, 3, 2>>, <<0, 4, 3>>, <<0, 4, 4>>, <<0, 7, 1>>, <<0, 7, 3, 1>>,
                          <<5, 5, 1>>, <<4, 4, 4>>},
                n \in {0, 3, 4}, strings \in {0, 2, 3}}
MCImages == {[ElfHeader EXCEPT !.len = 70000000]} \cup Scripts \cup Leads \cup Programs \cup Sectioned

vars == <<part, auditVars, textVars, compressVars, cryptoVars, ymlVars, consoleVars, shellVars,
          pathVars, matchVars, imageVars>>

Init ==
  /\ part \in {"audit", "line", "compress", "crypto", "yml", "console", "shell", "path",
              "match", "loader"}
  \* what a behaviour does not use starts in one of its initial states
  /\ part # "audit" => /\ world = [NoFault EXCEPT !.reconf = TRUE]
                       /\ dir = "d1" /\ max_files = 2
  /\ part # "line" => event = [seq |-> <<"7">>, ts |-> <<"5">>, subject |-> <<>>, action |-> <<"a">>,
                               target |-> <<>>, result |-> <<"0">>, detail |-> <<>>]
  /\ part # "compress" => files = [p \in Paths |-> IF p = "p1" THEN <<>> ELSE Absent]
  /\ part # "path" => request = [op |-> "normalize", path |-> <<"", "">>, cap |-> 9]
  /\ part # "match" => question = [rule |-> "glob", pat |-> <<>>, text |-> <<>>]
  /\ part # "loader" => image = ElfHeader
  /\ AuditInit /\ AuditTextInit /\ CompressInit /\ CryptoInit /\ YmlInit /\ ConsoleInit
  /\ InterpreterInit /\ PathsInit /\ MatchingInit /\ LoaderInit

Uses(p) ==
  /\ part = p /\ UNCHANGED part
  /\ p # "audit" => UNCHANGED auditVars
  /\ p # "line" => UNCHANGED textVars
  /\ p # "path" => UNCHANGED pathVars
  /\ p # "match" => UNCHANGED matchVars
  /\ p # "loader" => UNCHANGED imageVars
  /\ p # "compress" => UNCHANGED compressVars
  /\ p # "crypto" => UNCHANGED cryptoVars
  /\ p # "yml" => UNCHANGED ymlVars
  /\ p # "console" => UNCHANGED consoleVars
  /\ p # "shell" => UNCHANGED shellVars

CompressRuns == Uses("compress") /\ CompressStep
Next ==
  \/ Uses("audit") /\ AuditNext
  \/ Uses("line") /\ AuditTextNext
  \/ Uses("path") /\ PathsNext
  \/ Uses("match") /\ MatchingNext
  \/ Uses("loader") /\ LoaderNext
  \/ Uses("compress") /\ CompressNext
  \/ Uses("crypto") /\ CryptoNext
  \/ Uses("yml") /\ YmlNext
  \/ Uses("console") /\ ConsoleNext
  \/ Uses("shell") /\ InterpreterNext
Spec == Init /\ [][Next]_vars /\ WF_vars(CompressRuns)
=============================================================================
