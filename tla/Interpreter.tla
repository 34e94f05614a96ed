---------------------------- MODULE Interpreter ----------------------------
(***************************************************************************)
(* shell_impl.c without the external commands (see Processes): the history *)
(* ring, the alias table and the evaluation of one line.                   *)
(*                                                                         *)
(* A line is its words; texts fit their buffers, and a line has fewer      *)
(* words than argv.  What a builtin prints is left out.  So is a value of  *)
(* blanks alone, with which ops_run would execute an argv without a word.  *)
(***************************************************************************)
EXTENDS Integers, SequencesExt

CONSTANTS Lines,        \* lines a user may type
          Definitions,  \* <<name, value>> of alias_set, a value is a line
          Settings,     \* the words name=value: <<name, value>> of each
          HistoryMax,   \* SHELL_HISTORY_MAX
          AliasMax,     \* SHELL_ALIAS_MAX
          MaxTyped      \* bound: lines in the history since it was cleared

ASSUME InterpreterAssumption ==
  /\ HistoryMax \in Nat \ {0} /\ AliasMax \in Nat
  /\ \A l \in Lines : l # <<>>

VARIABLES history, history_count, history_write,   \* the ring, slots from 0
          aliases,      \* <<name, value>> in table order
          typed,        \* lines given to history_append since it was cleared
          meant         \* what each name was last set to

shellVars == <<history, history_count, history_write, aliases, typed, meant>>

InterpreterInit ==
  /\ history = [s \in 0 .. HistoryMax - 1 |-> <<>>] /\ history_count = 0 /\ history_write = 0
  /\ aliases = <<>> /\ typed = <<>> /\ meant = {}

history_append(line) ==
  /\ Len(typed) < MaxTyped
  /\ history' = [history EXCEPT ![history_write] = line]
  /\ history_write' = (history_write + 1) % HistoryMax
  /\ history_count' = IF history_count < HistoryMax THEN history_count + 1 ELSE history_count
  /\ typed' = Append(typed, line)

\* Mutant: the oldest line is taken to be at the write position.
HistoryFromWrite(idx) == history[(history_write + idx) % HistoryMax]

\* The line with the number idx from 0, the oldest one kept.  C's % takes the
\* sign of the dividend, so a negative slot is corrected.
history_get(idx) ==
  LET slot == history_write - history_count + idx IN
  history[IF slot < 0 THEN slot + HistoryMax ELSE slot % HistoryMax]

history_clear ==
  /\ history_count' = 0 /\ history_write' = 0 /\ typed' = <<>>
  /\ UNCHANGED <<history, aliases, meant>>

alias_find(name) == {i \in DOMAIN aliases : aliases[i][1] = name}
alias_set(name, value) ==
  \/ /\ alias_find(name) # {}
     /\ aliases' = [i \in DOMAIN aliases |-> IF i \in alias_find(name) THEN <<name, value>> ELSE aliases[i]]
     /\ meant' = {m \in meant : m[1] # name} \cup {<<name, value>>}
  \/ /\ alias_find(name) = {} /\ Len(aliases) < AliasMax
     /\ aliases' = Append(aliases, <<name, value>>)
     /\ meant' = meant \cup {<<name, value>>}

AliasSet(d) == alias_set(d[1], d[2]) /\ UNCHANGED <<history, history_count, history_write, typed>>
alias_clear == aliases' = <<>> /\ meant' = {} /\ UNCHANGED <<history, history_count, history_write, typed>>

\* The first word is replaced by its alias, once; an empty value is no alias.
Expanded(line) ==
  LET found == {i \in alias_find(line[1]) : aliases[i][2] # <<>>} IN
  IF found = {} THEN line ELSE aliases[CHOOSE i \in found : TRUE][2] \o Tail(line)

\* exec_tokens: only the builtin alias changes the shell.  It looks at its first
\* argument alone: a name=value sets an alias while there is room, ENOSPC otherwise.
exec_tokens(argv) ==
  LET sets == argv[1] = "alias" /\ Len(argv) > 1 /\ argv[2] \in DOMAIN Settings
      name == Settings[argv[2]][1]
  IN IF sets /\ (alias_find(name) # {} \/ Len(aliases) < AliasMax)
     THEN alias_set(name, Settings[argv[2]][2])
     ELSE UNCHANGED <<aliases, meant>>

\* ops_eval puts the line in the history before it is executed, whatever
\* becomes of it; ops_run leaves the history alone.
ops_eval(line) == history_append(line) /\ exec_tokens(Expanded(line))
ops_run(line) == exec_tokens(Expanded(line)) /\ UNCHANGED <<history, history_count, history_write, typed>>

InterpreterNext ==
  \/ \E line \in Lines : ops_eval(line) \/ ops_run(line)
  \/ \E d \in Definitions : AliasSet(d)
  \/ history_clear \/ alias_clear

InterpreterSpec == InterpreterInit /\ [][InterpreterNext]_shellVars

-----------------------------------------------------------------------------
InterpreterTypeOK ==
  /\ history_count \in 0 .. HistoryMax /\ history_write \in 0 .. HistoryMax - 1
  /\ Len(aliases) <= AliasMax

\* The history lists the newest lines, all of them while the ring has room, in
\* the order in which they were typed (shell.h: 0-based insertion order), over
\* every wrap of the ring; the alias table gives each name the value it was last
\* set to, and has it once.
ShellRemembers ==
  /\ InterpreterTypeOK
  /\ history_count = IF Len(typed) < HistoryMax THEN Len(typed) ELSE HistoryMax
  /\ \A i \in 0 .. history_count - 1 : history_get(i) = typed[Len(typed) - history_count + i + 1]
  /\ {aliases[i] : i \in DOMAIN aliases} = meant
  /\ \A i, j \in DOMAIN aliases : aliases[i][1] = aliases[j][1] => i = j
=============================================================================
