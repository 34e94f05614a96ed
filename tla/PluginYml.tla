----------------------------- MODULE PluginYml -----------------------------
(***************************************************************************)
(* hw_yml_parse_plugin (yml.c): a plugin.yml is read line by line by a     *)
(* machine that keeps a section name and its indentation.  The author of   *)
(* the file writes a line, the parser reads it; "written" is what the      *)
(* lines mean, by their place in the document.                             *)
(*                                                                         *)
(* A line is its indentation, what it looks like and its words; quotes and *)
(* blanks around a word are taken off, and Blank stands for an empty word  *)
(* in quotes.  Lines of more than 1023 characters are left out.            *)
(***************************************************************************)
EXTENDS Integers, SequencesExt, FiniteSetsExt, TLC

CONSTANTS Fields,       \* scalar fields that are used, of those set_top_field knows
          Lists,        \* list sections that are used
          Words,        \* values
          ListMax,      \* entries of a list (16, 32 or 64)
          MaxLines,     \* bound: lines of a file
          MoreAfterBare \* whether the list goes on after a key of an item without a value

ASSUME YmlAssumption ==
  /\ ListMax \in Nat /\ MaxLines \in Nat /\ MoreAfterBare \in BOOLEAN
  /\ Lists \subseteq {"provides", "requires", "conflicts", "files", "params"}

VARIABLES d,            \* the result: fields and lists
          section, sec_indent,
          written,      \* what the file says so far
          place,        \* where in the document the author is: base indentation,
                        \* the list, the indentation of its items, whether it had a
                        \* bare key, sections used
          lines         \* lines written

ymlVars == <<d, section, sec_indent, written, place, lines>>

Blank == "blank"       \* the empty text
Proto == {"provides", "requires", "conflicts", "files"}     \* is_proto_section
Empty == [field |-> [f \in Fields |-> Blank], list |-> [s \in Proto |-> <<>>]]

YmlInit ==
  /\ d = Empty /\ section = Blank /\ sec_indent = -1
  /\ written = Empty /\ lines = 0
  /\ place = [base |-> 0, list |-> Blank, items |-> 0, inItem |-> FALSE,
              bare |-> FALSE, used |-> {}]

-----------------------------------------------------------------------------
(* The parser.                                                             *)

AddStr(list, v) == IF v = Blank \/ Len(list) >= ListMax THEN list ELSE Append(list, v)
SetTopField(key, v) == IF key \in Fields THEN [d EXCEPT !.field[key] = v] ELSE d

\* "- v" and "- key: v" put v in the list, when the section is one of protocols.
ReadItem(indent, v) ==
  /\ d' = IF section \in Proto THEN [d EXCEPT !.list[section] = AddStr(@, v)] ELSE d
  /\ UNCHANGED <<section, sec_indent>>

\* Mutant: only the top level has fields, by the name of its section.
InsideNothing(indent) == section # Blank /\ indent < sec_indent
\* Keys to the right of the section's header belong to its items.
InsideChild(indent) == section # Blank /\ indent > sec_indent

ReadPair(indent, key, v) ==
  /\ d' = IF InsideChild(indent) THEN d ELSE SetTopField(key, v)
  /\ UNCHANGED <<section, sec_indent>>

\* "conflicts: []" leaves the section, wherever it stands.
ReadEmptyList == section' = Blank /\ sec_indent' = -1 /\ UNCHANGED d

\* A key without a value is taken for the header of a section.
ReadHeader(indent, key) ==
  /\ IF key = "plugin" THEN section' = Blank /\ sec_indent' = -1
     ELSE section' = key /\ sec_indent' = indent
  /\ UNCHANGED d

-----------------------------------------------------------------------------
(* The author: the forms of this repository's plugin.yml files.            *)

NextLine == lines < MaxLines /\ lines' = lines + 1

Root ==
  /\ NextLine /\ lines = 0
  /\ place' = [place EXCEPT !.base = 2] /\ UNCHANGED written
  /\ ReadHeader(0, "plugin")

Field(key, v) ==
  /\ NextLine /\ <<"field", key>> \notin place.used
  /\ place' = [place EXCEPT !.used = @ \cup {<<"field", key>>}, !.list = Blank, !.inItem = FALSE]
  /\ written' = [written EXCEPT !.field[key] = v]
  /\ ReadPair(place.base, key, v)

\* Items stand under the header, or two to the right of it.
Section(s, shift) ==
  /\ NextLine /\ <<"list", s>> \notin place.used
  /\ place' = [place EXCEPT !.used = @ \cup {<<"list", s>>}, !.list = s,
                 !.bare = FALSE, !.items = place.base + shift, !.inItem = FALSE]
  /\ UNCHANGED written
  /\ ReadHeader(place.base, s)

NoConflicts ==
  /\ NextLine /\ <<"list", "conflicts">> \notin place.used /\ "conflicts" \in Lists
  /\ place' = [place EXCEPT !.used = @ \cup {<<"list", "conflicts">>}, !.list = Blank,
                 !.inItem = FALSE]
  /\ UNCHANGED written
  /\ ReadEmptyList

\* An item is a word or starts with its name, "- protocol: v"; more keys may
\* follow under it, which belong to the item.
Item(v, map) ==
  /\ NextLine /\ place.list # Blank /\ (MoreAfterBare \/ ~place.bare)
  /\ place' = [place EXCEPT !.inItem = map]
  /\ written' = IF place.list \in Proto /\ v # Blank
                THEN [written EXCEPT !.list[place.list] = Append(@, v)] ELSE written
  /\ ReadItem(place.items, v)
Subkey(key, v) ==
  /\ NextLine /\ place.inItem /\ (MoreAfterBare \/ ~place.bare)
  /\ UNCHANGED <<place, written>>
  /\ ReadPair(place.items + 2, key, v)
\* "default:", the value to follow on lines of its own.  The parser takes it for
\* the header of another section.
BareSubkey ==
  /\ NextLine /\ place.inItem /\ (MoreAfterBare \/ ~place.bare)
  /\ place' = [place EXCEPT !.bare = TRUE] /\ UNCHANGED written
  /\ ReadHeader(place.items + 2, "default")

YmlNext ==
  \/ Root \/ NoConflicts \/ BareSubkey
  \/ \E s \in Lists, shift \in {0, 2} : Section(s, shift)
  \/ \E key \in Fields, v \in Words : Field(key, v) \/ Subkey(key, v)
  \/ \E v \in Words, map \in BOOLEAN : Item(v, map)

YmlSpec == YmlInit /\ [][YmlNext]_ymlVars

-----------------------------------------------------------------------------
YmlTypeOK ==
  /\ d.field \in [Fields -> Words \cup {Blank}]
  /\ \A s \in Proto : Len(d.list[s]) <= ListMax
  /\ section \in Lists \cup {Blank, "default"} /\ sec_indent \in {-1, 0, 2, 4, 6}

\* The parser finds what the file says: keys inside the items of a list never
\* overwrite a field of the plugin with the same name, and nothing written after
\* a list, or under an empty one, is lost or goes into another list.  Of a list
\* that is too long, the first entries are kept.
ParsedAsWritten ==
  /\ YmlTypeOK
  /\ d.field = written.field
  /\ \A s \in Proto :
       d.list[s] = SubSeq(written.list[s], 1, Min({ListMax, Len(written.list[s])}))
=============================================================================
