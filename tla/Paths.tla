------------------------------- MODULE Paths -------------------------------
(***************************************************************************)
(* fsp_path.c: the path functions of FSP, which work on the text of a path *)
(* and never look at the file system.                                      *)
(*                                                                         *)
(* A text is the sequence of what stands between its slashes, so that it   *)
(* begins with "" exactly if it begins with a slash; the text without a    *)
(* character is <<"">>.  A name is one character long here, and none is    *)
(* longer than FSP_NAME_MAX.                                               *)
(***************************************************************************)
EXTENDS Integers, SequencesExt, FiniteSetsExt

CONSTANTS PathCalls,    \* calls: [op, path], and [name] for a join; cap, the size of out
          Cwd,          \* the working directory
          DepthMax,     \* size of the stack of components (64)
          BufferMax     \* bytes of the buffers the calls work in (4096)

\* What stands between two slashes that follow each other.
NoName == ""

ASSUME PathsAssumption ==
  /\ DepthMax \in Nat /\ BufferMax \in Nat
  /\ Cwd \in Seq(STRING) /\ Len(Cwd) > 1 /\ Cwd[1] = NoName
  /\ \A c \in PathCalls :
       /\ c.op \in {"normalize", "join", "parent"} /\ c.cap \in Nat \ {0}
       /\ c.path \in Seq(STRING) /\ c.path # <<>>
       /\ c.op = "join" => c.name \in Seq(STRING) /\ c.name # <<>>

VARIABLES request, rest, stack, result
pathVars == <<request, rest, stack, result>>

Pending == [rc |-> "pending", out |-> <<>>]
TooLong == [rc |-> "ENAMETOOLONG", out |-> <<>>]
NoCwd == [rc |-> "getcwd", out |-> <<>>]
Returns(names) == [rc |-> "OK", out |-> names]

-----------------------------------------------------------------------------
\* fsp_path_join: one separator between the two, unless the first ends in one or
\* is empty.
Joined(dir, name) ==
  IF dir = <<NoName>> THEN name ELSE IF Last(dir) = NoName THEN Front(dir) \o name ELSE dir \o name

Text(c) == IF c.op = "join" THEN Joined(c.path, c.name) ELSE c.path

IsAbsolute(text) == Len(text) > 1 /\ text[1] = NoName
Absolute(text) == IF IsAbsolute(text) THEN text ELSE Cwd \o text

\* The characters of a text: its slashes, its names and dots, and the second
\* dot of each "..".
TextBytes(text) ==
  Len(text) - 1 + Cardinality({k \in DOMAIN text : text[k] # NoName})
                + Cardinality({k \in DOMAIN text : text[k] = ".."})

\* A joined text, or one put behind the working directory, does not fit in the
\* buffer with the NUL after it.
Overflows(c) ==
  \/ c.op = "join" /\ TextBytes(Text(c)) >= BufferMax
  \/ ~IsAbsolute(Text(c)) /\ TextBytes(Absolute(Text(c))) >= BufferMax

\* What a call has found before its loop: getcwd may fail for a relative path.
Entered(c) ==
  IF IsAbsolute(Text(c)) THEN {IF Overflows(c) THEN TooLong ELSE Pending}
  ELSE {IF Overflows(c) THEN TooLong ELSE Pending, NoCwd}

\* A call with its texts joined and made absolute.
PathsInit ==
  /\ request \in PathCalls /\ rest = Absolute(Text(request)) /\ stack = <<>>
  /\ result \in Entered(request)

\* Mutant: ".." is left at the root.
ComponentAtRoot ==
  /\ result = Pending /\ rest # <<>>
  /\ rest' = Tail(rest) /\ UNCHANGED <<request, result>>
  /\ \/ Head(rest) \in {NoName, "."} /\ UNCHANGED stack
     \/ Head(rest) = ".." /\ stack' = IF stack = <<>> THEN <<"..">> ELSE Front(stack)
     \/ Head(rest) \notin {NoName, ".", ".."} /\ Len(stack) < DepthMax
        /\ stack' = Append(stack, Head(rest))

\* fsp_path_normalize, one turn of its loop.
Component ==
  /\ result = Pending /\ rest # <<>>
  /\ rest' = Tail(rest) /\ UNCHANGED request
  /\ \/ Head(rest) \in {NoName, "."} /\ UNCHANGED <<stack, result>>
     \/ /\ Head(rest) = ".."
        /\ stack' = IF stack = <<>> THEN stack ELSE Front(stack)
        /\ UNCHANGED result
     \/ /\ Head(rest) \notin {NoName, ".", ".."}
        /\ IF Len(stack) < DepthMax
           THEN stack' = Append(stack, Head(rest)) /\ UNCHANGED result
           ELSE result' = TooLong /\ UNCHANGED stack

\* The characters of the text with these names: each has a slash before it.
Size(names) == IF names = <<>> THEN 1 ELSE 2 * Len(names)

\* The end of fsp_path_normalize.
Assemble ==
  /\ result = Pending /\ rest = <<>> /\ request.op # "parent"
  /\ result' = IF Size(stack) < request.cap THEN Returns(stack) ELSE TooLong
  /\ UNCHANGED <<request, rest, stack>>

\* fsp_path_parent normalises into a buffer of its own, takes off the last name
\* and copies as much as fits into out.
fsp_path_parent ==
  /\ result = Pending /\ rest = <<>> /\ request.op = "parent"
  /\ LET up == IF stack = <<>> THEN stack ELSE Front(stack) IN
     result' = IF Size(stack) >= BufferMax THEN TooLong
               ELSE IF up = <<>> THEN IF request.cap < 2 THEN TooLong ELSE Returns(up)
               ELSE Returns(SubSeq(up, 1, Min({Len(up), (request.cap - 1) \div 2})))
  /\ UNCHANGED <<request, rest, stack>>

PathsNext == Component \/ Assemble \/ fsp_path_parent
PathsSpec == PathsInit /\ [][PathsNext]_pathVars

-----------------------------------------------------------------------------
\* How many of a set of positions are from one position to another, and the one
\* before which there are n - 1.
Among(set, from, to) == Cardinality(set \cap (from .. to))
Nth(set, n) == CHOOSE k \in set : Among(set, 1, k) = n

NamesOf(text) == {k \in DOMAIN text : text[k] \notin {NoName, ".", ".."}}
UpsOf(text) == {k \in DOMAIN text : text[k] = ".."}

\* Where a path leads in a tree of directories: a name is on the way to the end
\* unless, from some point after it, as many ".." as names have followed.
OnTheWay(text) ==
  {k \in NamesOf(text) : \A j \in k .. Len(text) :
                           Among(UpsOf(text), k, j) < Among(NamesOf(text), k, j)}
Where(text) == [n \in 1 .. Cardinality(OnTheWay(text)) |-> text[Nth(OnTheWay(text), n)]]

\* The names are those on the way to where the path leads, a path never leads
\* above the root, a join leads where its name leads from its directory, and a
\* call answers ENAMETOOLONG only when the path, or a part of it, is too deep or
\* does not fit in out or in the buffer the call works in.
\* (A parent that does not fit is cut without an error and left out here.)
PathsNormal ==
  LET whole == Absolute(Text(request)) IN
  /\ result.rc = "OK" /\ request.op = "normalize" => result.out = Where(whole)
  /\ result.rc = "OK" /\ request.op = "join" /\ request.path # <<NoName>> =>
       result.out = Where(Where(Absolute(request.path)) \o request.name)
  /\ result.rc = "OK" /\ request.op = "parent" /\ Size(Where(whole)) < request.cap =>
       result.out = Where(Append(whole, ".."))
  /\ result = TooLong =>
       \/ Size(Where(whole)) >= request.cap \/ Overflows(request)
       \/ request.op = "parent" /\ Size(Where(whole)) >= BufferMax
       \/ \E k \in DOMAIN whole : Len(Where(SubSeq(whole, 1, k))) > DepthMax
=============================================================================
