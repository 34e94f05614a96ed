------------------------------ MODULE AuditLog ------------------------------
(***************************************************************************)
(* audit_impl.c: the append-only audit log with rotation.  Segment 0 is    *)
(* audit.log, segment i is audit.log.i.  The store's mutex makes append,   *)
(* query, status and configure atomic for each other, but append is many   *)
(* system calls and the process can end, or a call fail, between any two.  *)
(*                                                                         *)
(* A line is its sequence number and whether it can be parsed; every line  *)
(* has size 1, so max_bytes counts lines.                                  *)
(***************************************************************************)
EXTENDS Integers, SequencesExt, FiniteSetsExt

CONSTANTS Dirs,         \* log directories audit.log.path may name
          MaxBytes,     \* audit.log.max_bytes
          SegMax,       \* HW_AUDIT_SEG_MAX
          Worlds,       \* circumstances a behaviour may have, see World
          SeqMax        \* bound: sequence numbers

\* files: values of audit.log.max_files; reconf: max_files and the directory
\* change while the store is in use; crash: the process may end at any moment;
\* io: a rename, truncate, unlink or fopen may fail; full: the flush in
\* fclose may write a part of the line, or nothing.
World == [files : SUBSET (1 .. SegMax), reconf : BOOLEAN, crash : BOOLEAN,
          io : BOOLEAN, full : BOOLEAN]

ASSUME AuditAssumption ==
  /\ SegMax \in Nat /\ MaxBytes \in Nat \ {0} /\ SeqMax \in Nat
  /\ Worlds \subseteq World

Idx == 0 .. SegMax - 1
\* "cut": no newline and too short to parse, cut after its number (AuditText has
\* the lines cut inside it); "short": no newline but parses; "bad": a line glued
\* to an unfinished one.
Kinds == {"good", "cut", "short", "bad"}
Line == [seq : 1 .. SeqMax + 1, kind : Kinds]

VARIABLES segs,         \* contents of each directory's segments (<<>>: empty or missing)
          dir, max_files, next_seq,   \* the store context g_ctx
          pc, i,        \* step of ops_append and index of its rename loop
          acked,        \* per directory, sequence numbers returned by append
          world         \* the circumstances of this behaviour

auditVars == <<segs, dir, max_files, next_seq, pc, i, acked, world>>

AuditTypeOK ==
  /\ segs \in [Dirs -> [Idx -> Seq(Line)]]
  /\ \A d \in Dirs, k \in Idx : Len(segs[d][k]) <= MaxBytes
  /\ dir \in Dirs /\ world \in Worlds /\ max_files \in world.files
  /\ next_seq \in 0 .. SeqMax + 1
  /\ pc \in {"idle", "rotate", "clean", "write", "return"}
  /\ i \in 0 .. SegMax
  /\ acked \in [Dirs -> Seq(1 .. SeqMax)]

AuditInit ==
  /\ segs = [d \in Dirs |-> [k \in Idx |-> <<>>]]
  /\ world \in Worlds /\ dir \in Dirs /\ max_files \in world.files /\ next_seq = 0
  /\ pc = "idle" /\ i = 0
  /\ acked = [d \in Dirs |-> <<>>]

-----------------------------------------------------------------------------
Log == segs[dir]
Parses(l) == l.kind \in {"good", "short"}
Seqs(lines) == {lines[k].seq : k \in {j \in DOMAIN lines : Parses(lines[j])}}

\* Mutant: only the main file is looked at.
SeedFromBase ==
  IF next_seq # 0 THEN next_seq
  ELSE IF Seqs(Log[0]) = {} THEN 1 ELSE Max(Seqs(Log[0])) + 1

\* seed_seq_locked: the first segment that is not empty decides, even when
\* none of its lines can be parsed.
seed_seq_locked ==
  LET used == {k \in 0 .. max_files - 1 : Log[k] # <<>>} IN
  IF next_seq # 0 THEN next_seq
  ELSE IF used = {} \/ Seqs(Log[Min(used)]) = {} THEN 1
  ELSE Max(Seqs(Log[Min(used)])) + 1

\* ops_append up to the decision to rotate.
ops_append ==
  /\ pc = "idle" /\ seed_seq_locked <= SeqMax
  /\ next_seq' = seed_seq_locked
  /\ \/ /\ Log[0] # <<>> /\ Len(Log[0]) + 1 > MaxBytes
        /\ pc' = "rotate" /\ i' = max_files - 1
     \/ /\ Log[0] = <<>> \/ Len(Log[0]) + 1 <= MaxBytes
        /\ pc' = "write" /\ UNCHANGED i
  /\ UNCHANGED <<segs, dir, max_files, acked, world>>

\* rotate_locked: with one file it truncates; otherwise one rename after the
\* other, from the oldest segment to the main file (a missing source is no
\* error and leaves the target alone).
rotate_locked ==
  /\ pc = "rotate"
  /\ \/ /\ max_files = 1
        /\ segs' = [segs EXCEPT ![dir][0] = <<>>]
        /\ pc' = "write" /\ i' = 0
     \/ /\ max_files > 1
        /\ segs' = IF Log[i - 1] = <<>> THEN segs
                   ELSE [segs EXCEPT ![dir][i] = Log[i - 1], ![dir][i - 1] = <<>>]
        /\ i' = i - 1
        /\ pc' = IF i = 1 THEN "clean" ELSE "rotate"
  /\ UNCHANGED <<dir, max_files, next_seq, acked, world>>

\* The segments above max_files are removed.
RotateClean ==
  /\ pc = "clean"
  /\ segs' = [segs EXCEPT ![dir] = [k \in Idx |-> IF k < max_files THEN @[k] ELSE <<>>]]
  /\ pc' = "write"
  /\ UNCHANGED <<dir, max_files, next_seq, i, acked, world>>

\* A line reaches the end of the main file: after an unfinished line it
\* becomes part of it.
WithLine(lines, kind) ==
  IF lines # <<>> /\ Last(lines).kind \in {"cut", "short"}
  THEN Front(lines) \o <<[seq |-> next_seq, kind |-> "bad"]>>
  ELSE Append(lines, [seq |-> next_seq, kind |-> kind])

\* fwrite into the stream's buffer (which succeeds), next_seq++, and fclose,
\* whose result is not looked at.
AppendWrite ==
  /\ pc = "write"
  /\ \/ segs' = [segs EXCEPT ![dir][0] = WithLine(@, "good")]
     \/ world.full /\ UNCHANGED segs
     \/ world.full /\ \E kind \in {"cut", "short"} :
                      segs' = [segs EXCEPT ![dir][0] = WithLine(@, kind)]
  /\ next_seq' = next_seq + 1
  /\ pc' = "return"
  /\ UNCHANGED <<dir, max_files, i, acked, world>>

AppendReturn ==
  /\ pc = "return"
  /\ acked' = [acked EXCEPT ![dir] = Append(@, next_seq - 1)]
  /\ pc' = "idle"
  /\ UNCHANGED <<segs, dir, max_files, next_seq, i, world>>

\* A system call fails and append returns an error.
AppendError ==
  /\ world.io /\ pc \in {"rotate", "clean", "write"}
  /\ pc' = "idle"
  /\ UNCHANGED <<segs, dir, max_files, next_seq, i, acked, world>>

\* ops_status fills in the next sequence number.
ops_status ==
  /\ pc = "idle" /\ next_seq = 0
  /\ next_seq' = seed_seq_locked
  /\ UNCHANGED <<segs, dir, max_files, pc, i, acked, world>>

\* hw_audit_configure: audit.log.max_files, and audit.log.path with a new
\* directory.
ConfigureFiles ==
  /\ pc = "idle" /\ world.reconf
  /\ max_files' \in world.files \ {max_files}
  /\ UNCHANGED <<segs, dir, next_seq, pc, i, acked, world>>

ConfigurePath ==
  /\ pc = "idle" /\ world.reconf
  /\ dir' \in Dirs \ {dir}
  /\ next_seq' = 0
  /\ UNCHANGED <<segs, max_files, pc, i, acked, world>>

\* The process ends and a new one is started with the same configuration.
AuditCrash ==
  /\ world.crash
  /\ next_seq' = 0 /\ pc' = "idle"
  /\ UNCHANGED <<segs, dir, max_files, i, acked, world>>

(* Reading; a query changes nothing, and the properties ask every one.     *)

ASC == 0
DESC == 1

\* The lines of a segment that parse.
EventsOf(lines) ==
  FlattenSeq([k \in DOMAIN lines |-> IF Parses(lines[k]) THEN <<lines[k]>> ELSE <<>>])

\* collect_locked: the lines that parse, the oldest segment first, turned round
\* for DESC and cut behind the first limit events (0: not cut).
collect_locked(d, order, limit) ==
  LET events == FlattenSeq([k \in 1 .. max_files |-> EventsOf(segs[d][max_files - k])])
      sorted == IF order = DESC THEN Reverse(events) ELSE events IN
  IF limit > 0 /\ Len(sorted) > limit THEN SubSeq(sorted, 1, limit) ELSE sorted

AuditNext ==
  \/ ops_append \/ rotate_locked \/ RotateClean \/ AppendWrite \/ AppendReturn
  \/ AppendError \/ ops_status \/ ConfigureFiles \/ ConfigurePath \/ AuditCrash

AuditSpec == AuditInit /\ [][AuditNext]_auditVars

-----------------------------------------------------------------------------
(* Properties.                                                             *)

Found(d) == {l.seq : l \in ToSet(collect_locked(d, ASC, 0))}

\* A query returns the events in the order it asks for (audit.h,
\* HW_AUDIT_ORDER_ASC and _DESC), and with a limit the oldest or the newest of
\* them, also half way through a rotation that was cut off.
QueryOrdered ==
  \A d \in Dirs :
    LET all == collect_locked(d, ASC, 0) IN
    /\ \A k \in 1 .. Len(all) - 1 : all[k].seq < all[k + 1].seq
    /\ \A limit \in 1 .. Len(all) :
         LET oldest == collect_locked(d, ASC, limit)  newest == collect_locked(d, DESC, limit) IN
         /\ Len(oldest) = limit /\ Len(newest) = limit
         /\ \A s \in Seqs(oldest), other \in Found(d) \ Seqs(oldest) : s < other
         /\ \A s \in Seqs(newest), other \in Found(d) \ Seqs(newest) : s > other

\* No two events of one directory are given the same number, over restarts,
\* failed calls and changes of directory (comment of seed_seq_locked).
SeqNeverReused == \A d \in Dirs : IsInjective(acked[d])

\* Rotation drops the oldest events only: between calls, every event append
\* has reported and that is not older than one still found is found itself,
\* and the newest event found is no older than the last one reported.  (Not
\* on a full disk: append does not look at the result of fclose.)
KeepsNewest ==
  pc = "idle" /\ ~world.full => \A d \in Dirs :
    /\ acked[d] # <<>> => \E f \in Found(d) : f >= Last(acked[d])
    /\ \A s \in ToSet(acked[d]) : (\E f \in Found(d) : f <= s) => s \in Found(d)

\* The log in the middle of every append, rotation and restart: read in the
\* order of numbers that are never given twice, and after a rotation without a
\* gap behind the newest event.
AuditSound == AuditTypeOK /\ QueryOrdered /\ SeqNeverReused /\ KeepsNewest
=============================================================================
