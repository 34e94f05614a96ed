------------------------------ MODULE Compress ------------------------------
(***************************************************************************)
(* compress_impl.c: compression and decompression of files, chunk by       *)
(* chunk, and of buffers.  The codecs are external: a compressed stream is *)
(* a head with its kind, units of up to Ratio bytes each, and a tail with  *)
(* the check; a codec keeps what it has taken and not given out yet.       *)
(*                                                                         *)
(* One call runs at a time; it shares only the file system with others,    *)
(* and calls on the same paths at once are left out, as are calls whose    *)
(* input and output are one path and files that hold several streams.      *)
(* Buffers have room for every result: their capacities are uint32_t, and  *)
(* results of 2 GiB and more, where doubling one gives 0, are left out.    *)
(***************************************************************************)
EXTENDS Callers, Integers, SequencesExt, FiniteSetsExt

CONSTANTS Paths,
          Texts,            \* contents to compress: sequences of bytes
          Chunk, Ratio,     \* CHUNK; bytes in a unit of a stream
          FirstCap          \* the 4096 bytes a buffer starts with

ASSUME CompressAssumption ==
  /\ Chunk \in Nat \ {0} /\ Ratio \in Nat \ {0} /\ FirstCap \in Nat \ {0}
  /\ \A t \in Texts : t \in Seq(ToSet(t)) /\ \A b \in ToSet(t) : b[1] = "byte"

VARIABLES files,            \* contents of the files
          call              \* the locals of the call that runs, or of the last one

compressVars == <<files, call>>

Supported == {"zlib", "gzip", "zstd"}
Algos == Supported \cup {"auto", "xz"}
Absent == <<<<"absent", "none">>>>
Missing(p) == files[p] = Absent

Header(k) == <<"head", k>>
Trailer(k) == <<"tail", k>>
Units(text) ==
  [n \in 1 .. (Len(text) + Ratio - 1) \div Ratio |->
     <<"data", SubSeq(text, (n - 1) * Ratio + 1, Min({n * Ratio, Len(text)}))>>]
Frame(k, text) == <<Header(k)>> \o Units(text) \o <<Trailer(k)>>
Bytes(units) ==
  LET upTo[n \in 0 .. Len(units)] ==
        IF n = 0 THEN <<>>
        ELSE upTo[n - 1] \o (IF units[n][1] = "data" THEN units[n][2] ELSE <<>>)
  IN upTo[Len(units)]

\* A stream as compressed, cut short, or with a tail that does not check.
Streams ==
  UNION {LET f == Frame(k, t) IN
           {SubSeq(f, 1, n) : n \in 0 .. Len(f)} \cup {[f EXCEPT ![Len(f)] = Trailer("bad")]}
           : k \in Supported, t \in Texts}
Finished(c) == c # <<>> /\ Last(c)[1] = "tail"
Texty(c) == c # Absent /\ \A n \in DOMAIN c : c[n][1] = "byte"

\* compress_detect, by the magic number.
Detect(c) == IF c # <<>> /\ c[1][1] = "head" THEN c[1][2] ELSE "auto"
Zlibs == {"zlib", "gzip"}   \* inflateInit2 with 32 + 15 takes both

Idle == [pc |-> "idle"]
CompressInit ==
  /\ files \in [Paths -> Texts \cup Streams \cup {Absent}]
  /\ \E p \in Paths : ~Missing(p) /\ \A q \in Paths \ {p} : Missing(q)
  /\ call = Idle

-----------------------------------------------------------------------------
(* The call.  "held" is the input as the call found it, "was" what its      *)
(* reads make of it.                                                       *)

Start(op, kind, input) ==
  [pc |-> "idle", op |-> op, kind |-> kind, in |-> input, out |-> input, keep |-> TRUE,
   held |-> <<>>, was |-> <<>>, pos |-> 0, ibuf |-> <<>>, last |-> FALSE, pend |-> <<>>,
   queue |-> <<>>, inside |-> FALSE, buffered |-> <<>>, cap |-> 0, given |-> <<>>,
   ret |-> "none", fault |-> FALSE]

Goto(pc) == call' = [call EXCEPT !.pc = pc]
Return(ret) == [call EXCEPT !.pc = "returned", !.ret = ret]
\* An error ends in the removal of the output.
Give(ret) == [call EXCEPT !.pc = "remove_out", !.ret = ret]
Fault(c) == [c EXCEPT !.fault = TRUE]

\* impl_file, until its streams are open and the kind is known.
OpenFiles(op, algo, p, q, keep) ==
  LET kind == IF algo # "auto" THEN algo
              ELSE IF op = "compress" THEN "zstd" ELSE Detect(files[p])
      c == [Start(op, kind, p) EXCEPT !.out = q, !.keep = keep, !.held = files[p], !.was = files[p],
              !.queue = IF op = "compress" THEN <<Header(kind)>> ELSE <<>>]
  IN /\ call.pc = "idle" /\ p # q /\ ~Missing(p)
     /\ op = "compress" => Texty(files[p])
     /\ \/ /\ files' = [files EXCEPT ![q] = <<>>]
           /\ call' = IF kind \in Supported THEN [c EXCEPT !.pc = "read"]
                      ELSE [c EXCEPT !.pc = "remove_out", !.ret = "ENOTSUP"]
        \/ /\ Faults                    \* fopen of the output
           /\ call' = Fault([c EXCEPT !.pc = "returned", !.ret = "errno", !.out = p])
           /\ UNCHANGED files

\* fread of the next chunk, at the places where each loop does it.
Chunked == SubSeq(call.was, call.pos + 1, Min({call.pos + Chunk, Len(call.was)}))
ReadChunk ==
  /\ call.pc = "read"
  /\ call' = [call EXCEPT
       !.ibuf = Chunked, !.pos = @ + Len(Chunked), !.last = Len(Chunked) < Chunk,
       !.pc = IF call.op = "compress" THEN "deflate" ELSE "inflate"]
  /\ UNCHANGED files

\* A read that fails gives less than a chunk, or nothing, which is taken for the end of
\* the input.  Only ZSTD's decoder goes on as long as anything is read.
ReadFails ==
  /\ Faults /\ call.pc = "read"
  /\ \E n \in 0 .. Len(Chunked) - 1 :
       LET c == [call EXCEPT !.ibuf = SubSeq(Chunked, 1, n), !.pos = @ + n]
       IN IF call.op = "decompress" /\ call.kind \notin Zlibs
          THEN IF n = 0 THEN call' = Fault(Give("EILSEQ")) ELSE call' = [c EXCEPT !.pc = "inflate"]
          ELSE call' = [c EXCEPT !.was = SubSeq(@, 1, call.pos + n), !.last = TRUE,
                          !.pc = IF call.op = "compress" THEN "deflate" ELSE "inflate"]
  /\ UNCHANGED files

\* fwrite: what was written before reaches the file, the rest with fclose.
Write(c, data) ==
  IF data = <<>> THEN /\ call' = c /\ UNCHANGED files
  ELSE \/ /\ files' = [files EXCEPT ![call.out] = @ \o call.buffered]
          /\ call' = [c EXCEPT !.buffered = data]
       \/ Faults /\ call' = Fault(Give("EIO")) /\ UNCHANGED files

\* One deflate or ZSTD_compressStream2 with an output chunk.  The encoder takes
\* its input unless it has more to give out than fits.
Deflate ==
  LET takes == Len(call.queue) <= Chunk
      text == IF takes THEN call.pend \o call.ibuf ELSE call.pend
      ends == call.last /\ takes
      whole == IF ends THEN Len(text) ELSE (Len(text) \div Ratio) * Ratio
      ready == call.queue \o Units(SubSeq(text, 1, whole))
                 \o (IF ends /\ ~call.inside THEN <<Trailer(call.kind)>> ELSE <<>>)
      made == SubSeq(ready, 1, Min({Chunk, Len(ready)}))
      left == SubSeq(ready, Len(made) + 1, Len(ready))
      c == [call EXCEPT !.ibuf = IF takes THEN <<>> ELSE @, !.inside = @ \/ ends,
              !.pend = SubSeq(text, whole + 1, Len(text)), !.queue = left]
  IN /\ call.pc = "deflate"
     /\ Write([c EXCEPT !.pc = IF c.inside /\ left = <<>> THEN "close"
                               ELSE IF ~call.last /\ c.ibuf = <<>> THEN "read"
                               ELSE "deflate"], made)

\* One inflate or ZSTD_decompressStream with room for output: bytes given out,
\* bytes kept, input left and what is said of the stream.  The tail is taken
\* when everything before it has been given out.
Decoded(room) ==
  LET us == call.ibuf
      wrong == ~call.inside /\ us # <<>> /\
                 us[1] \notin {Header(k) : k \in IF call.kind \in Zlibs THEN Zlibs ELSE {"zstd"}}
      have(n) == call.pend \o Bytes(SubSeq(us, 1, n))
      taken == IF Len(have(Len(us))) <= room THEN Len(us)
               ELSE Min({n \in 0 .. Len(us) : Len(have(n)) > room})
      out == SubSeq(have(taken), 1, Min({room, Len(have(taken))}))
      lastUnit == IF taken = 0 THEN <<"none", "none">> ELSE us[taken]
  IN [out |-> IF wrong THEN <<>> ELSE out,
      pend |-> SubSeq(have(taken), Len(out) + 1, Len(have(taken))),
      ibuf |-> SubSeq(us, taken + 1, Len(us)),
      inside |-> call.inside \/ us # <<>>,
      says |-> IF wrong \/ lastUnit = Trailer("bad") THEN "error"
               ELSE IF lastUnit[1] = "tail" THEN "end" ELSE "ok"]

\* file_decompress_zlib and file_decompress_zstd: no input left is an unfinished
\* stream, when the last chunk was short and when there is nothing to read.
Inflate ==
  LET d == Decoded(Chunk)
      c == [call EXCEPT !.ibuf = d.ibuf, !.pend = d.pend, !.inside = d.inside]
      cut == d.ibuf = <<>> /\ (IF call.kind \in Zlibs THEN call.last
                               ELSE call.pos = Len(call.was))
  IN /\ call.pc = "inflate"
     /\ \/ /\ d.says = "end" /\ Write([c EXCEPT !.pc = "close"], d.out)
        \/ /\ d.says = "error" /\ call' = Give("EILSEQ") /\ UNCHANGED files
        \/ /\ d.says = "ok"
           /\ Write(IF cut THEN [c EXCEPT !.pc = "remove_out", !.ret = "EILSEQ"]
                    ELSE [c EXCEPT !.pc = IF d.ibuf = <<>> THEN "read" ELSE "inflate"], d.out)

\* Mutant: the result of fclose is not looked at.
CloseOutUnchecked ==
  /\ call.pc = "close"
  /\ files' \in {files, [files EXCEPT ![call.out] = @ \o call.buffered]}
  /\ call' = [call EXCEPT !.buffered = <<>>, !.pc = "remove_in", !.ret = "OK"]

CloseOut ==
  /\ call.pc = "close"
  /\ \/ /\ files' = [files EXCEPT ![call.out] = @ \o call.buffered]
        /\ call' = [call EXCEPT !.buffered = <<>>, !.pc = "remove_in", !.ret = "OK"]
     \/ Faults /\ call' = Fault(Give("EIO")) /\ UNCHANGED files

RemoveOut ==
  /\ call.pc = "remove_out"
  /\ files' = [files EXCEPT ![call.out] = Absent]
  /\ Goto("returned")

RemoveIn ==
  /\ call.pc = "remove_in"
  /\ files' = IF call.keep THEN files ELSE [files EXCEPT ![call.in] = Absent]
  /\ Goto("returned")

-----------------------------------------------------------------------------
(* compress_buffer and compress_decompress, on what a file holds.           *)

CompressBuffer(algo, text) ==
  LET kind == IF algo = "auto" THEN "zstd" ELSE algo
      c == [Start("compress_buffer", kind, "none") EXCEPT !.pc = "returned", !.was = text]
  IN /\ call.pc = "idle" /\ Texty(text)
     /\ \/ call' = IF kind \in Supported
                   THEN [c EXCEPT !.ret = "OK", !.given = Frame(kind, text)]
                   ELSE [c EXCEPT !.ret = "ENOTSUP"]
        \/ Faults /\ call' = Fault([c EXCEPT !.ret = "ENOMEM"])
     /\ UNCHANGED files

\* ZSTD_getFrameContentSize knows the size, or not, of any stream with a head.
DecompressBuffer(algo, stream) ==
  LET kind == IF algo = "auto" THEN Detect(stream) ELSE algo
      c == [Start("decompress_buffer", kind, "none") EXCEPT
              !.was = stream, !.ibuf = stream, !.cap = FirstCap, !.last = TRUE]
      size == Len(Bytes(stream))
  IN /\ call.pc = "idle" /\ stream # Absent
     /\ \/ /\ kind \in Supported
           /\ \/ call' = [c EXCEPT !.pc = "grow"]
              \/ /\ kind = "zstd" /\ size > 0 /\ Finished(stream)
                 /\ call' = [c EXCEPT !.pc = "grow", !.cap = size]
        \/ /\ kind \notin Supported
           /\ call' = [c EXCEPT !.pc = "returned",
                          !.ret = IF kind = "xz" THEN "ENOTSUP" ELSE "EILSEQ"]
        \/ Faults /\ call' = Fault([c EXCEPT !.pc = "returned", !.ret = "ENOMEM"])
     /\ UNCHANGED files

\* Mutant: no progress is not noticed.
GrowForever ==
  LET d == Decoded(call.cap - Len(call.given))
      c == [call EXCEPT !.ibuf = d.ibuf, !.pend = d.pend, !.inside = d.inside,
              !.given = @ \o d.out]
  IN /\ call.pc = "grow"
     /\ \/ /\ Len(call.given) = call.cap /\ d.says = "ok"
           /\ call' = [call EXCEPT !.cap = 2 * @]
        \/ /\ Len(call.given) < call.cap \/ d.says # "ok"
           /\ call' = CASE d.says = "end" -> [c EXCEPT !.pc = "returned", !.ret = "OK"]
                        [] d.says = "error" -> Return("EILSEQ")
                        [] OTHER -> c
     /\ UNCHANGED files

\* A round of the loops of buf_decompress_zlib and buf_decompress_zstd: the
\* output doubles when it is full, and the decoder goes on.  ZSTD fails when it
\* makes no progress; inflate answers Z_BUF_ERROR, and the loop goes round.
Grow ==
  LET d == Decoded(call.cap - Len(call.given))
      c == [call EXCEPT !.ibuf = d.ibuf, !.pend = d.pend, !.inside = d.inside,
              !.given = @ \o d.out]
      stalled == call.kind = "zstd" /\ d.out = <<>> /\ d.ibuf = call.ibuf
  IN /\ call.pc = "grow"
     /\ \/ /\ Len(call.given) = call.cap /\ d.says = "ok"
           /\ \/ call' = [call EXCEPT !.cap = 2 * @]
              \/ Faults /\ call' = Fault(Return("ENOMEM"))
        \/ /\ Len(call.given) < call.cap \/ d.says # "ok"
           /\ call' = CASE d.says = "end" -> [c EXCEPT !.pc = "returned", !.ret = "OK"]
                        [] d.says = "error" \/ stalled -> Return("EILSEQ")
                        [] OTHER -> c
     /\ UNCHANGED files

-----------------------------------------------------------------------------
\* The caller has its answer; or the process ends, and what was not flushed is lost.
Done == call.pc = "returned" /\ call' = Idle /\ UNCHANGED files
Crash == call.pc # "idle" /\ call' = Idle /\ UNCHANGED files

CompressStep ==
  ReadChunk \/ ReadFails \/ Deflate \/ Inflate \/ CloseOut \/ RemoveOut \/ RemoveIn \/ Grow \/ Done

CompressNext ==
  \/ \E op \in {"compress", "decompress"}, algo \in Algos, p, q \in Paths, keep \in BOOLEAN :
       OpenFiles(op, algo, p, q, keep)
  \/ \E algo \in Algos, p \in Paths : CompressBuffer(algo, files[p])
  \/ \E algo \in Algos, p \in Paths : DecompressBuffer(algo, files[p])
  \/ CompressStep
  \/ Crash

CompressSpec ==
  CompressInit /\ [][CompressNext]_compressVars /\ WF_compressVars(CompressStep)

-----------------------------------------------------------------------------
CompressTypeOK ==
  /\ \A p \in Paths : Missing(p) \/ Texty(files[p]) \/ Detect(files[p]) \in Supported
  /\ call.pc \in {"idle", "read", "deflate", "inflate", "close", "remove_out", "remove_in",
                  "grow", "returned"}

Compressing == call.pc # "idle" /\ call.op = "compress"
Decompressing == call.pc # "idle" /\ call.op = "decompress"

\* No read has failed before the end of the input.
AllRead == call.was = call.held

\* Until and after the input is removed, what it held can be had: from itself, or
\* from an output that is complete in the file, not only in stdio's buffer.  When a
\* read has failed, only what could be read is in the output of a compression.
OriginalRecoverable ==
  /\ Compressing /\ AllRead =>
       \/ files[call.in] = call.held
       \/ files[call.out] = Frame(call.kind, call.held)
  /\ Decompressing =>
       \/ files[call.in] = call.held
       \/ \E k \in Supported : call.held = Frame(k, files[call.out])

Whole(c) == \E k \in Supported, t \in Texts : c = Frame(k, t)
Fits(kind, c) == Detect(c) = kind \/ {Detect(c), kind} \subseteq Zlibs

\* A call on files that returns OK has written exactly the stream of the text
\* that was read, or the text of the whole stream; one that fails leaves its input
\* and no output.  When nothing else fails and all is read, a call fails only for a
\* kind that is not supported, or a stream that is cut, damaged or of another kind.
FileResultExact ==
  (call.pc = "returned" /\ call.op \in {"compress", "decompress"}) =>
    /\ call.ret = "OK" =>
         IF call.op = "compress" THEN files[call.out] = Frame(call.kind, call.was)
         ELSE \E k \in Supported : call.held = Frame(k, files[call.out])
    /\ call.ret # "OK" =>
         /\ files[call.in] = call.held
         /\ call.out # call.in => Missing(call.out)
         /\ \/ call.fault \/ ~AllRead \/ call.kind \notin Supported
            \/ call.op = "decompress" /\ (~Whole(call.held) \/ ~Fits(call.kind, call.held))

\* The same for buffers, whatever room the output buffer started with.
BufferResultExact ==
  (call.pc = "returned" /\ call.op \in {"compress_buffer", "decompress_buffer"}) =>
    /\ call.ret = "OK" =>
         IF call.op = "compress_buffer" THEN call.given = Frame(call.kind, call.was)
         ELSE \E k \in Supported : call.was = Frame(k, call.given)
    /\ call.ret # "OK" =>
         \/ call.fault \/ call.kind \notin Supported
         \/ call.op = "decompress_buffer"
              /\ (~Whole(call.was) \/ ~Fits(call.kind, call.was))

\* Every call comes back, whatever is in its input; but for a zlib or gzip stream that is
\* cut short and decompressed from a buffer, where inflate answers Z_BUF_ERROR for ever.
CutBuffer ==
  call.op = "decompress_buffer" /\ call.kind \in Zlibs /\ ~Finished(call.was)
CompressReturns == call.pc # "idle" /\ ~CutBuffer ~> call.pc = "idle"

\* A stream that is cut short is an error, as it is for files ("truncated: the stream has
\* not ended"): its call comes back too.
CutStreamsReturn == call.pc # "idle" ~> call.pc = "idle"

\* The result of every call is exact or an error, and at no moment is what the
\* input held lost, unless a read has failed.
ResultExact == CompressTypeOK /\ OriginalRecoverable /\ FileResultExact /\ BufferResultExact

\* What an input held that compression removes is in its output: it is removed after a
\* success only.  Fails when a read has failed: it is taken for the end of the input.
RemovedWhenCompressed ==
  Compressing =>
    \/ files[call.in] = call.held
    \/ files[call.out] = Frame(call.kind, call.held)
=============================================================================
