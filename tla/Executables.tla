---------------------------- MODULE Executables ----------------------------
(***************************************************************************)
(* The loader plugin: loader_detect.c, loader_elf.c, and the routing of    *)
(* load, run and unload in loader_run.c.  What becomes of a child that run *)
(* starts is in Processes.                                                 *)
(*                                                                         *)
(* A behaviour is about one file, which nobody changes meanwhile.  An      *)
(* image has its first bytes (`lead`, the format whose magic they are) and *)
(* what follows "#!" (`line`); an ELF image also has the bytes of its      *)
(* header as they are in the file: `half` gives the halfwords at the       *)
(* offsets 56, 60 and 62, which are the counts of an ELF64 header but lie  *)
(* behind an ELF32 header, and `entries` and `sections` the types of the   *)
(* program headers and the lengths of the section names found one after    *)
(* the other from the two tables' offsets to the end of the file; `phnum`  *)
(* is how many program headers there are.  An ELF image has less than 52   *)
(* bytes or at least 64: between the two the code reads fields of the      *)
(* header from behind the file.                                            *)
(***************************************************************************)
EXTENDS Integers, SequencesExt, FiniteSetsExt

CONSTANTS Images,
          Handles,     \* the caller's handles
          HeadMax,     \* bytes of the file that detection reads (64)
          PhMax,       \* program headers looked at (8)
          NamesCap,    \* size of section_names (512)
          NameMax,     \* what is taken of one name (63)
          MaxLoads     \* bound on the loads of a behaviour

ASSUME LoaderAssumption ==
  /\ HeadMax \in Nat /\ HeadMax > 2 /\ PhMax \in Nat \ {0}
  /\ NameMax \in Nat \ {0} /\ NamesCap \in Nat /\ NamesCap > NameMax + 1
  /\ IsFiniteSet(Handles)

VARIABLES image, handles, next_id,
          resident,      \* references to the image that the dynamic linker counts
          outcome      \* of the last call; "replaced": the caller's program is gone
imageVars == <<image, handles, next_id, resident, outcome>>

NoHandle == [id |-> 0, format |-> "UNKNOWN", mode |-> "NONE", dl |-> FALSE]

-----------------------------------------------------------------------------
\* Detection.
MagicTable == <<"ELF", "PE", "MACHO", "WASM", "APK", "JAVA">>

Format(img) ==
  CASE img.lead = "#!" -> "SCRIPT"
    [] img.lead = "MACHOBE" -> "MACHO"
    [] \E i \in 1 .. Len(MagicTable) : MagicTable[i] = img.lead -> img.lead
    [] OTHER -> "UNKNOWN"

\* loader_detect_impl succeeds; an empty file has no magic either.
Detected(img) == Format(img) # "UNKNOWN"

\* The word after "#!", as far as the head of the file holds it.
Interpreter(img) ==
  LET head == SubSeq(img.line, 1, Min({Len(img.line), HeadMax - 2}))
      ends == {k \in 1 .. Len(head) : head[k] \in {" ", "\t", "\n"}}
  IN IF ends = {} THEN head ELSE SubSeq(head, 1, Min(ends) - 1)

loader_formats_impl(cap) ==
  LET all == <<"SCRIPT">> \o MagicTable \o <<"MACHO">> IN SubSeq(all, 1, Min({cap, Len(all)}))

-----------------------------------------------------------------------------
\* The header.  want_be gets the identification from its second byte on, so that
\* it looks at the version where the byte order should be.
want_be(img) == img.version = 2
InOrder(img) == want_be(img) <=> img.data = 2
rd16(img, v) == IF InOrder(img) THEN v ELSE (v % 256) * 256 + v \div 256

read_all(img) == img.len <= 64 * 1024 * 1024
loader_elf_impl(img) == read_all(img) /\ img.len >= 52

\* parse_ph32 and parse_ph64.  An offset read in the wrong order lies far behind
\* the 64 MB that a file may have.
ProgramHeaders(img) ==
  IF InOrder(img)
  THEN SubSeq(img.entries, 1, Min({rd16(img, img.half[56]), PhMax, Len(img.entries)}))
  ELSE <<>>

\* Mutant: what has an interpreter is a library, too.
AnyDynIsLibrary(img) == rd16(img, img.type) = 3

loader_is_library(img) ==
  rd16(img, img.type) = 3 /\ ~ Contains(ProgramHeaders(img), "PT_INTERP")

\* parse_sections: how many sections it reads, and what it takes of a name; the
\* numbers of the sections whose names are in section_names, and the next position.
Seen(img) ==
  IF InOrder(img) THEN Min({rd16(img, img.half[60]), 40, Len(img.sections)}) ELSE 0
Named(img) ==
  LET strings == rd16(img, img.half[62]) IN
  strings # 0 /\ strings < rd16(img, img.half[60]) /\ strings < Len(img.sections)
NameLen(img, k) == IF Named(img) THEN Min({img.sections[k], NameMax}) ELSE 0

NamesNone == [pos |-> 0, names |-> <<>>]
AddName(img, s, k) ==
  LET n == NameLen(img, k) IN
  CASE n = 0 -> s
    [] n > 0 /\ s.pos = 0 -> [pos |-> n, names |-> <<k>>]
    [] n > 0 /\ s.pos > 0 /\ s.pos + n + 2 < NamesCap ->
         [pos |-> s.pos + n + 1, names |-> Append(s.names, k)]
    [] OTHER -> s
section_names(img) ==
  LET upto[k \in 0 .. Seen(img)] ==
        IF k = 0 THEN NamesNone ELSE AddName(img, upto[k - 1], k)
  IN upto[Seen(img)]

-----------------------------------------------------------------------------
\* Runs of the plugin on the image.
LoaderInit ==
  /\ image \in Images /\ handles = [h \in Handles |-> NoHandle] /\ next_id = 1
  /\ resident = 0 /\ outcome = "OK"

Fills(h, mode, rc) ==
  /\ handles' = [handles EXCEPT ![h] = [id |-> next_id, format |-> Format(image), mode |-> mode,
                                        dl |-> mode = "DLOPEN"]]
  /\ next_id' = next_id + 1 /\ outcome' = rc
  /\ resident' = IF mode = "DLOPEN" THEN resident + 1 ELSE resident

\* The dynamic linker takes a library of this machine, but may miss what it needs.
Linkable == image.class = 64 /\ image.data = 1 /\ image.type = 3

\* The handle is cleared first, so a caller gives one that holds nothing.
loader_load_impl(h) ==
  /\ outcome # "replaced" /\ next_id <= MaxLoads /\ ~ handles[h].dl
  /\ UNCHANGED image
  /\ \/ /\ ~ Detected(image)
        /\ handles' = [handles EXCEPT ![h] = NoHandle] /\ outcome' = "ENOEXEC"
        /\ UNCHANGED <<next_id, resident>>
     \/ Format(image) = "ELF" /\ ~ loader_elf_impl(image) /\ Fills(h, "NONE", "ENOEXEC")
     \/ /\ Format(image) = "ELF" /\ loader_elf_impl(image) /\ loader_is_library(image)
        /\ \/ Linkable /\ Fills(h, "DLOPEN", "OK")
           \/ Fills(h, "NONE", "ENOENT")
     \/ /\ Format(image) = "ELF" /\ loader_elf_impl(image) /\ ~ loader_is_library(image)
        /\ Fills(h, "INFO", "OK")
     \/ Detected(image) /\ Format(image) # "ELF" /\ Fills(h, "INFO", "OK")

loader_unload_impl(h) ==
  /\ outcome # "replaced" /\ outcome' = "OK" /\ UNCHANGED <<image, next_id>>
  /\ LET closes == handles[h].mode = "DLOPEN" /\ handles[h].dl IN
     /\ resident' = IF closes THEN resident - 1 ELSE resident
     /\ handles' = [handles EXCEPT ![h].mode = "NONE", ![h].dl = ~ closes /\ @]

\* run_script calls exec where it is: it comes back only if that fails.
run_script ==
  IF Interpreter(image) = <<>> THEN outcome' = "ENOEXEC" ELSE outcome' \in {"replaced", "ENOENT"}

loader_run_impl ==
  /\ outcome # "replaced" /\ UNCHANGED <<image, handles, next_id, resident>>
  /\ \/ Format(image) = "SCRIPT" /\ run_script
     \/ ~ Detected(image) /\ outcome' = "ENOEXEC"
     \/ /\ Format(image) = "ELF"
        /\ outcome' = IF ~ loader_elf_impl(image) THEN "ENOEXEC"
                      ELSE IF loader_is_library(image) THEN "ENOTSUP" ELSE "started"
     \/ Detected(image) /\ Format(image) \notin {"ELF", "SCRIPT"} /\ outcome' = "ENOTSUP"

LoaderNext ==
  \/ \E h \in Handles : loader_load_impl(h) \/ loader_unload_impl(h)
  \/ loader_run_impl
LoaderSpec == LoaderInit /\ [][LoaderNext]_imageVars

-----------------------------------------------------------------------------
\* An image for the machine the bus runs on, complete and with PT_INTERP where the
\* format wants it: before the segments to load.
Native(img) == Format(img) = "ELF" /\ img.class = 64 /\ img.data = 1
               /\ img.len >= 64 /\ read_all(img)

\* What the file says of itself: the table of program headers has phnum entries,
\* whatever comes after them.
DeclaresInterp(img) ==
  \E k \in 1 .. Len(img.entries) : k <= img.phnum /\ img.entries[k] = "PT_INTERP"
DeclaresLibrary(img) == img.type = 3 /\ ~ DeclaresInterp(img)

\* Room for all names of the sections, each with the separator behind it.
NamesSize(img) ==
  LET upto[k \in 0 .. Len(img.sections)] ==
        IF k = 0 THEN 0 ELSE upto[k - 1] + img.sections[k] + 1
  IN upto[Len(img.sections)]

\* What is in a file, and what the ELF format wants of a native one: version 1, the
\* number of program headers in its place, and PT_INTERP before the segments to load.
\* The headers before it are few enough for it to be among those that are read.
ASSUME ImagesAssumption ==
  \A img \in Images :
    /\ img.line \in Seq(STRING) /\ img.entries \in Seq(STRING) /\ img.sections \in Seq(Nat)
    /\ \A at \in {56, 60, 62} : img.half[at] \in Nat
    /\ Native(img) =>
         /\ img.version = 1 /\ img.half[56] = img.phnum
         /\ DeclaresInterp(img) => \E k \in 1 .. PhMax : /\ k <= Len(img.entries) /\ k <= img.phnum
                                                        /\ img.entries[k] = "PT_INTERP"

\* What the loader believes of a native image is what the image declares, so a
\* program is never made resident and a library never started (loader_run.c:
\* loader_is_library, on what loader_elf.c reads); only a script takes the place
\* of its caller; get_formats has an entry for every format that detection can
\* answer; the names of the sections are given in order, and all of them where
\* there is room.
ImageUnderstood ==
  /\ Native(image) => /\ outcome = "started" => ~ DeclaresLibrary(image)
                      /\ outcome = "ENOTSUP" \/ resident > 0 => DeclaresLibrary(image)
  /\ outcome = "replaced" => image.lead = "#!" /\ image.line[1] \notin {" ", "\t", "\n"}
  /\ Detected(image) => Format(image) \in ToSet(loader_formats_impl(8))
  /\ Native(image) =>
       LET told == section_names(image)
       IN /\ told.pos < NamesCap
          /\ \A i, j \in 1 .. Len(told.names) : i < j => told.names[i] < told.names[j]
          /\ image.half[62] \in 1 .. image.half[60] - 1 /\ NamesSize(image) < NamesCap
               /\ Len(image.sections) = image.half[60] /\ image.half[60] <= 40
             => \A k \in 1 .. Len(image.sections) :
                  image.sections[k] > 0 => Contains(told.names, k)

\* The linker's references are those of the handles in use, and no two handles
\* that were ever filled have one number, whatever loads failed in between.
HandlesSound ==
  /\ resident = Cardinality({h \in Handles : handles[h].dl})
  /\ \A h \in Handles : handles[h].dl <=> handles[h].mode = "DLOPEN"
  /\ \A h, k \in Handles : h # k /\ handles[h].id # 0 => handles[h].id # handles[k].id

\* loader_elf.c:6 says that the parser supports 32 and 64 bits and both byte orders:
\* then the loader understands those images as well, whether or not the machine can
\* execute them.
AnyElfUnderstood ==
  Format(image) = "ELF" /\ image.len >= 64 /\ outcome \in {"ENOTSUP", "started"} =>
    (outcome = "ENOTSUP" <=> DeclaresLibrary(image))

\* loader.h:116 says that a script is started by fork and exec, as a program is: the
\* caller of run goes on.
RunReturnsToCaller == outcome # "replaced"

\* Every call of the loader leaves both.
LoaderSound == ImageUnderstood /\ HandlesSound
=============================================================================
