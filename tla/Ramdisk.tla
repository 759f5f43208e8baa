------------------------------ MODULE Ramdisk ------------------------------
(***************************************************************************)
(* The RAM disk (ramdisk.c): a tar archive in memory that the kernel walks *)
(* once, and the answers of the daemon to the requests OPEN, STAT and      *)
(* READ.  An archive is a sequence of files with a name and a size; memory *)
(* is a function from the addresses of blocks to what the walk can see     *)
(* there: the header of a file, contents, or the end.                      *)
(*                                                                         *)
(* A name is the sequence of its parts: "./init.elf" of the archive is     *)
(* <<".", init>>, and "/init.elf" of a request is <<init>>.                *)
(***************************************************************************)
EXTENDS Integers, SequencesExt

CONSTANTS
  NULL,        \* the null pointer
  BLOCK,       \* bytes in a block of the archive, 512
  WORD,        \* the arithmetic is modulo 2^32
  SizeDigits,  \* octal digits of the size in a header, 11
  Base         \* where the boot loader has put the archive

ASSUME RamdiskAssumption ==
  /\ BLOCK \in Nat \ {0} /\ WORD \in Nat \ {0}
  /\ SizeDigits \in Nat /\ Base \in Nat
  /\ NULL \notin Nat

-----------------------------------------------------------------------------
(* The archive as tar writes it. *)

Blocks(size) == (size + BLOCK - 1) \div BLOCK

(* The number of the block with the i-th header; of the end, for the last. *)
HeaderBlock(archive) ==
  LET block[i \in 1 .. Len(archive) + 1] ==
        IF i = 1 THEN 0 ELSE block[i - 1] + 1 + Blocks(archive[i - 1].size)
  IN  block

HeaderAt(archive, i) == Base + BLOCK * HeaderBlock(archive)[i]

(* What is left of a number when its last octal digits are taken off. *)
Shifted(size) ==
  LET rest[k \in 0 .. SizeDigits] == IF k = 0 THEN size ELSE rest[k - 1] \div 8
  IN  rest

Octal(size) == [k \in 1 .. SizeDigits |-> Shifted(size)[SizeDigits - k] % 8]

BlockOf(archive, n) ==
  IF n = HeaderBlock(archive)[Len(archive) + 1] THEN [kind |-> "end"]
  ELSE IF \E i \in 1 .. Len(archive) : HeaderBlock(archive)[i] = n
  THEN LET f == archive[CHOOSE i \in 1 .. Len(archive) : HeaderBlock(archive)[i] = n]
       IN  [kind |-> "header", filename |-> f.name, size |-> Octal(f.size)]
  ELSE [kind |-> "contents"]

Memory(archive) ==
  [a \in {Base + BLOCK * n : n \in 0 .. HeaderBlock(archive)[Len(archive) + 1]} |->
     BlockOf(archive, (a - Base) \div BLOCK)]

(* What the walk can work on: the digits are enough for the sizes, and the *)
(* archive lies in the lower half of the address space.  (It lies below    *)
(* HEAP_END, where what the kernel maps ends, at some 24 MB.)              *)
Loadable(archive) ==
  /\ Len(archive) \in Nat
  /\ \A i \in 1 .. Len(archive) :
       archive[i].size \in Nat /\ Shifted(archive[i].size)[SizeDigits] = 0
  /\ 2 * HeaderAt(archive, Len(archive) + 1) <= WORD

(* The first file of that name; 0 if there is none. *)
FileIndex(archive, name) == SelectInSeq(archive, LAMBDA f : f.name = name)

-----------------------------------------------------------------------------

AddDigit(sum, digit) ==
  [size |-> (sum.size + digit * sum.count) % WORD, count |-> (sum.count * 8) % WORD]

(* The octal number in the field size, from its last digit to the first. *)
get_size(in) ==
  LET upto[j \in 0 .. SizeDigits] ==
        IF j = 0 THEN [size |-> 0, count |-> 1]
        ELSE AddDigit(upto[j - 1], in[SizeDigits + 1 - j])
  IN  upto[SizeDigits].size

(* The address of the header behind the one at address.  (Mutated form:    *)
(* always a block for the remainder.)                                      *)
NextHeaderRounded(mem, address) ==
  address + (get_size(mem[address].size) \div BLOCK + 2) * BLOCK

NextHeader(mem, address) ==
  LET size == get_size(mem[address].size)
  IN  address + (size \div BLOCK + 1) * BLOCK
              + IF size % BLOCK # 0 THEN BLOCK ELSE 0

(* The walk goes to the header behind the last one if there is a name. *)
WalkOn(mem, done) ==
  LET a == IF done = <<>> THEN Base ELSE NextHeader(mem, Last(done))
  IN  IF a \in DOMAIN mem /\ mem[a].kind = "header" THEN Append(done, a) ELSE done

(* The array files, by walking from header to header until a name is empty *)
(* (count_files takes the same walk to allocate it).                       *)
add_files_to_list(mem) ==
  LET walk[n \in 0 .. Cardinality(DOMAIN mem)] ==
        IF n = 0 THEN <<>> ELSE WalkOn(mem, walk[n - 1])
  IN  walk[Cardinality(DOMAIN mem)]

(* GetRamDiskFile: the first file of that name. *)
GetRamDiskFile(mem, files, name) ==
  LET i == SelectInSeq(files, LAMBDA a : mem[a].filename = name)
  IN  IF i = 0 THEN NULL ELSE files[i]

(* GetRamDiskFileRel: a path is relative to the root of the archive, ".".  *)
(* A path of one character (the root itself, "/") is not appended: it is   *)
(* the empty sequence here.                                                *)
GetRamDiskFileRel(mem, files, path) == GetRamDiskFile(mem, files, <<".">> \o path)

RamDiskFileContent(mem, files, name) ==
  LET f == GetRamDiskFile(mem, files, name)
  IN  IF f = NULL THEN 0 ELSE f + BLOCK

-----------------------------------------------------------------------------

OK   == [sig |-> "SIGNAL_OK"]
FAIL == [sig |-> "SIGNAL_FAIL"]

(* FS_SIGNAL_OPEN: only for reading. *)
Open(mem, files, rq) ==
  IF rq.mode # "RO" \/ GetRamDiskFileRel(mem, files, rq.path) = NULL THEN FAIL ELSE OK

(* FS_SIGNAL_STAT: the answer carries the size. *)
Stat(mem, files, rq) ==
  LET f == GetRamDiskFileRel(mem, files, rq.path)
  IN  IF f = NULL THEN FAIL
      ELSE [sig |-> "SIGNAL_OK", st_size |-> get_size(mem[f].size)]

(* FS_SIGNAL_READ: stream the bytes, if they end inside of the file.  The  *)
(* sum wraps.  Without the file fsz is read from page 0 and not used.      *)
Read(mem, files, rq) ==
  LET f == GetRamDiskFileRel(mem, files, rq.path)
  IN  IF f = NULL THEN FAIL
      ELSE LET fsz == get_size(mem[f].size)
               sz  == IF rq.size < fsz THEN rq.size ELSE fsz
           IN  IF (rq.offset + sz) % WORD > fsz THEN FAIL
               ELSE [sig |-> "STREAM", from |-> (f + BLOCK + rq.offset) % WORD,
                     size |-> sz]

(* The answer to a request, by its signal. *)
AnswerTo(mem, files, rq) ==
  CASE rq.signal = "open" -> Open(mem, files, rq)
    [] rq.signal = "stat" -> Stat(mem, files, rq)
    [] rq.signal = "read" -> Read(mem, files, rq)

=============================================================================
