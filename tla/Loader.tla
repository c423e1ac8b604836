------------------------------- MODULE Loader -------------------------------
(***************************************************************************)
(* How a program gets into memory: bin/coff2noff.c turns the sections of   *)
(* the linker's COFF file into the three segments of a NOFF file, and      *)
(* AddrSpace of userprog/addrspace.cc reads these page by page, into       *)
(* frames or, compiled with VM, into the swap file.                        *)
(***************************************************************************)
EXTENDS Integers, Sequences

CONSTANTS
    PageSize, UserStackSize,
    HeaderSize,     \* sizeof(NoffHeader)
    TextSize, SectionSize   \* sizes of .text and of each other section

ASSUME LoaderAssumption ==
    /\ PageSize \in Nat \ {0} /\ UserStackSize \in Nat /\ HeaderSize \in Nat
    /\ TextSize \subseteq Nat \ {0} /\ SectionSize \subseteq Nat

VARIABLES
    VM,             \* compiled with VM
    sections,       \* the section headers of the COFF file
    i,              \* the next section to convert
    noffH, noffFile,        \* the NOFF header, and the bytes of the file
    loading,        \* what is being done, or what the outcome is
    vaddr, fileAddr, bytes_read,    \* progress of AddrSpace::ReadFile
    diskBuffer,
    memory,         \* the address space, by virtual address
    pages           \* VM: the pages that vm->AddPage has seen

ldVars == <<VM, sections, i, noffH, noffFile, loading, vaddr, fileAddr,
            bytes_read, diskBuffer, memory, pages>>

Junk == <<"junk", 0>>
Segment(v, f, n) == [virtualAddr |-> v, inFileAddr |-> f, size |-> n]
NoSegment == Segment(0, 0, 0)

(* The linker lays the sections out one after the other from 0; it may     *)
(* leave a gap before .bss to align it.                                    *)
Layout(text, rdata, data, sbss, gap, bss) ==
    LET Section(n, a, s) == [s_name |-> n, s_paddr |-> a, s_size |-> s] IN
    << Section(".text", 0, text), Section(".rdata", text, rdata),
       Section(".data", text + rdata, data),
       Section(".sbss", text + rdata + data, sbss),
       Section(".bss", text + rdata + data + sbss + gap, bss) >>

LoaderInit ==
    /\ VM \in BOOLEAN
    /\ \E text \in TextSize, rdata, data, sbss, bss \in SectionSize, gap \in {0, 1} :
          sections = Layout(text, rdata, data, sbss, gap, bss)
    /\ i = 1
    /\ noffH = [code |-> NoSegment, initData |-> NoSegment, uninitData |-> NoSegment]
    /\ noffFile = [k \in 1..HeaderSize |-> Junk]
    /\ loading = "convert"
    /\ vaddr = 0 /\ fileAddr = 0 /\ bytes_read = 0
    /\ diskBuffer = [k \in 0..PageSize - 1 |-> Junk]
    /\ memory = <<>> /\ pages = {}

-----------------------------------------------------------------------------
Raw(s) == [k \in 1..s.s_size |-> <<s.s_name, k - 1>>]

(* The section becomes a segment of the file, at its end. *)
Copied(segment, s) ==
    /\ noffH' = [noffH EXCEPT ![segment] = Segment(s.s_paddr, Len(noffFile), s.s_size)]
    /\ noffFile' = noffFile \o Raw(s)

Refused(s) ==
    \/ s.s_name \in {".data", ".rdata"} /\ noffH.initData.size # 0
    \/ /\ s.s_name \in {".bss", ".sbss"} /\ noffH.uninitData.size # 0
       /\ s.s_paddr = noffH.uninitData.virtualAddr + noffH.uninitData.size

(* One turn of the loop over the sections. *)
Convert ==
    LET s == sections[i]
        u == noffH.uninitData
    IN
    /\ loading = "convert" /\ i <= Len(sections)
    /\ i' = i + 1
    /\ \/ s.s_size = 0 /\ UNCHANGED <<noffH, noffFile, loading>>
       \/ /\ s.s_size # 0 /\ Refused(s)
          /\ loading' = "refused"
          /\ UNCHANGED <<noffH, noffFile>>
       \/ /\ s.s_size # 0 /\ s.s_name = ".text"
          /\ Copied("code", s) /\ UNCHANGED loading
       \/ /\ s.s_size # 0 /\ s.s_name \in {".data", ".rdata"} /\ ~Refused(s)
          /\ Copied("initData", s) /\ UNCHANGED loading
       \/ /\ s.s_size # 0 /\ s.s_name \in {".bss", ".sbss"} /\ ~Refused(s)
          /\ noffH' = [noffH EXCEPT !.uninitData =
                         IF u.size # 0 THEN [u EXCEPT !.size = @ + s.s_size]
                         ELSE Segment(s.s_paddr, 0, s.s_size)]
          /\ UNCHANGED <<noffFile, loading>>
    /\ UNCHANGED <<VM, sections, vaddr, fileAddr, bytes_read, diskBuffer, memory, pages>>

-----------------------------------------------------------------------------
spacePages ==
    (noffH.code.size + noffH.initData.size + noffH.uninitData.size + UserStackSize
       + PageSize - 1) \div PageSize

(* AddrSpace::AddrSpace calls ReadFile for a segment that is not empty. *)
Begin(segment, otherwise) ==
    /\ loading' = IF noffH[segment].size > 0 THEN segment ELSE otherwise
    /\ vaddr' = noffH[segment].virtualAddr
    /\ fileAddr' = noffH[segment].inFileAddr
    /\ bytes_read' = 0

LoadStart ==
    /\ loading = "convert" /\ i > Len(sections)
    /\ memory' = [a \in 0..spacePages * PageSize - 1 |-> Junk]
    /\ Begin("code", "initData")
    /\ UNCHANGED <<VM, sections, i, noffH, noffFile, diskBuffer, pages>>

(* Mutant of ReadSize: the line that ReadFile has commented out. *)
ReadSizePage == PageSize

(* What ReadFile asks for: the rest of the page. *)
ReadSize == PageSize - (vaddr % PageSize)

(* What OpenFile::ReadAt delivers of n bytes from "at" on. *)
Delivered(n, at) == IF at + n <= Len(noffFile) THEN n ELSE Len(noffFile) - at

(* memcpy of the first n bytes of the buffer to address a. *)
Stored(mem, a, buffer, n) ==
    [x \in DOMAIN mem |-> IF x \in a..a + n - 1 THEN buffer[x - a] ELSE mem[x]]

(* Compiled with VM, the rest of the page is replaced if vm->GetPage finds *)
(* the page; if not, the buffer becomes the page.                          *)
PageAddress == (vaddr \div PageSize) * PageSize

StoredPage(buffer) ==
    IF vaddr \div PageSize \in pages
      THEN Stored(memory, vaddr, buffer, PageSize - (vaddr % PageSize))
      ELSE Stored(memory, PageAddress, buffer, PageSize)

(* One turn of the loop of ReadFile, over the segment "loading".  Without  *)
(* VM it too writes to the end of the page, however much it has read.      *)
ReadFile ==
    LET n == Delivered(ReadSize, fileAddr)
        buffer == [k \in 0..PageSize - 1 |->
                     IF k < n THEN noffFile[fileAddr + k + 1] ELSE diskBuffer[k]]
    IN
    /\ loading \in {"code", "initData"}
    /\ bytes_read < noffH[loading].size
    /\ diskBuffer' = buffer
    /\ bytes_read' = bytes_read + n
    /\ fileAddr' = fileAddr + n
    /\ IF VM
         THEN /\ memory' = StoredPage(buffer)
              /\ pages' = pages \cup {vaddr \div PageSize}
              /\ vaddr' = vaddr + n
         ELSE /\ memory' = IF n = 0 THEN memory
                           ELSE Stored(memory, vaddr, buffer, PageSize - (vaddr % PageSize))
              /\ vaddr' = IF n = 0 THEN vaddr ELSE PageAddress + PageSize
              /\ UNCHANGED pages
    /\ UNCHANGED <<VM, sections, i, noffH, noffFile, loading>>

SegmentDone ==
    /\ loading \in {"code", "initData"}
    /\ bytes_read >= noffH[loading].size
    /\ IF loading = "code" THEN Begin("initData", "loaded")
       ELSE loading' = "loaded" /\ UNCHANGED <<vaddr, fileAddr, bytes_read>>
    /\ UNCHANGED <<VM, sections, i, noffH, noffFile, diskBuffer, memory, pages>>

LoaderNext == Convert \/ LoadStart \/ ReadFile \/ SegmentDone
-----------------------------------------------------------------------------
Bytes(s) == s.s_paddr..s.s_paddr + s.s_size - 1

(* Every byte of code and initialised data is at the address the linker    *)
(* gave it when the program starts, although ReadFile reads and writes     *)
(* past the end of a segment to the end of its page; and the stack has     *)
(* UserStackSize bytes above all the sections, less the gap before .bss,   *)
(* which the sizes in the header do not count.                             *)
LoadedExact ==
    LET gap == sections[5].s_paddr - (sections[4].s_paddr + sections[4].s_size) IN
    loading = "loaded" =>
        \A k \in 1..Len(sections) : LET s == sections[k] IN
            \A a \in Bytes(s) :
                /\ s.s_name \in {".text", ".data", ".rdata"} =>
                      memory[a] = <<s.s_name, a - s.s_paddr>>
                /\ a + UserStackSize - gap < spacePages * PageSize
=============================================================================
