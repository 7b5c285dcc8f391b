-------------------------------- MODULE Udma --------------------------------
(***************************************************************************)
(* udma.c: test(use_small) fills two source areas of an aligned buffer,   *)
(* chains two type-0 descriptors (src1 -> dst1, then src2 -> dst2), starts *)
(* the user DMA with do_dmastart (dmstart, then dmwait) and compares each *)
(* destination with its source; a mismatch exits with -3.  main runs the  *)
(* 1MB and then the 4MB test.                                              *)
(*                                                                         *)
(* Every area starts at a multiple of DMA_XFER_SIZE(alloc_size) from the  *)
(* aligned start `memory` and is that long, so the buffer is kept as the  *)
(* eight blocks of that size that follow `memory`: they lie inside the    *)
(* array, which has ALIGN bytes to spare.                                 *)
(***************************************************************************)
EXTENDS Integers, Sequences, FiniteSets

SMALL_SIZE == 1024 * 1024 * 1
LARGE_SIZE == 1024 * 1024 * 4
HALF_SIZE(x) == x \div 2
QUARTER_SIZE(x) == x \div 4
DMA_XFER_SIZE(x) == x \div 8

Blocks == 0..7
NULL == "NULL"

VARIABLES
    ut,         \* the test main is at: 1 is test(true, ...), 2 test(false, ...)
    ustep,      \* "init", "desc", "start", "dma", "cmp", "exit" (exit(-3))
    mem,        \* block -> byte value it holds
    desc,       \* "desc0_1" / "desc0_2" -> descriptor
    dma,        \* the descriptor the DMA engine is working on, or NULL
    fail

vars == <<ut, ustep, mem, desc, dma, fail>>

Size == IF ut = 1 THEN SMALL_SIZE ELSE LARGE_SIZE

(* src1, src2, dst1, dst2 as offsets from memory *)
Src1(s) == 0
Src2(s) == QUARTER_SIZE(s)
Dst1(s) == HALF_SIZE(s)
Dst2(s) == HALF_SIZE(s) + QUARTER_SIZE(s)

(* The blocks of [off, off + len) *)
Span(off, len) == { b \in Blocks : off <= b * DMA_XFER_SIZE(Size)
                                   /\ b * DMA_XFER_SIZE(Size) < off + len }

(* memset(memory + off, v, len) *)
Memset(m, off, len, v) == [b \in Blocks |-> IF b \in Span(off, len) THEN v ELSE m[b]]

(* memcmp(memory + a, memory + b, len) = 0 *)
Same(m, a, b, len) ==
    \A k \in 0..(Cardinality(Span(a, len)) - 1) :
        m[a \div DMA_XFER_SIZE(Size) + k] = m[b \div DMA_XFER_SIZE(Size) + k]

(* fill_descriptor0(src, dst, length, next): the fields the engine reads *)
FillDescriptor0(src, dst, len, next) ==
    [src |-> src, dst |-> dst, length |-> len, next |-> next]

(* The two descriptors with desc0_1's next left NULL, so that the chain   *)
(* ends after the first transfer.                                         *)
ChainUnlinked(s) ==
    [ desc0_1 |-> FillDescriptor0(Src1(s), Dst1(s), DMA_XFER_SIZE(s), NULL),
      desc0_2 |-> FillDescriptor0(Src2(s), Dst2(s), DMA_XFER_SIZE(s), NULL) ]

(* *desc0_1 = fill_descriptor0(src1, dst1, ..., desc0_2);                 *)
(* *desc0_2 = fill_descriptor0(src2, dst2, ..., NULL)                      *)
Chain(s) ==
    [ desc0_1 |-> FillDescriptor0(Src1(s), Dst1(s), DMA_XFER_SIZE(s), "desc0_2"),
      desc0_2 |-> FillDescriptor0(Src2(s), Dst2(s), DMA_XFER_SIZE(s), NULL) ]

-----------------------------------------------------------------------------
(* memory aligned up; memset(src1, 0xAA, ...); memset(src2, 0xBB, ...) *)
InitData ==
    /\ ut \in 1..2 /\ ustep = "init"
    /\ mem' = Memset(Memset(mem, Src1(Size), DMA_XFER_SIZE(Size), 170),
                     Src2(Size), DMA_XFER_SIZE(Size), 187)
    /\ ustep' = "desc"
    /\ UNCHANGED <<ut, desc, dma, fail>>

InitDescriptors ==
    /\ ustep = "desc"
    /\ desc' = Chain(Size)
    /\ ustep' = "start"
    /\ UNCHANGED <<ut, mem, dma, fail>>

(* do_dmastart(desc0_1): dmstart *)
DmStart ==
    /\ ustep = "start"
    /\ dma' = "desc0_1" /\ ustep' = "dma"
    /\ UNCHANGED <<ut, mem, desc, fail>>

(* The engine copies the current descriptor's bytes and follows next. *)
DmaTransfer ==
    /\ ustep = "dma" /\ dma # NULL
    /\ LET d == desc[dma]
           shift == (d.src - d.dst) \div DMA_XFER_SIZE(Size)
       IN  mem' = [b \in Blocks |->
                     IF b \in Span(d.dst, d.length) THEN mem[b + shift] ELSE mem[b]]
           /\ dma' = d.next
    /\ UNCHANGED <<ut, ustep, desc, fail>>

(* r0 = dmwait returns once the chain is done; the two memcmp *)
DmWaitCompare ==
    /\ ustep = "dma" /\ dma = NULL
    /\ fail' = ~(/\ Same(mem, Src1(Size), Dst1(Size), DMA_XFER_SIZE(Size))
                 /\ Same(mem, Src2(Size), Dst2(Size), DMA_XFER_SIZE(Size)))
    /\ ustep' = "cmp"
    /\ UNCHANGED <<ut, mem, desc, dma>>

(* if (fail) exit(-3); otherwise the next test, on the other array, which *)
(* has been zero since load.                                              *)
EndTest ==
    /\ ustep = "cmp"
    /\ ustep' = IF fail THEN "exit" ELSE "init"
    /\ ut' = IF fail THEN ut ELSE ut + 1
    /\ mem' = IF fail THEN mem ELSE [b \in Blocks |-> 0]
    /\ UNCHANGED <<desc, dma, fail>>

(* printf("PASS"); exit(0) -- or the exit(-3) *)
Finished == (ut = 3 \/ ustep = "exit") /\ UNCHANGED vars

Init ==
    /\ ut = 1 /\ ustep = "init" /\ mem = [b \in Blocks |-> 0]
    /\ desc = [d \in {"desc0_1", "desc0_2"} |-> FillDescriptor0(0, 0, 0, NULL)]
    /\ dma = NULL /\ fail = FALSE

Next ==
    \/ InitData \/ InitDescriptors \/ DmStart \/ DmaTransfer \/ DmWaitCompare
    \/ EndTest \/ Finished

Spec == Init /\ [][Next]_vars

-----------------------------------------------------------------------------
(* Both tests pass: the DMA engine, following the chain from desc0_1,     *)
(* copies each source to its destination, and no copy overwrites an area  *)
(* another descriptor still reads or one the memcmp checks.               *)
TestPasses == ustep # "exit"
=============================================================================
