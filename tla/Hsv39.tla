-------------------------------- MODULE Hsv39 --------------------------------
(***************************************************************************)
(* include/hsv39.h and the page-size test of hsv39_tlb.c.  main runs       *)
(* test_page_size for each HSV39_PageSize; each maps the page of `data` at *)
(* a virtual address 4GB higher with add_hsv39_tlb_entry, whose           *)
(* hsv39_make_tlb_entry masks VA and PA with the page size.               *)
(*                                                                         *)
(* Addresses are in MB: every page size is a multiple of 1MB, so the bits *)
(* below 1MB never take part in the masking.  HSV39_PAGE_64G is left out: *)
(* the size the code computes for it, 2^32 MB, exceeds TLC's integers.    *)
(***************************************************************************)
EXTENDS Integers, Sequences

CONSTANT DataAddrs      \* where the linker may put `data`, in MB

(* The HSV39_PageSize enumerators, 1M to 16G, in the order main tests them. *)
PageSizeIds == << 1, 4, 16, 256, 1024, 4096, 16384 >>

VARIABLES
    addr,       \* (uint64_t)&data, in MB
    t,          \* the test_page_size call main is at
    entry       \* the TLBEntry64 the last add_hsv39_tlb_entry wrote, or NoEntry

vars == <<addr, t, entry>>

NoEntry == [V |-> 0]

(* pow4(n): 1 << (n * 2) *)
Pow4(n) == 2^(n * 2)

(* __builtin_ctzll(x) for x > 0 *)
RECURSIVE Ctz(_)
Ctz(x) == IF x % 2 = 1 THEN 0 ELSE 1 + Ctz(x \div 2)

(* pow4(__builtin_ctzll(page_size)) * 1024 * 1024, in MB *)
PageSizeMB(id) == Pow4(Ctz(id))

(* page_start64(addr, page_size): addr & ~(page_size - 1) *)
PageStart(a, size) == (a \div size) * size

(* hsv39_make_tlb_entry(va, pa, page_size, xwru, asid, G): VPN and PPN are *)
(* the masked addresses >> 12, in fields of 28 and 36 bits.                *)
MakeTlbEntry(va, pa, id, xwru, asid, G) ==
    LET size == PageSizeMB(id) IN
    [V |-> 1, G |-> IF G THEN 1 ELSE 0, ASID |-> asid % 128,
     VPN |-> (PageStart(va, size) * 256) % 2^28,
     U |-> xwru % 2, R |-> (xwru \div 2) % 2, W |-> (xwru \div 4) % 2,
     X |-> (xwru \div 8) % 2, C |-> 3,
     PPN |-> PageStart(pa, size) * 256]

(* test_page_size(pgsize_id), up to add_hsv39_tlb_entry(index, virt_page, *)
(* page, pgsize_id, 0xf, asid, 1, 1): page_size, page and virt_page are   *)
(* computed with the same formula as the entry's mask.                    *)
TestPageSize ==
    /\ t \in 1..Len(PageSizeIds)
    /\ LET id == PageSizeIds[t]
           page == PageStart(addr, PageSizeMB(id))
           offset == 4096
       IN  entry' = MakeTlbEntry(page + offset, page, id, 15, 1, TRUE)
    /\ t' = t + 1
    /\ UNCHANGED addr

Finished == t = Len(PageSizeIds) + 1 /\ UNCHANGED vars

Init == addr \in DataAddrs /\ t = 1 /\ entry = NoEntry

Next == TestPageSize \/ Finished

Spec == Init /\ [][Next]_vars

-----------------------------------------------------------------------------
(* Each enumerator of HSV39_PageSize is named for its page size, and its   *)
(* value is that size in MB (HSV39_PAGE_4M = 0x04, HSV39_PAGE_1G = 0x400). *)
(* The entry written for HSV39_PAGE_<size> maps the <size> page that holds *)
(* `data`: its VPN and PPN are the addresses aligned to that size.         *)
EntryMapsNamedPage ==
    entry # NoEntry =>
        LET size == PageSizeIds[t - 1]
        IN  /\ entry.VPN = PageStart(addr + 4096, size) * 256
            /\ entry.PPN = PageStart(addr, size) * 256
=============================================================================
