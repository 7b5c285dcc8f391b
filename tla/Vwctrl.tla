-------------------------------- MODULE Vwctrl --------------------------------
(***************************************************************************)
(* vwctrl.c: the VTCM window control test.  main reads VWCTRL, computes    *)
(* the legal window [wmin, wmax] with calc_win_boundaries, and makes three *)
(* accesses at wmin (an HVX scatter, an HMX load, a user DMA) in each of    *)
(* three phases: window as at reset (expect success), VWCTRL disabled and   *)
(* window moved up one 4KB page (expect a window miss).  Each access runs   *)
(* in user mode; a miss enters my_err_handler_helper, which sets           *)
(* window_miss_seen and skips the instruction, and a VWCTRL access made in *)
(* user mode traps as a privilege error, whose handler returns to kernel   *)
(* mode and re-executes it.  window_miss_seen is set by handlers and never *)
(* cleared.                                                                 *)
(*                                                                         *)
(* Addresses are byte offsets; VWCTRL is kept as its three fields, with    *)
(* the 12-bit masks of set_vwctrl and get_vwctrl.                          *)
(***************************************************************************)
EXTENDS Integers, Sequences

CONSTANTS
    VTCM_BASE,      \* get_vtcm_base(): a multiple of 64KB
    ResetVwctrl     \* the VWCTRL values the target can come out of reset with

ALIGN == 1024 * 32
ALLOC_SIZE == 1024
DMA_XFER_SIZE(x) == x \div 8
FIELD == 4096       \* & 0xfff

VARIABLES
    vwctrl,             \* [enable, lo, hi]
    mode,               \* "kernel" or "user" (SSR:UM)
    window_miss_seen,
    err,
    enable, vwctrl_lo, vwctrl_hi, wmin, wmax,   \* main's locals
    pc,                 \* main's position in Program
    step                \* the position inside the current test function

vars == <<vwctrl, mode, window_miss_seen, err, enable, vwctrl_lo, vwctrl_hi,
          wmin, wmax, pc, step>>

-----------------------------------------------------------------------------
(* The window the hardware enforces (v79 system specification): from      *)
(* base + LOW * 4KB to base + (HI + 1) * 4KB - 1.                          *)
HwWinMin(v) == VTCM_BASE + v.lo * 4096
HwWinMax(v) == VTCM_BASE + (v.hi + 1) * 4096 - 1

(* calc_win_boundaries(vtcm_base_addr, vwctrl_lo, vwctrl_hi, &wmin, &wmax) *)
WinMinUnits(base, lo) == base + lo * 1024
WinMin(base, lo) == base + lo * 4 * 1024
WinMax(base, hi) == base + (hi + 1) * 4 * 1024 - 1

(* test_vtcm_dma: memory = (access_addr + ALIGN) & ~(ALIGN - 1); the       *)
(* descriptor copies DMA_XFER_SIZE(alloc_size) bytes from memory to        *)
(* memory + alloc_size / 2.  The first and last byte of each range.        *)
DmaBytes(a) ==
    LET memory == ((a + ALIGN) \div ALIGN) * ALIGN
        len == DMA_XFER_SIZE(ALLOC_SIZE)
        dst == memory + ALLOC_SIZE \div 2
    IN  {memory, memory + len - 1, dst, dst + len - 1}

(* The VTCM bytes an access touches: the scatter region and the HMX load  *)
(* start at access_addr.                                                   *)
Touched(kind, a) == IF kind = "dma" THEN DmaBytes(a) ELSE {a}

(* The hardware raises HEX_CAUSE_VWCTRL_WINDOW_MISS when the window is     *)
(* disabled or a byte lies outside it.                                     *)
WindowMiss(v, bytes) ==
    \/ ~v.enable
    \/ \E b \in bytes : b < HwWinMin(v) \/ b > HwWinMax(v)

(* set_vwctrl(enable, lo, hi): the fields masked to 12 bits *)
SetVwctrlValue(en, lo, hi) == [enable |-> en, lo |-> lo % FIELD, hi |-> hi % FIELD]

-----------------------------------------------------------------------------
(* main's calls after setup, in order *)
Access(kind, expect) == [k |-> kind, expect |-> expect]
Disable == [k |-> "disable"]
MoveUp == [k |-> "moveup"]

Program ==
    << Access("scatter", FALSE), Access("coproc", FALSE), Access("dma", FALSE),
       Disable,
       Access("scatter", TRUE), Access("coproc", TRUE), Access("dma", TRUE),
       MoveUp,
       Access("scatter", TRUE), Access("coproc", TRUE), Access("dma", TRUE) >>

Op == Program[pc]

(* A VWCTRL read or write: in user mode it traps (PRIV_USER_NO_SINS), the  *)
(* handler calls enter_kernel_mode and the instruction runs again.          *)
PrivTrap ==
    /\ mode = "user"
    /\ mode' = "kernel"
    /\ UNCHANGED <<vwctrl, window_miss_seen, err, enable, vwctrl_lo, vwctrl_hi,
                   wmin, wmax, pc, step>>

Privileged == mode = "kernel"

Goto(p, s) == pc' = p /\ step' = s

-----------------------------------------------------------------------------
(* main up to the first test: install_my_event_vectors, setup_default_vtcm, *)
(* acquire the coprocessor (SSR bit 26), get_vwctrl, calc_win_boundaries.   *)
Setup ==
    /\ pc = 0
    /\ enable' = vwctrl.enable /\ vwctrl_lo' = vwctrl.lo /\ vwctrl_hi' = vwctrl.hi
    /\ wmin' = WinMin(VTCM_BASE, vwctrl.lo) /\ wmax' = WinMax(VTCM_BASE, vwctrl.hi)
    /\ Goto(1, "print")
    /\ UNCHANGED <<vwctrl, mode, window_miss_seen, err>>

AtOp(s) == pc \in 1..Len(Program) /\ step = s

(* printf(..., is_vwctrl_enabled() ? ...): reads VWCTRL *)
ReadVwctrl ==
    /\ AtOp("print") /\ Op.k \in {"scatter", "coproc", "dma"} /\ Privileged
    /\ step' = IF Op.k = "dma" THEN "alloc" ELSE "user"
    /\ UNCHANGED <<vwctrl, mode, window_miss_seen, err, enable, vwctrl_lo,
                   vwctrl_hi, wmin, wmax, pc>>

(* alloc_descriptor: aligned_alloc(DESC_ALIGN, DESC_ALIGN * 2), and exit(-2) *)
(* when it returns NULL; fill_descriptor0 only writes the descriptor.        *)
AllocDescriptor ==
    /\ AtOp("alloc")
    /\ \/ step' = "user"
       \/ step' = "exit"
    /\ UNCHANGED <<vwctrl, mode, window_miss_seen, err, enable, vwctrl_lo,
                   vwctrl_hi, wmin, wmax, pc>>

EnterUserMode ==
    /\ AtOp("user")
    /\ mode' = "user" /\ step' = "access"
    /\ UNCHANGED <<vwctrl, window_miss_seen, err, enable, vwctrl_lo, vwctrl_hi,
                   wmin, wmax, pc>>

(* test_scatter, Q6_mxmem2_bias_A or do_dmastart at wmin.  A window miss   *)
(* enters my_err_handler_helper: window_miss_seen = true, badva read,      *)
(* inc_elr(4).                                                              *)
DoAccess ==
    /\ AtOp("access")
    /\ window_miss_seen' = (window_miss_seen \/ WindowMiss(vwctrl, Touched(Op.k, wmin)))
    /\ step' = "check"
    /\ UNCHANGED <<vwctrl, mode, err, enable, vwctrl_lo, vwctrl_hi, wmin, wmax, pc>>

(* check32(window_miss_seen, expect_failure) *)
CheckMiss ==
    /\ AtOp("check")
    /\ err' = (err \/ window_miss_seen # Op.expect)
    /\ Goto(pc + 1, "print")
    /\ UNCHANGED <<vwctrl, mode, window_miss_seen, enable, vwctrl_lo, vwctrl_hi,
                   wmin, wmax>>

(* set_vwctrl(false, vwctrl_lo, vwctrl_hi) *)
DisableWindow ==
    /\ AtOp("print") /\ Op.k = "disable" /\ Privileged
    /\ vwctrl' = SetVwctrlValue(FALSE, vwctrl_lo, vwctrl_hi)
    /\ Goto(pc + 1, "print")
    /\ UNCHANGED <<mode, window_miss_seen, err, enable, vwctrl_lo, vwctrl_hi,
                   wmin, wmax>>

(* calc_win_boundaries(vtcm_base_addr, vwctrl_lo + 1, vwctrl_hi, ...);     *)
(* set_vwctrl(true, vwctrl_lo + 1, vwctrl_hi)                              *)
MoveWindowUp ==
    /\ AtOp("print") /\ Op.k = "moveup" /\ Privileged
    /\ wmin' = WinMin(VTCM_BASE, vwctrl_lo + 1) /\ wmax' = WinMax(VTCM_BASE, vwctrl_hi)
    /\ vwctrl' = SetVwctrlValue(TRUE, vwctrl_lo + 1, vwctrl_hi)
    /\ Goto(pc + 1, "print")
    /\ UNCHANGED <<mode, window_miss_seen, err, enable, vwctrl_lo, vwctrl_hi>>

(* printf(err ? "FAIL" : "PASS"); return err -- or exit(-2) *)
Done == (pc = Len(Program) + 1 \/ step = "exit") /\ UNCHANGED vars

-----------------------------------------------------------------------------
Init ==
    /\ vwctrl \in ResetVwctrl
    /\ mode = "kernel" /\ window_miss_seen = FALSE /\ err = FALSE
    /\ enable = FALSE /\ vwctrl_lo = 0 /\ vwctrl_hi = 0 /\ wmin = 0 /\ wmax = 0
    /\ pc = 0 /\ step = "print"

Next ==
    \/ Setup
    \/ pc \in 1..Len(Program) /\ step \in {"print"} /\ PrivTrap
    \/ ReadVwctrl \/ AllocDescriptor \/ EnterUserMode \/ DoAccess \/ CheckMiss
    \/ DisableWindow \/ MoveWindowUp \/ Done

Spec == Init /\ [][Next]_vars

-----------------------------------------------------------------------------
(* The reset window is enabled and holds every byte test_vtcm_dma touches  *)
(* from wmin: one ALIGN block above it and 640 bytes more.                 *)
ResetWindowFits ==
    LET v == [enable |-> enable, lo |-> vwctrl_lo, hi |-> vwctrl_hi]
    IN  ~WindowMiss(v, DmaBytes(HwWinMin(v)))

(* main returns 0 (PASS) whenever the reset window fits: each access at    *)
(* wmin succeeds in the reset window, every access of the disabled phase   *)
(* misses although set_vwctrl is issued from the user mode the last test    *)
(* left, and the checks of the moved window pass.                          *)
TestPasses ==
    pc = Len(Program) + 1 /\ ResetWindowFits => ~err

(* Each check32(window_miss_seen, true) of main's second and third phases   *)
(* ("vwctrl disabled", "out of bounds access") follows an access that      *)
(* itself missed the window: the check tests the access just made, not a   *)
(* window_miss_seen an earlier access left set.  vwctrl, wmin and the      *)
(* operation are those of the access, which changes none of them.          *)
ExpectedMissOccurs ==
    AtOp("check") /\ Op.expect => WindowMiss(vwctrl, Touched(Op.k, wmin))
====
