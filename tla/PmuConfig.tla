------------------------------ MODULE PmuConfig ------------------------------
(***************************************************************************)
(* pmu.h: the event selection of the eight PMU counters.  pmu_config       *)
(* writes a 10-bit event: its 8 low bits into byte (id % 4) of PMUEVTCFG   *)
(* (counters 0-3) or PMUEVTCFG1 (counters 4-7), its 2 high bits into bits  *)
(* 2*id..2*id+1 of PMUCFG, each by a read, an insert and a write back.     *)
(* pmu_reset stops the PMU and configures every counter with event 0.     *)
(* The registers are modelled as numbers and insert by what it does; the   *)
(* event a counter counts is read back field by field with Bitwise.        *)
(***************************************************************************)
EXTENDS Integers, Bitwise

CONSTANTS
    Ids,        \* the counter_ids pmu_config is called with
    Events      \* the events configured (COMMITTED_PKT_*, HVX_PKT, ...)

NUM_PMU_CTRS == 8
Counters == 0..(NUM_PMU_CTRS - 1)
NoEvent == -1

VARIABLES
    pmuevtcfg, pmuevtcfg1, pmucfg,
    pmOn,       \* SYSCFG bit PM_SYSCFG_BIT
    configured  \* per counter: the last event pmu_config gave it, or NoEvent

vars == <<pmuevtcfg, pmuevtcfg1, pmucfg, pmOn, configured>>

-----------------------------------------------------------------------------
(* r0 = insert(Rs, r3:2): the width bits of r0 at offset are replaced by  *)
(* the low width bits of Rs.                                               *)
Insert(r, v, width, off) ==
    LET f == 2^off
        m == 2^width
    IN  r - ((r \div f) % m) * f + (v % m) * f

(* The three registers after pmu_config(counter_id, event): a record.    *)
PmuConfigRegsOffByOne(id, event, regs) ==
    LET off == (id % 4) * 8
        lo == IF id <= 4
                THEN [regs EXCEPT !.evt = Insert(@, event, 8, off)]
                ELSE [regs EXCEPT !.evt1 = Insert(@, event, 8, off)]
    IN  [lo EXCEPT !.cfg = Insert(@, event \div 2^8, 2, id * 2)]

PmuConfigRegs(id, event, regs) ==
    LET off == (id % 4) * 8
        lo == IF id < 4
                THEN [regs EXCEPT !.evt = Insert(@, event, 8, off)]
                ELSE [regs EXCEPT !.evt1 = Insert(@, event, 8, off)]
    IN  [lo EXCEPT !.cfg = Insert(@, event \div 2^8, 2, id * 2)]

Regs == [evt |-> pmuevtcfg, evt1 |-> pmuevtcfg1, cfg |-> pmucfg]

SetRegs(r) ==
    /\ pmuevtcfg' = r.evt /\ pmuevtcfg1' = r.evt1 /\ pmucfg' = r.cfg

(* for (i = 0; i < NUM_PMU_CTRS; i++) pmu_config(i, 0) *)
RECURSIVE ConfigAllZero(_, _)
ConfigAllZero(regs, i) ==
    IF i = NUM_PMU_CTRS THEN regs
    ELSE ConfigAllZero(PmuConfigRegs(i, 0, regs), i + 1)

-----------------------------------------------------------------------------
PmuConfig(id, event) ==
    /\ SetRegs(PmuConfigRegs(id, event, Regs))
    /\ configured' = [configured EXCEPT ![id] = event]
    /\ UNCHANGED pmOn

(* pmu_reset: pmu_stop; pmu_set_counters(0); pmu_config(i, 0) for each i *)
PmuReset ==
    /\ SetRegs(ConfigAllZero(Regs, 0))
    /\ pmOn' = FALSE
    /\ configured' = [c \in Counters |-> 0]

(* pmu_start / pmu_stop: set or clear the PM bit of SYSCFG *)
PmuStart == pmOn' = TRUE /\ UNCHANGED <<pmuevtcfg, pmuevtcfg1, pmucfg, configured>>
PmuStop == pmOn' = FALSE /\ UNCHANGED <<pmuevtcfg, pmuevtcfg1, pmucfg, configured>>

Init ==
    /\ pmuevtcfg = 0 /\ pmuevtcfg1 = 0 /\ pmucfg = 0
    /\ pmOn = FALSE
    /\ configured = [c \in Counters |-> NoEvent]

Next ==
    \/ \E id \in Ids, e \in Events : PmuConfig(id, e)
    \/ PmuReset \/ PmuStart \/ PmuStop

Spec == Init /\ [][Next]_vars

-----------------------------------------------------------------------------
(* The event counter c counts, read back from the three registers.        *)
EventOf(c) ==
    LET evtReg == IF c < 4 THEN pmuevtcfg ELSE pmuevtcfg1
    IN  (shiftR(evtReg, (c % 4) * 8) & 255) + (shiftR(pmucfg, 2 * c) & 3) * 256

(* Configuring one counter leaves every other counter's event as it was:  *)
(* after any sequence of pmu_config, pmu_reset, pmu_start and pmu_stop    *)
(* calls, each configured counter counts the 10-bit event it was last      *)
(* given, its low byte and its two high bits both intact.                  *)
EventsAsConfigured ==
    \A c \in Counters :
        configured[c] # NoEvent => EventOf(c) = configured[c] % 2^10

=============================================================================
