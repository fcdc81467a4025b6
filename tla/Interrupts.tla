----------------------------- MODULE Interrupts -----------------------------
(***************************************************************************)
(* How the kernel comes up with interrupts: the boot sequence of           *)
(* kernel_main, one step per hardware access, beside the two 8259 PICs,    *)
(* the PIT and other devices that raise lines at any time, and the         *)
(* interrupt handlers.  init_idt enables interrupts (sti) long before      *)
(* PIC_remap moves the PICs away from the vectors the BIOS gave them, so   *)
(* interrupts may arrive between any two of the later steps.               *)
(*                                                                         *)
(* The PICs are external: a write to a data port is one of ICW2 to ICW4    *)
(* or a mask, according to how far the chip is in its initialization, and  *)
(* ICW1 clears mask, requests and in-service lines.  A chip in the middle  *)
(* of its initialization requests nothing.                                 *)
(***************************************************************************)
EXTENDS Integers, Sequences, FiniteSets, FiniteSetsExt

CONSTANTS
  DeviceLines,   \* the IRQ lines that devices raise; 0 is the PIT
  BiosMask,      \* the masks the boot loader may leave in the PICs
  TickLimit,     \* ticks to the page fault (250 in the code)
  ChecksLimits,  \* whether the CPU may be one that checks segment limits (QEMU's TCG does not)
  Spurious       \* whether a request that is masked as it is made is seen

Chips == {"master", "slave"}
Lines == 0 .. 15
Bytes == 0 .. 255

ASSUME HardwareAssumption ==
  /\ DeviceLines \subseteq Lines \ {2} /\ 0 \in DeviceLines
  /\ BiosMask # {} /\ BiosMask \subseteq [Chips -> Bytes]
  /\ TickLimit \in Nat \ {0}
  /\ ChecksLimits \subseteq BOOLEAN /\ ChecksLimits # {} /\ Spurious \in BOOLEAN

VARIABLES
  \* the processor
  pc,          \* the step of kernel_main it is at
  cpu,         \* what it executes: kernel_main, a handler, or nothing any more
  int_flag,    \* the interrupt flag
  handlers,    \* the vectors whose entry of interrupt_handlers is not 0
  vector,      \* history: the last vector taken, and whether it was spurious
  segment,     \* the last page of the data segment
  paging,      \* CR0.PG
  saved,       \* a1 and a2 of PIC_remap
  tick,
  \* the hardware
  checks,      \* whether this processor checks segment limits
  imr, irr, isr,  \* masks as bytes; requested and in-service lines
  base, stage,    \* vector offsets; the ICW a chip expects next, 0 when ready
  latched,        \* the CPU has seen a request that is no longer there
  pit             \* the PIT's divisor

program == <<handlers, segment, paging, saved>>
pics == <<imr, irr, isr, base, stage, latched>>
vars == <<pc, cpu, int_flag, handlers, vector, segment, paging, saved, tick,
          imr, irr, isr, base, stage, latched, pit, checks>>

-----------------------------------------------------------------------------
(* The PICs.                                                               *)

Chip(l)    == IF l < 8 THEN "master" ELSE "slave"
Bit(v, k)  == (v \div (2 ^ k)) % 2 = 1
Masked(l)  == Bit(imr[Chip(l)], l % 8)

\* Lower is served first; the slave's lines come in at IR2 of the master.
Priority(l) == IF l < 8 THEN 8 * l ELSE 16 + (l - 8)
Blocks(k, l) == Priority(k) <= Priority(l)

\* The requests that reach the CPU.
Deliverable ==
  {l \in irr :
     /\ stage["master"] = 0 /\ stage[Chip(l)] = 0
     /\ ~Masked(l) /\ (l >= 8 => ~Masked(2))
     /\ ~ \E k \in isr : Blocks(k, l)}

VectorOf(l) == base[Chip(l)] + (l % 8)

\* A request that the CPU has already seen disappears.
Latches == Spurious /\ int_flag /\ Deliverable # {}

\* outb(PICx_COMMAND, ICW1_INIT | ICW1_ICW4)
StartInit(c) ==
  /\ stage' = [stage EXCEPT ![c] = 2]
  /\ imr' = [imr EXCEPT ![c] = 0]
  /\ irr' = {l \in irr : Chip(l) # c}
  /\ isr' = {l \in isr : Chip(l) # c}
  /\ latched' = (latched \/ Latches)
  /\ UNCHANGED base

\* outb(PICx_COMMAND, PIC_EOI) to every chip of cs: each drops the line of
\* highest priority it has in service.
EndOfInterrupt(cs) ==
  /\ isr' = isr \ {l \in isr : Chip(l) \in cs /\ \A k \in isr : Chip(k) = Chip(l) => l <= k}
  /\ UNCHANGED <<imr, irr, base, stage, latched>>

\* Writing mask v to chip c hides the request of line l.
Hides(c, v, l) == IF Chip(l) = c THEN Bit(v, l % 8) ELSE c = "master" /\ Bit(v, 2)

\* outb(PICx_DATA, v)
OutData(c, v) ==
  /\ stage' = [stage EXCEPT ![c] = IF @ \in {0, 4} THEN 0 ELSE @ + 1]
  /\ base' = IF stage[c] = 2 THEN [base EXCEPT ![c] = v] ELSE base
  /\ imr' = IF stage[c] = 0 THEN [imr EXCEPT ![c] = v] ELSE imr
  /\ latched' = (latched \/ (Latches /\ stage[c] = 0 /\ \A l \in Deliverable : Hides(c, v, l)))
  /\ UNCHANGED <<irr, isr>>

-----------------------------------------------------------------------------
(* kernel_main, as the sequence of the steps that matter here.             *)

Do(a)       == [act |-> a, chip |-> "master", val |-> 0]
Icw1(c)     == [act |-> "icw1", chip |-> c, val |-> 0]
Data(c, v)  == [act |-> "data", chip |-> c, val |-> v]
Restore(c)  == [act |-> "restore", chip |-> c, val |-> 0]

FaultyPIC_remapSlaveFirst(offset1, offset2) ==
  << Do("save"), Icw1("master"), Icw1("slave"),
     Data("master", offset2), Data("slave", offset1),
     Data("master", 4), Data("slave", 2), Data("master", 1), Data("slave", 1),
     Restore("master"), Restore("slave") >>

PIC_remap(offset1, offset2) ==
  << Do("save"), Icw1("master"), Icw1("slave"),
     Data("master", offset1), Data("slave", offset2),
     Data("master", 4), Data("slave", 2), Data("master", 1), Data("slave", 1),
     Restore("master"), Restore("slave") >>

FaultyPIC_disableSlaveTwice == << Data("slave", 255), Data("slave", 255) >>

PIC_disable == << Data("master", 255), Data("slave", 255) >>

Early == << Do("pre_init_idt"), Do("init_gdt"), Do("init_idt"), Do("init_paging") >>
Timer == << Do("register_timer"), Do("program_pit"), Do("unmask_timer") >>

Boot == Early \o PIC_remap(32, 40) \o PIC_disable \o Timer

\* The steps during which an interrupt may be one the kernel does not handle.
FirstOpen == 4
LastOpen  == Len(Early) + 11 + 2

Halted == pc = Len(Boot) + 1      \* for(;;) asm("hlt")
Step   == Boot[pc]
At(a)  == cpu = "main" /\ ~Halted /\ Step.act = a

\* A request the CPU has seen is taken before its next instruction.
Onward == ~latched /\ pc' = pc + 1 /\ UNCHANGED <<cpu, vector, tick>>

PreInitIdt ==
  /\ At("pre_init_idt") /\ Onward
  /\ handlers' = {}
  /\ UNCHANGED <<int_flag, segment, paging, saved, pics, pit, checks>>

\* The last page of a segment whose limit argument is hi * 2^16 + lo, as
\* _gdt_set_gate packs it, with 4 kB granularity.
LastPage(hi, lo) == (hi % 16) * 65536 + lo

\* init_gdt: data segment 0x10 has limit 0xFFFF.
InitGdt ==
  /\ At("init_gdt") /\ Onward
  /\ int_flag' = FALSE /\ segment' = LastPage(0, 65535)
  /\ UNCHANGED <<handlers, paging, saved, pics, pit, checks>>

\* init_idt: all 256 gates, lidt, sti.
InitIdt ==
  /\ At("init_idt") /\ Onward
  /\ int_flag' = TRUE
  /\ UNCHANGED <<program, pics, pit, checks>>

InitPaging ==
  /\ At("init_paging") /\ Onward
  /\ handlers' = handlers \cup {14} /\ paging' = TRUE
  /\ UNCHANGED <<int_flag, segment, saved, pics, pit, checks>>

SaveMasks ==
  /\ At("save") /\ Onward
  /\ saved' = imr
  /\ UNCHANGED <<int_flag, handlers, segment, paging, pics, pit, checks>>

PicCommand ==
  /\ At("icw1") /\ Onward
  /\ StartInit(Step.chip)
  /\ UNCHANGED <<int_flag, program, pit, checks>>

PicData ==
  /\ Onward
  /\ \/ At("data") /\ OutData(Step.chip, Step.val)
     \/ At("restore") /\ OutData(Step.chip, saved[Step.chip])
  /\ UNCHANGED <<int_flag, program, pit, checks>>

\* init_timer(50)
RegisterTimer ==
  /\ At("register_timer") /\ Onward
  /\ handlers' = handlers \cup {32}
  /\ UNCHANGED <<int_flag, segment, paging, saved, pics, pit, checks>>

MaxDivisor == 65536     \* what the BIOS programs

Divisor(frequency) == 1193180 \div frequency

TwoBytes(d) == (d % 256) + 256 * ((d \div 256) % 256)

ProgramPit ==
  /\ At("program_pit") /\ Onward
  /\ pit' = TwoBytes(Divisor(50))
  /\ UNCHANGED <<int_flag, program, pics, checks>>

\* IRQ_clear_mask(0): inb, clear the bit, outb.
UnmaskTimer ==
  /\ At("unmask_timer") /\ Onward
  /\ OutData("master", imr["master"] - (imr["master"] % 2))
  /\ UNCHANGED <<int_flag, program, pit, checks>>

Main == \/ PreInitIdt \/ InitGdt \/ InitIdt \/ InitPaging
        \/ SaveMasks \/ PicCommand \/ PicData
        \/ RegisterTimer \/ ProgramPit \/ UnmaskTimer

-----------------------------------------------------------------------------
(* Interrupts.  The gates are interrupt gates: IF is cleared on entry and  *)
(* set again by iret.                                                      *)

FaultyHandlerOfFaultReturns(v) == IF v \notin handlers THEN "returned" ELSE "timer_eoi"

\* interrupt_handler: the registered handler, or cli; hlt.
HandlerOf(v) ==
  IF v \notin handlers THEN "hung"
  ELSE IF v = 14 THEN "panic" ELSE "timer_eoi"

Take(v, spurious) ==
  /\ cpu' = HandlerOf(v) /\ int_flag' = FALSE
  /\ vector' = [num |-> v, spurious |-> spurious]

Interrupt(l) ==
  /\ cpu = "main" /\ int_flag /\ l \in Deliverable
  /\ \A k \in Deliverable : Priority(l) <= Priority(k)
  /\ Take(VectorOf(l), FALSE)
  /\ irr' = irr \ {l} /\ isr' = isr \cup {l} \cup (IF l < 8 THEN {} ELSE {2})
  /\ UNCHANGED <<pc, program, tick, imr, base, stage, latched, pit, checks>>

\* The CPU acknowledges a request that is gone: the master answers IR7.
SpuriousInterrupt ==
  /\ cpu = "main" /\ int_flag /\ latched
  /\ Take(base["master"] + 7, TRUE)
  /\ latched' = FALSE
  /\ UNCHANGED <<pc, program, tick, imr, irr, isr, base, stage, pit, checks>>

\* The chips that PIC_sendEOI(irq) writes to.
FaultyEoiChipsOneOnly(irq) == IF irq > 0 THEN {"master"} ELSE {"slave"}
EoiChips(irq) == IF irq >= 8 THEN Chips ELSE {"master"}

TimerEoi ==
  /\ cpu = "timer_eoi"
  /\ cpu' = "timer_count"
  /\ EndOfInterrupt(EoiChips(vector.num - 32))
  /\ UNCHANGED <<pc, int_flag, program, vector, tick, pit, checks>>

\* The exception that reading at 0xFFFFFFFF raises: 13 when the address lies
\* outside the segment and the processor looks, else 14.
LastPageOfAll == 1048575
FaultOfRead   == IF checks /\ segment < LastPageOfAll THEN 13 ELSE 14

\* timer_callback, after PIC_sendEOI.  Every TickLimit-th tick reads at 0xFFFFFFFF; otherwise iret.
TimerCount ==
  /\ cpu = "timer_count"
  /\ tick' = tick + 1
  /\ IF tick' % TickLimit = 0
     THEN Take(FaultOfRead, FALSE)
     ELSE cpu' = "main" /\ int_flag' = TRUE /\ UNCHANGED vector
  /\ UNCHANGED <<pc, program, pics, pit, checks>>

\* A device raises its line: an edge, latched whether it is masked or not.
Raise(l) ==
  /\ l \notin irr
  /\ irr' = irr \cup {l}
  /\ UNCHANGED <<pc, cpu, int_flag, program, vector, tick, imr, isr, base, stage, latched,
                 pit, checks>>

Init ==
  /\ pc = 1 /\ cpu = "main" /\ int_flag = FALSE
  /\ handlers = {} /\ vector = [num |-> 0, spurious |-> FALSE]
  /\ segment = LastPageOfAll /\ paging = FALSE
  /\ imr \in BiosMask /\ saved = [c \in Chips |-> 0]
  /\ irr \in SUBSET DeviceLines /\ isr = {}
  /\ base = [c \in Chips |-> IF c = "master" THEN 8 ELSE 112]
  /\ stage = [c \in Chips |-> 0]
  /\ latched = FALSE /\ pit = MaxDivisor /\ tick = 0 /\ checks \in ChecksLimits

Handler == TimerEoi \/ TimerCount
TakeAny == SpuriousInterrupt \/ \E l \in DeviceLines : Interrupt(l)

Next == Main \/ Handler \/ TakeAny \/ \E l \in DeviceLines : Raise(l)

\* The processor runs, it takes interrupts it may take, and the PIT, which runs
\* since the BIOS started it, goes on raising line 0.
Spec == /\ Init /\ [][Next]_vars
        /\ WF_vars(Main \/ Handler) /\ WF_vars(TakeAny) /\ WF_vars(Raise(0))

-----------------------------------------------------------------------------
(* Properties.                                                             *)

ProgramTyped ==
  /\ pc \in 1 .. Len(Boot) + 1
  /\ cpu \in {"main", "timer_eoi", "timer_count", "hung", "panic"}
  /\ handlers \subseteq Bytes
  /\ vector \in [num : Bytes, spurious : BOOLEAN]
  /\ segment \in 0 .. LastPageOfAll /\ saved \in [Chips -> Bytes]
  /\ tick \in 0 .. TickLimit

FlagsTyped == int_flag \in BOOLEAN /\ paging \in BOOLEAN /\ latched \in BOOLEAN

PicsTyped ==
  /\ imr \in [Chips -> Bytes] /\ irr \subseteq Lines /\ isr \subseteq Lines
  /\ base \in [Chips -> Bytes] /\ stage \in [Chips -> {0, 2, 3, 4}]
  /\ pit \in 0 .. MaxDivisor

TypeOK == ProgramTyped /\ FlagsTyped /\ PicsTyped /\ checks \in ChecksLimits

\* The timer's read has raised an exception.
ReadFaulted == tick > 0 /\ tick % TickLimit = 0 /\ vector.num = FaultOfRead

\* An interrupt nobody handles stops the machine only between the sti of
\* init_idt (isr.c:42) and the end of PIC_disable (pic.c:46): from then on the
\* masks let only the timer through, whatever the devices raise and whatever
\* they raised before.
HangsOnlyWhileOpen ==
  cpu = "hung" => pc \in FirstOpen .. LastOpen \/ ReadFaulted

\* A kernel that has come up has both PICs out of their initialization, at the
\* vectors 32 and 40, with line 0 unmasked and no other, and the PIT at 50 Hz:
\* no write to a data port (pic.c:26-41, 45, 82) was taken for another.
PicsConfigured ==
  Halted =>
    /\ stage = [c \in Chips |-> 0]
    /\ base["master"] = 32 /\ base["slave"] = 40
    /\ imr["master"] = 254 /\ imr["slave"] = 255
    /\ 1193180 \div pit = 50

\* kernel_main never runs with a line in service (kernel.c:24): a handler that
\* did not end its interrupt would have stopped the timer for good.
NothingInService == cpu = "main" => isr = {}

\* Once the kernel has come up, the timer goes on ticking until the 250th tick's
\* read (kernel.c:30) stops it.  "PIT ISR will cause a page fault" (kernel.c:112)
\* holds only of processors that do not check limits.  On one that does the
\* kernel never shows it: the segment ends before the address (gdt.c:19), and
\* the general protection fault of the read finds no handler and hangs it.
TimerFaults ==
  /\ (Halted /\ ~checks) ~> (ReadFaulted /\ vector.num = 14 /\ cpu = "panic")
  /\ (Halted /\ checks) ~> (ReadFaulted /\ vector.num = 13 /\ cpu = "hung")

\* "After 5 secs, PIT ISR will cause a page fault" (kernel.c:112), for the way
\* there: no interrupt of a device stops the kernel before the 250th tick.
NoDeviceStopsBoot == cpu = "hung" => ReadFaulted \/ vector.spurious
=============================================================================
