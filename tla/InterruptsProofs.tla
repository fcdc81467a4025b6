-------------------------- MODULE InterruptsProofs --------------------------
(***************************************************************************)
(* Proofs about Interrupts, for every set of devices, every mask the BIOS  *)
(* may leave, every number of ticks, and with or without limit checks and  *)
(* spurious requests.                                                      *)
(*                                                                         *)
(* The invariant follows the program counter: how far each PIC is in its   *)
(* initialization, its vectors and, once PIC_disable has run, its mask are *)
(* functions of pc, whatever interrupted the boot before, for an interrupt *)
(* that is taken before the last step stops it.  The rest says which       *)
(* handlers can be running and what they leave.                            *)
(***************************************************************************)
EXTENDS Interrupts, SequenceTheorems, TLAPS

\* TypeOK but for what no step changes.
Typed == ProgramTyped /\ FlagsTyped /\ PicsTyped

-----------------------------------------------------------------------------
(* The boot sequence, step by step.                                        *)

\* What a concatenation of sequences of known lengths holds where.
LEMMA Concat ==
  ASSUME NEW R, NEW s \in Seq(R), NEW t \in Seq(R)
  PROVE  /\ s \o t \in Seq(R) /\ Len(s \o t) = Len(s) + Len(t)
         /\ \A i \in 1 .. Len(s) : (s \o t)[i] = s[i]
         /\ \A i \in Len(s) + 1 .. Len(s) + Len(t) : (s \o t)[i] = t[i - Len(s)]
<1>1. /\ s \o t \in Seq(R) /\ Len(s \o t) = Len(s) + Len(t)
      /\ \A i \in 1 .. Len(s) + Len(t) :
           (s \o t)[i] = IF i <= Len(s) THEN s[i] ELSE t[i - Len(s)]
  BY ConcatProperties, Zenon
<1>2. Len(s) \in Nat /\ Len(t) \in Nat
  OBVIOUS
<1>3. \A i \in 1 .. Len(s) : i \in 1 .. Len(s) + Len(t) /\ i <= Len(s)
  BY <1>2
<1>4. \A i \in Len(s) + 1 .. Len(s) + Len(t) : i \in 1 .. Len(s) + Len(t) /\ ~(i <= Len(s))
  BY <1>2
<1>5. \A i \in 1 .. Len(s) : (s \o t)[i] = s[i]
  BY <1>1, <1>3, Zenon
<1>6. \A i \in Len(s) + 1 .. Len(s) + Len(t) : (s \o t)[i] = t[i - Len(s)]
  BY <1>1, <1>4, Zenon
<1> QED BY <1>1, <1>5, <1>6, Zenon

\* kernel_main's steps and their places.
LEMMA BootSteps ==
  /\ Len(Boot) = 20
  /\ Boot[1] = Do("pre_init_idt") /\ Boot[2] = Do("init_gdt")
  /\ Boot[3] = Do("init_idt") /\ Boot[4] = Do("init_paging")
  /\ Boot[5] = Do("save") /\ Boot[6] = Icw1("master") /\ Boot[7] = Icw1("slave")
  /\ Boot[8] = Data("master", 32) /\ Boot[9] = Data("slave", 40)
  /\ Boot[10] = Data("master", 4) /\ Boot[11] = Data("slave", 2)
  /\ Boot[12] = Data("master", 1) /\ Boot[13] = Data("slave", 1)
  /\ Boot[14] = Restore("master") /\ Boot[15] = Restore("slave")
  /\ Boot[16] = Data("master", 255) /\ Boot[17] = Data("slave", 255)
  /\ Boot[18] = Do("register_timer") /\ Boot[19] = Do("program_pit")
  /\ Boot[20] = Do("unmask_timer")
<1> DEFINE R == { Do("pre_init_idt"), Do("init_gdt"), Do("init_idt"), Do("init_paging"),
                  Do("save"), Icw1("master"), Icw1("slave"),
                  Data("master", 32), Data("slave", 40), Data("master", 4), Data("slave", 2),
                  Data("master", 1), Data("slave", 1), Restore("master"), Restore("slave"),
                  Data("master", 255), Data("slave", 255),
                  Do("register_timer"), Do("program_pit"), Do("unmask_timer") }
           remap == PIC_remap(32, 40)
<1>1. Early \in Seq(R) /\ Len(Early) = 4
  BY DEF Early
<1>2. remap \in Seq(R) /\ Len(remap) = 11
  BY DEF PIC_remap
<1>3. PIC_disable \in Seq(R) /\ Len(PIC_disable) = 2
  BY DEF PIC_disable
<1>4. Timer \in Seq(R) /\ Len(Timer) = 3
  BY DEF Timer
<1>5. Boot = Early \o remap \o PIC_disable \o Timer
  BY DEF Boot
<1> HIDE DEF R, remap
<1> DEFINE x == Early \o remap
           y == x \o PIC_disable
<1>6. /\ 4 + 11 = 15 /\ 15 + 2 = 17 /\ 17 + 3 = 20
      /\ 4 + 1 = 5 /\ 15 + 1 = 16 /\ 17 + 1 = 18
  OBVIOUS
<1>7. /\ x \in Seq(R) /\ Len(x) = 15
      /\ \A i \in 1 .. 4 : x[i] = Early[i]
      /\ \A i \in 5 .. 15 : x[i] = remap[i - 4]
  <2>1. /\ x \in Seq(R) /\ Len(x) = 4 + 11
        /\ \A i \in 1 .. 4 : x[i] = Early[i]
        /\ \A i \in 4 + 1 .. 4 + 11 : x[i] = remap[i - 4]
    <3>1. /\ x \in Seq(R) /\ Len(x) = Len(Early) + Len(remap)
          /\ \A i \in 1 .. Len(Early) : (x)[i] = Early[i]
          /\ \A i \in Len(Early) + 1 .. Len(Early) + Len(remap) : (x)[i] = remap[i - Len(Early)]
      BY <1>1, <1>2, Concat, Zenon
    <3> QED BY <3>1, <1>1, <1>2, Zenon
  <2> QED BY <2>1, <1>6, Zenon
<1> HIDE DEF x
<1>8. /\ y \in Seq(R) /\ Len(y) = 17
      /\ \A i \in 1 .. 15 : y[i] = x[i]
      /\ \A i \in 16 .. 17 : y[i] = PIC_disable[i - 15]
  <2>1. /\ y \in Seq(R) /\ Len(y) = 15 + 2
        /\ \A i \in 1 .. 15 : y[i] = x[i]
        /\ \A i \in 15 + 1 .. 15 + 2 : y[i] = PIC_disable[i - 15]
    <3>1. /\ y \in Seq(R) /\ Len(y) = Len(x) + Len(PIC_disable)
          /\ \A i \in 1 .. Len(x) : (y)[i] = x[i]
          /\ \A i \in Len(x) + 1 .. Len(x) + Len(PIC_disable) : (y)[i] = PIC_disable[i - Len(x)]
      BY <1>3, <1>7, Concat, Zenon
    <3> QED BY <3>1, <1>3, <1>7, Zenon
  <2> QED BY <2>1, <1>6, Zenon
<1> HIDE DEF y
<1>9. /\ Boot = y \o Timer
      /\ Len(Boot) = 20
      /\ \A i \in 1 .. 17 : Boot[i] = y[i]
      /\ \A i \in 18 .. 20 : Boot[i] = Timer[i - 17]
  <2>1. Boot = y \o Timer
    BY <1>5, Zenon DEF x, y
  <2>2. /\ Len(y \o Timer) = 17 + 3
        /\ \A i \in 1 .. 17 : (y \o Timer)[i] = y[i]
        /\ \A i \in 17 + 1 .. 17 + 3 : (y \o Timer)[i] = Timer[i - 17]
    <3>1. /\ y \o Timer \in Seq(R) /\ Len(y \o Timer) = Len(y) + Len(Timer)
          /\ \A i \in 1 .. Len(y) : (y \o Timer)[i] = y[i]
          /\ \A i \in Len(y) + 1 .. Len(y) + Len(Timer) : (y \o Timer)[i] = Timer[i - Len(y)]
      BY <1>4, <1>8, Concat, ZenonT(60)
    <3> QED BY <3>1, <1>4, <1>8, Zenon
  <2> QED BY <2>1, <2>2, <1>6, Zenon
<1>10. /\ \A i \in 1 .. 4 : Boot[i] = Early[i]
       /\ \A i \in 5 .. 15 : Boot[i] = remap[i - 4]
       /\ \A i \in 16 .. 17 : Boot[i] = PIC_disable[i - 15]
  <2>1. \A i \in 1 .. 4 : i \in 1 .. 15 /\ i \in 1 .. 17
    OBVIOUS
  <2>2. \A i \in 5 .. 15 : i \in 1 .. 15 /\ i \in 1 .. 17
    OBVIOUS
  <2>3. \A i \in 16 .. 17 : i \in 1 .. 17
    OBVIOUS
  <2> QED BY <2>1, <2>2, <2>3, <1>7, <1>8, <1>9, Zenon
<1>11. /\ Boot[1] = Early[1] /\ Boot[2] = Early[2] /\ Boot[3] = Early[3] /\ Boot[4] = Early[4]
      /\ Boot[16] = PIC_disable[1] /\ Boot[17] = PIC_disable[2]
      /\ Boot[18] = Timer[1] /\ Boot[19] = Timer[2] /\ Boot[20] = Timer[3]
  <2>1. 1 \in 1 .. 4 /\ 2 \in 1 .. 4 /\ 3 \in 1 .. 4 /\ 4 \in 1 .. 4
    OBVIOUS
  <2>2. Boot[1] = Early[1] /\ Boot[2] = Early[2] /\ Boot[3] = Early[3] /\ Boot[4] = Early[4]
    BY <1>10, <2>1, Zenon
  <2>3. Boot[16] = PIC_disable[1] /\ Boot[17] = PIC_disable[2]
    BY <1>10
  <2>4. \A i \in 18 .. 20 : Boot[i] = Timer[i - 17]
    BY <1>9, Zenon
  <2>5. Boot[18] = Timer[1] /\ Boot[19] = Timer[2] /\ Boot[20] = Timer[3]
    BY <2>4
  <2> QED BY <2>2, <2>3, <2>5
<1>12. /\ Boot[5] = remap[1] /\ Boot[6] = remap[2] /\ Boot[7] = remap[3] /\ Boot[8] = remap[4]
      /\ Boot[9] = remap[5] /\ Boot[10] = remap[6] /\ Boot[11] = remap[7] /\ Boot[12] = remap[8]
      /\ Boot[13] = remap[9] /\ Boot[14] = remap[10] /\ Boot[15] = remap[11]
  BY <1>10
<1>13. /\ Early[1] = Do("pre_init_idt") /\ Early[2] = Do("init_gdt")
      /\ Early[3] = Do("init_idt") /\ Early[4] = Do("init_paging")
      /\ PIC_disable[1] = Data("master", 255) /\ PIC_disable[2] = Data("slave", 255)
      /\ Timer[1] = Do("register_timer") /\ Timer[2] = Do("program_pit")
      /\ Timer[3] = Do("unmask_timer")
  BY DEF Early, PIC_disable, Timer
<1>14. /\ remap[1] = Do("save") /\ remap[2] = Icw1("master") /\ remap[3] = Icw1("slave")
       /\ remap[4] = Data("master", 32) /\ remap[5] = Data("slave", 40)
       /\ remap[6] = Data("master", 4) /\ remap[7] = Data("slave", 2)
       /\ remap[8] = Data("master", 1) /\ remap[9] = Data("slave", 1)
       /\ remap[10] = Restore("master") /\ remap[11] = Restore("slave")
  BY DEF remap, PIC_remap
<1> QED
  BY <1>9, <1>11, <1>12, <1>13, <1>14

\* Where kernel_main is when it is about to do each of the steps, and with what.
LEMMA StepAt ==
  ASSUME Typed, cpu = "main", ~Halted
  PROVE  /\ pc \in 1 .. 20
         /\ At("pre_init_idt") => pc = 1
         /\ At("init_gdt") => pc = 2
         /\ At("init_idt") => pc = 3
         /\ At("init_paging") => pc = 4
         /\ At("save") => pc = 5
         /\ At("icw1") => \/ pc = 6 /\ Step.chip = "master"
                          \/ pc = 7 /\ Step.chip = "slave"
         /\ At("data") => \/ pc = 8 /\ Step.chip = "master" /\ Step.val = 32
                          \/ pc = 9 /\ Step.chip = "slave" /\ Step.val = 40
                          \/ pc = 10 /\ Step.chip = "master" /\ Step.val = 4
                          \/ pc = 11 /\ Step.chip = "slave" /\ Step.val = 2
                          \/ pc = 12 /\ Step.chip = "master" /\ Step.val = 1
                          \/ pc = 13 /\ Step.chip = "slave" /\ Step.val = 1
                          \/ pc = 16 /\ Step.chip = "master" /\ Step.val = 255
                          \/ pc = 17 /\ Step.chip = "slave" /\ Step.val = 255
         /\ At("restore") => \/ pc = 14 /\ Step.chip = "master"
                             \/ pc = 15 /\ Step.chip = "slave"
         /\ At("register_timer") => pc = 18
         /\ At("program_pit") => pc = 19
         /\ At("unmask_timer") => pc = 20
<1>1. pc \in 1 .. 20
  BY BootSteps DEF Typed, ProgramTyped, Halted
<1>2. \/ pc = 1 \/ pc = 2 \/ pc = 3 \/ pc = 4 \/ pc = 5 \/ pc = 6 \/ pc = 7
      \/ pc = 8 \/ pc = 9 \/ pc = 10 \/ pc = 11 \/ pc = 12 \/ pc = 13 \/ pc = 14
      \/ pc = 15 \/ pc = 16 \/ pc = 17 \/ pc = 18 \/ pc = 19 \/ pc = 20
  BY <1>1
<1> QED
  BY <1>1, <1>2, BootSteps DEF At, Step, Do, Icw1, Data, Restore

-----------------------------------------------------------------------------
(* The invariant.                                                          *)

\* The ICW that each chip expects when kernel_main is at step p.
StageAt(c, p) ==
  IF c = "master"
  THEN IF p \in {7, 8} THEN 2 ELSE IF p \in {9, 10} THEN 3 ELSE IF p \in {11, 12} THEN 4 ELSE 0
  ELSE IF p \in {8, 9} THEN 2 ELSE IF p \in {10, 11} THEN 3 ELSE IF p \in {12, 13} THEN 4 ELSE 0

\* The chip's first vector then.
BaseAt(c, p) ==
  IF c = "master" THEN IF p <= 8 THEN 8 ELSE 32
                  ELSE IF p <= 9 THEN 112 ELSE 40

\* PICs and PIT are where the boot has brought them.
PicsFollow ==
  /\ \A c \in Chips : stage[c] = StageAt(c, pc) /\ base[c] = BaseAt(c, pc)
  /\ pc \in 17 .. 20 => imr["master"] = 255
  /\ pc = 21 => imr["master"] = 254
  /\ pc >= 18 => imr["slave"] = 255 /\ ~latched
  /\ pc >= 20 => pit = 23863

\* The handlers registered so far.
HandlersFollow ==
  /\ handlers \subseteq {14, 32}
  /\ pc >= 5 => 14 \in handlers
  /\ 32 \in handlers <=> pc >= 19

\* What can be running where, and what a handler leaves.
CpuFollows ==
  /\ pc <= 3 => cpu = "main"
  /\ pc \in 18 .. 20 => cpu = "main"
  /\ pc <= 3 \/ cpu # "main" => ~int_flag
  /\ cpu \in {"timer_eoi", "timer_count"} => pc = 21 /\ vector.num = 32
  /\ cpu \in {"main", "timer_count"} => isr = {}
  /\ cpu = "timer_eoi" => isr = {0}
  /\ cpu \in {"main", "timer_eoi", "timer_count"} => tick < TickLimit
  /\ pc = 21 /\ cpu = "hung" => ReadFaulted

IrqInv == Typed /\ PicsFollow /\ HandlersFollow /\ CpuFollows

-----------------------------------------------------------------------------
(* Operators.                                                              *)

\* A mask of ones hides every line; without its lowest bit, every line but 0.
LEMMA MaskBits ==
  /\ \A k \in 0 .. 7 : Bit(255, k)
  /\ \A k \in 1 .. 7 : Bit(254, k)
<1>1. /\ 2 ^ 0 = 1 /\ 2 ^ 1 = 2 /\ 2 ^ 2 = 4 /\ 2 ^ 3 = 8
      /\ 2 ^ 4 = 16 /\ 2 ^ 5 = 32 /\ 2 ^ 6 = 64 /\ 2 ^ 7 = 128
  OBVIOUS
<1>2. \A k \in 0 .. 7 : \/ k = 0 \/ k = 1 \/ k = 2 \/ k = 3
                        \/ k = 4 \/ k = 5 \/ k = 6 \/ k = 7
  OBVIOUS
<1>3. /\ Bit(255, 0) /\ Bit(255, 1) /\ Bit(255, 2) /\ Bit(255, 3)
      /\ Bit(255, 4) /\ Bit(255, 5) /\ Bit(255, 6) /\ Bit(255, 7)
  BY <1>1 DEF Bit
<1>4. /\ Bit(254, 1) /\ Bit(254, 2) /\ Bit(254, 3)
      /\ Bit(254, 4) /\ Bit(254, 5) /\ Bit(254, 6) /\ Bit(254, 7)
  BY <1>1 DEF Bit
<1>5. \A k \in 0 .. 7 : Bit(255, k)
  BY <1>2, <1>3
<1>6. \A k \in 1 .. 7 : k \in 0 .. 7 /\ k # 0
  OBVIOUS
<1>7. \A k \in 1 .. 7 : Bit(254, k)
  BY <1>2, <1>4, <1>6
<1> QED BY <1>5, <1>7

\* Each line is one of the eight of its chip, and only line 0 is the first of the master.
LEMMA LineOfChip ==
  ASSUME NEW l \in Lines
  PROVE  /\ Chip(l) \in Chips /\ l % 8 \in 0 .. 7
         /\ Chip(l) = "master" /\ l # 0 => l % 8 \in 1 .. 7
  BY DEF Lines, Chip, Chips

\* What the masks let through once PIC_disable has written the master's.
LEMMA MasksHold ==
  ASSUME Typed
  PROVE  /\ imr["master"] = 255 => Deliverable = {}
         /\ imr["master"] = 254 => Deliverable \subseteq {0}
<1>1. ASSUME NEW l \in Deliverable, imr["master"] \in {254, 255}
      PROVE  imr["master"] = 254 /\ l = 0
  <2>1. l \in Lines /\ ~Masked(l) /\ (l >= 8 => ~Masked(2))
    BY DEF Deliverable, Typed, PicsTyped
  <2>2. Chip(2) = "master" /\ 2 % 8 = 2
    BY DEF Chip
  <2>3. Masked(2)
    BY <1>1, <2>2, MaskBits DEF Masked
  <2>4. Chip(l) = "master"
    BY <2>1, <2>3 DEF Chip, Lines
  <2>5. imr["master"] = 254
    BY <1>1, <2>1, <2>4, LineOfChip, MaskBits DEF Masked
  <2> QED BY <2>1, <2>4, <2>5, LineOfChip, MaskBits DEF Masked
<1> QED BY <1>1

-----------------------------------------------------------------------------
(* The boot steps.                                                         *)

\* A byte, without the set of all of them.
LEMMA ByteRange == \A v : v \in Bytes <=> v \in Int /\ 0 <= v /\ v <= 255
<1>1. \A v, n : v \in 0 .. n /\ n \in Int <=> n \in Int /\ v \in Int /\ 0 <= v /\ v <= n
  OBVIOUS
<1> QED BY <1>1 DEF Bytes

LEMMA VectorBytes == 13 \in Bytes /\ 14 \in Bytes /\ 32 \in Bytes
  BY ByteRange

\* What every boot step leaves true of the processor.
LEMMA BootStep ==
  ASSUME IrqInv, cpu = "main", pc \in 1 .. 20, Onward, isr' = {},
         pc <= 2 => ~int_flag',
         handlers' \subseteq Bytes, segment' \in 0 .. LastPageOfAll,
         saved' \in [Chips -> Bytes]
  PROVE  ProgramTyped' /\ CpuFollows'
<1>1. /\ pc' = pc + 1 /\ cpu' = "main" /\ vector' = vector /\ tick' = tick
      /\ tick < TickLimit
  BY DEF IrqInv, CpuFollows, Onward
<1>2. pc' \in 2 .. 21 /\ (pc' <= 3 => ~int_flag') /\ pc' \in 1 .. Len(Boot) + 1
  BY <1>1, BootSteps
<1>3. CpuFollows'
  BY <1>1, <1>2 DEF CpuFollows
<1>4. ProgramTyped'
  BY <1>1, <1>2 DEF IrqInv, Typed, ProgramTyped
<1> QED BY <1>3, <1>4

\* Steps that leave PICs and PIT alone.
LEMMA PicsUntouched ==
  ASSUME IrqInv, pc \in {1, 2, 3, 4, 5, 18}, Onward, UNCHANGED <<pics, pit>>
  PROVE  PicsFollow' /\ PicsTyped' /\ isr' = isr
<1>1. /\ imr' = imr /\ irr' = irr /\ isr' = isr /\ base' = base /\ stage' = stage
      /\ latched' = latched /\ pit' = pit /\ pc' = pc + 1 /\ ~latched
  BY DEF pics, Onward
<1>2. PicsFollow'
  BY <1>1 DEF IrqInv, PicsFollow, StageAt, BaseAt
<1>3. PicsTyped'
  BY <1>1 DEF IrqInv, Typed, PicsTyped
<1> QED BY <1>1, <1>2, <1>3

LEMMA PreInitIdtKeeps == ASSUME IrqInv, PreInitIdt PROVE IrqInv'
<1>1. cpu = "main" /\ pc = 1 /\ Onward /\ UNCHANGED <<pics, pit>> /\ Typed
  BY StepAt DEF IrqInv, PreInitIdt, At
<1>2. /\ handlers' = {} /\ int_flag' = int_flag /\ paging' = paging /\ latched' = latched
      /\ segment' = segment /\ saved' = saved /\ isr = {} /\ ~int_flag
  BY <1>1 DEF IrqInv, CpuFollows, PreInitIdt, Onward, program, pics
<1>3. PicsFollow' /\ PicsTyped' /\ isr' = {}
  BY <1>1, <1>2, PicsUntouched
<1>4. HandlersFollow'
  BY <1>1, <1>2 DEF IrqInv, HandlersFollow, Onward
<1>5. FlagsTyped'
  BY <1>1, <1>2, Zenon DEF Typed, FlagsTyped
<1>6. handlers' \subseteq Bytes /\ saved' \in [Chips -> Bytes]
  BY <1>1, <1>2 DEF Typed, ProgramTyped, PicsTyped
<1>7. segment' \in 0 .. LastPageOfAll
  BY <1>1, <1>2 DEF Typed, ProgramTyped
<1>8. pc \in 1 .. 20 /\ (pc <= 2 => ~int_flag')
  BY <1>1, <1>2
<1>9. ProgramTyped' /\ CpuFollows'
  BY <1>1, <1>3, <1>6, <1>7, <1>8, BootStep
<1> QED BY <1>3, <1>4, <1>5, <1>9 DEF IrqInv, Typed

LEMMA InitGdtKeeps == ASSUME IrqInv, InitGdt PROVE IrqInv'
<1>1. cpu = "main" /\ pc = 2 /\ Onward /\ UNCHANGED <<pics, pit>> /\ Typed
  BY StepAt DEF IrqInv, InitGdt, At
<1>2. /\ handlers' = handlers /\ int_flag' = FALSE /\ paging' = paging /\ latched' = latched
      /\ segment' = LastPage(0, 65535) /\ saved' = saved /\ isr = {}
  BY <1>1 DEF IrqInv, CpuFollows, InitGdt, Onward, program, pics
<1>3. PicsFollow' /\ PicsTyped' /\ isr' = {}
  BY <1>1, <1>2, PicsUntouched
<1>4. HandlersFollow'
  BY <1>1, <1>2 DEF IrqInv, HandlersFollow, Onward
<1>5. FlagsTyped'
  <2>1. int_flag' = FALSE /\ paging' = paging /\ latched' = latched
    BY <1>2
  <2> QED BY <1>1, <2>1, Zenon DEF Typed, FlagsTyped
<1>6. handlers' \subseteq Bytes /\ saved' \in [Chips -> Bytes]
  BY <1>1, <1>2 DEF Typed, ProgramTyped, PicsTyped
<1>7. segment' \in 0 .. LastPageOfAll
  <2>1. LastPage(0, 65535) = 65535
    BY DEF LastPage
  <2>2. LastPageOfAll \in Nat /\ 65535 <= LastPageOfAll
    BY DEF LastPageOfAll
  <2> QED BY <1>2, <2>1, <2>2
<1>8. pc \in 1 .. 20 /\ (pc <= 2 => ~int_flag')
  BY <1>1, <1>2
<1>9. ProgramTyped' /\ CpuFollows'
  BY <1>1, <1>3, <1>6, <1>7, <1>8, BootStep
<1> QED BY <1>3, <1>4, <1>5, <1>9 DEF IrqInv, Typed

LEMMA InitIdtKeeps == ASSUME IrqInv, InitIdt PROVE IrqInv'
<1>1. cpu = "main" /\ pc = 3 /\ Onward /\ UNCHANGED <<pics, pit>> /\ Typed
  BY StepAt DEF IrqInv, InitIdt, At
<1>2. /\ handlers' = handlers /\ int_flag' = TRUE /\ paging' = paging /\ latched' = latched
      /\ segment' = segment /\ saved' = saved /\ isr = {}
  BY <1>1 DEF IrqInv, CpuFollows, InitIdt, Onward, program, pics
<1>3. PicsFollow' /\ PicsTyped' /\ isr' = {}
  BY <1>1, <1>2, PicsUntouched
<1>4. HandlersFollow'
  BY <1>1, <1>2 DEF IrqInv, HandlersFollow, Onward
<1>5. FlagsTyped'
  BY <1>1, <1>2, Zenon DEF Typed, FlagsTyped
<1>6. handlers' \subseteq Bytes /\ saved' \in [Chips -> Bytes]
  BY <1>1, <1>2 DEF Typed, ProgramTyped, PicsTyped
<1>7. segment' \in 0 .. LastPageOfAll
  BY <1>1, <1>2 DEF Typed, ProgramTyped
<1>8. pc \in 1 .. 20 /\ (pc <= 2 => ~int_flag')
  BY <1>1, <1>2
<1>9. ProgramTyped' /\ CpuFollows'
  BY <1>1, <1>3, <1>6, <1>7, <1>8, BootStep
<1> QED BY <1>3, <1>4, <1>5, <1>9 DEF IrqInv, Typed

LEMMA InitPagingKeeps == ASSUME IrqInv, InitPaging PROVE IrqInv'
<1>1. cpu = "main" /\ pc = 4 /\ Onward /\ UNCHANGED <<pics, pit>> /\ Typed
  BY StepAt DEF IrqInv, InitPaging, At
<1>2. /\ handlers' = handlers \cup {14} /\ int_flag' = int_flag /\ paging' = TRUE /\ latched' = latched
      /\ segment' = segment /\ saved' = saved /\ isr = {}
  BY <1>1 DEF IrqInv, CpuFollows, InitPaging, Onward, program, pics
<1>3. PicsFollow' /\ PicsTyped' /\ isr' = {}
  BY <1>1, <1>2, PicsUntouched
<1>4. HandlersFollow'
  BY <1>1, <1>2 DEF IrqInv, HandlersFollow, Onward
<1>5. FlagsTyped'
  BY <1>1, <1>2, Zenon DEF Typed, FlagsTyped
<1>6. handlers' \subseteq Bytes /\ saved' \in [Chips -> Bytes]
  BY <1>1, <1>2, VectorBytes DEF Typed, ProgramTyped
<1>7. segment' \in 0 .. LastPageOfAll
  BY <1>1, <1>2 DEF Typed, ProgramTyped
<1>8. pc \in 1 .. 20 /\ (pc <= 2 => ~int_flag')
  BY <1>1, <1>2
<1>9. ProgramTyped' /\ CpuFollows'
  BY <1>1, <1>3, <1>6, <1>7, <1>8, BootStep
<1> QED BY <1>3, <1>4, <1>5, <1>9 DEF IrqInv, Typed

LEMMA SaveMasksKeeps == ASSUME IrqInv, SaveMasks PROVE IrqInv'
<1>1. cpu = "main" /\ pc = 5 /\ Onward /\ UNCHANGED <<pics, pit>> /\ Typed
  BY StepAt DEF IrqInv, SaveMasks, At
<1>2. /\ handlers' = handlers /\ int_flag' = int_flag /\ paging' = paging /\ latched' = latched
      /\ segment' = segment /\ saved' = imr /\ isr = {}
  BY <1>1 DEF IrqInv, CpuFollows, SaveMasks, Onward, program, pics
<1>3. PicsFollow' /\ PicsTyped' /\ isr' = {}
  BY <1>1, <1>2, PicsUntouched
<1>4. HandlersFollow'
  BY <1>1, <1>2 DEF IrqInv, HandlersFollow, Onward
<1>5. FlagsTyped'
  BY <1>1, <1>2, Zenon DEF Typed, FlagsTyped
<1>6. handlers' \subseteq Bytes /\ saved' \in [Chips -> Bytes]
  BY <1>1, <1>2 DEF Typed, ProgramTyped, PicsTyped
<1>7. segment' \in 0 .. LastPageOfAll
  BY <1>1, <1>2 DEF Typed, ProgramTyped
<1>8. pc \in 1 .. 20 /\ (pc <= 2 => ~int_flag')
  BY <1>1, <1>2
<1>9. ProgramTyped' /\ CpuFollows'
  BY <1>1, <1>3, <1>6, <1>7, <1>8, BootStep
<1> QED BY <1>3, <1>4, <1>5, <1>9 DEF IrqInv, Typed

LEMMA RegisterTimerKeeps == ASSUME IrqInv, RegisterTimer PROVE IrqInv'
<1>1. cpu = "main" /\ pc = 18 /\ Onward /\ UNCHANGED <<pics, pit>> /\ Typed
  BY StepAt DEF IrqInv, RegisterTimer, At
<1>2. /\ handlers' = handlers \cup {32} /\ int_flag' = int_flag /\ paging' = paging /\ latched' = latched
      /\ segment' = segment /\ saved' = saved /\ isr = {}
  BY <1>1 DEF IrqInv, CpuFollows, RegisterTimer, Onward, program, pics
<1>3. PicsFollow' /\ PicsTyped' /\ isr' = {}
  BY <1>1, <1>2, PicsUntouched
<1>4. HandlersFollow'
  BY <1>1, <1>2 DEF IrqInv, HandlersFollow, Onward
<1>5. FlagsTyped'
  BY <1>1, <1>2, Zenon DEF Typed, FlagsTyped
<1>6. handlers' \subseteq Bytes /\ saved' \in [Chips -> Bytes]
  BY <1>1, <1>2, VectorBytes DEF Typed, ProgramTyped
<1>7. segment' \in 0 .. LastPageOfAll
  BY <1>1, <1>2 DEF Typed, ProgramTyped
<1>8. pc \in 1 .. 20 /\ (pc <= 2 => ~int_flag')
  BY <1>1, <1>2
<1>9. ProgramTyped' /\ CpuFollows'
  BY <1>1, <1>3, <1>6, <1>7, <1>8, BootStep
<1> QED BY <1>3, <1>4, <1>5, <1>9 DEF IrqInv, Typed

\* ICW1: the chip starts over, whatever it had requested or masked.
LEMMA PicCommandKeeps == ASSUME IrqInv, PicCommand PROVE IrqInv'
<1> DEFINE c == Step.chip
<1>1. /\ cpu = "main" /\ Onward /\ Typed /\ isr = {}
      /\ \/ pc = 6 /\ c = "master"
         \/ pc = 7 /\ c = "slave"
      /\ UNCHANGED <<int_flag, program, pit>> /\ StartInit(c)
  BY StepAt DEF IrqInv, CpuFollows, PicCommand, At
<1> HIDE DEF c
<1>2. /\ stage' = [stage EXCEPT ![c] = 2] /\ imr' = [imr EXCEPT ![c] = 0]
      /\ irr' \subseteq irr /\ isr' = {} /\ base' = base /\ pit' = pit
      /\ handlers' = handlers /\ segment' = segment /\ saved' = saved /\ pc' = pc + 1
  BY <1>1 DEF StartInit, program, Onward
<1>3. c \in Chips /\ 0 \in Bytes
  BY <1>1, ByteRange DEF Chips
<1>4. PicsTyped'
  BY <1>1, <1>2, <1>3 DEF Typed, PicsTyped
<1>5. FlagsTyped'
  <2>1. int_flag' = int_flag /\ paging' = paging
    BY <1>1 DEF program
  <2>2. latched' \in BOOLEAN
    BY <1>1, Zenon DEF StartInit
  <2> QED BY <1>1, <2>1, <2>2, Zenon DEF Typed, FlagsTyped
<1>6. PicsFollow'
  BY <1>1, <1>2, <1>3 DEF IrqInv, Typed, PicsTyped, PicsFollow, StageAt, BaseAt, Chips
<1>7. HandlersFollow'
  BY <1>1, <1>2 DEF IrqInv, HandlersFollow
<1>8. ProgramTyped' /\ CpuFollows'
  BY <1>1, <1>2, BootStep DEF Typed, ProgramTyped
<1> QED BY <1>4, <1>5, <1>6, <1>7, <1>8 DEF IrqInv, Typed

\* The writes to the data ports, in their order: what each chip takes each for.
WriteInOrder(c, v) ==
  \/ pc = 8 /\ c = "master" /\ v = 32
  \/ pc = 9 /\ c = "slave" /\ v = 40
  \/ pc \in {10, 12, 14} /\ c = "master"
  \/ pc \in {11, 13, 15} /\ c = "slave"
  \/ pc = 16 /\ c = "master" /\ v = 255
  \/ pc = 17 /\ c = "slave" /\ v = 255
  \/ pc = 20 /\ c = "master" /\ v = 254

LEMMA OutDataKeeps ==
  ASSUME IrqInv, cpu = "main", ~Halted, Onward, NEW c \in Chips, NEW v \in Bytes,
         OutData(c, v), WriteInOrder(c, v), UNCHANGED <<int_flag, program, pit>>
  PROVE  IrqInv'
<1>1. /\ Typed /\ isr = {} /\ isr' = isr /\ irr' = irr /\ pit' = pit /\ pc' = pc + 1
      /\ handlers' = handlers /\ segment' = segment /\ saved' = saved
      /\ int_flag' = int_flag /\ paging' = paging /\ ~latched
      /\ pc \in {8, 9, 10, 11, 12, 13, 14, 15, 16, 17, 20}
  BY DEF IrqInv, CpuFollows, OutData, program, Onward, WriteInOrder
<1>2. /\ stage' = [stage EXCEPT ![c] = IF @ \in {0, 4} THEN 0 ELSE @ + 1]
      /\ base' = IF stage[c] = 2 THEN [base EXCEPT ![c] = v] ELSE base
      /\ imr' = IF stage[c] = 0 THEN [imr EXCEPT ![c] = v] ELSE imr
  BY DEF OutData
<1>3. PicsTyped'
  BY <1>1, <1>2 DEF Typed, PicsTyped
<1>4. FlagsTyped'
  <2>1. latched' \in BOOLEAN
    BY Zenon DEF OutData
  <2> QED BY <1>1, <2>1, Zenon DEF Typed, FlagsTyped
<1>5. pc' >= 18 => ~latched'
  <2>1. CASE pc \in {17, 20}
    <3>1. imr["master"] = 255
      BY <2>1 DEF IrqInv, PicsFollow
    <3>2. ~Latches
      BY <1>1, <3>1, MasksHold DEF Latches
    <3> QED BY <1>1, <3>2 DEF OutData
  <2>2. CASE pc \notin {17, 20}
    BY <1>1, <2>2
  <2> QED BY <2>1, <2>2
<1>6. PicsFollow'
  <2>1. \A d \in Chips : stage'[d] = StageAt(d, pc') /\ base'[d] = BaseAt(d, pc')
    BY <1>1, <1>2 DEF IrqInv, Typed, PicsTyped, PicsFollow, StageAt, BaseAt, Chips, WriteInOrder
  <2>2. pc \in {16, 17, 20} => stage[c] = 0
    BY DEF IrqInv, PicsFollow, StageAt
  <2>3. /\ pc' \in 17 .. 20 => imr'["master"] = 255
        /\ pc' = 21 => imr'["master"] = 254
        /\ pc' >= 18 => imr'["slave"] = 255
    BY <1>1, <1>2, <2>2 DEF IrqInv, Typed, PicsTyped, PicsFollow, Chips, WriteInOrder
  <2>4. pc' >= 20 => pit' = 23863
    BY <1>1 DEF IrqInv, PicsFollow
  <2> QED BY <1>5, <2>1, <2>3, <2>4 DEF PicsFollow
<1>7. HandlersFollow'
  BY <1>1 DEF IrqInv, HandlersFollow
<1>8. ProgramTyped' /\ CpuFollows'
  BY <1>1, BootStep DEF Typed, ProgramTyped
<1> QED BY <1>3, <1>4, <1>6, <1>7, <1>8 DEF IrqInv, Typed

LEMMA PicDataKeeps == ASSUME IrqInv, PicData PROVE IrqInv'
<1> DEFINE c == Step.chip
<1>1. Typed /\ cpu = "main" /\ ~Halted /\ Onward /\ UNCHANGED <<int_flag, program, pit>>
  BY DEF IrqInv, PicData, At
<1>2. CASE At("data")
  <2>1. OutData(c, Step.val) /\ WriteInOrder(c, Step.val) /\ c \in Chips /\ Step.val \in Bytes
    BY <1>1, <1>2, StepAt, ByteRange DEF PicData, WriteInOrder, Chips, At
  <2> QED BY <1>1, <2>1, OutDataKeeps
<1>3. CASE At("restore")
  <2>1. /\ c \in Chips
        /\ \/ pc = 14 /\ c = "master"
           \/ pc = 15 /\ c = "slave"
    BY <1>1, <1>3, StepAt DEF Chips
  <2>2. saved[c] \in Bytes
    BY <1>1, <2>1 DEF Typed, ProgramTyped
  <2>3. OutData(c, saved[c])
    BY <1>3 DEF PicData, At
  <2> QED BY <1>1, <2>1, <2>2, <2>3, OutDataKeeps DEF WriteInOrder
<1> QED BY <1>2, <1>3 DEF PicData

LEMMA UnmaskTimerKeeps == ASSUME IrqInv, UnmaskTimer PROVE IrqInv'
<1>1. /\ Typed /\ cpu = "main" /\ ~Halted /\ Onward /\ pc = 20
      /\ UNCHANGED <<int_flag, program, pit>>
  BY StepAt DEF IrqInv, UnmaskTimer, At
<1>2. imr["master"] = 255
  BY <1>1 DEF IrqInv, PicsFollow
<1>3. imr["master"] - (imr["master"] % 2) = 254
  BY <1>2
<1>4. OutData("master", 254)
  BY <1>3 DEF UnmaskTimer
<1>5. "master" \in Chips /\ 254 \in Bytes /\ WriteInOrder("master", 254)
  BY <1>1, ByteRange DEF Chips, WriteInOrder
<1> QED BY <1>1, <1>4, <1>5, OutDataKeeps

LEMMA ProgramPitKeeps == ASSUME IrqInv, ProgramPit PROVE IrqInv'
<1>1. /\ Typed /\ cpu = "main" /\ ~Halted /\ Onward /\ pc = 19 /\ isr = {} /\ ~latched
      /\ UNCHANGED <<int_flag, program, pics>>
  BY StepAt DEF IrqInv, CpuFollows, ProgramPit, At, Onward
<1>2. pit' = 23863
  <2>1. Divisor(50) = 23863
    BY DEF Divisor
  <2>2. TwoBytes(23863) = 23863
    BY DEF TwoBytes
  <2> QED BY <2>1, <2>2 DEF ProgramPit
<1>3. /\ handlers' = handlers /\ segment' = segment /\ saved' = saved /\ pc' = 20
      /\ int_flag' = int_flag /\ paging' = paging /\ latched' = latched
      /\ imr' = imr /\ irr' = irr /\ isr' = isr /\ base' = base /\ stage' = stage
  BY <1>1 DEF program, pics, Onward
<1>4. pit' \in 0 .. MaxDivisor
  <2>1. MaxDivisor \in Nat /\ 23863 <= MaxDivisor
    BY DEF MaxDivisor
  <2> QED BY <1>2, <2>1
<1>5. PicsTyped'
  BY <1>1, <1>3, <1>4 DEF Typed, PicsTyped
<1>6. FlagsTyped'
  BY <1>1, <1>3, Zenon DEF Typed, FlagsTyped
<1>7. PicsFollow'
  BY <1>1, <1>2, <1>3 DEF IrqInv, PicsFollow, StageAt, BaseAt
<1>8. HandlersFollow'
  BY <1>1, <1>3 DEF IrqInv, HandlersFollow
<1>9. ProgramTyped' /\ CpuFollows'
  BY <1>1, <1>3, BootStep DEF Typed, ProgramTyped
<1> QED BY <1>5, <1>6, <1>7, <1>8, <1>9 DEF IrqInv, Typed

-----------------------------------------------------------------------------
(* Interrupts and their handlers.                                          *)

\* Every vector a line can come in on is a byte.
LEMMA VectorTyped ==
  ASSUME IrqInv, NEW l \in Lines
  PROVE  VectorOf(l) \in Bytes /\ base["master"] + 7 \in Bytes
<1>1. /\ base[Chip(l)] \in {8, 32, 40, 112} /\ base["master"] \in {8, 32}
  BY LineOfChip DEF IrqInv, PicsFollow, BaseAt, Chips
<1>2. l % 8 \in 0 .. 7
  BY LineOfChip
<1>3. VectorOf(l) \in Int /\ 0 <= VectorOf(l) /\ VectorOf(l) <= 255
  BY <1>1, <1>2 DEF VectorOf
<1> QED BY <1>1, <1>3, ByteRange

\* An interrupt taken before the timer is registered stops the machine.
LEMMA EarlyTake ==
  ASSUME IrqInv, cpu = "main", pc \in 4 .. 17, NEW v \in Bytes, NEW b \in BOOLEAN, Take(v, b),
         UNCHANGED <<pc, program, tick, pit>>,
         imr' = imr, base' = base, stage' = stage, irr' \subseteq Lines, isr' \subseteq Lines,
         latched' \in BOOLEAN
  PROVE  IrqInv'
<1>1. /\ Typed /\ pc' = pc /\ handlers' = handlers /\ segment' = segment /\ paging' = paging
      /\ saved' = saved /\ tick' = tick /\ pit' = pit
  BY DEF IrqInv, program
<1>2. cpu' \in {"hung", "panic"}
  <2>1. \A w \in handlers : w = 14
    BY DEF IrqInv, HandlersFollow
  <2>2. HandlerOf(v) \in {"hung", "panic"}
    BY <2>1 DEF HandlerOf
  <2> QED BY <2>2 DEF Take
<1>3. int_flag' = FALSE /\ vector' = [num |-> v, spurious |-> b]
  BY DEF Take
<1>4. ProgramTyped'
  <2>1. vector' \in [num : Bytes, spurious : BOOLEAN]
    BY <1>3
  <2> QED BY <1>1, <1>2, <2>1 DEF Typed, ProgramTyped
<1>5. FlagsTyped'
  BY <1>1, <1>3, Zenon DEF Typed, FlagsTyped
<1>6. PicsTyped'
  BY <1>1 DEF Typed, PicsTyped
<1>7. PicsFollow'
  BY <1>1 DEF IrqInv, PicsFollow
<1>8. HandlersFollow'
  BY <1>1 DEF IrqInv, HandlersFollow
<1>9. CpuFollows'
  BY <1>1, <1>2, <1>3 DEF CpuFollows
<1> QED BY <1>4, <1>5, <1>6, <1>7, <1>8, <1>9 DEF IrqInv, Typed

LEMMA InterruptKeeps == ASSUME IrqInv, NEW l \in DeviceLines, Interrupt(l) PROVE IrqInv'
<1>1. /\ Typed /\ cpu = "main" /\ int_flag /\ l \in Deliverable /\ isr = {}
      /\ Take(VectorOf(l), FALSE) /\ irr' = irr \ {l}
      /\ isr' = {l} \cup (IF l < 8 THEN {} ELSE {2})
      /\ UNCHANGED <<pc, program, tick, imr, base, stage, latched, pit, checks>>
  BY DEF IrqInv, CpuFollows, Interrupt
<1>2. l \in Lines /\ irr' \subseteq Lines /\ isr' \subseteq Lines
  BY <1>1, HardwareAssumption DEF Typed, PicsTyped, Lines
<1>3. pc \in 4 .. 21
  BY <1>1, BootSteps DEF IrqInv, CpuFollows, Typed, ProgramTyped
<1>4. CASE pc \in 4 .. 17
  <2>1. latched' \in BOOLEAN
    BY <1>1, Zenon DEF Typed, FlagsTyped
  <2> QED BY <1>1, <1>2, <1>4, <2>1, VectorTyped, EarlyTake
<1>5. CASE pc \in 18 .. 20
  BY <1>1, <1>5, MasksHold DEF IrqInv, PicsFollow
<1>6. CASE pc = 21
  <2>1. l = 0
    BY <1>1, <1>6, MasksHold DEF IrqInv, PicsFollow
  <2>2. VectorOf(l) = 32
    BY <1>6, <2>1 DEF IrqInv, PicsFollow, BaseAt, VectorOf, Chip, Chips
  <2>3. cpu' = "timer_eoi" /\ vector' = [num |-> 32, spurious |-> FALSE] /\ int_flag' = FALSE
    BY <1>1, <1>6, <2>2 DEF IrqInv, HandlersFollow, Take, HandlerOf
  <2>4. /\ pc' = pc /\ handlers' = handlers /\ segment' = segment /\ paging' = paging
        /\ saved' = saved /\ tick' = tick /\ pit' = pit /\ imr' = imr /\ base' = base
        /\ stage' = stage /\ latched' = latched /\ isr' = {0}
    BY <1>1, <2>1 DEF program
  <2>5. ProgramTyped'
    <3>1. vector' \in [num : Bytes, spurious : BOOLEAN]
      BY <2>3, VectorBytes
    <3> QED BY <1>1, <2>3, <2>4, <3>1 DEF Typed, ProgramTyped
  <2>6. FlagsTyped'
    BY <1>1, <2>3, <2>4, Zenon DEF Typed, FlagsTyped
  <2>7. PicsTyped'
    BY <1>1, <1>2, <2>4 DEF Typed, PicsTyped
  <2>8. PicsFollow'
    BY <2>4 DEF IrqInv, PicsFollow
  <2>9. HandlersFollow'
    BY <2>4 DEF IrqInv, HandlersFollow
  <2>10. CpuFollows'
    BY <1>1, <1>6, <2>3, <2>4 DEF IrqInv, CpuFollows
  <2> QED BY <2>5, <2>6, <2>7, <2>8, <2>9, <2>10 DEF IrqInv, Typed
<1> QED BY <1>3, <1>4, <1>5, <1>6

LEMMA SpuriousInterruptKeeps == ASSUME IrqInv, SpuriousInterrupt PROVE IrqInv'
<1>1. /\ Typed /\ cpu = "main" /\ int_flag /\ latched /\ Take(base["master"] + 7, TRUE)
      /\ latched' = FALSE /\ imr' = imr /\ irr' = irr /\ isr' = isr /\ base' = base
      /\ stage' = stage /\ UNCHANGED <<pc, program, tick, pit>>
  BY DEF IrqInv, SpuriousInterrupt
<1>2. pc \in 4 .. 17
  BY <1>1, BootSteps DEF IrqInv, PicsFollow, CpuFollows, Typed, ProgramTyped
<1>3. irr' \subseteq Lines /\ isr' \subseteq Lines
  BY <1>1 DEF Typed, PicsTyped
<1>4. base["master"] + 7 \in Bytes
  BY VectorTyped DEF Lines
<1>5. latched' \in BOOLEAN
  BY <1>1
<1> QED BY <1>1, <1>2, <1>3, <1>4, <1>5, EarlyTake

LEMMA TimerEoiKeeps == ASSUME IrqInv, TimerEoi PROVE IrqInv'
<1>1. /\ Typed /\ cpu = "timer_eoi" /\ pc = 21 /\ vector.num = 32 /\ isr = {0} /\ ~int_flag
      /\ tick < TickLimit /\ cpu' = "timer_count" /\ EndOfInterrupt(EoiChips(vector.num - 32))
      /\ UNCHANGED <<pc, int_flag, program, vector, tick, pit>>
  BY DEF IrqInv, CpuFollows, TimerEoi
<1>2. EoiChips(vector.num - 32) = {"master"}
  BY <1>1 DEF EoiChips
<1>3. isr' = {}
  BY <1>1, <1>2 DEF EndOfInterrupt, Chip
<1>4. /\ imr' = imr /\ irr' = irr /\ base' = base /\ stage' = stage /\ latched' = latched
      /\ pc' = pc /\ handlers' = handlers /\ segment' = segment /\ paging' = paging
      /\ saved' = saved /\ tick' = tick /\ pit' = pit /\ vector' = vector
      /\ int_flag' = int_flag
  BY <1>1 DEF EndOfInterrupt, program
<1>5. ProgramTyped'
  BY <1>1, <1>4 DEF Typed, ProgramTyped
<1>6. FlagsTyped'
  BY <1>1, <1>4, Zenon DEF Typed, FlagsTyped
<1>7. PicsTyped'
  BY <1>1, <1>3, <1>4 DEF Typed, PicsTyped
<1>8. PicsFollow'
  BY <1>4 DEF IrqInv, PicsFollow
<1>9. HandlersFollow'
  BY <1>4 DEF IrqInv, HandlersFollow
<1>10. CpuFollows'
  BY <1>1, <1>3, <1>4 DEF CpuFollows
<1> QED BY <1>5, <1>6, <1>7, <1>8, <1>9, <1>10 DEF IrqInv, Typed

\* The read at the end of the address space faults with one of two vectors.
LEMMA ReadFaults == FaultOfRead \in {13, 14}
  BY DEF FaultOfRead

LEMMA TimerCountKeeps == ASSUME IrqInv, TimerCount PROVE IrqInv'
<1>1. /\ Typed /\ cpu = "timer_count" /\ pc = 21 /\ isr = {} /\ ~int_flag
      /\ tick < TickLimit /\ tick' = tick + 1
      /\ imr' = imr /\ irr' = irr /\ isr' = isr /\ base' = base /\ stage' = stage
      /\ latched' = latched /\ pc' = pc /\ handlers' = handlers /\ segment' = segment
      /\ paging' = paging /\ saved' = saved /\ pit' = pit /\ checks' = checks
  BY DEF IrqInv, CpuFollows, TimerCount, program, pics
<1>2. tick' \in 1 .. TickLimit /\ TickLimit \in Nat
  BY <1>1, HardwareAssumption DEF Typed, ProgramTyped
<1>3. PicsTyped'
  BY <1>1 DEF Typed, PicsTyped
<1>4. PicsFollow'
  BY <1>1 DEF IrqInv, PicsFollow
<1>5. HandlersFollow'
  BY <1>1 DEF IrqInv, HandlersFollow
<1>6. CASE tick' % TickLimit = 0
  <2> DEFINE v == FaultOfRead
  <2>1. Take(v, FALSE)
    BY <1>6 DEF TimerCount
  <2>2. v \in {13, 14} /\ v \in Bytes
    BY ReadFaults, VectorBytes
  <2>3. 14 \in handlers /\ 13 \notin handlers
    BY <1>1 DEF IrqInv, HandlersFollow
  <2>4. cpu' \in {"hung", "panic"} /\ vector' = [num |-> v, spurious |-> FALSE]
        /\ int_flag' = FALSE
    BY <2>1, <2>2, <2>3 DEF Take, HandlerOf
  <2>5. v' = v
    BY <1>1 DEF FaultOfRead
  <2>6. ReadFaulted'
    <3>1. vector'.num = v'
      BY <2>4, <2>5
    <3>2. tick' > 0
      BY <1>2
    <3> QED BY <1>6, <3>1, <3>2, Zenon DEF ReadFaulted
  <2>7. ProgramTyped'
    <3>1. vector' \in [num : Bytes, spurious : BOOLEAN]
      BY <2>2, <2>4
    <3> QED BY <1>1, <1>2, <2>4, <3>1 DEF Typed, ProgramTyped
  <2>8. FlagsTyped'
    BY <1>1, <2>4, Zenon DEF Typed, FlagsTyped
  <2>9. CpuFollows'
    BY <1>1, <2>4, <2>6 DEF CpuFollows
  <2> QED BY <1>3, <1>4, <1>5, <2>7, <2>8, <2>9 DEF IrqInv, Typed
<1>7. CASE tick' % TickLimit # 0
  <2>1. cpu' = "main" /\ int_flag' = TRUE /\ vector' = vector
    BY <1>7 DEF TimerCount
  <2>2. tick' < TickLimit
    <3>1. \A n \in Nat \ {0} : n % n = 0
      OBVIOUS
    <3>2. TickLimit % TickLimit = 0
      BY <3>1, HardwareAssumption, Zenon
    <3>3. tick' # TickLimit
      BY <1>7, <3>2, Zenon
    <3> QED BY <1>2, <3>3
  <2>3. ProgramTyped'
    BY <1>1, <1>2, <2>1 DEF Typed, ProgramTyped
  <2>4. FlagsTyped'
    BY <1>1, <2>1, Zenon DEF Typed, FlagsTyped
  <2>5. CpuFollows'
    BY <1>1, <2>1, <2>2 DEF CpuFollows
  <2> QED BY <1>3, <1>4, <1>5, <2>3, <2>4, <2>5 DEF IrqInv, Typed
<1> QED BY <1>6, <1>7

\* A device raises its line, or nothing changes.
LEMMA RaiseKeeps ==
  ASSUME IrqInv, irr' \subseteq Lines,
         UNCHANGED <<pc, cpu, int_flag, program, vector, tick, imr, isr, base, stage, latched, pit, checks>>
  PROVE  IrqInv'
<1>1. /\ pc' = pc /\ cpu' = cpu /\ int_flag' = int_flag /\ vector' = vector /\ tick' = tick
      /\ handlers' = handlers /\ segment' = segment /\ paging' = paging /\ saved' = saved
      /\ imr' = imr /\ isr' = isr /\ base' = base /\ stage' = stage /\ latched' = latched
      /\ pit' = pit /\ checks' = checks /\ Typed
  BY DEF IrqInv, program
<1>2. ProgramTyped'
  BY <1>1 DEF Typed, ProgramTyped
<1>3. FlagsTyped'
  BY <1>1, Zenon DEF Typed, FlagsTyped
<1>4. PicsTyped'
  BY <1>1 DEF Typed, PicsTyped
<1>5. PicsFollow'
  BY <1>1 DEF IrqInv, PicsFollow
<1>6. HandlersFollow'
  BY <1>1 DEF IrqInv, HandlersFollow
<1>7. ReadFaulted => ReadFaulted'
  BY <1>1 DEF ReadFaulted, FaultOfRead
<1>8. CpuFollows'
  BY <1>1, <1>7 DEF IrqInv, CpuFollows
<1> QED BY <1>2, <1>3, <1>4, <1>5, <1>6, <1>8 DEF IrqInv, Typed

-----------------------------------------------------------------------------
(* The theorems.                                                           *)

LEMMA InitInv == ASSUME Init PROVE IrqInv
<1>1. ProgramTyped
  <2>1. LastPageOfAll \in Nat
    BY DEF LastPageOfAll
  <2>2. 0 \in Bytes
    BY ByteRange
  <2>3. pc \in 1 .. Len(Boot) + 1
    BY BootSteps DEF Init
  <2>4. tick \in 0 .. TickLimit
    BY HardwareAssumption DEF Init
  <2> QED BY <2>1, <2>2, <2>3, <2>4 DEF Init, ProgramTyped
<1>2. FlagsTyped
  BY DEF Init, FlagsTyped
<1>3. PicsTyped
  <2>1. 8 \in Bytes /\ 112 \in Bytes
    BY ByteRange
  <2>2. pit \in 0 .. MaxDivisor
    BY DEF Init, MaxDivisor
  <2>3. irr \subseteq Lines /\ imr \in [Chips -> Bytes]
    BY HardwareAssumption DEF Init
  <2> QED BY <2>1, <2>2, <2>3 DEF Init, PicsTyped
<1>4. PicsFollow
  BY DEF Init, PicsFollow, StageAt, BaseAt, Chips
<1>5. HandlersFollow
  BY DEF Init, HandlersFollow
<1>6. CpuFollows
  BY HardwareAssumption DEF Init, CpuFollows
<1> QED BY <1>1, <1>2, <1>3, <1>4, <1>5, <1>6 DEF IrqInv, Typed

LEMMA NextKeeps == ASSUME IrqInv, [Next]_vars PROVE IrqInv'
<1>1. CASE Main
  BY <1>1, PreInitIdtKeeps, InitGdtKeeps, InitIdtKeeps, InitPagingKeeps, SaveMasksKeeps,
     PicCommandKeeps, PicDataKeeps, RegisterTimerKeeps, ProgramPitKeeps, UnmaskTimerKeeps
     DEF Main
<1>2. CASE Handler
  BY <1>2, TimerEoiKeeps, TimerCountKeeps DEF Handler
<1>3. CASE TakeAny
  BY <1>3, InterruptKeeps, SpuriousInterruptKeeps DEF TakeAny
<1>4. CASE \E l \in DeviceLines : Raise(l)
  <2>1. PICK l \in DeviceLines : Raise(l)
    BY <1>4
  <2>2. irr' \subseteq Lines
    BY <2>1, HardwareAssumption DEF Raise, IrqInv, Typed, PicsTyped
  <2> QED BY <2>1, <2>2, RaiseKeeps DEF Raise
<1>5. CASE UNCHANGED vars
  <2>1. irr' = irr
        /\ UNCHANGED <<pc, cpu, int_flag, program, vector, tick, imr, isr, base, stage, latched, pit, checks>>
    BY <1>5 DEF vars, program
  <2> QED BY <2>1, RaiseKeeps DEF IrqInv, Typed, PicsTyped
<1> QED BY <1>1, <1>2, <1>3, <1>4, <1>5 DEF Next

\* What the invariant says of each property.
LEMMA InvImplies ==
  ASSUME IrqInv
  PROVE  Typed /\ HangsOnlyWhileOpen /\ PicsConfigured /\ NothingInService
<1>1. Typed
  BY DEF IrqInv
<1>2. HangsOnlyWhileOpen
  <2>1. FirstOpen = 4 /\ LastOpen = 17
    BY DEF FirstOpen, LastOpen, Early
  <2>2. pc \in 1 .. 21
    BY <1>1, BootSteps DEF Typed, ProgramTyped
  <2> QED BY <2>1, <2>2 DEF IrqInv, CpuFollows, HangsOnlyWhileOpen
<1>3. PicsConfigured
  <2>1. SUFFICES ASSUME Halted PROVE
          /\ stage = [c \in Chips |-> 0]
          /\ base["master"] = 32 /\ base["slave"] = 40
          /\ imr["master"] = 254 /\ imr["slave"] = 255
          /\ 1193180 \div pit = 50
    BY DEF PicsConfigured
  <2>2. pc = 21
    BY <2>1, BootSteps DEF Halted
  <2>3. stage = [c \in Chips |-> 0]
    <3>1. \A c \in Chips : stage[c] = 0
      BY <2>2 DEF IrqInv, PicsFollow, StageAt
    <3> QED BY <1>1, <3>1 DEF Typed, PicsTyped
  <2>4. pit = 23863
    BY <2>2 DEF IrqInv, PicsFollow
  <2>5. 1193180 \div pit = 50
    BY <2>4
  <2> QED BY <2>2, <2>3, <2>5 DEF IrqInv, PicsFollow, BaseAt, Chips
<1>4. NothingInService
  BY DEF IrqInv, CpuFollows, NothingInService
<1> QED BY <1>1, <1>2, <1>3, <1>4

\* IrqInv holds in every state of the boot and of the timer's handler.
THEOREM InvAlways == Spec => []IrqInv
<1>1. Init => IrqInv
  BY InitInv
<1>2. IrqInv /\ [Next]_vars => IrqInv'
  BY NextKeeps
<1> QED BY <1>1, <1>2, PTL DEF Spec

\* A processor stays the one it is.
LEMMA ChecksStay == [Next]_vars => checks' = checks
<1>1. Main => checks' = checks
  BY DEF Main, PreInitIdt, InitGdt, InitIdt, InitPaging, SaveMasks, PicCommand,
         PicData, RegisterTimer, ProgramPit, UnmaskTimer
<1>2. Handler => checks' = checks
  BY DEF Handler, TimerEoi, TimerCount
<1>3. TakeAny => checks' = checks
  BY DEF TakeAny, Interrupt, SpuriousInterrupt
<1>4. ASSUME NEW l \in DeviceLines, Raise(l) PROVE checks' = checks
  BY <1>4 DEF Raise
<1>5. UNCHANGED vars => checks' = checks
  BY DEF vars
<1> QED BY <1>1, <1>2, <1>3, <1>4, <1>5 DEF Next

\* The variables keep their types: no vector outside the table, no mask that is
\* not a byte, no tick beyond the one that faults (kernel.c:28).
THEOREM TypeCorrect == Spec => []TypeOK
<1>1. Init => checks \in ChecksLimits
  BY DEF Init
<1>2. checks \in ChecksLimits /\ [Next]_vars => (checks \in ChecksLimits)'
  BY ChecksStay
<1>3. Spec => [](checks \in ChecksLimits)
  BY <1>1, <1>2, PTL DEF Spec
<1>4. IrqInv /\ checks \in ChecksLimits => TypeOK
  BY InvImplies DEF Typed, TypeOK
<1> QED BY <1>3, <1>4, InvAlways, PTL

\* Whatever devices there are and whenever they raise their lines, no interrupt
\* stops the machine once PIC_disable (pic.c:44-47) has run, but for the fault
\* of the timer's own read.
THEOREM HangsOnlyInWindow == Spec => []HangsOnlyWhileOpen
<1>1. IrqInv => HangsOnlyWhileOpen
  BY InvImplies
<1> QED BY <1>1, InvAlways, PTL

\* Whatever masks the BIOS left, a kernel that has come up has both PICs at
\* their vectors, only line 0 unmasked, and the PIT at 50 Hz (pic.c:15-47).
THEOREM ComesUpConfigured == Spec => []PicsConfigured
<1>1. IrqInv => PicsConfigured
  BY InvImplies
<1> QED BY <1>1, InvAlways, PTL

\* Every interrupt the timer's handler returns from was ended at its PIC
\* (kernel.c:24, pic.c:49-55).
THEOREM NothingLeftInService == Spec => []NothingInService
<1>1. IrqInv => NothingInService
  BY InvImplies
<1> QED BY <1>1, InvAlways, PTL
=============================================================================
