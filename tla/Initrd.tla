------------------------------- MODULE Initrd -------------------------------
(***************************************************************************)
(* The kernel's disk driver for the boot module: a read-only disk made of  *)
(* the memory from Start up to End.  Addresses are uint32_t, so sums are   *)
(* modulo Space.  The unit is the cell of Ufs, 32 bytes.                   *)
(*                                                                         *)
(* The driver's only state is its cursor, which every operation takes and  *)
(* returns.  get_initrd_driver leaves it as the bss has it, 0, and nobody  *)
(* calls initrd_init.  initrd_write prints and aborts: it has no result.   *)
(***************************************************************************)
EXTENDS Integers

CONSTANTS Space,  \* the size of the address space (2^32 bytes in the code)
          Start,  \* initrd_instance.start_addr
          End     \* initrd_instance.end_addr

Address(x) == (Start + x) % Space

BssCursor == 0

initrd_lseek(cursor, offset) ==
  IF Address(offset) > End THEN [rc |-> -1, cursor |-> cursor]
                           ELSE [rc |-> 0, cursor |-> offset % Space]

FaultyReadTwoShort(cursor, size) ==
  IF Address(cursor + size) >= End - 1 THEN [rc |-> 0, cursor |-> cursor]
  ELSE [rc |-> size, cursor |-> (cursor + size) % Space]

\* Nothing is read that ends at End or past it.
initrd_read(cursor, size) ==
  IF Address(cursor + size) >= End THEN [rc |-> 0, cursor |-> cursor]
  ELSE [rc |-> size, cursor |-> (cursor + size) % Space]
=============================================================================
