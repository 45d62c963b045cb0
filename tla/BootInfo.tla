------------------------------ MODULE BootInfo ------------------------------
(***************************************************************************)
(* boot_info_init of src/08.kernel-mm/kernel/mem/boot_info.c: the copy of  *)
(* the E820 map the loader leaves at E820_BUFFER_PHYS, and of the linker's *)
(* kernel-image symbols, into the boot_info that pmm_init reads.           *)
(*                                                                         *)
(* The loader buffer is a sequence of entries [addr, size, type] (the acpi *)
(* word has no reader); the linker symbols are a record of the two that    *)
(* pmm_init uses.  The fields of boot_info that nothing reads (magic, the  *)
(* other section bounds) are left out.                                     *)
(***************************************************************************)
EXTENDS Integers, Sequences

CONSTANT E820_MAX_ENTRIES   \* boot_info.h: the capacity of boot_info.e820_map

(* The end marker: an entry whose address, size and type are all 0.       *)
E820Terminator(e) == e.addr = 0 /\ e.size = 0 /\ e.type = 0

(* The copy loop: count stops at the first terminator, or at               *)
(* E820_MAX_ENTRIES without reading the entry there.                       *)
RECURSIVE E820Scan(_, _)
E820Scan(buffer, count) ==
  IF count >= E820_MAX_ENTRIES \/ E820Terminator(buffer[count + 1])
    THEN count
    ELSE E820Scan(buffer, count + 1)

(* boot_info after boot_info_init: the first e820_count entries of the     *)
(* buffer, and the kernel image's physical base and size.                  *)
boot_info_init(buffer, sections) ==
  [e820_map         |-> SubSeq(buffer, 1, E820Scan(buffer, 0)),
   kernel_phys_base |-> sections.kernel_phys_offset,
   kernel_size      |-> sections.kernel_size]

=============================================================================
