---------------------------- MODULE OrderedArray ----------------------------
(***************************************************************************)
(* ordered_array_t of src/08.kernel-mm/kernel/lib/ordered_array.c as a     *)
(* sequence (positions are 1-based here, 0-based in the C code).  The      *)
(* comparator is given as a key function: comparator(a, b) <= 0 exactly    *)
(* when key[a] <= key[b], which is what kheap_block_comparator computes    *)
(* from the headers' size fields.  Every operator says what the C loop does     *)
(* even when the array is not sorted.                                      *)
(***************************************************************************)
EXTENDS Integers, SequencesExt

(* ordered_array_insert stops at the first element whose key exceeds the   *)
(* item's, so an item goes after every element with an equal key.          *)
InsertPosition(array, item, key) ==
  LET after == {i \in 1 .. Len(array) : key[array[i]] > key[item]}
  IN  IF after = {} THEN Len(array) + 1 ELSE Min(after)

(* ordered_array_insert returns 0 and leaves the array alone when full.    *)
ordered_array_insert_ok(array, max_size) == Len(array) < max_size

ordered_array_insert(array, max_size, item, key) ==
  IF ordered_array_insert_ok(array, max_size)
    THEN InsertAt(array, InsertPosition(array, item, key), item)
    ELSE array

(* Mutant: the shift loop starts one past i, so the element after i is the *)
(* one dropped (i itself when it is the last).                             *)
RemoveShiftedOffByOne(array, i) ==
  IF i \in 1 .. Len(array) THEN RemoveAt(array, IF i < Len(array) THEN i + 1 ELSE i) ELSE array

(* ordered_array_remove: out-of-range positions are ignored.               *)
ordered_array_remove(array, i) ==
  IF i \in 1 .. Len(array) THEN RemoveAt(array, i) ELSE array

(* ordered_array_remove_element removes the first occurrence; its result   *)
(* is 0 when the element is absent.                                        *)
ordered_array_remove_element_ok(array, ele) == \E i \in 1 .. Len(array) : array[i] = ele

ordered_array_remove_element(array, ele) == RemoveFirst(array, ele)

=============================================================================
