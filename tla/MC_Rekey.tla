----------------------------- MODULE MC_Rekey ------------------------------
(* Instantiation of Rekey for TLC: three pages of 512 bytes with the      *)
(* lock-byte range at offset 1024, so page 3 is the page the loop skips.  *)
EXTENDS Rekey

CONSTANTS k1, k2, v1, v2

MC_Keys == {k1, k2}
MC_Vals == {v1, v2}
MC_NPages == 3
MC_PageSize == 512
MC_PendingByte == 1024
MC_KeyLens == {0, 16}
MC_RealKeyLens == {16}

(* The refinement mapping: the abstract store is the file as the next     *)
(* open recovers it (a hot journal played back), data pages only.        *)
Abs == INSTANCE KeyedStore WITH Pages <- DataPages, store <- [p \in DataPages |-> Eff[p]]

(* sqlite3_rekey_v2 and the pager it drives implement KeyedStore: every   *)
(* step, a crash or a failed rekey included, leaves the recoverable file  *)
(* as it was, commits new content under the file's key, or moves every   *)
(* data page to one new key with its content unchanged (spec 4.4: no      *)
(* partially re-keyed database is ever left durable).                     *)
KeyedStoreSpec == Abs!Spec
=============================================================================
