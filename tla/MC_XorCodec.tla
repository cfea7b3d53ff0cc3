---------------------------- MODULE MC_XorCodec ----------------------------
(* see-xor.c's codec driven by the pager harness, for TLC.                 *)
EXTENDS Integers, Sequences

CONSTANTS Null

Xor == INSTANCE XorCodec WITH OutbufAddr <- <<16, 32, 64, 1, 0, 96, 0, 0>>

(* Keys: no key and one 16-byte key, which loadKeyXor repeats twice.       *)
KeyA == <<1, 2, 3, 4, 5, 6, 7, 8, 9, 10, 11, 12, 13, 14, 15, 16>>
MC_KeyInputs == { [pKey |-> Null, nKey |-> 0], [pKey |-> KeyA, nKey |-> 16] }
(* sqlite3_key(db, "", -1): an empty passphrase.                          *)
MC_Pgnos == {1, 2}
MC_PageSizes == {512}
MC_Reserves == {0}           \* the XOR codec asks for no reserved bytes
MC_Contents == {0}
MC_Rands == {1}
MC_MallocOutcomes == {TRUE}

VARIABLES codec, file, wrote, ub

H == INSTANCE CodecHarness WITH
        Pgnos <- MC_Pgnos, PageSizes <- MC_PageSizes, Reserves <- MC_Reserves,
        Contents <- MC_Contents, KeyInputs <- MC_KeyInputs, Rands <- MC_Rands,
        MallocOutcomes <- MC_MallocOutcomes,
        Attach <- Xor!Attach, SizeChng <- Xor!SizeChng,
        Xform <- Xor!XorXform, LoadKey <- Xor!loadKeyXor

Spec == H!Spec
RoundTrip == H!RoundTrip
=============================================================================
