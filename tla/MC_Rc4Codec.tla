---------------------------- MODULE MC_Rc4Codec ----------------------------
(* see-rc4.c's codec driven by the pager harness, for TLC.                 *)
EXTENDS Integers, Sequences

CONSTANTS Null

B == INSTANCE Buffers
Rc4 == INSTANCE Rc4Codec

(* Keys: no key and two 16-byte keys, which loadKeyRc4 repeats 16 times.   *)
KeyA == <<1, 2, 3, 4, 5, 6, 7, 8, 9, 10, 11, 12, 13, 14, 15, 16>>
KeyB == <<200, 2, 3, 4, 5, 6, 7, 8, 9, 10, 11, 12, 13, 14, 15, 16>>
MC_KeyInputs ==
    { [pKey |-> Null, nKey |-> 0], [pKey |-> KeyA, nKey |-> 16],
      [pKey |-> KeyB, nKey |-> 16] }
MC_Pgnos == {1}
MC_PageSizes == {512}
MC_Reserves == {0, 4}   \* no nonce, and the nonce attach asks for
MC_Contents == {0}
MC_Rands == {1}
MC_MallocOutcomes == {TRUE}

VARIABLES codec, file, wrote, ub

H == INSTANCE CodecHarness WITH
        Pgnos <- MC_Pgnos, PageSizes <- MC_PageSizes, Reserves <- MC_Reserves,
        Contents <- MC_Contents, KeyInputs <- MC_KeyInputs, Rands <- MC_Rands,
        MallocOutcomes <- MC_MallocOutcomes,
        Attach <- Rc4!Attach, SizeChng <- Rc4!SizeChng,
        Xform <- Rc4!Rc4Xform, LoadKey <- Rc4!loadKeyRc4

Spec == H!Spec
RoundTrip == H!RoundTrip
HeaderReadable == H!HeaderReadable
=============================================================================
