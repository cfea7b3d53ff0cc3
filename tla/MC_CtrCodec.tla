---------------------------- MODULE MC_CtrCodec ----------------------------
(* see-cccrypt.c's codec driven by the pager harness, for TLC.             *)
EXTENDS Integers, Sequences

CONSTANTS Null

B == INSTANCE Buffers

(* A stand-in for AES-128: a keyed byte substitution chained along the     *)
(* block.  The properties checked only need a deterministic function of    *)
(* the key and the block that depends on both.                             *)
Subst(x) == (x * 167 + 13) % 256
ToyAes(key, blk) ==
    LET E(b) == (Subst((blk[b + 1] + key[b + 1]) % 256) + blk[((b + 1) % 16) + 1]) % 256
    IN B!Buf(E, 16)

Ctr == INSTANCE CtrCodec WITH BlockEncrypt <- ToyAes

(* Keys: no key, two 16-byte keys, a short key that is repeated.          *)
KeyA == <<1, 2, 3, 4, 5, 6, 7, 8, 9, 10, 11, 12, 13, 14, 15, 16>>
KeyB == <<200, 2, 3, 4, 5, 6, 7, 8, 9, 10, 11, 12, 13, 14, 15, 16>>
MC_KeyInputs ==
    { [pKey |-> Null, nKey |-> 0], [pKey |-> KeyA, nKey |-> 16],
      [pKey |-> KeyB, nKey |-> 16] }
MC_Pgnos == {1}
MC_PageSizes == {512}
MC_GrowPageSizes == {512, 1024}   \* the page size doubles on an open connection
MC_MallocMayFail == BOOLEAN
MC_Reserves == {12}
MC_Contents == {0}
MC_Rands == {1}
MC_MallocOutcomes == {TRUE}

VARIABLES codec, file, wrote, ub

H == INSTANCE CodecHarness WITH
        Pgnos <- MC_Pgnos, PageSizes <- MC_PageSizes, Reserves <- MC_Reserves,
        Contents <- MC_Contents, KeyInputs <- MC_KeyInputs, Rands <- MC_Rands,
        MallocOutcomes <- MC_MallocOutcomes,
        Attach <- Ctr!Attach, SizeChng <- Ctr!SizeChng,
        Xform <- Ctr!CCCryptoXform, LoadKey <- Ctr!loadKeyCCCrypt

Spec == H!Spec
RoundTrip == H!RoundTrip
HeaderReadable == H!HeaderReadable
CodecInBounds == H!CodecInBounds
=============================================================================
