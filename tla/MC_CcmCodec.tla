---------------------------- MODULE MC_CcmCodec ----------------------------
(* see-aes128-ccm.c's codec driven by the pager harness, for TLC, with an  *)
(* environment that alters page images on disk.                            *)
EXTENDS Integers, Sequences

CONSTANTS Null

B == INSTANCE Buffers

(* A stand-in for AES-128: a keyed byte substitution chained along the     *)
(* block.  The properties checked only need a deterministic function of    *)
(* the key and the block that depends on both.                             *)
Subst(x) == (x * 167 + 13) % 256
ToyAes(key, blk) ==
    LET E(b) == (Subst((blk[b + 1] + key[b + 1]) % 256) + blk[((b + 1) % 16) + 1]) % 256
    IN B!Buf(E, 16)

Ccm == INSTANCE CcmCodec WITH BlockEncrypt <- ToyAes

(* Keys: no key and a 16-byte key.                                         *)
KeyA == <<1, 2, 3, 4, 5, 6, 7, 8, 9, 10, 11, 12, 13, 14, 15, 16>>
MC_KeyInputs ==
    { [pKey |-> Null, nKey |-> 0], [pKey |-> KeyA, nKey |-> 16] }
MC_Pgnos == {1}
MC_PageSizes == {512, 1024}       \* the page size doubles on an open connection
MC_Reserves == {32}               \* EXTRA_PER_PAGE, what attach asks for
MC_Contents == {0}
MC_Rands == {1}
MC_MallocOutcomes == {TRUE}

VARIABLES codec, file, wrote, ub

vars == <<codec, file, wrote, ub>>

H == INSTANCE CodecHarness WITH
        Pgnos <- MC_Pgnos, PageSizes <- MC_PageSizes, Reserves <- MC_Reserves,
        Contents <- MC_Contents, KeyInputs <- MC_KeyInputs, Rands <- MC_Rands,
        MallocOutcomes <- MC_MallocOutcomes,
        Attach <- Ccm!Attach, SizeChng <- Ccm!SizeChng,
        Xform <- Ccm!Aes128CcmXform, LoadKey <- Ccm!loadKeyAes128Ccm

(* Someone with access to the file flips one bit of a stored image: in     *)
(* the payload, in the header bytes 16..23, in the MAC or in the nonce,    *)
(* of an image the codec wrote.                                            *)
FlipBit(q, i) ==
    /\ ~ub
    /\ file[q] # Null
    /\ ~wrote[q].tampered
    /\ file' = [file EXCEPT ![q][i + 1] = B!BXor(@, 1)]
    /\ wrote' = [wrote EXCEPT ![q].tampered = TRUE]
    /\ UNCHANGED <<codec, ub>>

Spec == H!Spec
TamperSpec ==
    H!Init /\ [][H!Next \/ \E q \in MC_Pgnos, i \in {0, 20, codec.usable, codec.usable + 16} :
                                FlipBit(q, i)]_vars

RoundTrip == H!RoundTrip
HeaderReadable == H!HeaderReadable
CodecInBounds == H!CodecInBounds

(* Spec §4.3 and §6 (tamper detection): when slot 1 holds a key, a read of *)
(* a page either fails (NULL) or returns a page of zeros, unless the image *)
(* on disk is the one the codec wrote for that page number under that key, *)
(* unaltered: then it returns that page's plaintext.                       *)
ReadAuthentic ==
    \A q \in MC_Pgnos :
        file[q] # Null /\ ~codec.key[1].nullKey =>
            LET out == H!ReadNow(q)
            IN \/ out = Null
               \/ out = B!Buf(LAMBDA i : 0, codec.pageSize)
               \/ /\ H!Decodable(q)
                  /\ B!Slice(out, 0, codec.usable)
                       = B!Slice(H!Plain(q, wrote[q].c, codec.pageSize,
                                         codec.pageSize - codec.usable), 0, codec.usable)
=============================================================================
