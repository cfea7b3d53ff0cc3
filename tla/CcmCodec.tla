------------------------------ MODULE CcmCodec ------------------------------
(***************************************************************************)
(* The AES-128 CTR + CBC-MAC page codec of reference/see-aes128-ccm.c at   *)
(* the level of bytes.                                                     *)
(*                                                                         *)
(* The codec struct (struct CodecAes128Ccm) is a record; `alloc` is the    *)
(* size of the heap block holding mask and outbuf (0 while mask == 0), and *)
(* `outbuf` the offset of outbuf in it.  The reserved trailer of a page is *)
(* the MAC (MAC_SZ bytes at usable) and the nonce (NONCE_SZ bytes at       *)
(* usable+MAC_SZ).  The block cipher (rijndaelEncrypt128Ccm under the key  *)
(* schedule of repeat[]) enters as the constant operator BlockEncrypt.     *)
(***************************************************************************)
EXTENDS Integers, Sequences, Buffers

CONSTANTS
    BlockEncrypt(_, _),  \* AES-128 of one 16-byte block under a 16-byte key
    Null                 \* a NULL pointer

KEY_SZ == 16
AES_BLOCK_SZ == 16
NONCE_SZ == AES_BLOCK_SZ
MAC_SZ == AES_BLOCK_SZ
EXTRA_PER_PAGE == NONCE_SZ + MAC_SZ

Ctr == INSTANCE CtrCodec

(* xorBuffers(nByte, in1, in2, out) and xorBlock: byte k of out is         *)
(* in1[k] ^ in2[k].                                                        *)
xorBuffers(nByte, in1, in2) == LET X(k) == BXor(At(in1, k), At(in2, k)) IN Buf(X, nByte)

xorBlock(in1, in2) == xorBuffers(AES_BLOCK_SZ, in1, in2)

(* computeMac: CBC-MAC of nData bytes of data, started from the encrypted  *)
(* nonce.                                                                  *)
MacStep(key, data, r) ==
    [i |-> r.i + AES_BLOCK_SZ,
     out |-> BlockEncrypt(key, xorBlock(r.out, Slice(data, r.i, r.i + AES_BLOCK_SZ)))]

computeMac(st, iKey, data, nData, nonce) ==
    LET key == st.key[iKey].repeat
    IN While(LAMBDA r : r.i < nData, LAMBDA r : MacStep(key, data, r),
             [i |-> 0, out |-> BlockEncrypt(key, nonce)]).out

(* pwHash: the same code as see-cccrypt.c's.                               *)
pwHash(z, N) == Ctr!pwHash(z, N)

NullSlot == [nByte |-> 0, nullKey |-> TRUE, repeat |-> Buf(LAMBDA i : 0, KEY_SZ)]

(* loadKeyAes128Ccm: pKey = Null or nKey = 0 marks slot 0 null, keeping   *)
(* its old repeat[]; nKey < 0 hashes the passphrase to KEY_SZ bytes;       *)
(* otherwise the key is cut to KEY_SZ bytes and repeated.  The key         *)
(* schedule is a function of repeat[].                                     *)
loadKeyAes128Ccm(st, pKey, nKey) ==
    LET n    == IF nKey > KEY_SZ THEN KEY_SZ ELSE nKey
        slot == IF pKey = Null \/ nKey = 0
                THEN [st.key[0] EXCEPT !.nByte = 0, !.nullKey = TRUE]
                ELSE IF nKey < 0
                     THEN [nByte |-> KEY_SZ, nullKey |-> FALSE, repeat |-> pwHash(pKey, KEY_SZ)]
                ELSE [nByte |-> n, nullKey |-> FALSE,
                      repeat |-> Buf(LAMBDA i : At(pKey, i % n), KEY_SZ)]
    IN [st EXCEPT !.key[0] = slot]

SizeChngKeepsMask(st, pageSize, nReserve) ==
    [st EXCEPT !.pageSize = pageSize, !.usable = pageSize - nReserve]

(* sqliteCodecAes128CcmSizeChng: the mask block is freed when usable       *)
(* changes.                                                                *)
SizeChng(st, pageSize, nReserve) ==
    LET s0 == IF st.usable # pageSize - nReserve
              THEN [st EXCEPT !.alloc = 0, !.outbuf = 0] ELSE st
    IN [s0 EXCEPT !.pageSize = pageSize, !.usable = pageSize - nReserve]

(* sqlite3CodecAttach: a zeroed struct, EXTRA_PER_PAGE reserved bytes      *)
(* requested, the key in slot 0 and in slot 1.                             *)
AttachReserve == EXTRA_PER_PAGE

Attach(pKey, nKey) ==
    LET z  == [key |-> [s \in 0..1 |-> NullSlot], nullKey |-> FALSE,
               mallocFailed |-> FALSE, pageSize |-> 0, usable |-> 0, alloc |-> 0,
               outbuf |-> 0]
        st == loadKeyAes128Ccm(z, pKey, nKey)
    IN [st EXCEPT !.key[1] = st.key[0]]

(* sqlite3CodecGetKey: slot 0's length and bytes.                          *)
GetKey(st) == [nKey |-> st.key[0].nByte, pKey |-> st.key[0].repeat]

(* The CTR mask: usable+MAC_SZ bytes, block k the encryption of the nonce  *)
(* after k increments of nonce[4] (carrying into nonce[5] only).           *)
CtrNonce(nonce, k) ==
    LET c == (At(nonce, 4) + 256 * At(nonce, 5) + k) % 65536
    IN Slice(nonce, 0, 4) \o <<c % 256, c \div 256>> \o Slice(nonce, 6, NONCE_SZ)

CtrMask(key, nonce, nByte) ==
    Chain(LAMBDA k : BlockEncrypt(key, CtrNonce(nonce, k)),
          0, (nByte + AES_BLOCK_SZ - 1) \div AES_BLOCK_SZ - 1)

RandByte(rnd, i) == (rnd * (i + 1)) % 256

(* sqlite3_malloc(pageSize*2 + 8), outbuf at pageSize+4.                   *)
MaskBlock(pageSize) == 2 * pageSize + 8

Page1ExemptShort(y, mask, pgno) ==
    IF pgno = 1
    THEN Slice(y, 0, 16) \o xorBuffers(7, Slice(y, 16, 23), Slice(mask, 16, 23))
         \o Slice(y, 23, Len(y))
    ELSE y

(* Bytes 16..23 of page 1 are XORed with mask[16..23] a second time.       *)
Page1Exempt(y, mask, pgno) ==
    IF pgno = 1
    THEN Slice(y, 0, 16) \o xorBuffers(8, Slice(y, 16, 24), Slice(mask, 16, 24))
         \o Slice(y, 24, Len(y))
    ELSE y

Result(st, out, span, nomem) ==
    [st |-> st, out |-> out, span |-> span, nomem |-> nomem, oob |-> FALSE]

(* Encode (op 6, 7): a fresh nonce into outbuf's and the caller's trailer; *)
(* the MAC of the plaintext into the caller's trailer; out = page ^ mask   *)
(* for usable+MAC_SZ bytes, then the nonce.  Bytes of outbuf after that   *)
(* are not written: they hold what an earlier call left, here `Stale`.     *)
Stale(rnd, n) == Buf(LAMBDA i : RandByte(rnd + 1, i), n)

EncodeMacCtrNonce(st, zData, pgno, iKey, rnd) ==
    LET u     == st.usable
        nonce == Buf(LAMBDA i : RandByte(rnd, i), NONCE_SZ)
        mask  == CtrMask(st.key[iKey].repeat, nonce, u + MAC_SZ)
        mac   == computeMac(st, iKey, zData, u,
                            CtrNonce(nonce, (u + MAC_SZ + AES_BLOCK_SZ - 1) \div AES_BLOCK_SZ))
        z1    == Slice(zData, 0, u) \o mac \o nonce \o Slice(zData, u + EXTRA_PER_PAGE, st.pageSize)
        y     == xorBuffers(u + MAC_SZ, z1, mask) \o nonce
                 \o Stale(rnd, st.pageSize - u - EXTRA_PER_PAGE)
    IN Result(st, Page1Exempt(y, mask, pgno), st.outbuf + u + EXTRA_PER_PAGE, FALSE)

Encode(st, zData, pgno, iKey, rnd) ==
    LET u     == st.usable
        nonce == Buf(LAMBDA i : RandByte(rnd, i), NONCE_SZ)
        key   == st.key[iKey].repeat
        mask  == CtrMask(key, nonce, u + MAC_SZ)
        mac   == computeMac(st, iKey, zData, u, nonce)
        z1    == Slice(zData, 0, u) \o mac \o nonce \o Slice(zData, u + EXTRA_PER_PAGE, st.pageSize)
        y     == xorBuffers(u + MAC_SZ, z1, mask) \o nonce
                 \o Stale(rnd, st.pageSize - u - EXTRA_PER_PAGE)
    IN Result(st, Page1Exempt(y, mask, pgno), st.outbuf + u + EXTRA_PER_PAGE, FALSE)

(* Decode (op 3): in place, page ^ mask for usable+MAC_SZ bytes; the MAC   *)
(* of the result is checked against the decoded trailer, and the whole     *)
(* page is zeroed on a mismatch.                                           *)
DecodeNoWipe(st, zData, pgno, iKey) ==
    LET u     == st.usable
        nonce == Slice(zData, u + MAC_SZ, u + EXTRA_PER_PAGE)
        mask  == CtrMask(st.key[iKey].repeat, nonce, u + MAC_SZ)
        y     == Page1Exempt(xorBuffers(u + MAC_SZ, zData, mask)
                             \o Slice(zData, u + MAC_SZ, st.pageSize), mask, pgno)
    IN Result(st, y, u + MAC_SZ, FALSE)

Decode(st, zData, pgno, iKey) ==
    LET u     == st.usable
        nonce == Slice(zData, u + MAC_SZ, u + EXTRA_PER_PAGE)
        key   == st.key[iKey].repeat
        mask  == CtrMask(key, nonce, u + MAC_SZ)
        y     == Page1Exempt(xorBuffers(u + MAC_SZ, zData, mask)
                             \o Slice(zData, u + MAC_SZ, st.pageSize), mask, pgno)
        ok    == computeMac(st, iKey, y, u, nonce) = Slice(y, u, u + MAC_SZ)
    IN Result(st, IF ok THEN y ELSE Buf(LAMBDA i : 0, st.pageSize), u + MAC_SZ, FALSE)

(* sqliteCodecAes128Ccm for ops 3, 6 and 7.  On the first call the page    *)
(* is returned as it is when the reserve is under EXTRA_PER_PAGE or usable *)
(* is not a multiple of the block size; then the block is allocated (a     *)
(* failure sets the sticky mallocFailed) and a null slot returns the page  *)
(* as it is.                                                               *)
Aes128CcmXform(st, zData, pgno, op, rnd, mallocOk) ==
    IF st.alloc = 0 /\ st.mallocFailed THEN Result(st, Null, 0, FALSE)
    ELSE IF st.alloc = 0 /\ st.pageSize - st.usable < EXTRA_PER_PAGE
         THEN Result(st, zData, 0, FALSE)
    ELSE IF st.alloc = 0 /\ st.usable % AES_BLOCK_SZ # 0
         THEN Result(st, zData, 0, FALSE)
    ELSE IF st.alloc = 0 /\ ~mallocOk
         THEN Result([st EXCEPT !.mallocFailed = TRUE], Null, 0, TRUE)
    ELSE LET s0 == IF st.alloc # 0 THEN st
                   ELSE [st EXCEPT !.alloc = MaskBlock(st.pageSize),
                                   !.outbuf = st.pageSize + 4]
         IN IF s0.key[op % 2].nullKey
            THEN Result([s0 EXCEPT !.nullKey = TRUE], zData, 0, FALSE)
            ELSE LET s1 == [s0 EXCEPT !.nullKey = FALSE]
                 IN IF op \in {4, 5, 6, 7} THEN Encode(s1, zData, pgno, op % 2, rnd)
                    ELSE Decode(s1, zData, pgno, op % 2)
=============================================================================
