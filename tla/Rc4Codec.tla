------------------------------ MODULE Rc4Codec ------------------------------
(***************************************************************************)
(* The RC4 page codec of reference/see-rc4.c at the level of bytes.        *)
(*                                                                         *)
(* The codec struct (struct CodecRc4) is a record; `alloc` is the size of  *)
(* the heap block holding mask and outbuf (0 while mask == 0): the mask at *)
(* 0 and outbuf at offset `outbuf`, pageSize+4 when it was allocated.      *)
(* The nonce is the page number, little-endian, then nonceSize bytes from  *)
(* the page's reserved trailer (nonceSize = nReserve).                     *)
(***************************************************************************)
EXTENDS Integers, Sequences, Buffers

CONSTANTS Null   \* a NULL pointer

KEY_SZ == 256
PgnoSize == 4

(* xorBuffers(out, a, b, nByte): byte k of out is a[k] ^ b[k].            *)
xorBuffers(a, b, nByte) == LET X(k) == BXor(At(a, k), At(b, k)) IN Buf(X, nByte)

NullSlot == [nByte |-> 0, nullKey |-> TRUE, repeat |-> Buf(LAMBDA i : 0, KEY_SZ)]

(* zKey[i % nKey] with nKey = 0, the strlen of an empty passphrase: a     *)
(* division by zero, undefined behaviour.  x86 traps; on AArch64 the       *)
(* remainder of i by 0 is i, so repeat[i] = zKey[i], the NUL and then the  *)
(* bytes after it (zeros here).  This is what the model takes.            *)
RepeatByte(pKey, n, i) == IF n = 0 THEN ZAt(pKey, i) ELSE At(pKey, i % n)

(* loadKeyRc4: pKey = Null or nKey = 0 marks slot 0 null, keeping its old   *)
(* repeat[]; nKey < 0 takes strlen of the passphrase; the key is cut to    *)
(* KEY_SZ bytes and repeated.  nByte is a u8: a 256-byte key records 0.   *)
loadKeyRc4(st, pKey, nKey) ==
    LET n0 == IF nKey < 0 THEN Len(pKey) ELSE nKey
        n  == IF n0 > KEY_SZ THEN KEY_SZ ELSE n0
        slot == IF pKey = Null \/ nKey = 0
                THEN [st.key[0] EXCEPT !.nByte = 0, !.nullKey = TRUE]
                ELSE [nByte |-> n % 256, nullKey |-> FALSE,
                      repeat |-> Buf(LAMBDA i : RepeatByte(pKey, n, i), KEY_SZ)]
    IN [st EXCEPT !.key[0] = slot]

(* sqliteCodecRc4SizeChng: the mask block is kept.                         *)
SizeChng(st, pageSize, nReserve) ==
    [st EXCEPT !.pageSize = pageSize, !.nonceSize = nReserve % 256,
               !.usable = pageSize - nReserve]

(* sqlite3CodecAttach: a zeroed struct, 4 reserved bytes requested for the *)
(* nonce, the key in slot 0 and in slot 1.                                 *)
AttachReserve == 4

Attach(pKey, nKey) ==
    LET z  == [key |-> [s \in 0..1 |-> NullSlot], nullKey |-> FALSE, nonceSize |-> 0,
               mallocFailed |-> FALSE, pageSize |-> 0, usable |-> 0, alloc |-> 0,
               outbuf |-> 0]
        st == loadKeyRc4(z, pKey, nKey)
    IN [st EXCEPT !.key[1] = st.key[0]]

(* sqlite3CodecGetKey: slot 0's length and bytes.                          *)
GetKey(st) == [nKey |-> st.key[0].nByte, pKey |-> st.key[0].repeat]

(* The nonce, nonceSize+4 bytes: pgno little-endian, then fresh random     *)
(* bytes on encode (also copied into the page's trailer) or the trailer's  *)
(* bytes on decode.                                                        *)
RandByte(rnd, i) == (rnd * (i + 1)) % 256

NonceTrailerOffByOne(st, zData, pgno, op, rnd) ==
    Buf(LAMBDA i : IF i < PgnoSize THEN LEByte(pgno, i)
                   ELSE IF op \in {4, 5, 6, 7} THEN RandByte(rnd, i - PgnoSize)
                   ELSE At(zData, st.usable + i - PgnoSize - 1),
        PgnoSize + st.nonceSize)

Nonce(st, zData, pgno, op, rnd) ==
    Buf(LAMBDA i : IF i < PgnoSize THEN LEByte(pgno, i)
                   ELSE IF op \in {4, 5, 6, 7} THEN RandByte(rnd, i - PgnoSize)
                   ELSE At(zData, st.usable + i - PgnoSize),
        PgnoSize + st.nonceSize)

(* The key schedule input: x[i] = repeat[i] ^ nonce[j++], j wrapping after *)
(* nonceSize+4 bytes.                                                      *)
KeyX(kx, nonce) == Buf(LAMBDA i : BXor(At(kx, i), At(nonce, i % Len(nonce))), 256)

Swap(s, a, b) == [s EXCEPT ![a + 1] = At(s, b), ![b + 1] = At(s, a)]

(* One step of the key setup: j += s[i] + x[i]; swap s[i], s[j]; i++.      *)
KsaStep(x, st) ==
    LET j == (st.j + At(st.s, st.i) + At(x, st.i)) % 256
    IN [s |-> Swap(st.s, st.i, j), i |-> (st.i + 1) % 256, j |-> j, n |-> st.n + 1,
        out |-> st.out]

(* One byte of output: i++; t = s[i]; j += t; swap; mask[n] = s[t + s[i]]. *)
PrgaStep(st) ==
    LET i == (st.i + 1) % 256
        t == At(st.s, i)
        j == (st.j + t) % 256
        s == Swap(st.s, i, j)
    IN [s |-> s, i |-> i, j |-> j, n |-> st.n + 1,
        out |-> Append(st.out, At(s, (t + At(s, i)) % 256))]

(* The mask: 512 key-setup steps (twice through the key), then `usable`    *)
(* bytes of output, i and j carried over from the key setup.               *)
Rc4Mask(kx, nonce, usable) ==
    LET x  == KeyX(kx, nonce)
        st == While(LAMBDA r : r.n < 512, LAMBDA r : KsaStep(x, r),
                    [s |-> Buf(LAMBDA i : i, 256), i |-> 0, j |-> 0, n |-> 0, out |-> << >>])
    IN While(LAMBDA r : r.n < usable, PrgaStep, [st EXCEPT !.n = 0]).out

(* sqlite3_malloc(pageSize*2 + 8): the mask, 4 bytes, outbuf, 4 bytes.   *)
MaskBlock(pageSize) == 2 * pageSize + 8

(* Bytes 16..23 of page 1: out[i] ^= b[i].                                 *)
Page1ExemptShort(y, b, pgno) ==
    IF pgno = 1
    THEN Slice(y, 0, 16) \o Buf(LAMBDA i : BXor(At(y, 16 + i), At(b, 16 + i)), 7)
         \o Slice(y, 23, Len(y))
    ELSE y
Page1Exempt(y, b, pgno) ==
    IF pgno = 1
    THEN Slice(y, 0, 16) \o Buf(LAMBDA i : BXor(At(y, 16 + i), At(b, 16 + i)), 8)
         \o Slice(y, 24, Len(y))
    ELSE y

Result(st, out, span, nomem) ==
    [st |-> st, out |-> out, span |-> span, nomem |-> nomem, oob |-> FALSE]

(* sqliteCodecRc4 for ops 3, 6 and 7.  The block of 2*pageSize+8 bytes is  *)
(* allocated on the first call (a failure sets the sticky mallocFailed);   *)
(* then a null slot returns the page as it is.  An encode writes the nonce *)
(* into the caller's trailer and pageSize bytes to outbuf; a decode works  *)
(* in place.  Bytes 16..23 of page 1 are XORed once more with the mask.    *)
Rc4Xform(st, zData, pgno, op, rnd, mallocOk) ==
    IF st.alloc = 0 /\ st.mallocFailed THEN Result(st, Null, 0, FALSE)
    ELSE IF st.alloc = 0 /\ ~mallocOk
         THEN Result([st EXCEPT !.mallocFailed = TRUE], Null, 0, TRUE)
    ELSE LET s0 == IF st.alloc # 0 THEN st
                   ELSE [st EXCEPT !.alloc = MaskBlock(st.pageSize),
                                   !.outbuf = st.pageSize + 4]
         IN IF s0.key[op % 2].nullKey
            THEN Result([s0 EXCEPT !.nullKey = TRUE], zData, 0, FALSE)
            ELSE
              LET s1    == [s0 EXCEPT !.nullKey = FALSE]
                  nonce == Nonce(s1, zData, pgno, op, rnd)
                  a     == IF op \in {4, 5, 6, 7}
                           THEN Slice(zData, 0, s1.usable)
                                \o Slice(nonce, PgnoSize, Len(nonce))
                                \o Slice(zData, s1.usable + s1.nonceSize, s1.pageSize)
                           ELSE zData
                  b     == Rc4Mask(s1.key[op % 2].repeat, nonce, s1.usable)
                  y     == xorBuffers(a, b, s1.usable) \o Slice(a, s1.usable, s1.pageSize)
              IN Result(s1, Page1Exempt(y, b, pgno),
                        IF op \in {4, 5, 6, 7}
                        THEN s1.outbuf + s1.pageSize
                        ELSE s1.usable,
                        FALSE)
=============================================================================
