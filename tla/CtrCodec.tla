------------------------------ MODULE CtrCodec ------------------------------
(***************************************************************************)
(* The CommonCrypto page codec of see-cccrypt.c at the level of bytes.     *)
(*                                                                         *)
(* The codec struct (struct CodecCCCrypto) is a record.  The heap block    *)
(* holding mask, outbuf and pZero is `alloc` bytes (0 while mask == 0);    *)
(* outbuf starts at alloc/3 and pZero at 2*alloc/3, as they were placed    *)
(* when the block was allocated.  The AES block cipher is the platform's   *)
(* (CCCrypt) and enters as the constant operator BlockEncrypt(key, block). *)
(* CCCrypt is called with options 0, that is CBC, over a page of zeros     *)
(* with the nonce as IV: block k of the mask is BlockEncrypt applied k+1   *)
(* times to the nonce.                                                     *)
(***************************************************************************)
EXTENDS Integers, Sequences, Buffers

CONSTANTS
    BlockEncrypt(_, _),  \* AES-128 of one 16-byte block under a 16-byte key
    Null                 \* a NULL pointer

KEY_SZ == 16          \* CCCRYPT256 is not defined: AES-128
AES_BLOCK_SZ == 16
PgnoSize == 4         \* sizeof(Pgno)

(* xorBuffers(out, a, b, nByte): the 8- and 4-byte paths are an            *)
(* optimisation; byte k of out is a[k] ^ b[k].                             *)
xorBuffers(a, b, nByte) == LET X(k) == BXor(At(a, k), At(b, k)) IN Buf(X, nByte)

(* pwHash(zPassPhrase, N, aBuf): an RC4 key schedule over the passphrase   *)
(* (cycling through it and its NUL), then N bytes of RC4 output; all       *)
(* arithmetic on unsigned char, so modulo 256.                             *)
PwKeyStep(z, st) ==
    LET j == (st.j + At(st.s, st.m) + ZAt(z, st.n)) % 256
        n == IF ZAt(z, st.n) = 0 THEN -1 ELSE st.n
    IN [st EXCEPT !.s = [@ EXCEPT ![st.m + 1] = At(st.s, j), ![j + 1] = At(st.s, st.m)],
                  !.j = j, !.m = st.m + 1, !.n = n + 1]

PwOutStep(st) ==
    LET i == (st.i + 1) % 256
        t == At(st.s, i)
        j == (st.j + t) % 256
        s == [st.s EXCEPT ![i + 1] = At(st.s, j), ![j + 1] = t]
    IN [st EXCEPT !.s = s, !.i = i, !.j = j, !.n = st.n + 1,
                  !.out = Append(@, (t + At(s, i)) % 256)]

pwHash(z, N) ==
    LET s0 == Buf(LAMBDA m : m, 256)
        s  == IF ZAt(z, 0) # 0
              THEN While(LAMBDA st : st.m < 256, LAMBDA st : PwKeyStep(z, st),
                         [s |-> s0, j |-> 0, m |-> 0, n |-> 0]).s
              ELSE s0
    IN While(LAMBDA st : st.n < N, PwOutStep,
             [s |-> s, i |-> 0, j |-> 0, n |-> 0, out |-> << >>]).out

NullSlot == [nByte |-> 0, nullKey |-> TRUE, repeat |-> Buf(LAMBDA i : 0, KEY_SZ)]

(* loadKeyCCCrypt: pKey = Null or nKey = 0 marks slot 0 null, keeping its *)
(* old repeat[]; nKey < 0 hashes the passphrase; otherwise the key is cut  *)
(* to KEY_SZ bytes and repeated to fill repeat[].  Only slot 0 changes.    *)
loadKeyCCCrypt(st, pKey, nKey) ==
    LET n    == IF nKey > KEY_SZ THEN KEY_SZ ELSE nKey
        slot == IF pKey = Null \/ nKey = 0
                THEN [st.key[0] EXCEPT !.nByte = 0, !.nullKey = TRUE]
                ELSE IF nKey < 0
                     THEN [nByte |-> KEY_SZ, nullKey |-> FALSE,
                           repeat |-> pwHash(pKey, KEY_SZ)]
                ELSE [nByte |-> n, nullKey |-> FALSE,
                      repeat |-> Buf(LAMBDA i : At(pKey, i % n), KEY_SZ)]
    IN [st EXCEPT !.key[0] = slot]

(* sqliteCodecCCCryptoSizeChng: record the page size and the split of the  *)
(* reserved bytes into nonce and zero padding.  The mask block is kept.    *)
SizeChng(st, pageSize, nReserve) ==
    LET nu == IF nReserve > AES_BLOCK_SZ - 4 THEN AES_BLOCK_SZ - 4 ELSE nReserve
    IN [st EXCEPT !.pageSize = pageSize,
                  !.nonceUsable = nu,
                  !.usable = pageSize - nReserve,
                  !.nonceZero = AES_BLOCK_SZ - PgnoSize - nu]

(* sqlite3CodecAttach: a zeroed struct, the key in slot 0, copied to       *)
(* slot 1.  The request for 12 reserved bytes goes to the pager.           *)
AttachReserve == AES_BLOCK_SZ - PgnoSize

Attach(pKey, nKey) ==
    LET z  == [key |-> [s \in 0..1 |-> NullSlot], nullKey |-> FALSE,
               nonceUsable |-> 0, mallocFailed |-> FALSE, nonceZero |-> 0,
               pageSize |-> 0, usable |-> 0, alloc |-> 0]
        st == loadKeyCCCrypt(z, pKey, nKey)
    IN [st EXCEPT !.key[1] = st.key[0]]

(* sqlite3CodecGetKey: slot 0's length and bytes.                          *)
GetKey(st) == [nKey |-> st.key[0].nByte, pKey |-> st.key[0].repeat]

(* The mask: CCCrypt(kCCEncrypt, AES, options 0 = CBC, key, IV = nonce)    *)
(* over pageSize zero bytes: n blocks, each the encryption of the one      *)
(* before it.                                                              *)
RECURSIVE CbcZeros(_, _, _)
CbcZeros(key, prev, n) ==
    IF n = 0 THEN << >>
    ELSE LET b == BlockEncrypt(key, prev) IN b \o CbcZeros(key, b, n - 1)

CCCryptMask(slot, nonce, pageSize) ==
    CbcZeros(Slice(slot.repeat, 0, 16), nonce, pageSize \div AES_BLOCK_SZ)

(* The nonce: the page number little-endian, then nonceUsable bytes (fresh *)
(* from sqlite3_randomness on encode, read from the trailer on decode),    *)
(* then nonceZero zeros.                                                   *)
RandByte(rnd, i) == (rnd * (i + 1)) % 256

NonceTrailerOffByOne(st, zData, pgno, op, rnd) ==
    LET N(i) == IF i < PgnoSize THEN LEByte(pgno, i)
                ELSE IF i < PgnoSize + st.nonceUsable
                     THEN IF op \in {4, 5, 6, 7} THEN RandByte(rnd, i - PgnoSize)
                          ELSE At(zData, st.usable + i - PgnoSize - 1)
                ELSE 0
    IN Buf(N, AES_BLOCK_SZ)

Nonce(st, zData, pgno, op, rnd) ==
    LET N(i) == IF i < PgnoSize THEN LEByte(pgno, i)
                ELSE IF i < PgnoSize + st.nonceUsable
                     THEN IF op \in {4, 5, 6, 7} THEN RandByte(rnd, i - PgnoSize)
                          ELSE At(zData, st.usable + i - PgnoSize)
                ELSE 0
    IN Buf(N, AES_BLOCK_SZ)

(* sqliteCodecCCCrypto for ops 3, 6 and 7.  A null slot returns the page   *)
(* as it is; the first call with a key allocates 3 pages (a failure sets   *)
(* the sticky mallocFailed); an encode writes the nonce into the caller's  *)
(* trailer; the output is the usable part XORed with the mask, the trailer *)
(* copied, and bytes 16..23 of page 1 XORed once more.  The call touches   *)
(* the mask from 0, outbuf and pZero, each for pageSize bytes.             *)
Result(st, out, span, nomem) ==
    [st |-> st, out |-> out, span |-> span, nomem |-> nomem, oob |-> FALSE]

(* sqlite3_malloc(pageSize*3): mask, outbuf and pZero. *)
MaskAlloc(pageSize) == 3 * pageSize

(* Bytes 16..23 of page 1 are XORed with the mask a second time.          *)
Page1ExemptShort(y, b, pgno) ==
    IF pgno = 1
    THEN Slice(y, 0, 16) \o Buf(LAMBDA i : BXor(At(y, 16 + i), At(b, 16 + i)), 7)
         \o Slice(y, 23, Len(y))
    ELSE y
Page1Exempt(y, b, pgno) ==
    IF pgno = 1
    THEN Slice(y, 0, 16) \o Buf(LAMBDA i : BXor(At(y, 16 + i), At(b, 16 + i)), 8)
         \o Slice(y, 24, Len(y))
    ELSE y

CCCryptoXform(st, zData, pgno, op, rnd, mallocOk) ==
    IF st.key[op % 2].nullKey THEN Result([st EXCEPT !.nullKey = TRUE], zData, 0, FALSE)
    ELSE IF st.alloc = 0 /\ st.mallocFailed
         THEN Result([st EXCEPT !.nullKey = FALSE], Null, 0, FALSE)
    ELSE IF st.alloc = 0 /\ ~mallocOk
         THEN Result([st EXCEPT !.nullKey = FALSE, !.mallocFailed = TRUE], Null, 0, TRUE)
    ELSE
      LET s1    == [st EXCEPT !.nullKey = FALSE,
                              !.alloc = IF st.alloc = 0 THEN MaskAlloc(st.pageSize) ELSE st.alloc]
          nonce == Nonce(s1, zData, pgno, op, rnd)
          a     == IF op \in {6, 7}
                   THEN Slice(zData, 0, s1.usable)
                        \o Slice(nonce, PgnoSize, PgnoSize + s1.nonceUsable)
                        \o Slice(zData, s1.usable + s1.nonceUsable, s1.pageSize)
                   ELSE zData
          b     == CCCryptMask(s1.key[op % 2], nonce, s1.pageSize)
          x     == xorBuffers(a, b, s1.usable)
          y     == x \o Slice(a, s1.usable, s1.pageSize)
      IN Result(s1, Page1Exempt(y, b, pgno), 2 * (s1.alloc \div 3) + s1.pageSize, FALSE)

=============================================================================
