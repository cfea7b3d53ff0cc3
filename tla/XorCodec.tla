------------------------------ MODULE XorCodec ------------------------------
(***************************************************************************)
(* The XOR page codec of reference/see-xor.c at the level of bytes.        *)
(*                                                                         *)
(* The codec struct (struct CodecXor, 88 bytes on a 64-bit build) is a     *)
(* record; `alloc` is the size of the outbuf block (0 while outbuf == 0).  *)
(* The codec XORs the page with key[op&1].repeat for `usable` bytes, but   *)
(* repeat[] holds only KEY_SZ = 32 bytes: the bytes after it are the rest  *)
(* of the struct, as StructBytes lays them out, and then heap memory the   *)
(* codec does not own, whose value is left to the caller's rnd.           *)
(***************************************************************************)
EXTENDS Integers, Sequences, Buffers

CONSTANTS
    Null,        \* a NULL pointer
    OutbufAddr   \* the 8 bytes of the outbuf pointer once allocated

KEY_SZ == 32
StructSize == 88                  \* sizeof(CodecXor)
RepeatOffset(s) == 2 + 34 * s     \* offsetof(CodecXor, key[s].repeat)

(* xorBuffers(out, a, b, nByte): byte k of out is a[k] ^ b[k].            *)
xorBuffers(a, b, nByte) == LET X(k) == BXor(At(a, k), At(b, k)) IN Buf(X, nByte)

(* aRand[16..23], the only entries of the table the codec reads.          *)
aRand16 == <<252, 122, 102, 34, 206, 31, 170, 171>>

NullSlot == [nByte |-> 0, nullKey |-> TRUE, repeat |-> Buf(LAMBDA i : 0, KEY_SZ)]

(* zKey[i % nKey] with nKey = 0, the strlen of an empty passphrase: a     *)
(* division by zero, undefined behaviour.  x86 traps; on AArch64 the       *)
(* remainder of i by 0 is i, so repeat[i] = zKey[i], the NUL and then the  *)
(* bytes after it (zeros here).  This is what the model takes.            *)
RepeatByte(pKey, n, i) == IF n = 0 THEN ZAt(pKey, i) ELSE At(pKey, i % n)

(* loadKeyXor: pKey = Null or nKey = 0 marks slot 0 null, keeping its old   *)
(* repeat[]; nKey < 0 takes strlen of the passphrase; the key is cut to    *)
(* KEY_SZ bytes and repeated.                                             *)
loadKeyXor(st, pKey, nKey) ==
    LET n0 == IF nKey < 0 THEN Len(pKey) ELSE nKey
        n  == IF n0 > KEY_SZ THEN KEY_SZ ELSE n0
        slot == IF pKey = Null \/ nKey = 0
                THEN [st.key[0] EXCEPT !.nByte = 0, !.nullKey = TRUE]
                ELSE [nByte |-> n, nullKey |-> FALSE,
                      repeat |-> Buf(LAMBDA i : RepeatByte(pKey, n, i), KEY_SZ)]
    IN [st EXCEPT !.key[0] = slot]

(* sqliteCodecXorSizeChng: the outbuf block is kept.                       *)
SizeChng(st, pageSize, nReserve) ==
    [st EXCEPT !.pageSize = pageSize, !.usable = pageSize - nReserve]

(* sqlite3CodecAttach: a zeroed struct, the key in slot 0 and in slot 1.   *)
(* No reserved bytes are requested.                                        *)
Attach(pKey, nKey) ==
    LET z  == [key |-> [s \in 0..1 |-> NullSlot], nullKey |-> FALSE,
               mallocFailed |-> FALSE, pageSize |-> 0, usable |-> 0, alloc |-> 0]
        st == loadKeyXor(z, pKey, nKey)
    IN [st EXCEPT !.key[1] = st.key[0]]

(* sqlite3CodecGetKey: slot 0's length and bytes.                          *)
GetKey(st) == [nKey |-> st.key[0].nByte, pKey |-> st.key[0].repeat]

(* The 88 bytes of the struct: two slots of nByte, nullKey, repeat[32];    *)
(* nullKey, mallocFailed, two bytes of padding, pageSize and usable        *)
(* little-endian, the outbuf pointer.                                      *)
B2N(b) == IF b THEN 1 ELSE 0

SlotBytes(k) == <<k.nByte, B2N(k.nullKey)>> \o k.repeat

StructBytes(st) ==
    SlotBytes(st.key[0]) \o SlotBytes(st.key[1])
    \o <<B2N(st.nullKey), B2N(st.mallocFailed), 0, 0>>
    \o Buf(LAMBDA i : LEByte(st.pageSize, i), 4) \o Buf(LAMBDA i : LEByte(st.usable, i), 4)
    \o (IF st.alloc = 0 THEN Buf(LAMBDA i : 0, 8) ELSE OutbufAddr)

(* The bytes b = key[s].repeat points at, for n bytes: the struct from     *)
(* repeat[] on, then heap memory past the struct.                          *)
HeapByte(rnd, i) == (rnd * 37 + i) % 256

KeyStream(st, s, rnd, n) ==
    LET img == StructBytes(st)
        o   == RepeatOffset(s)
    IN Buf(LAMBDA k : IF o + k < StructSize THEN At(img, o + k) ELSE HeapByte(rnd, o + k), n)

XorResult(st, out, span, oob, nomem) ==
    [st |-> st, out |-> out, span |-> span, oob |-> oob, nomem |-> nomem]

(* sqliteCodecXor for ops 3, 6 and 7.  outbuf is allocated first, on the   *)
(* first call, a failure setting the sticky mallocFailed; then a null slot *)
(* returns the page as it is.  An encode writes pageSize bytes to outbuf,  *)
(* a decode works in place.  Bytes 16..23 of page 1 are XORed once more    *)
(* with the key stream and with aRand.                                     *)
XorXform(st, zData, pgno, op, rnd, mallocOk) ==
    IF st.alloc = 0 /\ st.mallocFailed THEN XorResult(st, Null, 0, FALSE, FALSE)
    ELSE IF st.alloc = 0 /\ ~mallocOk
         THEN XorResult([st EXCEPT !.mallocFailed = TRUE], Null, 0, FALSE, TRUE)
    ELSE LET s0 == [st EXCEPT !.alloc = IF st.alloc = 0 THEN st.pageSize ELSE st.alloc]
         IN IF s0.key[op % 2].nullKey
            THEN XorResult([s0 EXCEPT !.nullKey = TRUE], zData, 0, FALSE, FALSE)
            ELSE
              LET s1  == [s0 EXCEPT !.nullKey = FALSE]
                  b   == KeyStream(s1, op % 2, rnd, s1.usable)
                  y   == xorBuffers(zData, b, s1.usable) \o Slice(zData, s1.usable, s1.pageSize)
                  out == IF pgno = 1
                         THEN Slice(y, 0, 16)
                              \o Buf(LAMBDA i : BXor(At(y, 16 + i),
                                                     BXor(At(b, 16 + i), aRand16[i + 1])), 8)
                              \o Slice(y, 24, Len(y))
                         ELSE y
              IN XorResult(s1, out, IF op \in {4, 5, 6, 7} THEN s1.pageSize ELSE 0,
                           RepeatOffset(op % 2) + s1.usable > StructSize, FALSE)
=============================================================================
