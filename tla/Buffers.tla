------------------------------ MODULE Buffers ------------------------------
(***************************************************************************)
(* Byte buffers and loops for the byte-level codec modules.               *)
(*                                                                         *)
(* A C buffer of n bytes is a tuple of length n: the byte at C offset i is *)
(* At(buf, i) = buf[i + 1].  Buf(F, n) is the buffer whose byte at offset  *)
(* i is F(i); it is built as a tuple so that TLC computes every byte once. *)
(* While(Cond, Body, st) is a C while loop over a state record; it runs in *)
(* slices of SliceLen iterations so that TLC's recursion stays shallow.    *)
(***************************************************************************)
EXTENDS Integers, Sequences, Bitwise

Byte == 0..255

At(buf, i) == buf[i + 1]

RECURSIVE Build(_, _, _)
Build(F(_), lo, hi) ==
    IF lo > hi THEN << >>
    ELSE IF lo = hi THEN <<F(lo)>>
    ELSE LET mid == (lo + hi) \div 2
         IN Build(F, lo, mid) \o Build(F, mid + 1, hi)

Buf(F(_), n) == Build(F, 0, n - 1)

(* F(lo) \o F(lo+1) \o ... \o F(hi), for F whose values are buffers.      *)
RECURSIVE Chain(_, _, _)
Chain(F(_), lo, hi) ==
    IF lo > hi THEN << >>
    ELSE IF lo = hi THEN F(lo)
    ELSE LET mid == (lo + hi) \div 2
         IN Chain(F, lo, mid) \o Chain(F, mid + 1, hi)

(* The bytes at offsets lo..hi-1. *)
Slice(buf, lo, hi) == SubSeq(buf, lo + 1, hi)

(* x ^ y on unsigned char, from a table of Bitwise's ^^ on 4-bit halves. *)
NibbleXor ==
    LET Row(x) == LET E(y) == x ^^ y IN Build(E, 0, 15)
    IN Build(Row, 0, 15)

BXor(x, y) ==
    16 * NibbleXor[(x \div 16) + 1][(y \div 16) + 1] + NibbleXor[(x % 16) + 1][(y % 16) + 1]

(* A C string as a tuple of its bytes; the byte at its length is NUL.     *)
ZAt(z, n) == IF n < Len(z) THEN z[n + 1] ELSE 0

(* Little-endian bytes of an unsigned integer. *)
LEByte(v, i) == (v \div (2 ^ (8 * i))) % 256

SliceLen == 32

RECURSIVE Iterate(_, _, _, _)
Iterate(Cond(_), Body(_), st, k) ==
    IF k = 0 \/ ~Cond(st) THEN st ELSE Iterate(Cond, Body, Body(st), k - 1)

RECURSIVE While(_, _, _)
While(Cond(_), Body(_), st) ==
    IF ~Cond(st) THEN st ELSE While(Cond, Body, Iterate(Cond, Body, st, SliceLen))
=============================================================================
