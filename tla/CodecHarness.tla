---------------------------- MODULE CodecHarness ----------------------------
(***************************************************************************)
(* The pager as the caller of one byte-level page codec.                  *)
(*                                                                         *)
(* A backend (see-cccrypt.c, see-xor.c, see-rc4.c, see-aes128-ccm.c) is    *)
(* four functions over its codec struct: attach, the size-change hook, the *)
(* per-page transform (xCodec) and loadKey.  This module is the pager that *)
(* calls them: it writes pages (op 6 to the database, op 7 to the journal) *)
(* and reads them back (op 3), changes the page size, loads a new key into *)
(* slot 0 and promotes or restores it as sqlite3_rekey_v2 does, and closes *)
(* and re-opens the connection.  A page is a buffer of pageSize bytes     *)
(* (see Buffers).                                                          *)
(*                                                                         *)
(* Xform(st, data, pgno, op, rnd, mallocOk) returns a record               *)
(*   st    the codec struct after the call,                                *)
(*   out   the buffer the codec returned, or Null for a NULL return,       *)
(*   span  the bytes of the codec's heap block the call touched,           *)
(*   oob   whether the call read past the end of the codec struct.         *)
(* The struct's field `alloc` is the size of that block (0: none).         *)
(* rnd stands for what the call reads but does not control (the bytes of  *)
(* sqlite3_randomness, or heap memory past the struct); mallocOk says     *)
(* whether an allocation made by this call succeeds.                       *)
(***************************************************************************)
EXTENDS Integers, FiniteSets, Buffers

CONSTANTS
    Pgnos,          \* page numbers the pager touches
    PageSizes,      \* page sizes the database may have
    Reserves,       \* reserved bytes per page the file may have
    Contents,       \* small set of page contents the application writes
    KeyInputs,      \* [pKey, nKey] arguments of sqlite3_key / sqlite3_rekey
    Rands,          \* outcomes of sqlite3_randomness
    MallocOutcomes, \* outcomes of one sqlite3_malloc: {TRUE} or BOOLEAN
    Null,           \* a NULL pointer (no page image, no codec result)
    Attach(_, _),           \* sqlite3CodecAttach(pKey, nKey)
    SizeChng(_, _, _),      \* xCodecSizeChng(st, pageSize, nReserve)
    Xform(_, _, _, _, _, _),\* xCodec(st, data, pgno, op, rnd, mallocOk)
    LoadKey(_, _, _)        \* loadKey(st, pKey, nKey), into slot 0

VARIABLES
    codec,   \* the codec struct the pager holds
    file,    \* page number -> the bytes on disk, or Null
    wrote,   \* ghost: what each stored image was encoded from: content, key,
             \* layout, page number, and whether it was altered on disk since
    ub       \* ghost: a codec call touched memory outside its heap block

vars == <<codec, file, wrote, ub>>

(* The plaintext the pager hands the codec: page 1 starts with the SQLite  *)
(* header, whose bytes 16..23 hold the page size (big-endian, 1 for        *)
(* 65536), the format versions, the reserved-byte count and the fixed      *)
(* payload fractions; the rest of the usable part is filled with a byte    *)
(* that names the content, and the reserved trailer is zero.               *)
HeaderBytes(ps, r) ==
    <<(ps \div 256) % 256, ps % 256, 1, 1, r, 64, 32, 32>>

Fill(v, n) == [i \in 1..n |-> v]

Plain(p, c, ps, r) ==
    LET v == (16 * c + p) % 256
    IN IF p = 1 THEN Fill(v, 16) \o HeaderBytes(ps, r) \o Fill(v, ps - r - 24) \o Fill(0, r)
       ELSE Fill(v, ps - r) \o Fill(0, r)

Layout == [ps |-> codec.pageSize, usable |-> codec.usable]

OutOfBounds(r) == r.span > r.st.alloc \/ r.oob

(* A call allocates only while the codec holds no heap block.             *)
MallocTries == IF codec.alloc = 0 THEN MallocOutcomes ELSE {TRUE}

Init ==
    /\ \E k \in KeyInputs, ps \in PageSizes, r \in Reserves :
          codec = SizeChng(Attach(k.pKey, k.nKey), ps, r)
    /\ file = [p \in Pgnos |-> Null]
    /\ wrote = [p \in Pgnos |-> Null]
    /\ ub = FALSE

(* sqlite3PagerWrite / pager_write_pagelist: encode page p for the         *)
(* database (op 6, slot 0) or for the journal (op 7, slot 1).  A NULL      *)
(* result is SQLITE_NOMEM and nothing is written.  After a call that went  *)
(* outside its heap block the behaviour is undefined: nothing more runs.   *)
WritePage(p, c, op, rnd, mok) ==
    LET data == Plain(p, c, codec.pageSize, codec.pageSize - codec.usable)
        r    == Xform(codec, data, p, op, rnd, mok)
    IN /\ ~ub
       /\ codec' = r.st
       /\ file' = IF r.out = Null THEN file ELSE [file EXCEPT ![p] = r.out]
       /\ wrote' = IF r.out = Null THEN wrote
                   ELSE [wrote EXCEPT ![p] = [c |-> c, key |-> codec.key[op % 2],
                                              layout |-> Layout, from |-> p,
                                              tampered |-> FALSE]]
       /\ ub' = OutOfBounds(r)

(* sqlite3PagerGet on a cache miss: decode the stored image with op 3.     *)
ReadPage(p, mok) ==
    LET r == Xform(codec, file[p], p, 3, 0, mok)
    IN /\ ~ub
       /\ file[p] # Null
       /\ codec' = r.st
       /\ ub' = OutOfBounds(r)
       /\ UNCHANGED <<file, wrote>>

(* sqlite3_rekey_v2: loadKey of the new key into slot 0, then either       *)
(* key[1] = key[0] before the commit or key[0] = key[1] on an error.       *)
LoadNewKey(k) ==
    /\ ~ub
    /\ codec' = LoadKey(codec, k.pKey, k.nKey)
    /\ UNCHANGED <<file, wrote, ub>>

PromoteKey ==
    /\ ~ub
    /\ codec' = [codec EXCEPT !.key[1] = codec.key[0]]
    /\ UNCHANGED <<file, wrote, ub>>

RestoreKey ==
    /\ ~ub
    /\ codec' = [codec EXCEPT !.key[0] = codec.key[1]]
    /\ UNCHANGED <<file, wrote, ub>>

(* PRAGMA page_size followed by VACUUM, or a new empty file: the pager     *)
(* reports the new layout and every page is written again under it.        *)
ChangePageSize(ps, r) ==
    /\ ~ub
    /\ codec' = SizeChng(codec, ps, r)
    /\ file' = [p \in Pgnos |-> Null]
    /\ wrote' = [p \in Pgnos |-> Null]
    /\ UNCHANGED ub

(* sqlite3_close then sqlite3_open and sqlite3_key: xCodecFree releases    *)
(* the struct and a fresh one is attached to the same file.                *)
Reopen(k) ==
    /\ ~ub
    /\ codec' = SizeChng(Attach(k.pKey, k.nKey), codec.pageSize,
                         codec.pageSize - codec.usable)
    /\ UNCHANGED <<file, wrote, ub>>

Next ==
    \/ \E p \in Pgnos, c \in Contents, op \in {6, 7}, rnd \in Rands,
          mok \in MallocTries : WritePage(p, c, op, rnd, mok)
    \/ \E p \in Pgnos, mok \in MallocTries : ReadPage(p, mok)
    \/ \E k \in KeyInputs : LoadNewKey(k)
    \/ PromoteKey
    \/ RestoreKey
    \/ \E ps \in PageSizes, r \in Reserves : ChangePageSize(ps, r)
    \/ \E k \in KeyInputs : Reopen(k)

Spec == Init /\ [][Next]_vars

-----------------------------------------------------------------------------
(* What a read of page p by the pager would return now, with memory to     *)
(* spare.                                                                  *)
ReadNow(p) == Xform(codec, file[p], p, 3, 0, TRUE).out

(* An image decodes under slot 1 when it was encoded for this page under a *)
(* key with the same bytes and with the page layout the codec has now, and *)
(* nobody has altered it on disk since.                                    *)
Decodable(p) ==
    /\ file[p] # Null
    /\ wrote[p].key = codec.key[1]
    /\ wrote[p].layout = Layout
    /\ wrote[p].from = p
    /\ ~wrote[p].tampered

(* Round trip of xCodec: every page on disk that was encoded (op 6 or 7)   *)
(* under the key now in slot 1, at the current layout, is decoded by op 3  *)
(* to the usable bytes the pager wrote.                                    *)
RoundTrip ==
    \A p \in Pgnos :
        Decodable(p) =>
            LET out == ReadNow(p)
            IN out # Null =>
                 Slice(out, 0, codec.usable)
                   = Slice(Plain(p, wrote[p].c, codec.pageSize,
                                 codec.pageSize - codec.usable), 0, codec.usable)

(* The pager reads the page size from bytes 16..23 of page 1 before it can *)
(* decode anything: those raw bytes of an image the codec wrote for page 1 *)
(* are the plaintext header.                                               *)
HeaderReadable ==
    1 \in Pgnos /\ file[1] # Null /\ wrote[1].from = 1 /\ ~wrote[1].tampered =>
        \A i \in 16..23 :
            At(file[1], i) = HeaderBytes(wrote[1].layout.ps,
                                         wrote[1].layout.ps - wrote[1].layout.usable)[i - 15]

(* Every codec call stays inside the heap block the codec allocated.       *)
CodecInBounds == ~ub
=============================================================================
