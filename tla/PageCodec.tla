----------------------------- MODULE PageCodec -----------------------------
(***************************************************************************)
(* The page codec of the SQLite Encryption Extension backends under        *)
(* src/tank/couchbase-lite-core-EE/Encryption (see-cccrypt.c and the       *)
(* reference see-aes128-ccm.c, see-rc4.c, see-xor.c), abstracted to what   *)
(* the re-key transaction depends on.                                      *)
(*                                                                         *)
(* A key is a model value; "no key" (the nullKey flag of a key slot) is    *)
(* NullKey.  A page image on disk or in the journal is the record of the   *)
(* key it was encoded under and the plaintext it carries: the cipher is    *)
(* abstracted to "decoding under the same key gives the plaintext back,    *)
(* decoding under any other key gives Garbage".  For the CCM backend       *)
(* Garbage is the zero-filled page returned on a MAC mismatch, for the     *)
(* others it is the bytes XORed with the wrong mask.  A null key slot      *)
(* passes the page through unchanged, so an image under NullKey is         *)
(* plaintext and reads as Garbage under any real key and vice versa.       *)
(*                                                                         *)
(* Encoding draws a fresh random nonce (sqliteCodecCCCrypto, lines        *)
(* 209-214) and overwrites the old one in the page trailer, so a page read *)
(* under the wrong real key and written back is lost for good: the model's *)
(* Garbage is exact between real keys.  A null slot instead passes bytes   *)
(* through untouched (line 170), so a wrong-key round trip through a null  *)
(* slot can preserve the ciphertext; the model does not track that, and   *)
(* the run whose verdict depends on Garbage being final uses real keys.   *)
(***************************************************************************)
CONSTANTS
    Keys,       \* encryption keys (model values)
    NullKey,    \* the key slot's nullKey state: no encryption
    Vals,       \* logical page contents (model values)
    Garbage     \* what a page decodes to under the wrong key

ASSUME NullKey \notin Keys /\ Garbage \notin Vals

\* The contents of one key slot (struct KeyCCCrypto: nullKey, repeat[]).
KeySlot == Keys \cup {NullKey}

\* What a decode may yield.
Plain == Vals \cup {Garbage}

\* An encoded page image: the key it is under and the plaintext inside.
Image == [k : KeySlot, v : Plain]

\* sqliteCodecCCCrypto with op&4 set (ops 6 and 7): encode the page with
\* the key of the selected slot; a null slot returns the page unchanged.
Encode(key, plain) == [k |-> key, v |-> plain]

\* Mutation: the codec's early out taken for a slot that has a key, so the
\* page is handed to the pager still encoded.
DecodePassThrough(key, img) == img

\* sqliteCodecCCCrypto with op&4 clear (op 3): decode with the selected
\* slot.  The mask is derived from the slot's key and the page's nonce, so
\* only the key the page was encoded under recovers the plaintext.
Decode(key, img) == IF img.k = key THEN img.v ELSE Garbage

\* loadKeyCCCrypt(pCodec, pKey, nKey): a NULL pKey or nKey = 0 marks slot 0
\* null; any other length (a byte count, or negative for a passphrase run
\* through pwHash) installs the key named by pKey.  pKey = NullKey stands
\* for the NULL pointer.
LoadKey(pKey, nKey) == IF pKey = NullKey \/ nKey = 0 THEN NullKey ELSE pKey
=============================================================================
