----------------------------- MODULE MC_KeyHash -----------------------------
(* keyhash-cli.c fed a line of passphrase, for TLC, with the key the codec *)
(* of this repository derives from the same passphrase.                    *)
EXTENDS Integers, Sequences

CONSTANTS Null

Long == [i \in 1..300 |-> 97 + (i % 26)]               \* 300 letters

(* A line: the algorithm the codec is built with, the prefix typed and the *)
(* passphrase after it.  The passphrase is longer than the 256 bytes       *)
(* showKey measures, with the 4 bytes of the "rc4:" prefix counted.        *)
Rc4Pre == <<114, 99, 52, 58>>
LongLines == { [alg |-> "rc4", pre |-> Rc4Pre, phrase |-> Long] }

Text(r) == r.pre \o r.phrase

MC_LongInputs == { Text(a) \o <<10>> : a \in LongLines }

VARIABLES stdin, out

K == INSTANCE KeyHash WITH Inputs <- MC_LongInputs
Rc4 == INSTANCE Rc4Codec

Spec == K!Spec

(* The key sqlite3_key(db, phrase, -1) loads into slot 0 of see-rc4.c.    *)
CodecKey(r) == Rc4!Attach(r.phrase, -1).key[0].repeat

(* keyhash-cli.c's header: the tool shows what the encryption key would be *)
(* for each passphrase line.  Every key showKey printed is the key the     *)
(* codec of the algorithm the prefix names loads for the passphrase after  *)
(* the prefix, with sqlite3_key(db, phrase, -1).                           *)
KeyMatchesCodec ==
    \A i \in 1..Len(out) :
        \A r \in LongLines :
            out[i].raw = Text(r) \o <<10>> => out[i].key = CodecKey(r)
=============================================================================
