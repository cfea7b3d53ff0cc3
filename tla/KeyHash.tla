------------------------------ MODULE KeyHash ------------------------------
(***************************************************************************)
(* reference/keyhash-cli.c: a tool that reads passphrases, one per line,   *)
(* and prints the key the codec would use for each.  A line may name the   *)
(* algorithm with a prefix ("rc4:", "aes128:", "aes256:"); the default is  *)
(* AES-128.  Keys are printed in hex; the model keeps the key bytes.       *)
(* Strings are tuples of byte values without their NUL.                    *)
(***************************************************************************)
EXTENDS Integers, Sequences

CONSTANTS
    Inputs,   \* the contents stdin may have: byte sequences
    Null      \* a NULL pointer

VARIABLES
    stdin,    \* the bytes not yet read
    out       \* the keys printed so far, each with the line fgets read

vars == <<stdin, out>>

LOCAL SE == INSTANCE SequencesExt
LOCAL Ctr == INSTANCE CtrCodec WITH BlockEncrypt <- LAMBDA k, b : b

NL == 10
CR == 13
LineBuf == 1000   \* sizeof(zLine)

(* pwHash: the same code as see-cccrypt.c's.                               *)
pwHash(z, N) == Ctr!pwHash(z, N)

SEE_RC4 == 0
SEE_AES128OFB == 1
SEE_AES256OFB == 2
szKey == <<256, 16, 32, 16>>   \* szKey[alg] is szKey[alg + 1]

Rc4Prefix == <<114, 99, 52, 58>>                 \* "rc4:"
Aes128Prefix == <<97, 101, 115, 49, 50, 56, 58>>  \* "aes128:"
Aes256Prefix == <<97, 101, 115, 50, 53, 54, 58>>  \* "aes256:"

HasPrefix(z, n, pre) == n > Len(pre) /\ SubSeq(z, 1, Len(pre)) = pre

(* showKey: nKey = strlen capped at 256; a prefix picks the algorithm and  *)
(* is skipped; the hash algorithms take pwHash of the rest of the string,  *)
(* RC4 repeats its first nKey - nPrefix bytes (at most 256) to 256 bytes.  *)
showKey(zKey) ==
    LET n0   == IF Len(zKey) > 256 THEN 256 ELSE Len(zKey)
        alg  == CASE HasPrefix(zKey, n0, Rc4Prefix) -> SEE_RC4
                  [] HasPrefix(zKey, n0, Aes128Prefix) -> SEE_AES128OFB
                  [] HasPrefix(zKey, n0, Aes256Prefix) -> SEE_AES256OFB
                  [] OTHER -> SEE_AES128OFB
        pre  == CASE HasPrefix(zKey, n0, Rc4Prefix) -> 4
                  [] HasPrefix(zKey, n0, Aes128Prefix) \/ HasPrefix(zKey, n0, Aes256Prefix) -> 7
                  [] OTHER -> 0
        rest == SubSeq(zKey, pre + 1, Len(zKey))
        sz   == szKey[alg + 1]
        nKey == IF n0 - pre > sz THEN sz ELSE n0 - pre
    IN IF alg # SEE_RC4 THEN pwHash(rest, sz)
       ELSE [i \in 1..sz |-> rest[((i - 1) % nKey) + 1]]

(* fgets(zLine, 1000, stdin): up to and including the first newline, at    *)
(* most 999 bytes.                                                         *)
Fgets(s) ==
    LET m  == IF Len(s) > LineBuf - 1 THEN LineBuf - 1 ELSE Len(s)
        nl == SE!SelectInSeq(SubSeq(s, 1, m), LAMBDA c : c = NL)
    IN IF nl = 0 THEN SubSeq(s, 1, m) ELSE SubSeq(s, 1, nl)

(* Trailing '\n' and '\r' bytes are dropped.                               *)
RECURSIVE StripEol(_)
StripEol(l) ==
    IF l # << >> /\ (l[Len(l)] = NL \/ l[Len(l)] = CR) THEN StripEol(SubSeq(l, 1, Len(l) - 1))
    ELSE l

Init ==
    /\ stdin \in Inputs
    /\ out = << >>

(* One iteration of main's loop: read a line, show its key.                *)
ShowLine ==
    LET line == Fgets(stdin)
    IN /\ stdin # << >>
       /\ stdin' = SubSeq(stdin, Len(line) + 1, Len(stdin))
       /\ out' = Append(out, [raw |-> line, key |-> showKey(StripEol(line))])

Next == ShowLine

Spec == Init /\ [][Next]_vars
=============================================================================
