------------------------- MODULE MC_UncryptoapiCli -------------------------
(* uncryptoapi-cli.c run on small files, for TLC.                          *)
EXTENDS Integers, Sequences

CONSTANTS NoArg, Files, MayFail, ReadMayFail

(* argv[2]: every string of up to three of '\\', '0' and 'x'.  It covers   *)
(* "\\0" (a NUL byte), an escaped backslash, an unsupported escape "\\x",  *)
(* a trailing lone backslash and the empty string.                         *)
Letters == {92, 48, 120}
MC_Args == UNION {[1..n -> Letters] : n \in 0..2} \cup {<<92, 92, 92>>, <<120, 92, 48>>}

(* Files encrypted under the password "\\0" or "x", with page sizes 512   *)
(* and 1024, none to two pages, and possibly 256 stray bytes after them;  *)
(* and a database of one 65536-byte page, which SQLite marks with header  *)
(* field 1.                                                                *)
MC_Files == [key : {<<0>>, <<120>>}, hdr : {512, 1024}, npages : 0..2,
             tail : {0, 256}]
            \cup [key : {<<0>>}, hdr : {1}, npages : {1}, tail : {0}]

(* Page 1 decrypted under a wrong key: too small, not a power of two, or  *)
(* a valid size by chance.                                                 *)
MC_GarbageHdrs == {256, 768, 512}

MC_MayFail == {"pCtx", "zInFileName", "zPassword", "hInFile", "zOutFileName",
               "hOutFile", "hProv", "hHash", "HashData", "hKey", "CryptDecrypt",
               "pBuf", "fseek", "fwrite"}

VARIABLES pc, rc, arg, file, held, pw, pageSize, pos, eof, readErr, out,
          outLost

U == INSTANCE UncryptoapiCli WITH Args <- MC_Args, GarbageHdrs <- MC_GarbageHdrs

Spec == U!Spec
UnescapeMatchesDoc == U!UnescapeMatchesDoc
ExitCodeTruthful == U!ExitCodeTruthful
Termination == U!Termination
=============================================================================
