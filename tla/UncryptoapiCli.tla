--------------------------- MODULE UncryptoapiCli ---------------------------
(***************************************************************************)
(* reference/uncryptoapi-cli.c: the tool that decrypts a database written *)
(* by System.Data.SQLite's legacy CryptoAPI codec.  main() is a sequence  *)
(* of steps, each of which can fail and jump to `done`; the state is the   *)
(* step it is at (pc), the exit code, the resources of the context it     *)
(* holds, the position in the input file and the pages written.          *)
(*                                                                         *)
(* Data abstraction.  A password is a byte string; the RC4 key CryptoAPI   *)
(* derives from SHA-1 of it is identified with the password itself.  A     *)
(* file holds npages pages of size PageSizeOf(hdr) encrypted under key,    *)
(* then tail stray bytes.  CryptDecrypt with Final = TRUE restarts the RC4 *)
(* stream on every call, so a decrypted chunk is fixed by its offset, its  *)
(* length and the key: the output is the sequence of those records.        *)
(* Decrypting page 1 with another key gives a header field the model      *)
(* chooses from GarbageHdrs.                                               *)
(***************************************************************************)
EXTENDS Integers, Sequences, FiniteSets, Buffers

CONSTANTS
    Args,          \* argv[2] values: escaped passwords as byte strings
    NoArg,         \* argc != 3
    Files,         \* the input files: [key, hdr, npages, tail]
    GarbageHdrs,   \* header fields page 1 can decrypt to under a wrong key
    MayFail,       \* the allocations, opens and CryptoAPI calls that may fail
    ReadMayFail    \* fread may stop early with an I/O error

MINIMUM_PAGE_SIZE == 512
MAXIMUM_PAGE_SIZE == 65536

VARIABLES
    pc,        \* the statement of main() to run next
    rc,        \* the exit code
    arg,       \* argv[2], or NoArg
    file,      \* the input file
    held,      \* resources of the DecryptorContext that are allocated
    pw,        \* pCtx->zPassword, pCtx->nPassword as a byte string
    pageSize,  \* pCtx->pageSize
    pos,       \* position of hInFile
    eof,       \* feof(hInFile)
    readErr,   \* the last fread hit an I/O error
    out,       \* the chunks fwrite put in the output file
    outLost    \* fclose(hOutFile) failed: buffered pages may be lost

vars == <<pc, rc, arg, file, held, pw, pageSize, pos, eof, readErr, out,
          outLost>>

(* The page size a header field stands for, in the SQLite file format.    *)
PageSizeOf(h) == IF h = 1 THEN 65536 ELSE h

FileLen(f) == f.npages * PageSizeOf(f.hdr) + f.tail

-----------------------------------------------------------------------------
(* unescape(): the escape letters its switch knows, and the loop.         *)

EscapeSwitch == [c \in {48, 97, 98, 116, 110, 114, 118, 102, 115, 100, 113} |->
                   CASE c = 48 -> 0  [] c = 97 -> 7  [] c = 98 -> 8
                     [] c = 116 -> 9 [] c = 110 -> 10 [] c = 114 -> 13
                     [] c = 118 -> 11 [] c = 102 -> 12 [] c = 115 -> 32
                     [] c = 100 -> 34 [] c = 113 -> 39]

(* Mutation: k <= len, so a trailing backslash escapes the NUL after it.   *)
UnescapeStepReadsNul(z, st) ==
    LET len == Len(z)
        esc == z[st.i] = 92
        c   == IF esc /\ st.i <= len
               THEN IF ZAt(z, st.i) \in DOMAIN EscapeSwitch
                    THEN EscapeSwitch[ZAt(z, st.i)] ELSE ZAt(z, st.i)
               ELSE z[st.i]
    IN [i |-> IF esc THEN st.i + 2 ELSE st.i + 1, o |-> Append(st.o, c)]

UnescapeStep(z, st) ==
    LET len == Len(z)
        esc == z[st.i] = 92
        c   == IF esc /\ st.i + 1 <= len
               THEN IF z[st.i + 1] \in DOMAIN EscapeSwitch
                    THEN EscapeSwitch[z[st.i + 1]] ELSE z[st.i + 1]
               ELSE z[st.i]
    IN [i |-> IF esc THEN st.i + 2 ELSE st.i + 1, o |-> Append(st.o, c)]

Unescape(z) ==
    While(LAMBDA st : st.i <= Len(z), LAMBDA st : UnescapeStep(z, st),
          [i |-> 1, o |-> <<>>]).o

-----------------------------------------------------------------------------
(* main()'s set-up: each step allocates one resource of the context, or   *)
(* makes one CryptoAPI call, and on failure jumps to done with rc = 1.     *)
Setup == <<"pCtx", "zInFileName", "zPassword", "CheckPassword", "hInFile",
           "zOutFileName", "hOutFile", "hProv", "hHash", "HashData", "hKey">>

SetupSteps == {Setup[i] : i \in DOMAIN Setup}

After(s) == LET i == CHOOSE j \in 1..Len(Setup) : Setup[j] = s
            IN IF i = Len(Setup) THEN "ReadHeader" ELSE Setup[i + 1]

Resources == {"pCtx", "zInFileName", "zPassword", "hInFile", "zOutFileName",
              "hOutFile", "hProv", "hHash", "hKey", "pBuf"}

(* The release order of FreeDecryptorContext and the code each failure    *)
(* sets when rc is still 0; 0 where the release cannot fail.               *)
FreeOrder == <<"hKey", "hHash", "hProv", "hOutFile", "hInFile", "pBuf",
               "zOutFileName", "zInFileName", "zPassword", "pCtx">>
ReleaseCode == [r \in Resources |->
                  CASE r = "hKey" -> 6 [] r = "hHash" -> 5 [] r = "hProv" -> 4
                    [] r = "hOutFile" -> 3 [] r = "hInFile" -> 2 [] OTHER -> 0]

(* error(&rc, ...); goto done;                                             *)
Error == rc' = 1 /\ pc' = "Free"

Init ==
    /\ pc = "Args" /\ rc = 0 /\ arg \in Args \cup {NoArg} /\ file \in Files
    /\ held = {} /\ pw = <<>> /\ pageSize = 0 /\ pos = 0 /\ eof = FALSE
    /\ readErr = FALSE /\ out = <<>> /\ outLost = FALSE

CheckArgs ==
    /\ pc = "Args"
    /\ IF arg = NoArg THEN Error ELSE pc' = "pCtx" /\ UNCHANGED rc
    /\ UNCHANGED <<arg, file, held, pw, pageSize, pos, eof, readErr, out, outLost>>

(* A set-up step that succeeds.  unescape() sets the password; fopen(wb)  *)
(* creates the output file empty.                                          *)
SetupStep ==
    /\ pc \in SetupSteps \ {"CheckPassword"}
    /\ held' = IF pc \in Resources THEN held \cup {pc} ELSE held
    /\ pw' = IF pc = "zPassword" THEN Unescape(arg) ELSE pw
    /\ out' = IF pc = "hOutFile" THEN <<>> ELSE out
    /\ pc' = After(pc)
    /\ UNCHANGED <<rc, arg, file, pageSize, pos, eof, readErr, outLost>>

SetupFails ==
    /\ pc \in MayFail /\ pc \in SetupSteps
    /\ Error
    /\ UNCHANGED <<arg, file, held, pw, pageSize, pos, eof, readErr, out, outLost>>

CheckPassword ==
    /\ pc = "CheckPassword"
    /\ IF pw = <<>> THEN Error ELSE pc' = After(pc) /\ UNCHANGED rc
    /\ UNCHANGED <<arg, file, held, pw, pageSize, pos, eof, readErr, out, outLost>>

-----------------------------------------------------------------------------
(* fread(buf, 1, n, hInFile): what it returns and how it moves the stream. *)
(* At the end of the file it returns fewer bytes and sets the EOF          *)
(* indicator; an I/O error returns fewer bytes (here none, or half) and    *)
(* leaves the EOF indicator alone.                                         *)
ReadResults(n) ==
    LET m == IF FileLen(file) - pos < n THEN FileLen(file) - pos ELSE n
    IN {[got |-> m, eof |-> m < n, err |-> FALSE]}
       \cup (IF ReadMayFail /\ m > 0
             THEN {[got |-> g, eof |-> FALSE, err |-> TRUE] : g \in {0, m \div 2}}
             ELSE {})

(* The header field read from the first 512 bytes after CryptDecrypt.     *)
DecryptedHeaders ==
    IF file.key = pw THEN {file.hdr} ELSE GarbageHdrs

(* The three checks of the page size taken from the header.               *)
PageSizeOk(ps) ==
    ps >= MINIMUM_PAGE_SIZE /\ ps <= MAXIMUM_PAGE_SIZE /\ ((ps - 1) & ps) = 0

(* Read the first 512 bytes, decrypt them, and check the page size at     *)
(* offset 16.  A short read, a failed decryption and a bad page size     *)
(* each jump to done.                                                     *)
ReadHeader ==
    /\ pc = "ReadHeader"
    /\ \E r \in ReadResults(MINIMUM_PAGE_SIZE) :
          /\ pos' = pos + r.got /\ eof' = r.eof /\ readErr' = r.err
          /\ \/ /\ r.got # MINIMUM_PAGE_SIZE
                /\ Error
                /\ UNCHANGED pageSize
             \/ /\ r.got = MINIMUM_PAGE_SIZE /\ "CryptDecrypt" \in MayFail
                /\ Error
                /\ UNCHANGED pageSize
             \/ /\ r.got = MINIMUM_PAGE_SIZE
                /\ \E h \in DecryptedHeaders : pageSize' = h
                /\ IF PageSizeOk(pageSize')
                   THEN pc' = "pBuf" /\ UNCHANGED rc
                   ELSE Error
    /\ UNCHANGED <<arg, file, held, pw, out, outLost>>

(* calloc(pageSize) and fseek(hInFile, 0, SEEK_SET), which also clears    *)
(* the EOF indicator.                                                      *)
AllocBuffer ==
    /\ pc = "pBuf"
    /\ \/ /\ held' = held \cup {"pBuf"} /\ pc' = "fseek"
          /\ UNCHANGED rc
       \/ /\ "pBuf" \in MayFail /\ Error /\ UNCHANGED held
    /\ UNCHANGED <<arg, file, pw, pageSize, pos, eof, readErr, out, outLost>>

Rewind ==
    /\ pc = "fseek"
    /\ \/ /\ pos' = 0 /\ eof' = FALSE /\ pc' = "Loop"
          /\ UNCHANGED rc
       \/ /\ "fseek" \in MayFail /\ Error /\ UNCHANGED <<pos, eof>>
    /\ UNCHANGED <<arg, file, held, pw, pageSize, readErr, out, outLost>>

(* Mutation: the loop runs while( !ferror(hInFile) ).                     *)
LoopConditionFerror == ~readErr

(* while( !feof(pCtx->hInFile) ) *)
LoopCondition == ~eof

Chunk(k) == [off |-> pos, len |-> pageSize, key |-> k]

(* One pass of the page loop: while( !feof(hInFile) ) read a page; a read *)
(* of nothing continues the loop, a short read is an error, otherwise the *)
(* page is decrypted and written and iCurPg advances.                      *)
LoopStep ==
    /\ pc = "Loop" /\ LoopCondition
    /\ \E r \in ReadResults(pageSize) :
          /\ pos' = pos + r.got /\ eof' = r.eof /\ readErr' = r.err
          /\ \/ /\ r.got = 0
                /\ UNCHANGED <<pc, rc, out>>
             \/ /\ r.got # 0 /\ r.got # pageSize
                /\ Error
                /\ UNCHANGED out
             \/ /\ r.got = pageSize /\ "CryptDecrypt" \in MayFail
                /\ Error /\ UNCHANGED out
             \/ /\ r.got = pageSize /\ "fwrite" \in MayFail
                /\ Error /\ UNCHANGED out
             \/ /\ r.got = pageSize
                /\ out' = Append(out, Chunk(pw))
                /\ UNCHANGED <<pc, rc>>
    /\ UNCHANGED <<arg, file, held, pw, pageSize, outLost>>

LoopExit ==
    /\ pc = "Loop" /\ ~LoopCondition
    /\ pc' = "Free"
    /\ UNCHANGED <<rc, arg, file, held, pw, pageSize, pos, eof, readErr, out,
                   outLost>>

-----------------------------------------------------------------------------
(* done: FreeDecryptorContext releases what the context holds, in its      *)
(* order.  A failed CryptDestroyKey/Hash, CryptReleaseContext or fclose    *)
(* sets its code if rc is still 0; a failed fclose of the output may lose  *)
(* the pages still buffered.                                               *)
NextToFree == FreeOrder[CHOOSE i \in DOMAIN FreeOrder :
                           /\ FreeOrder[i] \in held
                           /\ \A j \in 1..(i - 1) : FreeOrder[j] \notin held]

(* Mutation: the result of fclose(hOutFile) is not checked.               *)
ReleaseUncheckedClose ==
    /\ pc = "Free" /\ held # {}
    /\ LET r == NextToFree IN
       /\ held' = held \ {r}
       /\ \/ /\ UNCHANGED <<rc, outLost>>
          \/ /\ ReleaseCode[r] # 0 /\ r \in MayFail
             /\ rc' = IF rc = 0 /\ r # "hOutFile" THEN ReleaseCode[r] ELSE rc
             /\ outLost' = (outLost \/ r = "hOutFile")
    /\ UNCHANGED <<pc, arg, file, pw, pageSize, pos, eof, readErr, out>>

Release ==
    /\ pc = "Free" /\ held # {}
    /\ LET r == NextToFree IN
       /\ held' = held \ {r}
       /\ \/ /\ UNCHANGED <<rc, outLost>>
          \/ /\ ReleaseCode[r] # 0 /\ r \in MayFail
             /\ rc' = IF rc = 0 THEN ReleaseCode[r] ELSE rc
             /\ outLost' = (outLost \/ r = "hOutFile")
    /\ UNCHANGED <<pc, arg, file, pw, pageSize, pos, eof, readErr, out>>

(* return rc; *)
Exit ==
    /\ pc = "Free" /\ held = {}
    /\ pc' = "Done"
    /\ UNCHANGED <<rc, arg, file, held, pw, pageSize, pos, eof, readErr, out,
                   outLost>>

(* The process has exited; nothing changes any more. *)
Terminated == pc = "Done" /\ UNCHANGED vars

Next ==
    \/ CheckArgs \/ SetupStep \/ SetupFails \/ CheckPassword
    \/ ReadHeader \/ AllocBuffer \/ Rewind \/ LoopStep \/ LoopExit
    \/ Release \/ Exit \/ Terminated

(* The tool is one sequential process: it keeps taking steps while it has  *)
(* any to take.                                                            *)
Spec == Init /\ [][Next]_vars /\ WF_vars(Next)

-----------------------------------------------------------------------------
(* Properties.                                                             *)

(* The escapes the header comment of unescape() and of main() documents,   *)
(* as <<letter, byte>>; any other escaped letter is kept without its       *)
(* backslash.  A backslash that ends the string escapes nothing.           *)
DocEscapes == {<<48, 0>>, <<97, 7>>, <<98, 8>>, <<116, 9>>, <<110, 10>>,
               <<114, 13>>, <<118, 11>>, <<102, 12>>, <<115, 32>>,
               <<100, 34>>, <<113, 39>>, <<92, 92>>}

DocByte(c) == IF \E e \in DocEscapes : e[1] = c
              THEN (CHOOSE e \in DocEscapes : e[1] = c)[2] ELSE c

RECURSIVE DocUnescape(_)
DocUnescape(z) ==
    IF z = <<>> THEN <<>>
    ELSE IF Head(z) = 92 /\ Len(z) >= 2
         THEN <<DocByte(z[2])>> \o DocUnescape(Tail(Tail(z)))
         ELSE <<Head(z)>> \o DocUnescape(Tail(z))

(* The password the tool hashes is the command-line argument with exactly  *)
(* the documented escapes replaced (unescape's index loop against the      *)
(* documented table).                                                      *)
UnescapeMatchesDoc == "zPassword" \in held => pw = DocUnescape(arg)

(* What the whole input decrypts to, page by page, under the password.    *)
Decryption == [j \in 1..(FileLen(file) \div pageSize) |->
                 [off |-> (j - 1) * pageSize, len |-> pageSize, key |-> pw]]

(* Exit code 0 means the output file is the complete decryption: every     *)
(* page of the input decrypted under the password, no stray bytes after   *)
(* the last page, and nothing lost when the output was closed.  It is     *)
(* about the page loop, its read checks, and FreeDecryptorContext's codes. *)
ExitCodeTruthful ==
    pc = "Done" /\ rc = 0 =>
        /\ ~outLost /\ FileLen(file) % pageSize = 0 /\ out = Decryption

(* The tool exits unless reads fail for good: the page loop, which retries *)
(* a read that returned nothing, ends once reads keep succeeding.          *)
Termination == []<>~readErr => <>(pc = "Done")
====
