--------------------------- MODULE SQLCipherUpgrader ---------------------------
(***************************************************************************)
(* c4db_upgrade_sqlcipher (Encryption/SQLCipherUpgrader.cc): open the old  *)
(* file read-only, key it with the 32-byte key, rekey it to no key, then   *)
(* open it through LiteCore without a key and rekey it to the configured   *)
(* key.  `pc` is the line the function is at; each library call is one    *)
(* step whose result is any the callee can return in that state.  The      *)
(* early returns of sqlite3_rekey_v2 are those of see-cccrypt.c.           *)
(***************************************************************************)
EXTENDS Naturals

CONSTANTS
    FileExists,          \* whether dbPath names an SQLite file
    EncryptionEnabled,   \* encryptionEnabled in see-cccrypt.c
    MayFail,             \* whether allocations and LiteCore calls may fail
    Null

VARIABLES
    pc,       \* "open", "key", "rekey", "c4open", "c4rekey", "done"
    src,      \* the sqlite3 handle: Null, "open" or "closed"
    readOnly, \* whether src's pager is read-only
    newDb,    \* the C4Database handle, Null until c4db_open returns one
    err,      \* *err as the caller sees it: "none" until something sets it
    upgraded, \* the file is now under the configured key
    ub        \* a call dereferenced a null handle

vars == <<pc, src, readOnly, newDb, err, upgraded, ub>>

Codes == {"OK", "CANTOPEN", "MISUSE", "NOMEM", "READONLY", "ERROR"}

Init ==
    /\ pc = "open" /\ src = Null /\ readOnly = FALSE /\ newDb = Null
    /\ err = "none" /\ upgraded = FALSE /\ ub = FALSE

Return == pc' = "done"

(* sqlite3_open_v2(path, &src, SQLITE_OPEN_READONLY): a handle comes back  *)
(* whether or not the open succeeds; on an error the function returns.     *)
Open ==
    /\ pc = "open"
    /\ src' = "open"
    /\ readOnly' = TRUE
    /\ IF FileExists THEN pc' = "key" ELSE Return
    /\ UNCHANGED <<newDb, err, upgraded, ub>>

(* sqlite3_key_v2(src, NULL, key, 32): MISUSE unless encryption is         *)
(* enabled, else sqlite3CodecAttach's NOMEM or OK.                         *)
KeyV2Results ==
    IF ~EncryptionEnabled THEN {"MISUSE"}
    ELSE IF MayFail THEN {"OK", "NOMEM"} ELSE {"OK"}

Key ==
    /\ pc = "key"
    /\ \E rc \in KeyV2Results :
          IF rc = "OK" THEN pc' = "rekey" /\ UNCHANGED src
          ELSE src' = "closed" /\ Return
    /\ UNCHANGED <<readOnly, newDb, err, upgraded, ub>>

(* sqlite3_rekey_v2(src, NULL, NULL, 0): MISUSE unless encryption is       *)
(* enabled, READONLY on a read-only pager; otherwise the rekey runs and    *)
(* returns OK or an error (Rekey.tla).                                     *)
RekeyV2Results ==
    IF ~EncryptionEnabled THEN {"MISUSE"}
    ELSE IF readOnly THEN {"READONLY"}
    ELSE IF MayFail THEN {"OK", "ERROR"} ELSE {"OK"}

Rekey ==
    /\ pc = "rekey"
    /\ \E rc \in RekeyV2Results :
          IF rc = "OK" THEN pc' = "c4open" /\ UNCHANGED src
          ELSE src' = "closed" /\ Return
    /\ UNCHANGED <<readOnly, newDb, err, upgraded, ub>>

(* c4db_open(srcPath, &altConfig, err): a database, or NULL with *err set. *)
C4Open ==
    /\ pc = "c4open"
    /\ \/ newDb' = "db" /\ UNCHANGED err
       \/ MayFail /\ newDb' = Null /\ err' = "c4open"
    /\ pc' = "c4rekey"
    /\ UNCHANGED <<src, readOnly, upgraded, ub>>

(* c4db_rekey(newDb, &config->encryptionKey, err), whatever newDb is.      *)
C4Rekey ==
    /\ pc = "c4rekey"
    /\ IF newDb = Null THEN ub' = TRUE /\ UNCHANGED <<upgraded, err>>
       ELSE \/ upgraded' = TRUE /\ UNCHANGED <<err, ub>>
            \/ MayFail /\ err' = "c4rekey" /\ UNCHANGED <<upgraded, ub>>
    /\ Return
    /\ UNCHANGED <<src, readOnly, newDb>>

Next == Open \/ Key \/ Rekey \/ C4Open \/ C4Rekey

Spec == Init /\ [][Next]_vars

(* The function's contract as its caller relies on it: when it returns,    *)
(* either the file is upgraded or *err says why not.                       *)
ReportsOutcome == pc = "done" => upgraded \/ err # "none"
=============================================================================
