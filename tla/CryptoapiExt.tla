----------------------------- MODULE CryptoapiExt -----------------------------
(***************************************************************************)
(* reference/cryptoapi.c: an SQLite extension whose init function          *)
(* registers cryptoapi_decrypt(X,Y) and cryptoapi_encrypt(X,Y).  Both      *)
(* functions share one CryptoAPI provider handle, kept in a context block  *)
(* per function; SQLite calls the destructor freeContext on a block when   *)
(* the function is replaced, when its registration fails, and when the    *)
(* connection closes.  Only the decrypt block releases the provider.       *)
(*                                                                         *)
(* Data: a blob is its plaintext and the set of passwords whose RC4 key    *)
(* streams are XORed into it.  Both functions derive a fresh RC4 key from  *)
(* SHA-1 of the password and run it over the whole blob, so encrypt and    *)
(* decrypt compute the same XOR and two passes under one password cancel.  *)
(* SHA-1 is taken to be injective: the key is named by the password.       *)
(***************************************************************************)
EXTENDS Naturals

CONSTANTS
    Ctxs,      \* heap blocks sqlite3_malloc may return for a cryptoapi_ctx
    Provs,     \* handles CryptAcquireContext may return
    Datas,     \* non-empty plaintext payloads
    Empty,     \* the payload of a zero-length blob
    Pwds,      \* password blobs
    MayFail,   \* the calls of the environment that may fail
    NoCtx,     \* a NULL cryptoapi_ctx pointer (no user data)
    NoProv     \* hProv = 0

VARIABLES
    fn,        \* the user data SQLite holds for each function name
    ctx,       \* every context block: state, hProv, bEncrypt
    prov,      \* every provider handle: unused, acquired or released
    open,      \* the connection is open
    rc,        \* the code the last sqlite3_cryptoapi_init returned
    result     \* the result of the last SQL call

vars == <<fn, ctx, prov, open, rc, result>>

Funcs == {"cryptoapi_decrypt", "cryptoapi_encrypt"}

(* An SQL value: its type, and for a blob its payload and key streams.     *)
Value(t, d, ks) == [type |-> t, of |-> d, ks |-> ks]
Blob(d, ks) == Value("BLOB", d, ks)
SqlNull == Value("NULL", Empty, {})
Err(msg) == Value("ERROR", msg, {})     \* sqlite3_result_error
Blobs == {Blob(d, ks) : d \in Datas \cup Pwds \cup {Empty}, ks \in SUBSET Pwds}
Values == Blobs \cup {SqlNull, Value("TEXT", Empty, {})}

Zeroed == [st |-> "live", hProv |-> NoProv, bEncrypt |-> FALSE]  \* memset 0
Unused == [st |-> "unused", hProv |-> NoProv, bEncrypt |-> FALSE]

(* The heap state an action reads and writes, as one record.               *)
Heap == [fn |-> fn, ctx |-> ctx, prov |-> prov]

(* freeContext(pUserData): a NULL pointer is ignored; a decrypt block      *)
(* releases its provider; every block clears hProv and is freed.           *)
freeContext(s, c) ==
    IF c = NoCtx THEN s
    ELSE LET h == s.ctx[c].hProv
         IN [s EXCEPT
               !.prov = IF h # NoProv /\ ~s.ctx[c].bEncrypt
                        THEN [s.prov EXCEPT ![h] = "released"] ELSE s.prov,
               !.ctx[c] = [st |-> "freed", hProv |-> NoProv,
                           bEncrypt |-> s.ctx[c].bEncrypt]]

(* sqlite3_create_function_v2 with destructor freeContext: on success the  *)
(* destructor of the definition it replaces runs and the name now carries  *)
(* c; on failure (SQLITE_NOMEM, or SQLITE_BUSY while statements run) the   *)
(* old definition stays and the destructor runs on c at once.              *)
create_function(s, f, c, ok) ==
    IF ok THEN [freeContext(s, s.fn[f]) EXCEPT !.fn[f] = c]
    ELSE freeContext(s, c)

Fails(step) == step \in MayFail

Apply(s, code) ==
    /\ fn' = s.fn
    /\ ctx' = s.ctx
    /\ prov' = s.prov
    /\ rc' = code

Init ==
    /\ fn = [f \in Funcs |-> NoCtx]
    /\ ctx = [c \in Ctxs |-> Unused]
    /\ prov = [p \in Provs |-> "unused"]
    /\ open = TRUE
    /\ rc = "SQLITE_OK"
    /\ result = SqlNull

(* sqlite3_cryptoapi_init, run by sqlite3_load_extension: two blocks, one  *)
(* provider, then the decrypt and the encrypt registrations, in order.     *)
sqlite3_cryptoapi_init ==
    /\ open
    /\ \E c1, c2 \in {c \in Ctxs : ctx[c].st = "unused"},
          p \in {q \in Provs : prov[q] = "unused"} :
        LET s0  == Heap
            s1  == [s0 EXCEPT !.ctx[c1] = Zeroed]
            s2  == [s1 EXCEPT !.ctx[c2] = Zeroed]
            acq == [s2 EXCEPT !.prov[p] = "acquired",
                              !.ctx[c1] = [st |-> "live", hProv |-> p,
                                           bEncrypt |-> FALSE]]
            dec(ok) == create_function(acq, "cryptoapi_decrypt", c1, ok)
            enc(ok) == create_function(
                         [dec(TRUE) EXCEPT !.ctx[c2] = [st |-> "live",
                                            hProv |-> p, bEncrypt |-> TRUE]],
                         "cryptoapi_encrypt", c2, ok)
        IN /\ c1 # c2
           /\ \/ Fails("pCtx1") /\ Apply(s0, "SQLITE_NOMEM")
              \/ Fails("pCtx2") /\ Apply(freeContext(s1, c1), "SQLITE_NOMEM")
              \/ /\ Fails("CryptAcquireContext")
                 /\ Apply(freeContext(freeContext(s2, c2), c1), "SQLITE_ERROR")
              \/ Fails("create_function") /\ Apply(dec(FALSE), "SQLITE_NOMEM")
              \/ Fails("create_function") /\ Apply(enc(FALSE), "SQLITE_NOMEM")
              \/ Apply(enc(TRUE), "SQLITE_OK")
    /\ UNCHANGED <<open, result>>

(* RC4 over a blob under the key derived from password y.                  *)
Rc4(y, x) == Blob(x.of, (x.ks \ {y}) \cup ({y} \ x.ks))

(* The CryptoAPI calls of cryptoapiFunc, in order, for a context.          *)
CallSteps(c) == {"CryptCreateHash", "CryptHashData", "CryptDeriveKey",
                 "sqlite3_malloc64",
                 IF ctx[c].bEncrypt THEN "CryptEncrypt" ELSE "CryptDecrypt"}

(* cryptoapiFunc with user data c on arguments x, y, when the call named   *)
(* step fails ("none": no call fails).  sqlite3_value_blob returns NULL    *)
(* for a zero-length blob, so such an X gives no result (SQL NULL) and the *)
(* zeroblob branch is never taken.  A released provider handle makes       *)
(* CryptCreateHash fail.                                                   *)
cryptoapiFunc(c, x, y, step) ==
    CASE c = NoCtx -> Err("missing encryption context")
      [] x.type # "BLOB" \/ y.type # "BLOB" \/ x.of = Empty -> SqlNull
      [] prov[ctx[c].hProv] # "acquired" -> Err("CryptCreateHash")
      [] step = "sqlite3_malloc64" -> Err("out of memory")
      [] step # "none" -> Err(step)
      [] OTHER -> Rc4(y.of, x)

(* A SELECT calling one of the registered functions.                       *)
Call ==
    /\ open
    /\ \E f \in Funcs, x \in Values, y \in {Blob(k, {}) : k \in Pwds} \cup {SqlNull} :
        /\ fn[f] # NoCtx
        /\ \E step \in {"none"} \cup (CallSteps(fn[f]) \cap MayFail) :
             result' = cryptoapiFunc(fn[f], x, y, step)
    /\ UNCHANGED <<fn, ctx, prov, open, rc>>

(* sqlite3_close: the destructor of every function runs.                   *)
Close ==
    /\ open
    /\ LET s == freeContext(freeContext(Heap, fn["cryptoapi_decrypt"]),
                            fn["cryptoapi_encrypt"])
       IN /\ fn' = [f \in Funcs |-> NoCtx]
          /\ ctx' = s.ctx
          /\ prov' = s.prov
    /\ open' = FALSE
    /\ UNCHANGED <<rc, result>>

Terminated == ~open /\ UNCHANGED vars

Next == sqlite3_cryptoapi_init \/ Call \/ Close \/ Terminated

Spec == Init /\ [][Next]_vars

(* Every function SQLite holds uses a live block whose provider is still   *)
(* acquired, so no SQL call hands a released handle to CryptCreateHash.    *)
(* freeContext releases the shared provider from the decrypt block alone.  *)
RegisteredProvidersLive ==
    \A f \in Funcs : fn[f] # NoCtx =>
        /\ ctx[fn[f]].st = "live"
        /\ prov[ctx[fn[f]].hProv] = "acquired"
================================================================================
