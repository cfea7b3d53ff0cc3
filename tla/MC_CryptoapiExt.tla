---------------------------- MODULE MC_CryptoapiExt ----------------------------
(* cryptoapi.c loaded twice into one connection, for TLC: four context     *)
(* blocks and two provider handles are enough for two loads.               *)
EXTENDS FiniteSets

CONSTANTS c1, c2, c3, c4, p1, p2, d1, k1, k2, Empty, NoCtx, NoProv

MC_Ctxs == {c1, c2, c3, c4}
MC_Provs == {p1, p2}
MC_MayFail == {"pCtx1", "pCtx2", "CryptAcquireContext", "create_function",
               "CryptCreateHash", "CryptHashData", "CryptDeriveKey",
               "sqlite3_malloc64", "CryptEncrypt", "CryptDecrypt"}

VARIABLES fn, ctx, prov, open, rc, result

E == INSTANCE CryptoapiExt WITH Ctxs <- MC_Ctxs, Provs <- MC_Provs,
         Datas <- {d1}, Pwds <- {k1, k2}, MayFail <- MC_MayFail

Spec == E!Spec
RegisteredProvidersLive == E!RegisteredProvidersLive
================================================================================
