------------------------------- MODULE Rekey -------------------------------
(***************************************************************************)
(* sqlite3_rekey_v2 (see-cccrypt.c 510-603; the same body is in           *)
(* see-aes128-ccm.c, see-rc4.c and see-xor.c) composed with the pager it   *)
(* drives, the application that uses the database between re-keys, a      *)
(* concurrent sqlite3_interrupt, and a crash of the process at any point.  *)
(*                                                                         *)
(* The rekey call holds the connection mutex from start to return, so the  *)
(* application's own reads and writes only run while rk = "idle"; the     *)
(* interrupt flag is set from another thread without the mutex; a crash   *)
(* can happen between any two steps.                                       *)
(***************************************************************************)
EXTENDS Pager

CONSTANTS
    RekeyTargets,    \* keys passed to sqlite3_rekey (pKey; NullKey = NULL)
    KeyLens,         \* values of nKey passed to sqlite3_rekey
    RekeyInUserTxn   \* sqlite3_rekey may be called inside BEGIN ... COMMIT

ASSUME RekeyTargets \subseteq KeySlot /\ KeyLens \subseteq Int
       /\ RekeyInUserTxn \in BOOLEAN

RCs == {"OK", "READONLY", "NOMEM", "BUSY", "IOERR", "INTERRUPT"}

VARIABLES
    rk,          \* where sqlite3_rekey_v2 is: "idle", "get1", "scan", "commit"
    rkKey,       \* the key loadKeyCCCrypt will install (pKey, nKey)
    rkEState,    \* eState: the pager state on entry
    rkPage,      \* i: the next page of the loop
    rkN,         \* nPage
    rkRc,        \* rc
    interrupted, \* db->u1.isInterrupted
    ret,         \* what sqlite3_rekey returned in this step, or "none"
    before       \* ghost: key slots and recoverable file image on entry

rekeyVars == <<rk, rkKey, rkEState, rkPage, rkN, rkRc, before>>
vars == <<pagerVars, rekeyVars, interrupted, ret>>

\* Mutation: eState < PAGER_READER instead of <=.
AtMostReaderStrict(s) == s = "OPEN"

\* eState <= PAGER_READER
AtMostReader(s) == s \in {"OPEN", "READER"}

\* Mutation: the loop starts at page 2.
FirstPageOffByOne == 2

\* for(i=1; ...): the loop's first page.
FirstPage == 1

\* Mutation: skipThisPage off by one.
SkipPageOffByOne(n) == IF n # 0 THEN LockPage - 1 ELSE 0

\* skipThisPage = PENDING_BYTE/pCodec->pageSize + 1 when nPage != 0
SkipThisPage(n) == IF n # 0 THEN LockPage ELSE 0

TypeOK ==
    /\ PagerTypeOK
    /\ rk \in {"idle", "get1", "scan", "commit"}
    /\ rkKey \in KeySlot /\ rkEState \in PagerStates
    /\ rkPage \in 0 .. NPages + 1 /\ rkN \in 0 .. NPages
    /\ rkRc \in RCs /\ interrupted \in BOOLEAN
    /\ ret \in RCs \cup {"none"}

Init ==
    /\ PagerInit
    /\ rk = "idle" /\ rkKey = NullKey /\ rkEState = "OPEN"
    /\ rkPage = 0 /\ rkN = 0 /\ rkRc = "OK"
    /\ interrupted = FALSE /\ ret = "none"
    /\ before = [k0 |-> key0, k1 |-> key1, eff |-> Eff]

-----------------------------------------------------------------------------
(* sqlite3_rekey_v2                                                        *)

\* Entry, lines 524-557: the read-only check, attaching a null codec when
\* there is none, and taking the shared lock when the pager is OPEN (which
\* plays back a hot journal).  Early returns go straight back to "idle".
RekeyStart ==
    /\ rk = "idle"
    /\ pagerState \in {"OPEN", "READER", "ERROR"} \/ (pagerState = "WRITER" /\ RekeyInUserTxn)
    /\ \E pKey \in RekeyTargets, nKey \in KeyLens :
         /\ rkKey' = LoadKey(pKey, nKey)
         /\ before' = [k0 |-> key0, k1 |-> key1, eff |-> Eff]
         /\ rkEState' = pagerState
         /\ \/ /\ readOnly
               /\ ret' = "READONLY"
               /\ UNCHANGED <<pagerVars, rk, rkPage, rkN, rkRc>>
            \/ /\ ~readOnly /\ ~attached
               /\ ret' = "NOMEM"
               /\ UNCHANGED <<pagerVars, rk, rkPage, rkN, rkRc>>
            \/ /\ ~readOnly /\ pagerState = "OPEN"
               /\ attached' = TRUE
               /\ ret' = "BUSY"
               /\ UNCHANGED <<disk, journal, cache, dirty, toWrite, pagerState, readOnly,
                              key0, key1, committed, rk, rkPage, rkN, rkRc>>
            \/ /\ ~readOnly
               /\ attached' = TRUE
               /\ IF pagerState = "OPEN"
                  THEN SharedLocked
                  ELSE UNCHANGED <<disk, journal, pagerState>>
               /\ rk' = "get1" /\ rkRc' = "OK" /\ ret' = "none"
               /\ UNCHANGED <<cache, dirty, toWrite, readOnly, key0, key1, committed,
                              rkPage, rkN>>
    /\ UNCHANGED interrupted

\* Lines 558-573: fetch page 1 and, unless the caller already holds a write
\* transaction, begin one; then count the pages and load the new key into
\* slot 0 while slot 1 keeps the key the file is under.  A failed fetch
\* leaves rc set and nPage = 0, so the loop is skipped and the key rolled
\* back; a failed begin returns before the key is loaded.
RekeyGetPage1 ==
    /\ rk = "get1"
    /\ \/ /\ pagerState = "ERROR" \/ cache[1] = NoPage
          /\ rkRc' = "IOERR" /\ rkN' = 0
          /\ key0' = LoadKey(rkKey, 1)
          /\ rk' = "scan" /\ rkPage' = FirstPage /\ ret' = "none"
          /\ UNCHANGED <<disk, journal, cache, dirty, toWrite, pagerState>>
       \/ /\ pagerState # "ERROR"
          /\ cache' = Fetched(1)
          /\ IF AtMostReader(rkEState)
             THEN \/ /\ PagerBegin
                     /\ key0' = LoadKey(rkKey, 1)
                     /\ rk' = "scan" /\ rkPage' = FirstPage /\ rkN' = NPages /\ ret' = "none"
                  \/ /\ ret' = "BUSY" /\ rk' = "idle"
                     /\ UNCHANGED <<pagerState, key0, rkPage, rkN>>
             ELSE /\ key0' = LoadKey(rkKey, 1)
                  /\ rk' = "scan" /\ rkPage' = FirstPage /\ rkN' = NPages /\ ret' = "none"
                  /\ UNCHANGED pagerState
          /\ UNCHANGED <<disk, journal, dirty, toWrite, rkRc>>
    /\ UNCHANGED <<readOnly, attached, key1, committed, rkKey, rkEState, before, interrupted>>

\* Mutation: the skipped page's "continue" does not advance i.
RekeyScanSkipStuck ==
    /\ rk = "scan" /\ rkPage <= rkN /\ rkRc = "OK"
    /\ \/ /\ rkPage = SkipThisPage(rkN)
          /\ UNCHANGED <<cache, journal, dirty, rkRc, interrupted, rkPage>>
       \/ /\ rkPage # SkipThisPage(rkN) /\ cache[rkPage] = NoPage
          /\ rkRc' = "IOERR"
          /\ UNCHANGED <<cache, journal, dirty, rkPage, interrupted>>
       \/ /\ rkPage # SkipThisPage(rkN) /\ interrupted
          /\ cache' = Fetched(rkPage)
          /\ interrupted' = FALSE /\ rkRc' = "INTERRUPT"
          /\ UNCHANGED <<journal, dirty, rkPage>>
       \/ /\ rkPage # SkipThisPage(rkN) /\ ~interrupted
          /\ cache' = Fetched(rkPage)
          /\ \/ /\ rkRc' = "IOERR"
                /\ UNCHANGED <<journal, dirty, rkPage>>
             \/ /\ journal' = Journaled(rkPage, cache')
                /\ dirty' = dirty \cup {rkPage}
                /\ rkPage' = rkPage + 1
                /\ UNCHANGED rkRc
          /\ UNCHANGED interrupted
    /\ ret' = "none"
    /\ UNCHANGED <<disk, toWrite, pagerState, readOnly, attached, key0, key1, committed,
                   rk, rkKey, rkEState, rkN, before>>

\* One pass of the loop, lines 574-585: skip the lock-byte page, fetch
\* page i (decoded with slot 1), give up on an interrupt, and mark the page
\* dirty so that commit re-encodes it with slot 0.
RekeyScan ==
    /\ rk = "scan" /\ rkPage <= rkN /\ rkRc = "OK"
    /\ \/ /\ rkPage = SkipThisPage(rkN)
          /\ rkPage' = rkPage + 1
          /\ UNCHANGED <<cache, journal, dirty, rkRc, interrupted>>
       \/ /\ rkPage # SkipThisPage(rkN) /\ cache[rkPage] = NoPage
          /\ rkRc' = "IOERR"
          /\ UNCHANGED <<cache, journal, dirty, rkPage, interrupted>>
       \/ /\ rkPage # SkipThisPage(rkN) /\ interrupted
          /\ cache' = Fetched(rkPage)
          /\ interrupted' = FALSE /\ rkRc' = "INTERRUPT"
          /\ UNCHANGED <<journal, dirty, rkPage>>
       \/ /\ rkPage # SkipThisPage(rkN) /\ ~interrupted
          /\ cache' = Fetched(rkPage)
          /\ \/ /\ rkRc' = "IOERR"
                /\ UNCHANGED <<journal, dirty, rkPage>>
             \/ /\ journal' = Journaled(rkPage, cache')
                /\ dirty' = dirty \cup {rkPage}
                /\ rkPage' = rkPage + 1
                /\ UNCHANGED rkRc
          /\ UNCHANGED interrupted
    /\ ret' = "none"
    /\ UNCHANGED <<disk, toWrite, pagerState, readOnly, attached, key0, key1, committed,
                   rk, rkKey, rkEState, rkN, before>>

\* Mutation: the failure branch rolls the pager back but not key[0].
RekeyEndNoKeyRestore ==
    /\ rk = "scan" /\ (rkPage > rkN \/ rkRc # "OK")
    /\ IF rkRc = "OK"
       THEN /\ key1' = key0
            /\ IF AtMostReader(rkEState)
               THEN /\ CommitStarted
                    /\ rk' = "commit" /\ ret' = "none"
               ELSE /\ rk' = "idle" /\ ret' = "OK"
                    /\ UNCHANGED <<pagerState, toWrite>>
            /\ UNCHANGED <<disk, journal, cache, dirty, key0>>
       ELSE /\ UNCHANGED key0
            /\ PagerRolledBack
            /\ rk' = "idle" /\ ret' = rkRc
            /\ UNCHANGED <<toWrite, key1>>
    /\ UNCHANGED <<readOnly, attached, committed, rkKey, rkEState, rkPage, rkN, rkRc,
                   before, interrupted>>

\* Lines 586-602: on success promote slot 0 into slot 1 and, if this call
\* began the transaction, commit it; on failure copy slot 1 back into
\* slot 0 and roll the pager back.
RekeyEnd ==
    /\ rk = "scan" /\ (rkPage > rkN \/ rkRc # "OK")
    /\ IF rkRc = "OK"
       THEN /\ key1' = key0
            /\ IF AtMostReader(rkEState)
               THEN /\ CommitStarted
                    /\ rk' = "commit" /\ ret' = "none"
               ELSE /\ rk' = "idle" /\ ret' = "OK"
                    /\ UNCHANGED <<pagerState, toWrite>>
            /\ UNCHANGED <<disk, journal, cache, dirty, key0>>
       ELSE /\ key0' = key1
            /\ PagerRolledBack
            /\ rk' = "idle" /\ ret' = rkRc
            /\ UNCHANGED <<toWrite, key1>>
    /\ UNCHANGED <<readOnly, attached, committed, rkKey, rkEState, rkPage, rkN, rkRc,
                   before, interrupted>>

\* Commit phase one and two, whether started by RekeyEnd (rk = "commit")
\* or by the application's COMMIT (rk = "idle").  Only the rekey call
\* reports the outcome; lines 589-590.
CommitWrite ==
    /\ \E p \in toWrite : PagerCommitWrite(p)
    /\ ret' = "none"
    /\ UNCHANGED <<rekeyVars, interrupted>>

CommitDone ==
    /\ PagerCommitPhaseTwo
    /\ ret' = IF rk = "commit" THEN "OK" ELSE "none"
    /\ rk' = "idle"
    /\ UNCHANGED <<rkKey, rkEState, rkPage, rkN, rkRc, before, interrupted>>

\* Mutation: the commit's error is dropped and the call reports SQLITE_OK.
CommitFailedReportsOK ==
    /\ PagerCommitFail
    /\ ret' = IF rk = "commit" THEN "OK" ELSE "none"
    /\ rk' = "idle"
    /\ UNCHANGED <<rkKey, rkEState, rkPage, rkN, rkRc, before, interrupted>>

\* Mutation: after a failed commit the call does not reach end_rekey.
CommitFailedNoReturn ==
    /\ PagerCommitFail
    /\ ret' = "none"
    /\ UNCHANGED <<rk, rkKey, rkEState, rkPage, rkN, rkRc, before, interrupted>>

CommitFailed ==
    /\ PagerCommitFail
    /\ ret' = IF rk = "commit" THEN "IOERR" ELSE "none"
    /\ rk' = "idle"
    /\ UNCHANGED <<rkKey, rkEState, rkPage, rkN, rkRc, before, interrupted>>

-----------------------------------------------------------------------------
(* The application between calls to sqlite3_rekey: statements that read,  *)
(* BEGIN / write / COMMIT / ROLLBACK, and the end of a statement dropping  *)
(* the shared lock.  They hold the same connection mutex, so rk = "idle". *)

AppStep(A) ==
    /\ rk = "idle" /\ A
    /\ ret' = "none"
    /\ UNCHANGED <<rekeyVars, interrupted>>

AppRead(p) ==
    /\ pagerState \in {"READER", "WRITER"}
    /\ cache' = Fetched(p)
    /\ UNCHANGED <<disk, journal, dirty, toWrite, pagerState, readOnly, attached,
                   key0, key1, committed>>

AppBegin ==
    /\ PagerBegin
    /\ UNCHANGED <<disk, journal, cache, dirty, toWrite, readOnly, attached,
                   key0, key1, committed>>

\* A b-tree write: the page was read first, and a page that decoded to
\* Garbage is reported as SQLITE_CORRUPT instead of being written.
AppWrite(p, v) ==
    /\ pagerState = "WRITER" /\ cache[p] \in Vals
    /\ journal' = Journaled(p, cache)
    /\ cache' = [cache EXCEPT ![p] = v]
    /\ dirty' = dirty \cup {p}
    /\ UNCHANGED <<disk, toWrite, pagerState, readOnly, attached, key0, key1, committed>>

AppRollback ==
    /\ pagerState = "WRITER"
    /\ PagerRolledBack
    /\ UNCHANGED <<toWrite, readOnly, attached, key0, key1, committed>>

\* Another thread calls sqlite3_interrupt: it only sets the flag.
Interrupt ==
    /\ ~interrupted /\ interrupted' = TRUE
    /\ UNCHANGED <<pagerVars, rekeyVars, ret>>

\* The process dies and the database is opened again with sqlite3_key.  The
\* file and the journal survive; the cache, locks and key slots do not.  The
\* application re-opens with the key the recovered file is under.
ReopenKey == Eff[1].k

Crash ==
    /\ cache' = EmptyCache /\ dirty' = {} /\ toWrite' = {}
    /\ pagerState' = "OPEN"
    /\ key0' = ReopenKey /\ key1' = ReopenKey
    /\ attached' = (attached \/ ReopenKey # NullKey)
    /\ rk' = "idle" /\ ret' = "none" /\ interrupted' = FALSE
    /\ UNCHANGED <<disk, journal, readOnly, committed, rkKey, rkEState, rkPage, rkN,
                   rkRc, before>>

RekeyStep == RekeyGetPage1 \/ RekeyScan \/ RekeyEnd \/ CommitWrite \/ CommitDone
             \/ CommitFailed

Next ==
    \/ RekeyStart \/ RekeyStep
    \/ AppStep(PagerSharedLock) \/ AppStep(PagerUnlock) \/ AppStep(AppBegin)
    \/ AppStep(PagerCommitStart) \/ AppStep(AppRollback) \/ AppStep(PagerErrorReset)
    \/ \E p \in DataPages : AppStep(AppRead(p))
    \/ \E p \in DataPages, v \in Vals : AppStep(AppWrite(p, v))
    \/ Interrupt \/ Crash

\* The rekey call runs on the thread that holds the connection mutex and
\* keeps running until it returns.
Spec == Init /\ [][Next]_vars /\ WF_vars(RekeyStep)

-----------------------------------------------------------------------------
(* Properties                                                              *)

\* The application never reads a page that decodes to Garbage: whatever
\* sequence of rekeys, commits, rollbacks, interrupts and crashes led here,
\* the key slot the pager decodes with (key[1], op 3) matches the key every
\* page the pager hands out was written under.
NoGarbageRead == \A p \in DataPages : cache[p] # Garbage

\* Committed data survives: no commit (of the application or of a rekey)
\* ever makes Garbage durable, and while no write transaction is open the
\* file as recovered from any hot journal decodes, under the key of page 1,
\* to the last committed content.
DurableConsistency ==
    /\ \A p \in DataPages : committed[p] # Garbage
    /\ pagerState \in {"OPEN", "READER"} =>
         \A p \in DataPages : Decode(Eff[1].k, Eff[p]) = committed[p]

\* A sqlite3_rekey call that returns an error has no effect: both key slots
\* are as they were on entry and the recoverable file image is unchanged
\* (the "on failure the key is rolled back" branch, lines 592-595).
RekeyAtomic ==
    [][ret' \notin {"none", "OK"} =>
         /\ key0' = before'.k0 /\ key1' = before'.k1
         /\ Eff' = before'.eff]_vars

\* A sqlite3_rekey call that begins and commits its own transaction and
\* returns SQLITE_OK leaves every data page of the file under the new key,
\* holding the plaintext it held on entry (the scan marks every page but
\* the lock-byte page dirty, and phase one re-encodes them with key[0]).
RekeyPreservesContent ==
    [][ret' = "OK" /\ AtMostReader(rkEState) =>
         \A p \in DataPages :
             Eff'[p] = Encode(rkKey, Decode(before.k1, before.eff[p]))]_vars

\* Every sqlite3_rekey call returns (or the process dies): the page loop is
\* bounded by nPage and an interrupt ends it early.
RekeyReturns == rk # "idle" ~> rk = "idle"
=============================================================================
