------------------------------- MODULE Pager -------------------------------
(***************************************************************************)
(* The SQLite pager as the codec sees it: the collaborator that owns the   *)
(* database file, the rollback journal and the page cache, and calls the   *)
(* codec on every page it reads (op 3: decode with key slot 1), every page *)
(* it journals (op 7: encode with slot 1) and every page it writes back to *)
(* the database (op 6: encode with slot 0).  The pager is not code of this *)
(* repository; its actions follow the interface the spec lists (getPage,   *)
(* markDirty, begin, commit phase one and two, rollback) and the journal   *)
(* discipline that gives it atomic commits.                                *)
(*                                                                         *)
(* The codec state attached to the pager (struct CodecCCCrypto: key[0],    *)
(* key[1], and whether a codec is attached at all) lives here because the  *)
(* pager's reads and writes consult it.                                    *)
(***************************************************************************)
EXTENDS Integers, FiniteSets, PageCodec

CONSTANTS
    NPages,         \* pages in the database file
    PageSize,       \* pCodec->pageSize
    PendingByte,    \* PENDING_BYTE: offset of the lock-byte range
    V0,             \* initial content of every page
    InitKeys,       \* keys the database may be encrypted with at start
    CommitMayFail,  \* commit phase one / two may hit an I/O error
    NoImage,        \* journal slot not used
    NoPage          \* page not in the cache

ASSUME /\ NPages \in Nat \ {0} /\ PageSize \in Nat \ {0} /\ PendingByte \in Nat
       /\ V0 \in Vals /\ InitKeys \subseteq KeySlot /\ CommitMayFail \in BOOLEAN

VARIABLES
    disk,        \* database file: page -> image
    journal,     \* rollback journal: page -> original image, or NoImage
    cache,       \* page cache: page -> decoded plaintext, or NoPage
    dirty,       \* pages written in the open transaction
    toWrite,     \* dirty pages commit phase one has not written yet
    pagerState,  \* "OPEN" | "READER" | "WRITER" | "COMMIT" | "ERROR"
    readOnly,    \* pPager->readOnly
    attached,    \* a codec is attached (sqlite3PagerGetCodec(pPager) != 0)
    key0,        \* pCodec->key[0]: "new" slot, used to write the database
    key1,        \* pCodec->key[1]: "old" slot, used to read and journal
    committed    \* ghost: the logical content of the last committed state

pagerVars == <<disk, journal, cache, dirty, toWrite, pagerState, readOnly,
               attached, key0, key1, committed>>

Pages == 1 .. NPages

\* The page that holds the lock-byte range; never part of the b-tree.
LockPage == PendingByte \div PageSize + 1

DataPages == Pages \ {LockPage}

PagerStates == {"OPEN", "READER", "WRITER", "COMMIT", "ERROR"}

NoJournal == [p \in Pages |-> NoImage]
EmptyCache == [p \in Pages |-> NoPage]

\* What the database file holds once a hot journal is played back: journal
\* playback copies the journaled bytes back unchanged.
Eff == [p \in Pages |-> IF journal[p] # NoImage THEN journal[p] ELSE disk[p]]

\* The cache after sqlite3PagerGet(p): a miss reads and decodes (op 3).
Fetched(p) ==
    IF cache[p] = NoPage THEN [cache EXCEPT ![p] = Decode(key1, disk[p])]
    ELSE cache

\* The journal after sqlite3PagerWrite(p): the first write of a page in a
\* transaction journals its original content c[p], encoded with slot 1 (op 7).
Journaled(p, c) ==
    IF journal[p] = NoImage THEN [journal EXCEPT ![p] = Encode(key1, c[p])]
    ELSE journal

PagerTypeOK ==
    /\ disk \in [Pages -> Image]
    /\ journal \in [Pages -> Image \cup {NoImage}]
    /\ cache \in [Pages -> Plain \cup {NoPage}]
    /\ dirty \subseteq Pages /\ toWrite \subseteq dirty
    /\ pagerState \in PagerStates
    /\ readOnly \in BOOLEAN /\ attached \in BOOLEAN
    /\ key0 \in KeySlot /\ key1 \in KeySlot
    /\ committed \in [DataPages -> Plain]

\* A database created with sqlite3_key(k) (or with no codec, k = NullKey).
PagerInit ==
    \E k \in InitKeys, ro \in BOOLEAN :
        /\ disk = [p \in Pages |-> IF p = LockPage THEN Encode(NullKey, V0)
                                   ELSE Encode(k, V0)]
        /\ journal = NoJournal /\ cache = EmptyCache
        /\ dirty = {} /\ toWrite = {}
        /\ pagerState = "OPEN" /\ readOnly = ro
        /\ attached = (k # NullKey) /\ key0 = k /\ key1 = k
        /\ committed = [p \in DataPages |-> V0]

-----------------------------------------------------------------------------
(* Pager operations.  Each leaves the codec's key slots alone.             *)

\* sqlite3PagerSharedLock from OPEN: a hot journal is rolled back first.
SharedLocked ==
    /\ pagerState = "OPEN"
    /\ disk' = Eff /\ journal' = NoJournal
    /\ pagerState' = "READER"

PagerSharedLock ==
    /\ SharedLocked
    /\ UNCHANGED <<cache, dirty, toWrite, readOnly, attached, key0, key1, committed>>

\* The last reference is dropped: the lock is released and the cache reset.
PagerUnlock ==
    /\ pagerState = "READER"
    /\ pagerState' = "OPEN" /\ cache' = EmptyCache
    /\ UNCHANGED <<disk, journal, dirty, toWrite, readOnly, attached, key0, key1, committed>>

\* sqlite3PagerBegin: open a write transaction.
PagerBegin ==
    /\ pagerState = "READER" /\ ~readOnly
    /\ pagerState' = "WRITER"

\* sqlite3PagerCommitPhaseOne starts: every dirty page is to be written.
CommitStarted ==
    /\ pagerState = "WRITER"
    /\ pagerState' = "COMMIT" /\ toWrite' = dirty

PagerCommitStart ==
    /\ CommitStarted
    /\ UNCHANGED <<disk, journal, cache, dirty, readOnly, attached, key0, key1, committed>>

\* Phase one writes one dirty page, encoded with slot 0 (op 6).
PagerCommitWrite(p) ==
    /\ pagerState = "COMMIT" /\ p \in toWrite
    /\ disk' = [disk EXCEPT ![p] = Encode(key0, cache[p])]
    /\ toWrite' = toWrite \ {p}
    /\ UNCHANGED <<journal, cache, dirty, pagerState, readOnly, attached, key0, key1, committed>>

\* sqlite3PagerCommitPhaseTwo: deleting the journal is the commit point.
PagerCommitPhaseTwo ==
    /\ pagerState = "COMMIT" /\ toWrite = {}
    /\ journal' = NoJournal /\ dirty' = {} /\ pagerState' = "READER"
    /\ committed' = [p \in DataPages |-> IF p \in dirty THEN cache[p] ELSE committed[p]]
    /\ UNCHANGED <<disk, cache, toWrite, readOnly, attached, key0, key1>>

\* An I/O error in either phase: the pager enters its ERROR state and the
\* journal stays behind, hot.
PagerCommitFail ==
    /\ pagerState = "COMMIT" /\ CommitMayFail
    /\ pagerState' = "ERROR" /\ toWrite' = {}
    /\ UNCHANGED <<disk, journal, cache, dirty, readOnly, attached, key0, key1, committed>>

\* sqlite3PagerRollback: from a write transaction the journaled images go
\* back to the file and the cache is discarded; otherwise it does nothing.
PagerRolledBack ==
    IF pagerState = "WRITER"
    THEN /\ disk' = Eff /\ journal' = NoJournal
         /\ cache' = EmptyCache /\ dirty' = {} /\ pagerState' = "READER"
    ELSE UNCHANGED <<disk, journal, cache, dirty, pagerState>>

\* Leaving the ERROR state: the cache is dropped, the journal stays hot and
\* is played back by the next shared lock.
PagerErrorReset ==
    /\ pagerState = "ERROR"
    /\ pagerState' = "OPEN" /\ cache' = EmptyCache /\ dirty' = {}
    /\ UNCHANGED <<disk, journal, toWrite, readOnly, attached, key0, key1, committed>>
=============================================================================
