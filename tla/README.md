# Model checking the encrypted page codec and its re-key transaction

TLA+ models of the SQLite Encryption Extension codec that
`couchbase-lite-core-EE` builds into LiteCore
(`src/tank/couchbase-lite-core-EE/Encryption/see-cccrypt.c`, with the
reference backends under `Encryption/reference/`). There are two layers. The first models
the re-key transaction, `sqlite3_rekey_v2`, together with the pager it drives,
with a page as one value. The second models each of the four page codecs
byte for byte under one pager harness. Two small programs built on the
codecs are modelled as well: the passphrase tool `keyhash-cli.c` and the
SQLCipher upgrader. So is `uncryptoapi-cli.c`, the tool that decrypts a
database written by System.Data.SQLite's legacy CryptoAPI codec, and
`cryptoapi.c`, the SQLite extension that offers the same cipher as SQL
functions. The runs are checked with TLC.

## The system

| Part | Code | What it does |
|---|---|---|
| Key slot pair | `struct CodecCCCrypto.key[2]`, `loadKeyCCCrypt`, `sqlite3CodecAttach` | slot 0 ("new") encodes pages written to the database (op 6); slot 1 ("old") decodes pages read (op 3) and encodes journal images (op 7). Attach puts the same key in both. |
| Page codec | `sqliteCodecCCCrypto` | XORs the page with an AES-CTR mask derived from the slot's key, the page number and a random nonce in the page's reserved trailer. Every encode draws a fresh nonce. A null slot passes the page through. Bytes 16..23 of page 1 stay in the clear. |
| Re-key transaction | `sqlite3_rekey_v2` | Takes a shared lock, fetches page 1 and begins a write transaction, loads the new key into slot 0, then walks pages 1..nPage (skipping the lock-byte page) and fetches and marks each dirty. It checks `isInterrupted` once per page. It then promotes slot 0 into slot 1 and commits in two phases. On a loop error it restores slot 0 and rolls back. |
| Pager (SQLite, not in this repository) | `sqlite3PagerGet/Write/Begin/CommitPhaseOne/Two/Rollback/SharedLock` | Owns the file, the rollback journal and the page cache. It calls the codec on every read and write. Deleting the journal is the commit point, and a hot journal is played back byte for byte by the next shared lock. |
| Reference backends | `see-xor.c`, `see-rc4.c`, `see-aes128-ccm.c` | The same attach and re-key code around other per-page transforms: XOR with the repeated key; RC4 keyed with key^nonce; AES-128 in counter mode with a CBC-MAC in the trailer, zeroing the page on a mismatch. |
| SQLCipher upgrader | `SQLCipherUpgrader.cc` | Opens an old file, keys it, rekeys it to no key, re-opens it through LiteCore and rekeys it again. |
| Passphrase tool | `keyhash-cli.c` | Reads passphrase lines and prints the key a codec would derive from each. |
| Legacy decryption tool | `uncryptoapi-cli.c` | Unescapes the password argument, derives an RC4 key from its SHA-1 with CryptoAPI, decrypts page 1's first 512 bytes to read the page size, then decrypts the file page by page into `<input>.out`. Every failure jumps to one cleanup that sets the exit code. |
| Legacy SQL functions | `cryptoapi.c` | An SQLite extension. Its init function allocates two context blocks, acquires one CryptoAPI provider and registers `cryptoapi_decrypt` and `cryptoapi_encrypt` with the destructor `freeContext`. Each function derives an RC4 key from SHA-1 of its password blob and runs it over its data blob. |
| Listener, replicator, index spec | `RESTSyncListener.cc`, `c4LocalReplicator.hh`, `IndexSpec.cc` | Glue; see "Not modelled". |

How they interact: the application issues SQL, and the pager reads and writes
pages through the codec. `sqlite3_rekey` runs synchronously under the
connection mutex, so no statement of the same connection runs during it.
`sqlite3_interrupt` is the one call that may come from another thread: it only
sets a flag. The process may die at any point. The file and the journal
survive; the cache, the locks and the key slots do not.

## Modules: the re-key layer

- `PageCodec.tla` holds the key slot and the codec abstraction. A page image is
  `[k |-> key, v |-> plaintext]`. `Decode` under the image's own key gives the
  plaintext; under any other key it gives `Garbage`. Because every encode draws
  a fresh nonce (see-cccrypt.c 209-214), a page read under the wrong real key
  and written back is lost for good, so `Garbage` is exact between real keys.
  `LoadKey` is `loadKeyCCCrypt`'s null-key rule.
- `Pager.tla` models the pager as the codec sees it:
  - Variables: `disk`, `journal` (page → original image), `cache` (decoded
    pages), `dirty`, `toWrite`, `pagerState`, and the codec's `key0`/`key1`.
  - Ghost: `committed`, the logical content of the last commit.
  - `Eff` is the file as a hot-journal playback would leave it.
  - Actions: shared lock (with playback), unlock, begin, commit start, the
    write of one page in phase one, phase two, commit failure (to ERROR),
    rollback and leaving ERROR.
  - The pager is not code of this repository. Its actions follow the
    interface the spec lists, and they are marked `spec_modelled` in the map.
- `Rekey.tla` is `sqlite3_rekey_v2` composed with the pager:
  - `rk` is where the call is (`idle`, `get1`, `scan`, `commit`). `rkPage` is
    the loop's `i`, `rkN` is `nPage`, `rkRc` is `rc`, and `rkEState` is
    `eState`.
  - Actions follow the code's blocks:
    - `RekeyStart`: lines 524-557, the READONLY/NOMEM/BUSY early returns and
      the shared lock.
    - `RekeyGetPage1`: lines 558-570, page 1, begin, nPage, loadKey.
    - `RekeyScan`: one iteration of 574-585, with the skip, fetch error,
      interrupt and write error branches.
    - `RekeyEnd`: lines 586-595.
    - `CommitWrite`, `CommitDone` and `CommitFailed`: phases one and two, for
      the rekey's commit and the application's.
  - The environment: `AppStep(...)` wraps the application's statements (read,
    BEGIN, write, COMMIT, ROLLBACK, end of statement, leaving ERROR), which run
    only while `rk = "idle"`. `Interrupt` and `Crash` may fire at any time.
    `Crash` re-opens with `sqlite3_key` under the key of the recovered page 1.
  - Ghost: `before` records the slots and `Eff` on entry to each call, and
    `ret` is what the call returned in this step.
- `MC_Rekey.tla` instantiates the model with 3 pages of 512 bytes and
  `PENDING_BYTE` = 1024, so page 3 is the lock-byte page the loop skips. The
  keys `k1` and `k2` are model values, plus `NullKey`. The page contents are
  `v1` and `v2`. `nKey` ranges over {0, 16}.
- `KeyedStore.tla` is the abstract specification of what the re-key and the
  pager promise together (spec §4.4: "no partially re-keyed database is ever
  left durable"). Its one variable `store` maps each data page to the key it
  is under and the content it holds, with one key for every page. It has two
  actions: `Commit` (new content, same key) and `SwitchKey` (a new key on
  every page, same content). `MC_Rekey` maps `store` to `Eff` on the data
  pages, the file as the next open would recover it. `KeyedStoreSpec` is
  `KeyedStore!Spec` under that mapping, checked as a property.

## Modules: the byte-level codecs

- `Buffers.tla` holds byte buffers as tuples:
  - `At`, `Slice`, `Buf` build and read buffers; `Buf` builds by divide and
    conquer so that 1024-byte pages stay within TLC's stack.
  - `Chain` concatenates blocks.
  - `BXor` is XOR of two bytes through a 16×16 nibble table.
  - `ZAt` reads a C string, `LEByte` gives little-endian bytes.
  - `While` runs a loop body as a bounded iteration.
- `CodecHarness.tla` is the pager as the caller of one codec, with the backend
  passed in as four constant operators: `Attach`, `SizeChng`, `Xform` (the
  xCodec call) and `LoadKey`. Its variables:
  - `codec` is the backend's struct, as a record.
  - `file` holds the bytes of each page on disk.
  - `wrote` is a ghost: for each stored image, the content, key, layout and
    page number it was encoded from, and whether it was altered since.
  - `ub` is a ghost: some call touched memory outside its heap block. After
    that the behaviour is undefined and the harness stops.

  Its actions:
  - `WritePage`: op 6 with slot 0 for the database, or op 7 with slot 1 for
    the journal, of a plaintext page whose bytes 16..23 on page 1 are the
    real SQLite header.
  - `ReadPage`: op 3 with slot 1.
  - `LoadNewKey`, `PromoteKey`, `RestoreKey`: sqlite3_rekey_v2 lines 570, 587
    and 593.
  - `ChangePageSize`: the size-change hook, with every page rewritten.
  - `Reopen`: free the codec and attach it again.

  `rnd` stands for bytes the call reads but does not control, and `mallocOk`
  says whether its allocation succeeds.
- `CtrCodec.tla` (`see-cccrypt.c`):
  - `pwHash`: the RC4-style passphrase hash.
  - `loadKeyCCCrypt`: cycles the key into `repeat[]`, cut to 16 bytes. A null
    key clears `nByte` and `nullKey` and keeps `repeat[]`.
  - `SizeChng`: splits the reserve into nonce and zero bytes.
  - `Attach`, `GetKey`.
  - `CCCryptoXform`, the codec call:
    - the null-slot early return first;
    - the `3*pageSize` block, allocated once, with the sticky `mallocFailed`;
    - the nonce: page number, random or stored bytes, then zeros;
    - the mask: AES-CBC over a page of zeros with the nonce as IV;
    - the XOR over usable bytes, with the trailer copied;
    - the page-1 bytes 16..23 XORed twice.
- `XorCodec.tla` (`see-xor.c`):
  - The struct is laid out byte for byte in `StructBytes`, 88 bytes.
  - The key stream `b = key[s].repeat` is read for `usable` bytes: 32 bytes of
    key, then the rest of the struct, then heap memory (`HeapByte`).
  - `RepeatByte` models `zKey[i%nKey]`, including the division by zero of an
    empty passphrase.
- `Rc4Codec.tla` (`see-rc4.c`):
  - The nonce is the page number plus `nonceSize` trailer bytes.
  - `KeyX` is x = key ^ nonce.
  - `KsaStep` and `PrgaStep` are the 512-step key setup and the output loop,
    with u8 `i` and `j`.
  - The block is `2*pageSize+8` bytes, with outbuf at `pageSize+4`.
- `CcmCodec.tla` (`see-aes128-ccm.c`):
  - The checks on a reserve under 32 bytes and on usable not aligned to 16.
  - `CtrNonce` / `CtrMask`: the counter in `nonce[4..5]`.
  - `computeMac`: CBC-MAC from the encrypted nonce.
  - `Encode`: MAC and nonce into the caller's trailer, then the XOR of usable
    bytes plus the MAC.
  - `Decode`: in place, with the page zeroed on a MAC mismatch.
  - `SizeChng` frees the block when usable changes.
  - AES (`rijndaelEncrypt128Ccm`) enters as the constant `BlockEncrypt`.
- `MC_CtrCodec`, `MC_XorCodec`, `MC_Rc4Codec`, `MC_CcmCodec` bind one backend
  to the harness.
  - AES is a stand-in keyed byte substitution (`ToyAes`). The properties only
    need a deterministic function of key and block that depends on both.
  - `MC_CcmCodec` adds an attacker: `FlipBit` flips one bit at offset 0, 20,
    `usable` (the MAC) or `usable+16` (the nonce) of a stored image.
- `KeyHash.tla` (`keyhash-cli.c`):
  - `ShowLine` is one iteration of `main`: `Fgets` (up to the newline, at most
    999 bytes), `StripEol` (CR and LF) and `showKey`.
  - `showKey` applies the 256-byte cap, the prefix and `pwHash` or the
    repetition.
  - `MC_KeyHash` feeds it a 300-letter `rc4:` line and compares the printed
    key with the key `Rc4Codec` loads for the same passphrase.
- `SQLCipherUpgrader.tla` (`SQLCipherUpgrader.cc`):
  - `pc` is the line the function is at, and each library call is one action.
  - sqlite3_key_v2 / sqlite3_rekey_v2 return any result see-cccrypt.c can give
    in that state (MISUSE, NOMEM, READONLY, OK, an error).
  - c4db_open / c4db_rekey are outside the repository and are modelled by their
    interface.
  - `MayFail` says whether allocations and LiteCore calls may fail.

- `UncryptoapiCli.tla` (`uncryptoapi-cli.c`):
  - `pc` is the statement of `main()` to run next. `held` is the set of
    `DecryptorContext` resources allocated so far. `pos`, `eof` and `readErr`
    are the input stream. `out` is what was written, and `outLost` says a
    failed `fclose` of the output may have lost buffered pages.
  - `SetupStep` / `SetupFails` are the eleven set-up steps in order, from
    `calloc` of the context to `CryptDeriveKey`. Each may succeed or take its
    early return. `CheckPassword` is the empty-password check.
  - `Unescape` is `unescape()`'s index loop, with `EscapeSwitch` its switch.
  - `ReadHeader` reads 512 bytes, decrypts them and applies the three
    page-size checks (`PageSizeOk`). `AllocBuffer` and `Rewind` follow.
  - `LoopStep` is one pass of the page loop: a read of nothing continues, a
    short read is an error, and a whole page is decrypted and written.
    `LoopExit` leaves it at end of file.
  - `Release` frees one resource in `FreeDecryptorContext`'s order. A
    failed destroy or close sets its code (6 down to 2) if `rc` is still 0.
  - `ReadResults` is `fread`: at end of file it returns fewer bytes and sets
    the EOF indicator; an I/O error returns fewer bytes (none, or half) and
    leaves the EOF indicator clear.
  - CryptoAPI is opaque. The key is identified with the password. A
    decrypted chunk is the record of its offset, length and key, since
    `CryptDecrypt` with `Final = TRUE` restarts the RC4 stream on every call.
    Page 1 decrypted under a wrong key gives a header from `GarbageHdrs`.

- `CryptoapiExt.tla` (`cryptoapi.c`):
  - `fn` is the user data SQLite holds for each function name. `ctx` is every
    context block (unused, live or freed, with `hProv` and `bEncrypt`).
    `prov` is every provider handle (unused, acquired or released).
  - `sqlite3_cryptoapi_init` is one action, since it runs synchronously
    inside `sqlite3_load_extension`. Its disjuncts are its returns: either
    allocation failing, `CryptAcquireContext` failing, either registration
    failing, and success.
  - `create_function` is `sqlite3_create_function_v2`'s use of the
    destructor. On success it destroys the definition it replaces. On failure
    it destroys the new user data at once and keeps the old definition.
    `Close` is `sqlite3_close`, which destroys every function. Both are
    SQLite's behaviour, and they are marked `spec_modelled`.
  - `freeContext` releases the provider only from a decrypt block.
  - `Call` is a SELECT of either function on any SQL value. `cryptoapiFunc`
    returns NULL for non-blobs and for an empty X, since
    `sqlite3_value_blob` gives NULL for a zero-length blob. Otherwise it
    returns an error from the first CryptoAPI call that fails, and a released
    provider makes `CryptCreateHash` fail. On success it returns the blob
    with the password's RC4 stream XORed in (`Rc4`).

## Properties

Re-key layer:

- `TypeOK`: the type invariant.
- `NoGarbageRead`: the pager never hands the application a page decoded under
  the wrong key.
- `DurableConsistency`: no commit ever makes `Garbage` durable. Whenever no
  write transaction is open, the file as recovered from any hot journal
  decodes, under page 1's key, to the last committed content.
- `RekeyAtomic` (action property): a rekey that returns an error leaves both
  slots and the recoverable file exactly as they were on entry.
- `RekeyPreservesContent` (action property): a rekey that commits its own
  transaction and returns OK leaves every data page under the new key, holding
  the plaintext it had on entry.
- `RekeyReturns` (liveness): every call returns, or the process dies.
- `KeyedStoreSpec` (refinement): every step, including a crash at any point
  of a commit, either leaves the recoverable file as it was, commits new
  content under the file's one key, or moves every data page to one new key
  with its content unchanged.

Codec layer (CodecHarness, used by every backend):

- `RoundTrip`: every page on disk that was encoded for this page number under
  the key now in slot 1, at the current layout, and not altered since, reads
  back (op 3) to the usable bytes the pager wrote. This relates the write of
  one page under one key and layout to a read after any number of rekeys,
  reopens and other writes.
- `HeaderReadable`: the raw bytes 16..23 of the stored page 1 are the
  plaintext header, as the pager must read them before it can decode
  anything.
- `CodecInBounds`: no codec call touches memory outside its heap block, or
  outside its struct. It is checked only where the page size can change
  (`ccm_codec`, `ctr_page_size_growth`). With one fixed page size it would
  restate the allocation.

Backend and program specific:

- `ReadAuthentic` (CCM): a read returns NULL, a zeroed page, or the true
  plaintext of an unaltered image written for that page under slot 1's key.
- `KeyMatchesCodec` (keyhash): every key the tool prints is the key the codec
  of that algorithm loads for the same passphrase. It is not in the run list.
  `keyhash_long_rc4.cfg` with `MC_KeyHash` reproduces its violation.
- `RegisteredProvidersLive` (cryptoapi): every function SQLite holds has a
  live context block, and that block's provider is still acquired.
- `ReportsOutcome` (upgrader): when the function returns, the file is upgraded
  or `*err` says why not.
- `UnescapeMatchesDoc` (uncryptoapi): the password hashed is the argument with
  the escapes the comments document replaced. This checks `unescape()`'s index
  loop against a recursive definition written from the comment's table.
- `ExitCodeTruthful` (uncryptoapi): exit code 0 means the output is the
  complete decryption. Every page of the input is decrypted under the
  password, no stray bytes follow the last page, and nothing was lost when
  the output was closed.
- `Termination` (uncryptoapi, liveness): if reads do not fail for ever, the
  tool exits.

## Runs

| Run | Expect | Question |
|---|---|---|
| `rekey_safe` | pass (451,788 states, ~1 min) | With commits that cannot fail and no rekey inside a user transaction, do rekeys among no key, `k1` and `k2`, interleaved with application transactions, interrupts and crashes, keep all of the properties, and does the pair refine `KeyedStore`? |
| `commit_failure_recovery` | pass (650,178 states, ~45 s) | With rekeys between two keys and commits that may fail, leaving the pager in ERROR, along with hot-journal playback, crashes and interrupts: is the commit's error ever lost, so that a rekey reports OK over a file it did not convert (`RekeyPreservesContent`)? Does every call return (`RekeyReturns`)? |
| `rekey_retry_after_fail` | violation of `DurableConsistency` | A rekey commit fails and returns with both slots already holding the new key (line 587); then the hot journal restores old-key pages under new-key slots; a retried rekey journals and commits Garbage. |
| `rekey_in_user_txn` | violation of `NoGarbageRead` | A rekey inside BEGIN promotes the key without commit; ROLLBACK brings back old-key pages that now read as Garbage. |
| `ctr_codec` | pass (741 states, ~30 s) | see-cccrypt.c under writes, reads, rekeys, reopens and failing allocations: `RoundTrip`, `HeaderReadable`. |
| `ctr_page_size_growth` | violation of `CodecInBounds` | The page size grows from 512 to 1024, and the codec keeps its 1536-byte block. The 1024-byte output at `mask` stays inside the block but overlaps `outbuf`. The input `pZero`, at byte 1024, is read past the block's end. |
| `xor_round_trip` | violation of `RoundTrip` | The XOR key stream past byte 32 is struct memory, different for the two slots, and then heap memory past the struct. |
| `rc4_codec` | pass (726 states, ~75 s) | see-rc4.c on page 1, on databases with no reserved bytes (no nonce, lines 207-208) and with the 4 reserved bytes attach asks for: `RoundTrip`, `HeaderReadable`. |
| `ccm_codec` | pass (626 states, ~1 min) | see-aes128-ccm.c under bit flips on disk and a page size that doubles: `RoundTrip`, `HeaderReadable`, `CodecInBounds`, `ReadAuthentic`. |
| `cryptoapi_reload` | violation of `RegisteredProvidersLive` | The extension is loaded twice, and every allocation, registration and CryptoAPI call may fail. |
| `upgrader_silent_failure` | violation of `ReportsOutcome` | Every call succeeds, and the upgrade still does not happen and is not reported. |
| `uncryptoapi` | pass (144,685 states, ~20 s) | uncryptoapi-cli on whole and partial files, right and wrong passwords and a 64K-page database. Every step may fail, and reads may fail: `UnescapeMatchesDoc`, `ExitCodeTruthful`, `Termination`. |

Each property of a passing run has a mutant in `PROJECT.json`: a plausible bug
in the modelled code. TLC finds each mutant violating its property under the
run's own cfg. The mutants of the codec layer are:
- the stored nonce read one byte early;
- the page-1 exemption covering 7 bytes instead of 8;
- a size-change hook that keeps the CCM block;
- a MAC computed over the nonce the CTR loop has already advanced;
- a decode that does not zero the page on a MAC mismatch.

The mutants of `commit_failure_recovery` are a failed rekey commit reported
as SQLITE_OK, and a failed commit after which the call does not return.

The mutants of `uncryptoapi` are:
- `unescape` reading the NUL after a trailing backslash;
- the result of `fclose` on the output left unchecked;
- the loop running `while (!ferror(...))` instead of `while (!feof(...))`.

## Findings

Each of these is shown by a violation run.

1. **Key promoted before commit, and data lost on retry** (see-cccrypt.c:587;
   the same code is at see-xor.c:503, see-rc4.c:558 and
   see-aes128-ccm.c:1128). A failed commit phase returns an error with the
   slots promoted and no rollback; the spec (§4.4) says a failed phase rolls
   back and restores the slots. The pager's recovery then restores the
   old-key images while both slots hold the new key. The next rekey reads and
   re-encodes Garbage, and the fresh nonce makes it unrecoverable
   (`rekey_retry_after_fail`).
2. **Rekey inside a user transaction** (line 588). The key is promoted without
   a commit, and a later ROLLBACK makes the database unreadable on this
   connection (`rekey_in_user_txn`).
3. **Heap overflow after a page-size change** (see-cccrypt.c:338; the same
   code is at see-rc4.c:315 and see-xor.c:262). The size-change hook keeps
   the block sized for the old page. The spec (§4.5) and
   see-aes128-ccm.c:885 invalidate it (`ctr_page_size_growth`).
4. **XOR key stream reads the struct and the heap** (see-xor.c:201-207). Pages
   do not round-trip between the two slots, and the page bytes depend on
   memory the codec does not own. The spec (§4.1) says the stream is the
   repeating 32-byte key (`xor_round_trip`).
5. **cryptoapi_encrypt keeps a released provider** (cryptoapi.c:150). Only
   the decrypt block releases the shared provider. A second load replaces
   `cryptoapi_decrypt`, and SQLite's destructor releases the first provider.
   If registering `cryptoapi_encrypt` then fails with NOMEM, the old encrypt
   function stays registered on the released handle. Every later call
   passes that handle to `CryptCreateHash`. TLC's trace takes three states:
   a load, then a reload whose second registration fails
   (`cryptoapi_reload`).
6. **The SQLCipher upgrade never happens and is never reported**
   (SQLCipherUpgrader.cc:14). The source is opened read-only, so
   `sqlite3_rekey_v2` returns READONLY, and every early return leaves `*err`
   unset (`upgrader_silent_failure`).

Read from the code while modelling it, and listed as hazards in
`PROJECT.json`, but not checked by a run:

- **keyhash-cli shows the wrong RC4 key** for passphrases over 252
  characters (keyhash-cli.c:73). `MC_KeyHash` under `keyhash_long_rc4.cfg`
  finds it. That run is outside the run list, which is spent on the findings
  above.
- **cryptoapi.c leaks a context block** when registering `cryptoapi_decrypt`
  fails (line 190). SQLite frees `pCtx1`, and `pCtx2` stays allocated. In
  `CryptoapiExt` the block stays live after `Close`.
- **Out-of-memory is permanent** (see-cccrypt.c:181). After one failed
  allocation `mallocFailed` stays set and every later call returns NULL. The
  spec (§7) says an out-of-memory fails one call. `ctr_codec` lets
  allocations fail.
- **uncryptoapi-cli refuses 64K-page databases** (uncryptoapi-cli.c:410).
  SQLite stores 65536 as the header value 1, `get2byte` reads 1, and the
  minimum check fails, although the comment above the checks accepts sizes
  up to 65536. `uncryptoapi` includes such a file and sees exit code 1.
- **uncryptoapi-cli spins on a persistent read error** (line 456). `fread`
  returns 0 without setting EOF, and the loop retries for ever.
  `Termination` holds only for behaviours whose reads eventually succeed.
- **Empty passphrase divides by zero** (see-xor.c:249, see-rc4.c:302). The
  model takes the AArch64 outcome (`RepeatByte`): a slot that is not null and
  holds 0 key bytes.
- **RC4 does not drop 512 bytes** (see-rc4.c:232-249), contrary to the spec
  (§4.1) and the code's own comment at line 214.
- **CCM does not bind the page number** (see-aes128-ccm.c:733): the MAC and
  nonce do not cover it, so a page moved on disk is accepted as authentic.
- **CCM silently stores plaintext** when the reserve is short
  (see-aes128-ccm.c:693). The spec (§4.3, §7) says this is a configuration
  error.

## Bounds and why they are enough

Re-key layer:

- **Pages.** Three pages give a first page (where the fetch and begin
  happen), a middle page, and the lock page at the end of the loop. With the
  off-by-one mutant, the skipped page becomes a data page.
- **Keys and values.** Two keys plus the null key cover a rekey from no key,
  between keys, and back to no key. Two values let an application write
  change content, so a lost commit is visible.
- **`nKey`.** Values 0 and 16 cover both branches of `loadKeyCCCrypt`.

Codec layer:

- **Page size and content.** Pages are 512 bytes, the smallest SQLite allows,
  and 1024 where growth matters. One content value per page suffices: the
  page number is part of every byte, and the header is real.
- **Pages.**
  - The passing runs use page 1 alone, to keep a byte-level codec call
    affordable. Page 1 takes every branch a later page does, and the
    exemption besides. The XOR run uses pages 1 and 2.
- **Keys.** The null key and one or two 16-byte keys that differ in byte 0
  (one for CCM). This covers encrypt, decrypt, rekey to and from no key,
  and, with two keys, rekey between keys. A null slot keeps the key bytes
  it held, as loadKey leaves them.
- **Random bytes.** `rnd` takes one value. Every encode still writes a fresh
  nonce into the trailer, and the properties never depend on its value.
- **Reserve.** 12 bytes for see-cccrypt.c. For see-rc4.c, 0 and 4: 0 is a
  database created before it was keyed, which takes the no-nonce branch.
- **Allocation failure.** `MallocOutcomes` is BOOLEAN for see-cccrypt.c,
  where the sticky flag lives, and {TRUE} elsewhere.

Keyhash, upgrader and cryptoapi:

- **keyhash.** One line: `rc4:` and 300 letters, ended by LF, the shortest
  kind of input on which the tool and the codec can disagree.
- **cryptoapi.** Four context blocks and two providers, enough for two
  loads. A reload is the smallest case in which a function is replaced.
  Arguments are NULL, text, an empty blob, one payload and its encryptions
  under two passwords. Each call may fail at any CryptoAPI step.
- **Upgrader.** The upgrader is sequential. Its state space is the product of
  its call results.

uncryptoapi:

- **Arguments.** Every string of up to two of `\`, `0` and `x`, plus two of
  three characters: no argument, an empty password, `\0` (a NUL byte), an
  escaped backslash, an unsupported escape and a trailing lone backslash.
- **Files.** Encrypted under `\0` or `x`, of 512- or 1024-byte pages, with
  0 to 2 pages and possibly 256 stray bytes. This gives a file too short for
  the header, a file of whole pages, and a final short read. A one-page
  64K database is added.
- **Failures.** Every allocation, open, CryptoAPI call, `fseek`, `fwrite` and
  release may fail, and reads may stop early.

## Fairness

`WF_vars(RekeyStep)`: the rekey and commit steps run on the thread that holds
the connection mutex and do not wait for anything else, so once a call is
under way it keeps taking steps. The application, interrupts and crashes get
no fairness: none of them is required to happen. `uncryptoapi-cli` has
`WF_vars(Next)`: it is one sequential process that runs until it exits. The
codec harness, keyhash, the upgrader and `cryptoapi.c` are checked for safety only. The pager is free to stop
calling the codec at any time.

## Not modelled

- **AES itself** (`rijndaelEncrypt128Ccm`, its key schedule and tables,
  see-aes128-ccm.c 84-575; CommonCrypto's CCCrypt). Both enter as a constant
  block function. Checking AES on bytes is outside TLC's reach and beside
  the point of these properties.
- **Op 0 and the mask cache's reuse.** The pager in this build never calls
  the codec with op 0. In see-aes128-ccm.c op 0 is turned into 7.
- **ATTACH of a second database with the main key** (`sqlite3CodecGetKey`'s
  caller). GetKey is modelled, but its caller is not.
- **CryptoAPI itself** (SHA-1, `CryptDeriveKey`, RC4). It enters as an opaque
  function of key and chunk.
- **The listener, the local replicator and the index spec.** These are glue
  or I/O with no state for TLC to explore (see `PROJECT.json`).
