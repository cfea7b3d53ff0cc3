----------------------------- MODULE KeyedStore -----------------------------
(***************************************************************************)
(* What an encrypted database promises the application (spec.md 4.4 and  *)
(* 5): the file, as any later open recovers it, holds one logical content *)
(* with every page under one key.  A transaction replaces the content and *)
(* keeps the key; a re-key replaces the key of every page at once and    *)
(* keeps the content.  No partially re-keyed file is ever durable.        *)
(***************************************************************************)
CONSTANTS
    Pages,      \* the pages that carry content
    KeySlot,    \* the keys a file can be under, "no key" included
    Vals        \* logical page contents

VARIABLE store  \* page -> [k |-> key it is under, v |-> content it holds]

\* Every page under key k, holding c[p].
UnderKey(k, c) == [p \in Pages |-> [k |-> k, v |-> c[p]]]

Content == [p \in Pages |-> store[p].v]

FileKey == store[CHOOSE p \in Pages : TRUE].k

Init == \E k \in KeySlot, c \in [Pages -> Vals] : store = UnderKey(k, c)

\* A committed transaction: new content, the same key.
Commit == \E c \in [Pages -> Vals] : store' = UnderKey(FileKey, c)

\* A committed re-key: the same content, a new key on every page.
SwitchKey == \E k \in KeySlot : store' = UnderKey(k, Content)

Next == Commit \/ SwitchKey

Spec == Init /\ [][Next]_store
=============================================================================
