------------------------------ MODULE KeyStore ------------------------------
(***************************************************************************)
(* A dictionary from keys to values: ghl_bridge.store.KeyStore with its    *)
(* in-memory implementation, and the plain dict of parked drafts.  A key   *)
(* is remembered exactly when it is in the domain.                         *)
(***************************************************************************)

EmptyStore == [k \in {} |-> {}]

Remembers(store, k) == k \in DOMAIN store

\* set overwrites whatever the key held before.
SetKey(store, k, v) ==
  [x \in DOMAIN store \cup {k} |-> IF x = k THEN v ELSE store[x]]

\* Only the dict of parked drafts ever deletes a key.
DropKey(store, k) == [x \in DOMAIN store \ {k} |-> store[x]]
=============================================================================
