------------------------------- MODULE KeyVault -------------------------------
(***************************************************************************)
(* The passphrase vault of tf-types/src/vault.rs: one JSON file of wrapped *)
(* keys, read whole when a handle opens it and written whole by every      *)
(* store and remove.  Several handles (processes, or threads with a Vault  *)
(* each) use the file; a write goes to a temporary file, is synced, and is *)
(* renamed over the old file; it may fail or the machine may stop at any   *)
(* point, and a rename not yet settled in the directory may be undone by a *)
(* power loss.                                                             *)
(***************************************************************************)
EXTENDS Integers, FiniteSets

CONSTANTS
  Handles, Passphrases,
  Ids,          \* entry ids
  Purposes,     \* what an entry is for (with its algorithm, bound as AAD)
  MaxWrites     \* bound on stores and removes; it also bounds the values stored

VARIABLES
  file,      \* {} or {the vault at the path}
  durable,   \* {} or {the vault a power loss would bring back}
  handle,    \* each handle: open or not, wrap key, data, how far a write is
  salts,     \* salts drawn so far
  writes,    \* stores and removes so far
  stored,    \* history: [key, id, purpose, bytes] given to store
  owed       \* history: {} or {the vault the last acknowledged write made}

vars == <<file, durable, handle, salts, writes, stored, owed>>

\* OnDiskVault: the salt and the entries.  derive_key turns passphrase and
\* salt into the wrap key, symbolically a pair.
derive_key(passphrase, salt) == <<passphrase, salt>>
aad_for(id, purpose) == <<id, purpose>>
Closed == [open |-> FALSE, key |-> <<>>, data |-> [salt |-> 0, entries |-> {}],
           made |-> FALSE, step |-> "idle"]

Init ==
  /\ file = {} /\ durable = {} /\ owed = {}
  /\ handle = [h \in Handles |-> Closed]
  /\ salts = 0 /\ writes = 0
  /\ stored = {}

\* create_at_path: refused when the file exists; otherwise an empty vault
\* under a fresh salt, then persist.  Two creators may both find no file.
create_at_path(h, p) ==
  /\ ~handle[h].open /\ handle[h].step = "idle"
  /\ file = {} /\ salts < Cardinality(Handles)
  /\ salts' = salts + 1
  /\ handle' = [handle EXCEPT ![h] = [open |-> TRUE, key |-> derive_key(p, salts + 1),
                                      data |-> [salt |-> salts + 1, entries |-> {}],
                                      made |-> TRUE, step |-> "writing"]]
  /\ UNCHANGED <<file, durable, writes, stored, owed>>

\* open_at_path: any passphrase opens; it shows when an entry is read.
open_at_path(h, p) ==
  /\ ~handle[h].open /\ handle[h].step = "idle"
  /\ \E v \in file :
       handle' = [handle EXCEPT ![h] = [open |-> TRUE, key |-> derive_key(p, v.salt),
                                        data |-> v, made |-> FALSE, step |-> "idle"]]
  /\ UNCHANGED <<file, durable, salts, writes, stored, owed>>

Wrapped(key, id, purpose, bytes) ==
  [id |-> id, purpose |-> purpose, key |-> key, aad |-> aad_for(id, purpose), bytes |-> bytes]

\* store: wrap, replace the entry with that id or add one, persist.
store(h, id, purpose) ==
  /\ handle[h].open /\ handle[h].step = "idle" /\ writes < MaxWrites
  /\ handle' = [handle EXCEPT
       ![h].data.entries = {e \in @ : e.id # id}
                             \cup {Wrapped(handle[h].key, id, purpose, writes + 1)},
       ![h].step = "writing"]
  /\ stored' = stored \cup {Wrapped(handle[h].key, id, purpose, writes + 1)}
  /\ writes' = writes + 1
  /\ UNCHANGED <<file, durable, salts, owed>>

\* remove: nothing is written when there is no such entry.
remove(h, id) ==
  /\ handle[h].open /\ handle[h].step = "idle" /\ writes < MaxWrites
  /\ \E e \in handle[h].data.entries : e.id = id
  /\ handle' = [handle EXCEPT ![h].data.entries = {e \in @ : e.id # id}, ![h].step = "writing"]
  /\ writes' = writes + 1
  /\ UNCHANGED <<file, durable, salts, stored, owed>>

\* read: the first entry with that id, decrypted under the handle's wrap key
\* with the AAD recomputed from the entry: the entry, or nothing (Aead).
read(h, id) ==
  {e \in handle[h].data.entries : /\ e.id = id
                                  /\ e.key = handle[h].key
                                  /\ e.aad = aad_for(e.id, e.purpose)}

\* Write the vault in place, so that a reader or a crash meets it half
\* written (its entries gone).
WriteInPlace(h) ==
  /\ handle[h].step = "writing"
  /\ file' = {[handle[h].data EXCEPT !.salt = 0, !.entries = {}]}
  /\ handle' = [handle EXCEPT ![h].step = "synced"]
  /\ UNCHANGED <<durable, salts, writes, stored, owed>>

\* persist, first part: write the temporary file and sync it.
WriteTemporary(h) ==
  /\ handle[h].step = "writing"
  /\ handle' = [handle EXCEPT ![h].step = "synced"]
  /\ UNCHANGED <<file, durable, salts, writes, stored, owed>>

\* persist, second part: rename, and return Ok.
persist(h) ==
  /\ handle[h].step = "synced"
  /\ file' = {handle[h].data}
  /\ owed' = {handle[h].data}
  /\ handle' = [handle EXCEPT ![h].step = "idle", ![h].made = FALSE]
  /\ UNCHANGED <<durable, salts, writes, stored>>

\* Some step of persist fails: the caller gets an error; what the handle holds
\* in memory stays changed (a failed create yields no handle).
PersistFails(h) ==
  /\ handle[h].step \in {"writing", "synced"}
  /\ handle' = [handle EXCEPT ![h] = IF handle[h].made THEN Closed
                                     ELSE [handle[h] EXCEPT !.step = "idle"]]
  /\ UNCHANGED <<file, durable, salts, writes, stored, owed>>

\* The process ends, in the middle of a write or not.
Exit(h) ==
  /\ handle[h].open
  /\ handle' = [handle EXCEPT ![h] = Closed]
  /\ UNCHANGED <<file, durable, salts, writes, stored, owed>>

\* The directory reaches the disk; a power loss takes back what did not.
Settle ==
  /\ durable # file
  /\ durable' = file
  /\ UNCHANGED <<file, handle, salts, writes, stored, owed>>
PowerLoss ==
  /\ file' = durable
  /\ handle' = [h \in Handles |-> Closed]
  /\ owed' = IF durable = file THEN owed ELSE {}
  /\ UNCHANGED <<durable, salts, writes, stored>>

Next ==
  \/ \E h \in Handles :
       \/ \E p \in Passphrases : create_at_path(h, p) \/ open_at_path(h, p)
       \/ \E id \in Ids :
            \/ \E purpose \in Purposes : store(h, id, purpose)
            \/ remove(h, id)
       \/ WriteTemporary(h) \/ persist(h) \/ PersistFails(h) \/ Exit(h)
  \/ Settle
  \/ PowerLoss

Spec == Init /\ [][Next]_vars

-----------------------------------------------------------------------------
\* A crash, a failed write or a concurrent writer never leaves a damaged
\* vault: the file is the one the last acknowledged write made, entire, and
\* only a power loss that undoes the rename goes back, to an earlier entire
\* one.  Its entries are what store wrapped, one per id, and all under the
\* file's own salt even when two creators raced, so that a handle that opens
\* it reads exactly the entries stored with its passphrase.
VaultWhole ==
  /\ owed # {} => file = owed
  /\ \A v \in file \cup durable :
       /\ \A e \in v.entries : e \in stored /\ e.key[2] = v.salt
       /\ \A e, f \in v.entries : e.id = f.id => e = f
       /\ \A h \in Handles : handle[h].data = v /\ handle[h].open =>
            UNION {read(h, id) : id \in Ids} = {e \in v.entries : e.key[1] = handle[h].key[1]}
=============================================================================
