------------------------------ MODULE MCStores ------------------------------
(***************************************************************************)
(* The stores a deployment keeps its state in.  A behaviour follows one of *)
(* them: the file store, a database (sqlite, postgres, mysql or redis) or  *)
(* the key vault; the variables of the others have no value.               *)
(***************************************************************************)
EXTENDS FileStore, TLC

CONSTANTS Clients, Contents, Spellings, MaxCalls,
          Handles, Passphrases, Ids, Purposes, MaxWrites

VARIABLES
  store,
  backend, tables, seq, rows, cell, call, calls, committed, before, tried, may,
  file, durable, handle, salts, writes, stored, owed

Targets == {[kind |-> "actor", id |-> <<"a", "b">>]}

Sql == INSTANCE SqlStores WITH Bundles <- Bundle, acked <- committed
Vault == INSTANCE KeyVault

sqlVars == <<backend, tables, seq, rows, cell, call, calls, committed, before, tried, may>>
vaultVars == <<file, durable, handle, salts, writes, stored, owed>>
storeVars == <<store, vars, sqlVars, vaultVars>>

Without(v) == v = "absent"

FileAbsent ==
  /\ Without(up) /\ Without(order) /\ Without(revs) /\ Without(op)
  /\ Without(log) /\ Without(synced) /\ Without(oldLog)
  /\ Without(snapshot) /\ Without(oldSnapshots)
  /\ Without(evidence) /\ Without(oldEvidence)
  /\ Without(fails) /\ Without(crashes)
  /\ Without(acked) /\ Without(revMay) /\ Without(evidenceMay) /\ Without(damaged)
SqlAbsent ==
  /\ Without(backend) /\ Without(tables) /\ Without(seq) /\ Without(rows)
  /\ Without(cell) /\ Without(call) /\ Without(calls) /\ Without(committed)
  /\ Without(before) /\ Without(tried) /\ Without(may)
VaultAbsent ==
  /\ Without(file) /\ Without(durable) /\ Without(handle) /\ Without(salts)
  /\ Without(writes) /\ Without(stored) /\ Without(owed)

StoresInit ==
  \/ store = "file" /\ Init /\ SqlAbsent /\ VaultAbsent
  \/ store = "database" /\ FileAbsent /\ Sql!Init /\ VaultAbsent
  \/ store = "vault" /\ FileAbsent /\ SqlAbsent /\ Vault!Init

StoresNext ==
  /\ UNCHANGED store
  /\ \/ store = "file" /\ Next /\ UNCHANGED <<sqlVars, vaultVars>>
     \/ store = "database" /\ Sql!Next /\ UNCHANGED <<vars, vaultVars>>
     \/ store = "vault" /\ Vault!Next /\ UNCHANGED <<vars, sqlVars>>

StoresSpec == StoresInit /\ [][StoresNext]_storeVars

\* Events of the file store are interchangeable, and nothing orders them.
EventSymmetry == Permutations(Event)

-----------------------------------------------------------------------------
\* Whatever crashed or failed, every later open of the file store finds the
\* events whose append returned Ok, in the order memory had them as long as no
\* append was cut short; a revocation is at the last effective_at acknowledged
\* or at one attempted since; and the bytes get returns for a bundle are the
\* last acknowledged ones or some attempted since.
FileStoreKeeps ==
  store = "file" =>
    LedgerDurable /\ LogMatchesMemory /\ RevocationKept /\ EvidenceKept

\* In every database an append that returned Ok is found by its hash ever
\* after, with one payload and a sequence number of its own, and tail shows an
\* event acknowledged before another was first sent in front of it; a
\* revocation or a bundle reads as the last write acknowledged or as one that
\* overlapped it or was never answered.
DatabaseKeeps ==
  store = "database" => Sql!LedgerKeeps /\ Sql!TailInOrder /\ Sql!LastWriteReads

\* A reader who follows the sqlite ledger by its tail never has to look back:
\* append's transaction numbers the event and inserts it as one step.
DatabaseTailGrows == Sql!TailOnlyGrows

\* "a partial write never replaces the original vault": crashes, failed
\* writes and concurrent handles leave the file entire, as the last
\* acknowledged write made it, with entries its passphrase can read.
VaultKeeps == store = "vault" => Vault!VaultWhole

\* tf-store-mysql says its schema is "applied via CREATE TABLE IF NOT EXISTS
\* at open", so that a store that opened has all its tables.
MysqlSchemaApplied == store = "database" => Sql!MysqlSchemaApplied
=============================================================================
