------------------------------ MODULE SqlStores ------------------------------
(***************************************************************************)
(* The database backends behind the traits of tf-types/src/store.rs:       *)
(* tf-store-sqlite, tf-store-postgres, tf-store-mysql (ledger, revocations *)
(* and evidence) and tf-revoke-redis (revocations only).  Several clients  *)
(* share one database; a call may lose its answer, before or after the     *)
(* database has committed, and may then be made again.                     *)
(*                                                                         *)
(* The databases are external: a transaction commits as one step, and a    *)
(* BIGSERIAL or AUTO_INCREMENT column takes its number when the insert     *)
(* runs, before the commit and even if the insert then finds a duplicate.  *)
(***************************************************************************)
EXTENDS Integers, FiniteSets, SequencesExt

CONSTANTS
  Clients,    \* processes or threads using the store
  Contents,   \* what events say
  Spellings,  \* orders in which the keys of an event may be written
  Targets,    \* revocation targets: kind and id, an id being cut at its colons
  Bundles,    \* evidence bundle ids
  MaxTime,    \* times of revocations and versions of bundles are 1..MaxTime
  MaxCalls    \* bound on the calls of a behaviour

VARIABLES
  backend,    \* "sqlite", "postgres", "mysql" or "redis"
  tables,     \* tables of the database
  seq,        \* last sequence number given out
  rows,       \* proof_events: [hash, payload, seq]
  cell,       \* revocations and evidence_bundles: key -> value, 0 if absent
  call,       \* what each client is doing
  calls,      \* number of calls begun
  acked,      \* history: hashes whose append was acknowledged
  before,     \* history: <<h, k>>: h was acknowledged before k was first tried
  tried,      \* history: hashes some client tried to append
  may         \* history: values each cell may hold by the calls made on it

vars == <<backend, tables, seq, rows, cell, call, calls, acked, before, tried, may>>

Events == [content : Contents, spelling : Spellings]
Schema == {"proof_events", "revocations", "evidence_bundles"}
Cells == Targets \cup Bundles

\* SHA-256 over the event with its keys sorted: the spelling does not matter.
sqlite_canonical_hash(e) == e.content
mysql_canonical_hash(e) == e.content
postgres_canonical_hash(e) == e.content
canonical_hash(e) ==
  CASE backend = "sqlite"   -> sqlite_canonical_hash(e)
    [] backend = "mysql"    -> mysql_canonical_hash(e)
    [] backend = "postgres" -> postgres_canonical_hash(e)

\* What open leaves in a database that held the tables t.  mysql's migrate
\* cuts the migration at its semicolons and skips a piece that begins with a
\* comment; the first piece does, and it is the one that creates proof_events.
open_with_schema(t) == t \cup Schema
postgres_migrate(t) == t \cup Schema
MigrationPieces == <<[comment |-> TRUE,  creates |-> "proof_events"],
                     [comment |-> FALSE, creates |-> "revocations"],
                     [comment |-> FALSE, creates |-> "evidence_bundles"]>>
mysql_migrate(t) ==
  t \cup {MigrationPieces[i].creates : i \in {j \in DOMAIN MigrationPieces :
                                               ~MigrationPieces[j].comment}}

Idle == [op |-> "idle", stage |-> "", event |-> 0, key |-> 0, value |-> 0,
         seq |-> 0, heard |-> TRUE, alone |-> TRUE]

Init ==
  /\ backend \in {"sqlite", "postgres", "mysql", "redis"}
  /\ \E t \in {{}, Schema} :
       tables = CASE backend = "sqlite"   -> open_with_schema(t)
                  [] backend = "postgres" -> postgres_migrate(t)
                  [] backend = "mysql"    -> mysql_migrate(t)
                  [] backend = "redis"    -> {}
  /\ seq = 0 /\ rows = {}
  /\ cell = [k \in Cells |-> 0]
  /\ call = [c \in Clients |-> Idle]
  /\ calls = 0
  /\ acked = {} /\ before = {} /\ tried = {}
  /\ may = [k \in Cells |-> {0}]

-----------------------------------------------------------------------------
(***************************************************************************)
(* Calls                                                                   *)
(***************************************************************************)
\* append: hash the event and send the statement.  Without the table the
\* database refuses and the caller gets StoreError::Other: nothing changes.
BeginAppend(c, e) ==
  /\ call[c].op = "idle" /\ calls < MaxCalls
  /\ "proof_events" \in tables
  /\ LET h == canonical_hash(e) IN
     /\ call' = [call EXCEPT ![c] = [Idle EXCEPT !.op = "append", !.stage = "sent", !.event = e]]
     /\ before' = IF h \in tried THEN before ELSE before \cup (acked \X {h})
     /\ tried' = tried \cup {h}
  /\ calls' = calls + 1
  /\ UNCHANGED <<backend, tables, seq, rows, cell, acked, may>>

\* INSERT ... ON CONFLICT DO NOTHING, INSERT IGNORE, INSERT OR IGNORE.
InsertNew(e, n) ==
  IF \E r \in rows : r.hash = canonical_hash(e) THEN rows
  ELSE rows \cup {[hash |-> canonical_hash(e), payload |-> e, seq |-> n]}

\* The number is taken before the transaction.
SqliteTwoSteps(c) ==
  /\ backend = "sqlite" /\ call[c].op = "append"
  /\ \/ /\ call[c].stage = "sent"
        /\ seq' = seq + 1
        /\ call' = [call EXCEPT ![c].stage = "reserved", ![c].seq = seq + 1]
        /\ rows' = rows
     \/ /\ call[c].stage = "reserved"
        /\ rows' = InsertNew(call[c].event, call[c].seq)
        /\ call' = [call EXCEPT ![c].stage = "committed"]
        /\ seq' = seq
  /\ UNCHANGED <<backend, tables, cell, calls, acked, before, tried, may>>

\* sqlite: count, read the count, insert, all in one transaction.
sqlite_append(c) ==
  /\ backend = "sqlite" /\ call[c].op = "append" /\ call[c].stage = "sent"
  /\ seq' = seq + 1
  /\ rows' = InsertNew(call[c].event, seq + 1)
  /\ call' = [call EXCEPT ![c].stage = "committed"]
  /\ UNCHANGED <<backend, tables, cell, calls, acked, before, tried, may>>

\* postgres and mysql: the insert takes its number ...
Reserve(c) ==
  /\ call[c].op = "append" /\ call[c].stage = "sent"
  /\ seq' = seq + 1
  /\ call' = [call EXCEPT ![c].stage = "reserved", ![c].seq = seq + 1]
  /\ UNCHANGED <<backend, tables, rows, cell, calls, acked, before, tried, may>>

\* ... and commits later, perhaps after one with a higher number.
CommitInsert(c) ==
  /\ call[c].op = "append" /\ call[c].stage = "reserved"
  /\ rows' = InsertNew(call[c].event, call[c].seq)
  /\ call' = [call EXCEPT ![c].stage = "committed"]
  /\ UNCHANGED <<backend, tables, seq, cell, calls, acked, before, tried, may>>

postgres_append(c) == backend = "postgres" /\ (Reserve(c) \/ CommitInsert(c))
mysql_append(c) == backend = "mysql" /\ (Reserve(c) \/ CommitInsert(c))

\* insert of a revocation, put of a bundle: an upsert, by whichever backend.
BeginUpsert(c, k, v) ==
  /\ call[c].op = "idle" /\ calls < MaxCalls
  /\ backend = "redis" => k \in Targets
  /\ LET rivals == {d \in Clients : call[d].op = "upsert" /\ call[d].key = k} IN
     call' = [d \in Clients |->
                IF d = c THEN [Idle EXCEPT !.op = "upsert", !.stage = "sent", !.key = k,
                                           !.value = v, !.alone = rivals = {}]
                ELSE IF d \in rivals THEN [call[d] EXCEPT !.alone = FALSE] ELSE call[d]]
  /\ may' = [may EXCEPT ![k] = @ \cup {v}]
  /\ calls' = calls + 1
  /\ UNCHANGED <<backend, tables, seq, rows, cell, acked, before, tried>>

\* ON CONFLICT DO UPDATE SET ... = excluded, ON DUPLICATE KEY UPDATE, SET.
sqlite_upsert(old, v) == v
postgres_upsert(old, v) == v
mysql_upsert(old, v) == v
redis_set(old, v) == v

CommitUpsert(c) ==
  /\ call[c].op = "upsert" /\ call[c].stage = "sent"
  /\ LET old == cell[call[c].key]  v == call[c].value IN
     cell' = [cell EXCEPT ![call[c].key] =
                CASE backend = "sqlite"   -> sqlite_upsert(old, v)
                  [] backend = "postgres" -> postgres_upsert(old, v)
                  [] backend = "mysql"    -> mysql_upsert(old, v)
                  [] backend = "redis"    -> redis_set(old, v)]
  /\ call' = [call EXCEPT ![c].stage = "committed"]
  /\ UNCHANGED <<backend, tables, seq, rows, calls, acked, before, tried, may>>

\* The call returns once the statement has been sent.
AnswerEarly(c) ==
  /\ call[c].stage \in {"sent", "committed"} /\ call[c].heard
  /\ acked' = IF call[c].op = "append" THEN acked \cup {canonical_hash(call[c].event)} ELSE acked
  /\ may' = IF call[c].op = "upsert" /\ call[c].alone
            THEN [may EXCEPT ![call[c].key] = {call[c].value}] ELSE may
  /\ call' = [call EXCEPT ![c] = Idle]
  /\ UNCHANGED <<backend, tables, seq, rows, cell, calls, before, tried>>

\* The answer reaches the caller: Ok.
Answer(c) ==
  /\ call[c].stage = "committed" /\ call[c].heard
  /\ acked' = IF call[c].op = "append" THEN acked \cup {canonical_hash(call[c].event)} ELSE acked
  /\ may' = IF call[c].op = "upsert" /\ call[c].alone
            THEN [may EXCEPT ![call[c].key] = {call[c].value}] ELSE may
  /\ call' = [call EXCEPT ![c] = Idle]
  /\ UNCHANGED <<backend, tables, seq, rows, cell, calls, before, tried>>

\* map_err: the connection drops and the caller gets Unavailable (Other from
\* sqlite, for SQLITE_BUSY); what was sent may still take effect, or not.
LoseConnection(c) ==
  /\ call[c].op # "idle" /\ call[c].heard
  /\ call' = [call EXCEPT ![c].heard = FALSE]
  /\ UNCHANGED <<backend, tables, seq, rows, cell, calls, acked, before, tried, may>>

Abandon(c) ==
  /\ ~call[c].heard
  /\ call' = [call EXCEPT ![c] = Idle]
  /\ UNCHANGED <<backend, tables, seq, rows, cell, calls, acked, before, tried, may>>

Next ==
  \E c \in Clients :
    \/ \E e \in Events : backend # "redis" /\ BeginAppend(c, e)
    \/ sqlite_append(c)
    \/ postgres_append(c)
    \/ mysql_append(c)
    \/ \E k \in Cells, v \in 1..MaxTime : BeginUpsert(c, k, v)
    \/ CommitUpsert(c)
    \/ Answer(c)
    \/ LoseConnection(c)
    \/ Abandon(c)

Spec == Init /\ [][Next]_vars

-----------------------------------------------------------------------------
(***************************************************************************)
(* Reads                                                                   *)
(***************************************************************************)
\* SELECT payload ... WHERE event_hash: at most one.
sqlite_lookup(h) == {r.payload : r \in {x \in rows : x.hash = h}}
postgres_lookup(h) == {r.payload : r \in {x \in rows : x.hash = h}}
mysql_lookup(h) == {r.payload : r \in {x \in rows : x.hash = h}}
lookup(h) ==
  CASE backend = "sqlite"   -> sqlite_lookup(h)
    [] backend = "postgres" -> postgres_lookup(h)
    [] backend = "mysql"    -> mysql_lookup(h)
    [] backend = "redis"    -> {}

\* The last n by descending seq, turned round.
LastRows(n) ==
  LET down == SetToSortSeq(rows, LAMBDA x, y : x.seq > y.seq)
  IN Reverse(SubSeq(down, 1, IF n < Len(down) THEN n ELSE Len(down)))
sqlite_tail(n) == LastRows(n)
postgres_tail(n) == LastRows(n)
mysql_tail(n) == LastRows(n)
tail(n) ==
  CASE backend = "sqlite"   -> sqlite_tail(n)
    [] backend = "postgres" -> postgres_tail(n)
    [] backend = "mysql"    -> mysql_tail(n)
    [] backend = "redis"    -> <<>>

\* effective_at <= at, for a target that has a row.
sqlite_is_revoked(t, at) == cell[t] # 0 /\ cell[t] <= at
postgres_is_revoked(t, at) == cell[t] # 0 /\ cell[t] <= at
mysql_is_revoked(t, at) == cell[t] # 0 /\ cell[t] <= at
redis_is_revoked(t, at) == cell[t] # 0 /\ cell[t] <= at
is_revoked(t, at) ==
  CASE backend = "sqlite"   -> sqlite_is_revoked(t, at)
    [] backend = "postgres" -> postgres_is_revoked(t, at)
    [] backend = "mysql"    -> mysql_is_revoked(t, at)
    [] backend = "redis"    -> redis_is_revoked(t, at)

\* redis keeps kind and id in one key, with a colon between, and list cuts
\* the key at its first colon.
key(t) == <<t.kind>> \o t.id
FromKey(k) == [kind |-> Head(k), id |-> Tail(k)]

Listed == {t \in Targets : cell[t] # 0}
sqlite_list == {<<t, cell[t]>> : t \in Listed}
postgres_list == {<<t, cell[t]>> : t \in Listed}
mysql_list == {<<t, cell[t]>> : t \in Listed}
redis_list == {<<FromKey(key(t)), cell[t]>> : t \in Listed}
list ==
  CASE backend = "sqlite"   -> sqlite_list
    [] backend = "postgres" -> postgres_list
    [] backend = "mysql"    -> mysql_list
    [] backend = "redis"    -> redis_list

\* get and list of the evidence archive.
sqlite_get(b) == cell[b]
postgres_get(b) == cell[b]
mysql_get(b) == cell[b]
get(b) ==
  CASE backend = "sqlite"   -> sqlite_get(b)
    [] backend = "postgres" -> postgres_get(b)
    [] backend = "mysql"    -> mysql_get(b)
    [] backend = "redis"    -> 0

-----------------------------------------------------------------------------
(***************************************************************************)
(* Properties                                                              *)
(***************************************************************************)
\* The ledger is append-only and content-addressed: an append that returned
\* Ok is found by its hash ever after, whatever was lost, retried or sent
\* twice on the way; a hash has one payload, one that was really sent; and no
\* two events share a sequence number.
LedgerKeeps ==
  /\ \A h \in acked : Cardinality(lookup(h)) = 1
  /\ \A h \in Contents : \A e \in lookup(h) : h \in tried /\ canonical_hash(e) = h
  /\ \A r, q \in rows : r.seq = q.seq => r = q

\* "tail returns the most recent limit events in insertion order": an event
\* acknowledged before another was first sent comes before it, in every slice
\* that shows it, and a slice is as long as it can be.
TailInOrder ==
  \A n \in 0..Cardinality(rows) :
    LET t == tail(n)
        Place(h) == {i \in DOMAIN t : t[i].hash = h} IN
    /\ backend # "redis" => Len(t) = n
    /\ \A p \in before : \A i \in Place(p[1]) :
         (\E r \in rows : r.hash = p[2]) => \E j \in Place(p[2]) : i < j

\* A reader who follows the sqlite ledger by its tail never has to look back:
\* every commit adds at the end.  (Postgres and MySQL number an insert before
\* it commits, so there an event may appear behind one already read.)
TailOnlyGrows ==
  [][backend = "sqlite" =>
       \A r \in rows' \ rows, q \in rows : r.seq > q.seq /\ q \in rows']_vars

\* A revocation or a bundle reads as the last write that was acknowledged,
\* or as one of those that overlapped or were never answered; is_revoked
\* turns at effective_at and list names exactly what was inserted.
LastWriteReads ==
  /\ \A k \in Cells : cell[k] \in may[k]
  /\ \A t \in Targets, at \in 0..MaxTime :
       is_revoked(t, at) <=> \E v \in 1..at : <<t, v>> \in list
  /\ backend # "redis" => \A b \in Bundles : get(b) \in may[b]

\* tf-store-mysql says its schema is "applied via CREATE TABLE IF NOT EXISTS
\* at open", so that a store that opened has all its tables.
MysqlSchemaApplied == backend = "mysql" => Schema \subseteq tables
=============================================================================
