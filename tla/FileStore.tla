----------------------------- MODULE FileStore -----------------------------
(***************************************************************************)
(* The file-backed store of crates/tf-store-file/src/lib.rs: the append-   *)
(* only proof.log, the revocation snapshot, the evidence bundles with      *)
(* their checksum sidecars, and what a crash or a failed system call in    *)
(* the middle of an operation leaves behind.                               *)
(*                                                                         *)
(* One mutex serialises the operations that write, so at most one is in    *)
(* progress (op); its steps are the system calls whose effect survives it. *)
(* The file system is external: bytes appended and not yet synced may be   *)
(* cut off by a crash, a rename not yet followed by a sync of its          *)
(* directory (or of the renamed file) may be undone, and temporary files   *)
(* never matter, since open removes them and writers truncate them.        *)
(***************************************************************************)
EXTENDS Naturals, Sequences, SequencesExt, FiniteSets

CONSTANTS Event,        \* proof events, known by their hash
          Target,       \* revocation targets, (kind, id) pairs
          Bundle,       \* evidence bundle ids
          MaxTime,      \* bound: effective_at is one of 1..MaxTime
          MaxContent,   \* bound: a bundle's bytes are one of 1..MaxContent
          MaxFails,     \* bound: system calls that fail
          MaxCrashes,   \* bound: crashes
          MaxLog        \* bound: length of proof.log

ASSUME FileStoreAssumption ==
    /\ MaxTime \in Nat /\ MaxContent \in Nat
    /\ MaxFails \in Nat /\ MaxCrashes \in Nat /\ MaxLog \in Nat

VARIABLES up,           \* is the store open?
          order,        \* State.proof_order, payloads being its range
          revs,         \* State.revocations, 0 for none
          op,           \* the operation that holds the mutex
          log,          \* proof.log: the pieces written, in order
          synced,       \* how many of them are durable
          oldLog,       \* what a crash may bring back after a rename
          snapshot,     \* revocations.tsv
          oldSnapshots, \* likewise
          evidence,     \* evidence/: bytes and checksum of every bundle
          oldEvidence,  \* likewise
          fails, crashes,
          acked,        \* events whose append returned Ok
          revMay,       \* effective_at a target may have: the last one
                        \* acknowledged and those attempted since
          evidenceMay,  \* likewise, for the bytes of a bundle
          damaged       \* an append was cut short since the log was rewritten

memory == <<up, order, revs>>
logFile == <<log, synced, oldLog>>
revFile == <<snapshot, oldSnapshots>>
evidenceDir == <<evidence, oldEvidence>>
faults == <<fails, crashes>>
ghosts == <<acked, revMay, evidenceMay, damaged>>
vars == <<memory, op, logFile, revFile, evidenceDir, faults, ghosts>>

Idle == [kind |-> "idle", arg |-> 0, value |-> 0, at |-> "start"]
Op(kind, arg, value, at) ==
    [kind |-> kind, arg |-> arg, value |-> value, at |-> at]

\* A piece of proof.log: a record's fields, part of them, or its newline.
Piece(part, e) == [part |-> part, event |-> e]
Newline == [part |-> "newline", event |-> 0]
NoFile == [bytes |-> 0, sum |-> 0]

Init ==
    /\ up = FALSE /\ order = <<>> /\ revs = [t \in Target |-> 0]
    /\ op = Idle
    /\ log = <<>> /\ synced = 0 /\ oldLog = {}
    /\ snapshot = [t \in Target |-> 0] /\ oldSnapshots = {}
    /\ evidence = [b \in Bundle |-> NoFile] /\ oldEvidence = {}
    /\ fails = 0 /\ crashes = 0
    /\ acked = {} /\ damaged = FALSE
    /\ revMay = [t \in Target |-> {0}]
    /\ evidenceMay = [b \in Bundle |-> {0}]

-----------------------------------------------------------------------------
(* Opening                                                                 *)

\* Every line is one whole record: its checksum and its hash agree.
Readable(l) ==
    /\ \A k \in DOMAIN l : l[k].part # "torn"
    /\ \A k \in 1..(Len(l) - 1) :
          ~(l[k].part = "record" /\ l[k + 1].part = "record")

Records(l) ==
    LET lines == SelectSeq(l, LAMBDA p : p.part = "record")
    IN  [k \in DOMAIN lines |-> lines[k].event]

\* A repeated record does not move.
Loaded(l) ==
    FoldLeft(LAMBDA seen, e : IF e \in Range(seen) THEN seen ELSE Append(seen, e),
             <<>>, Records(l))

\* open: remove temporary files, sync the directories, load.  A log it cannot
\* read keeps the store closed.
Open ==
    /\ ~up
    /\ Readable(log)
    /\ up' = TRUE
    /\ order' = Loaded(log)
    /\ revs' = snapshot
    /\ oldLog' = {} /\ oldSnapshots' = {} /\ oldEvidence' = {}
    /\ damaged' = (log # <<>> /\ Last(log) # Newline)
    /\ UNCHANGED <<op, log, synced, snapshot, evidence, faults, acked, revMay,
                   evidenceMay>>

-----------------------------------------------------------------------------
(* ProofLedger::append                                                     *)

\* A known event is answered at once, without writing.
AppendBegins(e) ==
    /\ up /\ op = Idle
    /\ e \notin Range(order)
    /\ Len(log) + 2 <= MaxLog
    /\ op' = Op("append", e, 0, "record")
    /\ UNCHANGED <<memory, logFile, revFile, evidenceDir, faults, ghosts>>

AppendRecord ==
    /\ op.kind = "append" /\ op.at = "record"
    /\ log' = Append(log, Piece("record", op.arg))
    /\ op' = [op EXCEPT !.at = "newline"]
    /\ UNCHANGED <<memory, synced, oldLog, revFile, evidenceDir, faults, ghosts>>

AppendNewline ==
    /\ op.kind = "append" /\ op.at = "newline"
    /\ log' = Append(log, Newline)
    /\ op' = [op EXCEPT !.at = "sync"]
    /\ UNCHANGED <<memory, synced, oldLog, revFile, evidenceDir, faults, ghosts>>

\* sync_data, then the memory; the caller gets its Ok.
AppendSync ==
    /\ op.kind = "append" /\ op.at = "sync"
    /\ synced' = Len(log) /\ oldLog' = {}
    /\ order' = Append(order, op.arg)
    /\ acked' = acked \cup {op.arg}
    /\ op' = Idle
    /\ UNCHANGED <<up, revs, log, revFile, evidenceDir, faults, revMay,
                   evidenceMay, damaged>>

-----------------------------------------------------------------------------
(* RevocationCache::insert                                                 *)

\* The memory first, whatever happens next.
Insert(t, at) ==
    /\ up /\ op = Idle
    /\ revs' = [revs EXCEPT ![t] = at]
    /\ revMay' = [revMay EXCEPT ![t] = @ \cup {at}]
    /\ op' = Op("insert", t, at, "snapshot")
    /\ UNCHANGED <<up, order, logFile, revFile, evidenceDir, faults, acked,
                   evidenceMay, damaged>>

\* persist_revocations: the whole map to a temporary file, synced and renamed.
PersistRevocations ==
    /\ op.kind \in {"insert", "compact"} /\ op.at = "snapshot"
    /\ snapshot' = revs
    /\ oldSnapshots' = oldSnapshots \cup {snapshot}
    /\ op' = [op EXCEPT !.at = "syncdir"]
    /\ UNCHANGED <<memory, logFile, evidenceDir, faults, ghosts>>

\* sync_dir of the root, the last step of insert and of compact.
SyncRoot ==
    /\ op.kind \in {"insert", "compact"} /\ op.at = "syncdir"
    /\ oldSnapshots' = {} /\ oldLog' = {}
    /\ revMay' = IF op.kind = "insert"
                 THEN [revMay EXCEPT ![op.arg] = {op.value}] ELSE revMay
    /\ op' = Idle
    /\ UNCHANGED <<memory, log, synced, snapshot, evidenceDir, faults, acked,
                   evidenceMay, damaged>>

-----------------------------------------------------------------------------
(* FileStore::compact                                                      *)

Rebuilt ==
    FlattenSeq([k \in DOMAIN order |-> <<Piece("record", order[k]), Newline>>])

Compact ==
    /\ up /\ op = Idle
    /\ op' = Op("compact", 0, 0, "log")
    /\ UNCHANGED <<memory, logFile, revFile, evidenceDir, faults, ghosts>>

\* persist_proof_log up to its rename, ...
CompactLog ==
    /\ op.kind = "compact" /\ op.at = "log"
    /\ oldLog' = oldLog \cup {[log |-> log, synced |-> synced]}
    /\ log' = Rebuilt /\ synced' = Len(Rebuilt)
    /\ damaged' = FALSE
    /\ op' = [op EXCEPT !.at = "logdir"]
    /\ UNCHANGED <<memory, revFile, evidenceDir, faults, acked, revMay, evidenceMay>>

\* ... and its sync_dir; the revocations follow.
CompactLogDir ==
    /\ op.kind = "compact" /\ op.at = "logdir"
    /\ oldLog' = {} /\ oldSnapshots' = {}
    /\ op' = [op EXCEPT !.at = "snapshot"]
    /\ UNCHANGED <<memory, log, synced, snapshot, evidenceDir, faults, ghosts>>

-----------------------------------------------------------------------------
(* EvidenceArchive                                                         *)

\* put: both temporary files are written and synced before the renames.
Put(b, c) ==
    /\ up /\ op = Idle
    /\ evidenceMay' = [evidenceMay EXCEPT ![b] = @ \cup {c}]
    /\ op' = Op("put", b, c, "bytes")
    /\ UNCHANGED <<memory, logFile, revFile, evidenceDir, faults, acked, revMay,
                   damaged>>

PutRename ==
    /\ op.kind = "put" /\ op.at \in {"bytes", "sum"}
    /\ evidence' = IF op.at = "bytes" THEN [evidence EXCEPT ![op.arg].bytes = op.value]
                                      ELSE [evidence EXCEPT ![op.arg].sum = op.value]
    /\ oldEvidence' = oldEvidence \cup {evidence}
    /\ op' = [op EXCEPT !.at = IF @ = "bytes" THEN "sum" ELSE "syncdir"]
    /\ UNCHANGED <<memory, logFile, revFile, faults, ghosts>>

\* put returns after its renames.
PutReturnsUnsynced ==
    /\ op.kind = "put" /\ op.at = "syncdir"
    /\ evidenceMay' = [evidenceMay EXCEPT ![op.arg] = {op.value}]
    /\ op' = Idle
    /\ UNCHANGED <<memory, logFile, revFile, evidenceDir, faults, acked, revMay,
                   damaged>>

PutSync ==
    /\ op.kind = "put" /\ op.at = "syncdir"
    /\ oldEvidence' = {}
    /\ evidenceMay' = [evidenceMay EXCEPT ![op.arg] = {op.value}]
    /\ op' = Idle
    /\ UNCHANGED <<memory, logFile, revFile, evidence, faults, acked, revMay,
                   damaged>>

\* get: absent, the bytes the sidecar vouches for, or an error.
GetFails(b) == evidence[b].bytes # 0 /\ evidence[b].bytes # evidence[b].sum

-----------------------------------------------------------------------------
(* What goes wrong                                                         *)

\* A system call fails and the operation returns Err: a write may have left
\* part of a record, everything done before stays.
Fails ==
    /\ op # Idle /\ fails < MaxFails
    /\ fails' = fails + 1
    /\ op' = Idle
    /\ log' \in {log} \cup (IF op.kind = "append" /\ op.at = "record"
                            THEN {Append(log, Piece("torn", op.arg))} ELSE {})
    /\ damaged' = (damaged \/ op.kind = "append")
    /\ UNCHANGED <<memory, synced, oldLog, revFile, evidenceDir, crashes, acked,
                   revMay, evidenceMay>>

\* What may be left of a log: all that is durable, any more of it, and part of
\* a record at the cut.
Remains(f) ==
    LET cut(n) == SubSeq(f.log, 1, n)
        torn(n) == Append(cut(n), Piece("torn", f.log[n + 1].event))
    IN  {cut(n) : n \in f.synced..Len(f.log)} \cup
        {torn(n) : n \in {m \in f.synced..(Len(f.log) - 1) :
                            f.log[m + 1].part # "newline"}}

\* The process or the machine stops; an append may have written part of its
\* record.
Crash ==
    /\ up /\ crashes < MaxCrashes
    /\ crashes' = crashes + 1
    /\ up' = FALSE /\ op' = Idle
    /\ order' = <<>> /\ revs' = [t \in Target |-> 0]
    /\ LET now == IF op.kind = "append" /\ op.at = "record"
                  THEN Append(log, Piece("record", op.arg)) ELSE log
           files == oldLog \cup {[log |-> now, synced |-> synced]}
       IN  log' \in UNION {Remains(f) : f \in files}
    /\ synced' = Len(log')
    /\ snapshot' \in {snapshot} \cup oldSnapshots
    /\ evidence' \in {evidence} \cup oldEvidence
    /\ oldLog' = {} /\ oldSnapshots' = {} /\ oldEvidence' = {}
    /\ UNCHANGED <<fails, ghosts>>

-----------------------------------------------------------------------------
Next ==
    \/ Open \/ Compact \/ Crash \/ Fails
    \/ \E e \in Event : AppendBegins(e)
    \/ AppendRecord \/ AppendNewline \/ AppendSync
    \/ \E t \in Target, at \in 1..MaxTime : Insert(t, at)
    \/ PersistRevocations \/ SyncRoot \/ CompactLog \/ CompactLogDir
    \/ \E b \in Bundle, c \in 1..MaxContent : Put(b, c)
    \/ PutRename \/ PutSync

Spec == Init /\ [][Next]_vars

-----------------------------------------------------------------------------
TypeOK ==
    /\ up \in BOOLEAN /\ damaged \in BOOLEAN
    /\ Range(order) \subseteq Event /\ IsInjective(order)
    /\ revs \in [Target -> 0..MaxTime]
    /\ snapshot \in [Target -> 0..MaxTime]
    /\ evidence \in [Bundle -> [bytes: 0..MaxContent, sum: 0..MaxContent]]
    /\ synced <= Len(log)
    /\ acked \subseteq Event

\* An event whose append returned Ok is in the ledger of every store opened
\* later, whatever crashed or failed before or after: append's sync_data comes
\* before its Ok, and compact never replaces the log by less.
LedgerDurable == up => acked \subseteq Range(order)

\* As long as no append was cut short, the log on disk reads back as the
\* ledger in memory, in the same order: the next open finds what this one
\* serves.  (health_check may still count a record twice, when a retry of a
\* failed append wrote it again before a crash.)
LogMatchesMemory ==
    up /\ op = Idle /\ ~damaged =>
        /\ Readable(log)
        /\ Loaded(log) = order

\* A revocation is at the last effective_at acknowledged for its target or at
\* one attempted since: a crash never brings an older one, or none, back.
RevocationKept == up => \A t \in Target : revs[t] \in revMay[t]

\* The bytes get returns for a bundle are the last ones whose put returned Ok
\* or some attempted since, although bytes and sidecar are renamed separately.
EvidenceKept ==
    up => \A b \in Bundle : ~GetFails(b) => evidence[b].bytes \in evidenceMay[b]

\* "atomic evidence and revocation writes", the roadmap's status of this
\* store: a put that a crash interrupts leaves the old bundle or the new one.
EvidenceAtomic == up /\ op = Idle => \A b \in Bundle : ~GetFails(b)
=============================================================================
