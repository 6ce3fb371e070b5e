--------------------------- MODULE ReaderSchema ---------------------------
(***************************************************************************)
(* Opening the reader database: ReaderDatabase._ensure_schema runs the     *)
(* migrations that the ledger (schema_migrations) does not name, in order, *)
(* and then repeats the transform of 002.  A script commits statement by   *)
(* statement, and Python's sqlite3 opens a transaction only before a row   *)
(* is written, so each action below is what one commit makes durable: the  *)
(* process may die between any two of them.                                *)
(***************************************************************************)
EXTENDS Naturals, FiniteSets

VARIABLES
  ledger,    \* migrations that schema_migrations names
  base,      \* how far the script of 001 came: "none", "part" or "whole"
  versioned, \* the legacy table schema_version names version 1
  queue,     \* reader_sync_outbox: "none", "old" or "new" columns
  spare,     \* reader_sync_outbox_new is there
  pairing,   \* pairing_tokens: "none", "bare" or "full" columns
  approval,  \* pairing_tokens.approved_at is there
  nullable,  \* reader_conversations.source_id may be NULL
  owned,     \* reader_conversations.device_id is there
  opening    \* <<stage, migration>>; migration 8 is the health check that repeats 002

schemaVars == <<ledger, base, versioned, queue, spare, pairing, approval,
                nullable, owned, opening>>

Health == 8
Migrations == 1..7

\* The databases an installation may hold: none yet; one of the build that knew
\* only schema_version; one whose build recorded 002 and skipped its body; each
\* legacy one with the pairing columns of its build.
SchemaInit ==
  /\ spare = FALSE /\ approval = FALSE /\ owned = FALSE /\ opening = <<"closed", 0>>
  /\ \/ /\ ledger = {} /\ base = "none" /\ versioned = FALSE /\ queue = "none"
        /\ pairing = "none" /\ nullable = TRUE
     \/ /\ ledger \in {{}, {1, 2}} /\ base = "whole" /\ versioned = TRUE /\ queue = "old"
        /\ nullable \in BOOLEAN
        /\ pairing \in IF ledger = {} THEN {"none", "bare"} ELSE {"bare", "full"}

At(m) == opening = <<"at", m>> /\ m \notin ledger
Done(m) == opening' = IF m = Health THEN <<"open", 0>> ELSE <<"done", m>>
Fail == opening' = <<"failed", 0>>

\* The ledger is created if need be; a database that schema_version knows is
\* recorded as having 001.
EnsureLedger ==
  /\ opening[1] = "closed"
  /\ ledger' = IF versioned THEN ledger \union {1} ELSE ledger
  /\ opening' = <<"at", 1>>
  /\ UNCHANGED <<base, versioned, queue, spare, pairing, approval, nullable, owned>>

Skip(m) ==
  /\ opening = <<"at", m>> /\ m \in ledger
  /\ opening' = <<"at", m + 1>>
  /\ UNCHANGED <<ledger, base, versioned, queue, spare, pairing, approval, nullable, owned>>

\* The migration at hand has run; its name is committed on its own.
Record(m) ==
  /\ opening = <<"done", m>>
  /\ ledger' = ledger \union {m}
  /\ opening' = <<"at", m + 1>>
  /\ UNCHANGED <<base, versioned, queue, spare, pairing, approval, nullable, owned>>

\* The script of 001: tables, then indexes that must not be there yet, then
\* version 1.  Half of it is found again as an index that already exists.
RunBaseScript ==
  /\ At(1)
  /\ \/ base = "none" /\ base' = "part" /\ queue' = "old" /\ opening' = <<"script", 1>>
     \/ base = "part" /\ Fail /\ UNCHANGED <<base, queue>>
  /\ UNCHANGED <<ledger, versioned, spare, pairing, approval, nullable, owned>>

FinishBaseScript ==
  /\ opening = <<"script", 1>>
  /\ base' = "whole" /\ versioned' = TRUE /\ Done(1)
  /\ UNCHANGED <<ledger, queue, spare, pairing, approval, nullable, owned>>

\* _apply_migration_002, in its turn or from the health check: pairing_tokens is
\* created or gets its missing columns ...
CompletePairing(m) ==
  /\ m \in {2, Health} /\ At(m)
  /\ pairing' = "full"
  /\ opening' = <<"queue", m>>
  /\ UNCHANGED <<ledger, base, versioned, queue, spare, approval, nullable, owned>>

\* Mutant: the health check trusts the ledger about an unconverted queue.
PrepareQueueMut(m) ==
  /\ opening = <<"queue", m>>
  /\ \/ queue = "none" /\ queue' = "new" /\ Done(m) /\ UNCHANGED spare
     \/ (queue = "new" \/ m = Health) /\ Done(m) /\ UNCHANGED <<queue, spare>>
     \/ queue = "old" /\ m # Health /\ spare' = TRUE /\ opening' = <<"copy", m>> /\ UNCHANGED queue
  /\ UNCHANGED <<ledger, base, versioned, pairing, approval, nullable, owned>>

\* ... then the queue is created, found converted, or an empty copy is made.
PrepareQueue(m) ==
  /\ opening = <<"queue", m>>
  /\ \/ queue = "none" /\ queue' = "new" /\ Done(m) /\ UNCHANGED spare
     \/ queue = "new" /\ Done(m) /\ UNCHANGED <<queue, spare>>
     \/ queue = "old" /\ spare' = TRUE /\ opening' = <<"copy", m>> /\ UNCHANGED queue
  /\ UNCHANGED <<ledger, base, versioned, pairing, approval, nullable, owned>>

\* Copying the rows opens the transaction in which the old table is dropped and
\* the new one takes its name.
ConvertQueue(m) ==
  /\ opening = <<"copy", m>>
  /\ queue' = "new" /\ spare' = FALSE /\ Done(m)
  /\ UNCHANGED <<ledger, base, versioned, pairing, approval, nullable, owned>>

\* _apply_migration_003 rebuilds reader_conversations in one transaction.
RebuildConversations ==
  /\ At(3)
  /\ nullable' = TRUE /\ Done(3)
  /\ UNCHANGED <<ledger, base, versioned, queue, spare, pairing, approval, owned>>

\* 004 and 005 create tables that may be there already; 006 adds a column that
\* must not be there.
RunScript(m) ==
  /\ m \in {4, 5, 6} /\ At(m)
  /\ approval' = (approval \/ m = 6)
  /\ IF m = 6 /\ approval THEN Fail ELSE Done(m)
  /\ UNCHANGED <<ledger, base, versioned, queue, spare, pairing, nullable, owned>>

\* _apply_migration_007 adds the owner's column unless it is there, then fills it.
AddOwner ==
  /\ At(7)
  /\ owned' = TRUE
  /\ opening' = <<"fill", 7>>
  /\ UNCHANGED <<ledger, base, versioned, queue, spare, pairing, approval, nullable>>

FillOwner ==
  /\ opening = <<"fill", 7>>
  /\ Done(7)
  /\ UNCHANGED <<ledger, base, versioned, queue, spare, pairing, approval, nullable, owned>>

\* The process dies, or the constructor raised; the database is opened again later.
Reopen ==
  /\ opening[1] # "closed"
  /\ opening' = <<"closed", 0>>
  /\ UNCHANGED <<ledger, base, versioned, queue, spare, pairing, approval, nullable, owned>>

SchemaNext ==
  \/ EnsureLedger \/ RunBaseScript \/ FinishBaseScript
  \/ RebuildConversations \/ AddOwner \/ FillOwner \/ Reopen
  \/ \E m \in Migrations : Skip(m) \/ Record(m) \/ RunScript(m)
  \/ \E m \in {2, Health} : CompletePairing(m) \/ PrepareQueue(m) \/ ConvertQueue(m)

SchemaSpec == SchemaInit /\ [][SchemaNext]_schemaVars

(***************************************************************************)
(* Properties                                                              *)
(***************************************************************************)
SchemaTypeOK ==
  /\ ledger \subseteq Migrations /\ base \in {"none", "part", "whole"}
  /\ queue \in {"none", "old", "new"} /\ pairing \in {"none", "bare", "full"}
  /\ {versioned, spare, approval, nullable, owned} \subseteq BOOLEAN
  /\ opening \in {"closed", "at", "done", "script", "queue", "copy", "fill", "open", "failed"}
                  \X (0..Health)

\* Whatever database it found and wherever earlier attempts died, an opened
\* database has the columns the code uses and no half-made copy of the queue:
\* _ensure_schema judges by the schema and not by the ledger alone.
OpenedIsConverged ==
  opening[1] = "open" =>
    /\ queue = "new" /\ pairing = "full" /\ approval /\ nullable /\ owned
    /\ base = "whole" /\ ~spare
=============================================================================
