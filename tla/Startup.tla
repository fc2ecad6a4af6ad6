------------------------------ MODULE Startup ------------------------------
(***************************************************************************)
(* The start of Rauthy on a database that must survive it: restoring a     *)
(* backup file, the schema, the version check, the first-time              *)
(* initialisation of a production database, MIGRATE_DB_FROM, anti-lockout  *)
(* and the version entry, and the backups a running SQLite node makes.     *)
(*                                                                         *)
(* Every statement and every file operation is a step of its own; a node   *)
(* may be killed, or meet an error that it panics on, between any two of   *)
(* them.  A database is reduced to what a start decides on or replaces.    *)
(***************************************************************************)
EXTENDS Naturals, Sequences, FiniteSets

CONSTANTS
    Nodes,        \* replicas
    KeyOrder,     \* the order the first signing keys are saved in
    Deployments,  \* configurations that stay the same over all starts
    Missing,      \* no such file
    Torn,         \* a file that was copied in part
    MaxStarts,    \* bound on the starts of all nodes
    MaxBackups    \* bound on the backups made

ASSUME Bounds ==
    /\ KeyOrder # <<>> /\ KeyOrder \in Seq({KeyOrder[i] : i \in DOMAIN KeyOrder})
    /\ MaxStarts \in Nat /\ MaxBackups \in Nat
    /\ Deployments \subseteq
         [type : {"sqlite", "postgres"},
          ha : BOOLEAN,                      \* HA_MODE
          ownEmail : BOOLEAN,                \* BOOTSTRAP_ADMIN_EMAIL
          apiKey : BOOLEAN,                  \* BOOTSTRAP_API_KEY
          srcKey : BOOLEAN,                  \* MIGRATE_DB_FROM has an API key of that name,
          srcUpserts : BOOLEAN,              \* rows for the upserts,
          srcVersion : {"outdated", "app"}]  \* and was made by this version

-----------------------------------------------------------------------------
(* MIGRATE_DB_FROM copies the tables in this order.  An upsert is written  *)
(* INSERT OR REPLACE, which a Postgres target does not parse.  Of two      *)
(* tables not all columns are copied: refresh_tokens (without is_mfa) and  *)
(* sessions (without remote_ip).                                           *)

Table(t) == [table |-> t, upsert |-> FALSE]
Upsert(t) == [table |-> t, upsert |-> TRUE]

SqliteProviders == <<Table("config"), Table("api_keys"),
                     Table("auth_providers"), Table("auth_provider_logos")>>
SqliteUsers == <<Table("users"), Table("passkeys")>>
\* A variant for a check of the properties: colors before the clients they belong to
ColorsFirst == <<Table("colors"), Table("clients"), Table("clients_dyn"), Table("client_logos")>>

SqliteClients == <<Table("clients"), Table("clients_dyn"),
                   Table("client_logos"), Table("colors")>>
\* the password policy that follows magic_links is a row of config already
SqliteKeys == <<Table("groups"), Table("jwks"), Table("magic_links"), Table("refresh_tokens")>>
SqliteRoles == <<Table("roles"), Table("scopes"), Table("events"),
                 Table("user_attr_config"), Table("user_attr_values")>>
SqliteUserData == <<Table("users_values"), Table("sessions"),
                    Table("recent_passwords"), Table("webids")>>

PostgresProviders == <<Table("config"), Table("api_keys"),
                       Table("auth_providers"), Upsert("auth_provider_logos")>>
PostgresUsers == <<Table("users"), Table("passkeys")>>
PostgresClients == <<Table("clients"), Table("clients_dyn"),
                     Table("client_logos"), Table("colors")>>
PostgresKeys == <<Table("groups"), Table("jwks"), Table("magic_links"), Table("refresh_tokens")>>
PostgresRoles == <<Table("roles"), Table("scopes"), Table("events"),
                   Table("user_attr_config"), Table("user_attr_values")>>
PostgresUserData == <<Upsert("users_values"), Table("sessions"),
                      Table("recent_passwords"), Table("webids")>>

Order(from) ==
    IF from = "sqlite"
    THEN SqliteProviders \o SqliteUsers \o SqliteClients \o SqliteKeys \o SqliteRoles \o SqliteUserData
    ELSE PostgresProviders \o PostgresUsers \o PostgresClients \o PostgresKeys \o PostgresRoles
            \o PostgresUserData

Copies == Order("sqlite")
CopiedTables == {Copies[i].table : i \in DOMAIN Copies}

\* 23_devices.sql; nothing is copied to them
NotCopied == {"devices", "refresh_tokens_devices"}
Tables == CopiedTables \cup NotCopied

\* Tables whose rows go with the row of another table they reference, directly or by one
\* in between: ON DELETE CASCADE
Owned ==
    [auth_providers |-> {"auth_provider_logos"},
     users |-> {"passkeys", "magic_links", "refresh_tokens", "user_attr_values", "users_values",
                "sessions", "recent_passwords", "webids", "devices", "refresh_tokens_devices"},
     user_attr_config |-> {"user_attr_values"},
     clients |-> {"clients_dyn", "client_logos", "colors", "devices", "refresh_tokens_devices"}]

OwnedBy(t) == IF t \in DOMAIN Owned THEN Owned[t] ELSE {}
Owners(t) == {p \in DOMAIN Owned : t \in Owned[p]}
-----------------------------------------------------------------------------
(* A database: the state of each table (the installation's own rows, none, *)
(* some or all rows of the source), and the rows a start looks at.         *)

KeyAlgs == {KeyOrder[i] : i \in DOMAIN KeyOrder}

\* What 1_init_schema and 2_init_data leave in an empty database
Fresh == [tables |-> [t \in Tables |-> "own"],
          keys |-> {}, dev |-> {"init_client", "dev_users"},
          admin |-> "builtin", moved |-> FALSE, apiKey |-> "none",
          rauthy |-> FALSE, version |-> "none"]

Databases == [tables : [Tables -> {"own", "empty", "part", "src"}],
              keys : SUBSET KeyAlgs, dev : SUBSET {"init_client", "dev_users"},
              admin : {"builtin", "set", "none"}, moved : BOOLEAN,
              apiKey : {"none", "created", "known"},
              rauthy : BOOLEAN, version : {"none", "outdated", "app"}]
Whole(f) == f \notin {Missing, Torn}

\* No database is taken for one of them
ASSUME FileKinds == Missing # Torn /\ {Missing, Torn} \cap Databases = {}

\* A changed or deleted row leaves a table of the source's rows in part
Touched(d, ts) == [t \in Tables |-> IF t \in ts /\ d.tables[t] = "src" THEN "part" ELSE d.tables[t]]
-----------------------------------------------------------------------------

VARIABLES
    env,       \* what the deployment fixes
    db,        \* the database, for SQLite the file DATABASE_URL names
    bkp,       \* <database>.bkp
    tmp,       \* <database>.restore
    backups,   \* files under data/backup
    s3,        \* objects in the bucket
    pc,        \* node -> the step of its start
    opt,       \* node -> RESTORE_BACKUP and MIGRATE_DB_FROM of this start
    at,        \* node -> the next key to save or table to copy
    seen,      \* node -> version the database had before the migrations
    sched,     \* node -> its schedulers run
    starts,    \* starts so far
    orig,      \* history: the last whole database before a restore, until one is accepted
    faults     \* history: steps that were left half done

files == <<db, bkp, tmp, backups, s3>>
startupVars == <<env, files, pc, opt, at, seen, sched, starts, orig, faults>>

NoOptions == [restore |-> "none", from |-> "none"]
Goto(n, step) == pc' = [pc EXCEPT ![n] = step]

StartupTypeOK ==
    /\ {db, bkp, tmp} \cup backups \cup s3 \subseteq Databases \cup {Missing, Torn}
    /\ at \in [Nodes -> Nat] /\ starts \in 0 .. MaxStarts
    /\ seen \in [Nodes -> {"none", "outdated", "app"}] /\ sched \in [Nodes -> BOOLEAN]

StartupInit ==
    /\ env \in Deployments
    /\ db = Missing /\ bkp = Missing /\ tmp = Missing /\ backups = {} /\ s3 = {}
    /\ pc = [n \in Nodes |-> "off"] /\ opt = [n \in Nodes |-> NoOptions]
    /\ at = [n \in Nodes |-> 1] /\ seen = [n \in Nodes |-> "none"]
    /\ sched = [n \in Nodes |-> FALSE]
    /\ starts = 0 /\ orig = Missing /\ faults = {}
-----------------------------------------------------------------------------
(* main: a start, and its end at any step                                  *)

\* Without HA_MODE there is one replica; RESTORE_BACKUP and MIGRATE_DB_FROM
\* are the operator's choice for this start
Start(n) ==
    /\ pc[n] = "off" /\ starts < MaxStarts
    /\ env.ha \/ \A m \in Nodes : pc[m] = "off"
    /\ \E r \in {"none", "file", "s3"}, f \in {"none", "sqlite", "postgres"} :
         /\ opt' = [opt EXCEPT ![n] = [restore |-> r, from |-> f]]
         /\ Goto(n, IF r = "none" THEN "connect" ELSE "restore")
    /\ starts' = starts + 1
    /\ UNCHANGED <<env, files, at, seen, sched, orig, faults>>

\* The process ends, with a panic or without
Down(n) ==
    /\ Goto(n, "off")
    /\ opt' = [opt EXCEPT ![n] = NoOptions] /\ at' = [at EXCEPT ![n] = 1]
    /\ seen' = [seen EXCEPT ![n] = "none"] /\ sched' = [sched EXCEPT ![n] = FALSE]

\* It is killed, or a statement or file operation fails that it does not survive
Crash(n) ==
    /\ pc[n] # "off"
    /\ Down(n)
    /\ faults' = faults \cup {pc[n]}
    /\ UNCHANGED <<env, files, starts, orig>>

\* A step that changes at most the files, and goes on to the next one
Step(n, from, to) == pc[n] = from /\ Goto(n, to) /\ UNCHANGED <<env, opt, at, seen, sched, starts, faults>>

-----------------------------------------------------------------------------
(* check_restore_backup: SQLite only, before any connection is opened      *)

\* A torn .restore file is never read: the next start copies it again
RestoreFetch(n) ==
    /\ env.type = "sqlite"
    /\ \E f \in IF opt[n].restore = "file" THEN backups ELSE s3 : tmp' = f
    /\ Step(n, "restore", "keep")
    /\ UNCHANGED <<db, bkp, backups, s3, orig>>

\* `let _ = fs::copy(&db_url, &current_bkp)`: an error is ignored.  The files -shm and
\* -wal, which are copied and removed with it, count as parts of the one file.
KeepBegin(n) ==
    /\ Whole(db) \/ db = Torn
    /\ bkp' = Torn /\ orig' = IF Whole(db) THEN db ELSE orig
    /\ Step(n, "keep", "keeping")
    /\ UNCHANGED <<db, tmp, backups, s3>>

\* A variant for a check of the properties: a .bkp that is there already goes
KeepNothingOld(n) ==
    /\ db = Missing /\ bkp' = Missing
    /\ Step(n, "keep", "remove")
    /\ UNCHANGED <<db, tmp, backups, s3, orig>>
KeepNothing(n) ==
    /\ db = Missing
    /\ Step(n, "keep", "remove")
    /\ UNCHANGED <<files, orig>>

KeepEnd(n) ==
    /\ bkp' = db
    /\ Step(n, "keeping", "remove")
    /\ UNCHANGED <<db, tmp, backups, s3, orig>>

KeepFails(n) ==
    /\ pc[n] = "keeping" /\ Goto(n, "remove")
    /\ faults' = faults \cup {"keeping"}
    /\ UNCHANGED <<env, files, opt, at, seen, sched, starts, orig>>

RemoveCurrent(n) ==
    /\ db' = Missing
    /\ Step(n, "remove", "switch")
    /\ UNCHANGED <<bkp, tmp, backups, s3, orig>>

SwitchBegin(n) ==
    /\ db' = Torn
    /\ Step(n, "switch", "copying")
    /\ UNCHANGED <<bkp, tmp, backups, s3, orig>>

SwitchEnd(n) ==
    /\ db' = tmp
    /\ Step(n, "copying", "open")
    /\ UNCHANGED <<bkp, tmp, backups, s3, orig>>

\* A torn file may still open: the header is all that is read
RestoreAccept(n) ==
    /\ orig' = Missing
    /\ Step(n, "open", "clean")
    /\ UNCHANGED files

\* It does not open: the original is copied back, and the start is over
RestoreReject(n) ==
    /\ db' = Torn
    /\ bkp # Missing
    /\ Step(n, "open", "back")
    /\ UNCHANGED <<bkp, tmp, backups, s3, orig>>

CopyBack(n) ==
    /\ pc[n] = "back" /\ Down(n)
    /\ db' = bkp
    /\ UNCHANGED <<env, bkp, tmp, backups, s3, starts, orig, faults>>

RestoreClean(n) ==
    /\ bkp' = Missing
    /\ Step(n, "clean", "connect")
    /\ UNCHANGED <<db, tmp, backups, s3, orig>>

Restore(n) ==
    \/ RestoreFetch(n) \/ KeepBegin(n) \/ KeepNothing(n) \/ KeepEnd(n) \/ KeepFails(n)
    \/ RemoveCurrent(n) \/ SwitchBegin(n) \/ SwitchEnd(n)
    \/ RestoreAccept(n) \/ RestoreReject(n) \/ CopyBack(n) \/ RestoreClean(n)
-----------------------------------------------------------------------------
(* AppState::new_db_pool                                                   *)

\* A step of new_db_pool that changes the database
DbStep(n, from, to, d) == Step(n, from, to) /\ db' = d /\ UNCHANGED <<bkp, tmp, backups, s3, orig>>

\* connect_sqlite panics in HA_MODE; a torn file fails the schema migrations
Opens == ~(env.ha /\ env.type = "sqlite") /\ db # Torn

\* The schema migrations are one step: each is a transaction, and a start after one that
\* was killed goes on with the next.
Connect(n) ==
    /\ Opens
    /\ DbStep(n, "connect", "version", IF db = Missing THEN Fresh ELSE db)

\* is_db_compatible panics on a database that is too old
Compatible == db.version # "outdated"

CheckVersion(n) ==
    /\ pc[n] = "version" /\ Compatible
    /\ seen' = [seen EXCEPT ![n] = db.version]
    /\ Goto(n, "init")
    /\ UNCHANGED <<env, files, opt, at, sched, starts, orig, faults>>

\* migrate_init_prod: an empty table of keys is an un-initialized database
InitCheck(n) == DbStep(n, "init", IF db.keys = {} THEN "client" ELSE "migrate", db)

\* A variant for a check of the properties: the keys are saved here
DropClientKeysSaved(n) ==
    DbStep(n, "client", "users", [db EXCEPT !.dev = @ \ {"init_client"}, !.keys = KeyAlgs])

DropClient(n) == DbStep(n, "client", "users", [db EXCEPT !.dev = @ \ {"init_client"}])

DropUsers(n) == DbStep(n, "users", "admin", [db EXCEPT !.dev = @ \ {"dev_users"}])

\* UPDATE users SET email, password WHERE email = 'admin@localhost.de'
SetAdmin(n) ==
    DbStep(n, "admin", IF env.apiKey THEN "api_key" ELSE "save",
           IF db.moved \/ db.admin = "none" THEN db
           ELSE [db EXCEPT !.admin = "set", !.moved = env.ownEmail,
                           !.tables = Touched(db, {"users"})])

\* ApiKeyEntity::create is an INSERT: a key of that name ends the start
CreateApiKey(n) ==
    /\ pc[n] = "api_key" /\ db.apiKey = "none"
    /\ DbStep(n, "api_key", "api_secret",
              [db EXCEPT !.apiKey = "created", !.tables = Touched(db, {"api_keys"})])

\* BOOTSTRAP_API_KEY_SECRET may be missing: then nobody knows the secret
SetApiSecret(n) ==
    \E k \in {"created", "known"} : DbStep(n, "api_secret", "save", [db EXCEPT !.apiKey = k])

\* The keys are generated first and saved one by one
SaveFirstKey(n) ==
    /\ pc[n] = "save"
    /\ db' = [db EXCEPT !.keys = @ \cup {KeyOrder[at[n]]}, !.tables = Touched(db, {"jwks"})]
    /\ IF at[n] = Len(KeyOrder)
       THEN at' = [at EXCEPT ![n] = 1] /\ Goto(n, "migrate")
       ELSE at' = [at EXCEPT ![n] = @ + 1] /\ UNCHANGED pc
    /\ UNCHANGED <<env, bkp, tmp, backups, s3, opt, seen, sched, starts, orig, faults>>

InitProd(n) ==
    \/ InitCheck(n) \/ DropClient(n) \/ DropUsers(n) \/ SetAdmin(n)
    \/ CreateApiKey(n) \/ SetApiSecret(n) \/ SaveFirstKey(n)

-----------------------------------------------------------------------------
(* MIGRATE_DB_FROM: with HA_MODE it is only complained about               *)

Migrates(n) == opt[n].from # "none" /\ ~env.ha

MigrateCheck(n) == DbStep(n, "migrate", IF Migrates(n) THEN "delete" ELSE "lockout", db)

Copying(n) == Order(opt[n].from)[at[n]]

\* Deleting all rows of a table takes the rows that belong to them along
Emptied(d, t) ==
    [tables |-> [u \in Tables |->
                   IF u = t \/ u \in OwnedBy(t) THEN "empty"
                   ELSE IF t = "auth_providers" /\ u = "users" THEN Touched(d, {u})[u]
                   ELSE d.tables[u]],
     keys |-> IF t = "jwks" THEN {} ELSE d.keys,
     dev |-> IF t = "clients" THEN d.dev \ {"init_client"}
             ELSE IF t = "users" THEN d.dev \ {"dev_users"} ELSE d.dev,
     admin |-> IF t = "users" THEN "none" ELSE d.admin,
     moved |-> d.moved /\ t # "users",
     apiKey |-> IF t = "api_keys" THEN "none" ELSE d.apiKey,
     rauthy |-> d.rauthy /\ t # "clients",
     version |-> IF t = "config" THEN "none" ELSE d.version]

\* The rows of a source that is taken to be an initialised production database
Filled(d, t, all) ==
    [d EXCEPT !.tables[t] = IF all THEN "src" ELSE "part",
              !.keys = IF t # "jwks" THEN @ ELSE IF all THEN KeyAlgs ELSE {KeyOrder[1]},
              !.admin = IF t = "users" THEN "set" ELSE @,
              !.apiKey = IF t = "api_keys" /\ env.srcKey THEN "known" ELSE @,
              !.version = IF t = "config" THEN env.srcVersion ELSE @]

DeleteRows(n) == pc[n] = "delete" /\ DbStep(n, "delete", "insert", Emptied(db, Copying(n).table))

\* A row needs the rows it references, and a statement the target understands
MayInsert(n) ==
    /\ \A p \in Owners(Copying(n).table) : db.tables[p] # "empty"
    /\ Copying(n).upsert /\ env.type = "postgres" => ~env.srcUpserts

InsertSome(n) ==
    /\ pc[n] = "insert" /\ db.tables[Copying(n).table] = "empty" /\ MayInsert(n)
    /\ DbStep(n, "insert", "insert", Filled(db, Copying(n).table, FALSE))

InsertLast(n) ==
    /\ pc[n] = "insert" /\ MayInsert(n)
    /\ db' = Filled(db, Copying(n).table, TRUE)
    /\ IF at[n] = Len(Order(opt[n].from))
       THEN at' = [at EXCEPT ![n] = 1] /\ Goto(n, "lockout")
       ELSE at' = [at EXCEPT ![n] = @ + 1] /\ Goto(n, "delete")
    /\ UNCHANGED <<env, bkp, tmp, backups, s3, opt, seen, sched, starts, orig, faults>>

Migrate(n) == MigrateCheck(n) \/ DeleteRows(n) \/ InsertSome(n) \/ InsertLast(n)

-----------------------------------------------------------------------------

\* anti_lockout updates the client of the admin UI; an error is only logged
AntiLockout(n) == DbStep(n, "lockout", "upsert", [db EXCEPT !.rauthy = TRUE])

AntiLockoutFails(n) ==
    /\ pc[n] = "lockout" /\ Goto(n, "upsert")
    /\ faults' = faults \cup {"lockout"}
    /\ UNCHANGED <<env, files, opt, at, seen, sched, starts, orig>>

\* DbVersion::upsert compares with the version read before the migration
UpsertVersion(n) ==
    DbStep(n, "upsert", "serving", IF seen[n] = "app" THEN db ELSE [db EXCEPT !.version = "app"])

\* scheduler_main: s3_backup_init_test panics in the task that would start them
Schedulers(n) ==
    /\ pc[n] = "serving" /\ ~sched[n] /\ sched' = [sched EXCEPT ![n] = TRUE]
    /\ UNCHANGED <<env, files, pc, opt, at, seen, starts, orig, faults>>

-----------------------------------------------------------------------------
(* backup_db, and the node that goes on serving meanwhile                  *)

BackupBegin(n) ==
    /\ sched[n] /\ env.type = "sqlite" /\ Cardinality(backups) < MaxBackups
    /\ backups' = backups \cup {Torn}
    /\ Step(n, "serving", "vacuum")
    /\ UNCHANGED <<db, bkp, tmp, s3, orig>>

\* VACUUM INTO; older backups may be past their retention
BackupEnd(n) ==
    /\ \E old \in SUBSET (backups \ {Torn}) : backups' = ((backups \ {Torn}) \ old) \cup {db}
    /\ Step(n, "vacuum", "push")
    /\ UNCHANGED <<db, bkp, tmp, s3, orig>>

\* With S3 configured the file is pushed as well; an error is logged
BackupPush(n) ==
    /\ s3' \in {s3, s3 \cup {db}}
    /\ Step(n, "push", "serving")
    /\ UNCHANGED <<db, bkp, tmp, backups, orig>>

Backup(n) == BackupBegin(n) \/ BackupEnd(n) \/ BackupPush(n)

-----------------------------------------------------------------------------

NodeNext(n) ==
    \/ Start(n) \/ Crash(n) \/ Restore(n)
    \/ Connect(n) \/ CheckVersion(n) \/ InitProd(n) \/ Migrate(n)
    \/ AntiLockout(n) \/ AntiLockoutFails(n) \/ UpsertVersion(n)
    \/ Schedulers(n) \/ Backup(n)

StartupNext == \E n \in Nodes : NodeNext(n)

StartupSpec == StartupInit /\ [][StartupNext]_startupVars
-----------------------------------------------------------------------------
(* Properties                                                              *)

Serving(n) == pc[n] \in {"serving", "vacuum", "push"}

\* No node answers requests while the development accounts or init_client are
\* there, or the administrator has the password of the repository: whichever
\* start was killed where, and whatever two replicas do in between, because
\* migrate_init_prod saves the first key after everything else
NoDefaultCredentials ==
    \A n \in Nodes : Serving(n) => db.dev = {} /\ db.admin # "builtin"

\* A start with MIGRATE_DB_FROM that comes to serving has copied all rows of every table
\* that db_migrate copies, though rows are copied one by one without a transaction, starts
\* are killed in between, and deleting the rows of a table takes rows of other tables along;
\* the client of its own admin UI is right.  The devices and their refresh tokens are not
\* copied: the target then has neither those of the source nor its own.
MigratedWhole ==
    StartupTypeOK /\ \A n \in Nodes : Serving(n) /\ Migrates(n) =>
        /\ \A t \in Tables : db.tables[t] = IF t \in NotCopied THEN "empty" ELSE "src"
        /\ db.keys = KeyAlgs
        /\ db.rauthy \/ "lockout" \in faults

\* Until a restored backup has been opened, the database it replaces is in its
\* place or in the .bkp file, also if the backup does not open, and if a start
\* is killed before it copies over the file and repeated; not if the copy to
\* .bkp failed, or a start was killed between that copy and a backup that opens
OriginalKept ==
    orig # Missing /\ faults \cap {"keeping", "copying", "open", "back"} = {} => orig \in {db, bkp}
=============================================================================
