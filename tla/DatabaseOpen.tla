----------------------------- MODULE DatabaseOpen -----------------------------
(***************************************************************************)
(* How the Gateway opens a database that an earlier release left behind:   *)
(* GatewayDatabase.__init__ and its migrations (gateway/database.py), the  *)
(* one-time rewrites of GatewayRepository (gateway/repository.py) and of   *)
(* create_app (gateway/app.py).  Statements outside a transaction are      *)
(* durable one by one; the process may be killed between any two.          *)
(*                                                                         *)
(* A row is its id.  Of the tables, those that are rebuilt are kept: the   *)
(* maintenance jobs, the two tables that refer to them, and the grants of  *)
(* workflows and models.  SQLite redirects a reference to a table that is  *)
(* renamed.  An exception rolls the transaction back and ends the start,   *)
(* which is what Kill does.                                                *)
(***************************************************************************)
EXTENDS Naturals

CONSTANTS
    NoTable,      \* a table that does not exist
    NewColumns,   \* columns that were added since version 1
    NewJobs,      \* the jobs that may be accepted
    MaxKills      \* bound on kills

VARIABLES
    file,    \* the database file
    work,    \* the database as the connection sees it
    opening, \* where the start of the Gateway is
    kept,    \* what the database was given to keep
    kills    \* kills left

openVars == <<file, work, opening, kept, kills>>

Tables == {"jobs", "artifacts", "receipts", "grants"}

\* _v1_... and _v2_...
Old == [jobs |-> "old_jobs", artifacts |-> "old_artifacts", receipts |-> "old_receipts",
        grants |-> "old_grants"]

TableNames == Tables \cup {Old[t] : t \in Tables}

Table(t, new, rows) ==
    [new |-> new, rows |-> rows, ref |-> IF t \in {"artifacts", "receipts"} THEN "jobs" ELSE "none"]

\* Job j1 installed a capability; a bundled workflow of an earlier release has
\* since been retired; one pending enrollment was claimed with a proof, and one
\* without.
Legacy(version, rows) ==
    [version |-> version,
     tab     |-> [n \in TableNames |-> IF n \in DOMAIN rows
                                  THEN Table(n, version = 3, rows[n]) ELSE NoTable],
     columns |-> IF version = 3 THEN NewColumns ELSE {},
     unique  |-> version = 3,
     marks   |-> IF version = 3 THEN {"sources"} ELSE {},
     revoked |-> {},
     claims  |-> IF version = 0 THEN {} ELSE {"proved", "unproved"},
     plain   |-> version # 0,
     answers |-> IF version = 0 THEN {} ELSE {"finish", "maintenance_create", "other"}]

LegacyDatabases ==
    {Legacy(0, <<>>),
     Legacy(1, [jobs |-> {"j1", "j2"}, artifacts |-> {"j1"}])}
    \cup {Legacy(v, [jobs |-> {"j1", "j2"}, artifacts |-> {"j1"}, receipts |-> receipts,
                     grants |-> IF v = 2 THEN {"j1"} ELSE {"j1", "retired"}]) :
            v \in {2, 3}, receipts \in {{}, {"j2"}}}

Rows(d, t) == IF d.tab[t] = NoTable THEN {} ELSE d.tab[t].rows

OpenInit ==
    /\ file \in LegacyDatabases
    /\ work = file
    /\ opening = <<"down">>
    /\ kept = [rows |-> [t \in Tables |-> Rows(file, t)], revoked |-> {}, answers |-> {}]
    /\ kills = MaxKills

\* A statement of its own transaction, and one of an open transaction.
Autocommit(d) == file' = d /\ work' = d

Within(d) == work' = d /\ UNCHANGED file

Commit(d) == Autocommit(d)

\* The start goes from one step to the next: <<"v1", "copy">> is a step of v1.
At(pc, next) == opening = pc /\ opening' = next /\ UNCHANGED <<kept, kills>>

-----------------------------------------------------------------------------
(* GatewayDatabase.__init__ *)

Start == At(<<"down">>, <<"schema">>) /\ UNCHANGED <<file, work>>

\* executescript: CREATE TABLE IF NOT EXISTS, table by table.
CreateTable(t) ==
    /\ At(<<"schema">>, <<"schema">>)
    /\ work.tab[t] = NoTable
    /\ Autocommit([work EXCEPT !.tab[t] = Table(t, TRUE, {})])

SchemaDone ==
    /\ \A t \in Tables : work.tab[t] # NoTable
    /\ At(<<"schema">>, <<"columns">>)
    /\ UNCHANGED <<file, work>>

AddColumn(c) ==
    /\ At(<<"columns">>, <<"columns">>)
    /\ c \notin work.columns
    /\ Autocommit([work EXCEPT !.columns = @ \cup {c}])

\* idx_broker_commands_key is dropped and created again.
DropKeyIndex ==
    /\ work.columns = NewColumns
    /\ At(<<"columns">>, <<"index">>)
    /\ Autocommit([work EXCEPT !.unique = FALSE])

CreateKeyIndex ==
    /\ At(<<"index">>, <<"version">>)
    /\ Autocommit([work EXCEPT !.unique = TRUE])

CheckVersion ==
    \/ /\ work.version = 0 /\ At(<<"version">>, <<"sources">>)
       /\ Autocommit([work EXCEPT !.version = 3])
    \/ work.version = 1 /\ At(<<"version">>, <<"v1">>) /\ UNCHANGED <<file, work>>
    \/ work.version = 2 /\ At(<<"version">>, <<"v2">>) /\ UNCHANGED <<file, work>>
    \/ work.version = 3 /\ At(<<"version">>, <<"sources">>) /\ UNCHANGED <<file, work>>

-----------------------------------------------------------------------------
(* Rebuilding tables whose constraints changed *)

Dropped(d, S) == [d EXCEPT !.tab = [n \in TableNames |-> IF n \in S THEN NoTable ELSE d.tab[n]]]

\* ALTER TABLE ... RENAME redirects the references of every table to it.
Renamed(d, S) ==
    LET redirected(t) ==
            IF t = NoTable \/ t.ref \notin S THEN t ELSE [t EXCEPT !.ref = Old[@]]
    IN  [d EXCEPT !.tab = [n \in TableNames |->
            IF n \in S THEN NoTable
            ELSE IF \E t \in S : n = Old[t]
                 THEN redirected(d.tab[CHOOSE t \in S : n = Old[t]])
                 ELSE redirected(d.tab[n])]]

Copied(d, S) ==
    [d EXCEPT !.tab = [n \in TableNames |->
        IF n \in S THEN Table(n, TRUE, d.tab[Old[n]].rows) ELSE d.tab[n]]]

\* PRAGMA foreign_key_check.
ForeignKeysHold(d) ==
    \A n \in TableNames : (d.tab[n] # NoTable /\ d.tab[n].ref # "none") =>
                         d.tab[n].rows \subseteq Rows(d, d.tab[n].ref)

RebuiltKeepingReceipts ==
    [v1 |-> {"jobs", "artifacts"}, v2 |-> {"jobs", "artifacts"}, sources |-> {"grants"}]

\* A table that refers to a renamed one is rebuilt with it.
RebuiltTables ==
    [v1 |-> {"jobs", "artifacts"}, v2 |-> {"jobs", "artifacts", "receipts"}, sources |-> {"grants"}]

\* Version 1 has no receipts: the table SCHEMA has just created is dropped, or
\* it would refer to the renamed one.
RenameTables(v) ==
    /\ At(<<v>>, <<v, "copy">>)
    /\ Within(Renamed(IF v = "v1" THEN Dropped(work, {"receipts"}) ELSE work, RebuiltTables[v]))

\* Grants of an earlier shape name the job they come from, not a source.
RenameGrants ==
    /\ At(<<"sources">>, <<"sources", "copy">>)
    /\ ~work.tab["grants"].new
    /\ Within(Renamed(work, {"grants"}))

CopyGrants ==
    /\ At(<<"sources", "copy">>, <<"sources", "drop">>)
    /\ Within(Copied(work, {"grants"}))

CopyRows(v) ==
    /\ At(<<v, "copy">>, <<v, "drop">>)
    /\ Within(Copied(work, RebuiltTables[v]))

DropOld(v) ==
    /\ At(<<v, "drop">>, <<v, "check">>)
    /\ Within(LET d == Dropped(work, {Old[t] : t \in RebuiltTables[v]})
              IN  IF v = "v1" THEN [d EXCEPT !.tab["receipts"] = Table("receipts", TRUE, {})]
                  ELSE d)

FinishRebuild(v) ==
    /\ ForeignKeysHold(work)
    /\ At(<<v, "check">>, IF v = "sources" THEN <<"claims">> ELSE <<"sources">>)
    /\ Commit(IF v = "sources" THEN [work EXCEPT !.marks = @ \cup {"sources"}]
              ELSE [work EXCEPT !.version = 3])

SourcesDone ==
    /\ At(<<"sources">>, <<"claims">>)
    /\ work.tab["grants"].new
    /\ Autocommit([work EXCEPT !.marks = @ \cup {"sources"}])

-----------------------------------------------------------------------------
(* One-time rewrites, each a transaction of its own *)

Once(mark, pc, next, d) ==
    /\ At(pc, next)
    /\ Commit(IF mark \in work.marks THEN work ELSE [d EXCEPT !.marks = @ \cup {mark}])

\* A pending claim without a proof is expired.
MigrateClaims ==
    Once("claims", <<"claims">>, <<"scrub">>,
         [work EXCEPT !.claims = {IF c = "unproved" THEN "expired" ELSE "safe" : c \in @}])

\* The workflows this release bundles are granted, those it retired revoked.
Bundled(d) ==
    [d EXCEPT !.tab["grants"].rows = @ \cup {"bundled"},
              !.revoked = (@ \ {"bundled"}) \cup (d.tab["grants"].rows \cap {"retired"})]

\* Grants are rebuilt from the jobs that succeeded; a grant that exists stays
\* as it is, revoked or not.
Rebuilt(d) == [d EXCEPT !.tab["grants"].rows = @ \cup (Rows(d, "jobs") \cap {"j1"})]

ScrubMetadata ==
    Once("scrub", <<"scrub">>, <<"policy">>, [Rebuilt(Bundled(work)) EXCEPT !.plain = FALSE])

ReconcileBundledPolicy == At(<<"policy">>, <<"recipes">>) /\ Commit(Bundled(work))

\* create_app: answers of earlier releases that cannot be replayed are deleted.
SafeRecipes ==
    Once("recipes", <<"recipes">>, <<"ownership">>, [work EXCEPT !.answers = @ \ {"finish"}])

OwnershipRecipes ==
    Once("ownership", <<"ownership">>, <<"open">>, [work EXCEPT !.answers = @ \ {"maintenance_create"}])

-----------------------------------------------------------------------------
(* The open Gateway, and kills *)

AcceptJob(j) ==
    /\ opening = <<"open">>
    /\ j \notin Rows(work, "jobs")
    /\ LET d == [work EXCEPT !.tab["jobs"].rows = @ \cup {j}, !.tab["receipts"].rows = @ \cup {j}]
       IN  ForeignKeysHold(d) /\ Commit(d)
    /\ kept' = [kept EXCEPT !.rows["jobs"] = @ \cup {j}, !.rows["receipts"] = @ \cup {j}]
    /\ UNCHANGED <<opening, kills>>

RevokeGrant ==
    /\ opening = <<"open">>
    /\ "j1" \in Rows(work, "grants")
    /\ Commit([work EXCEPT !.revoked = @ \cup {"j1"}])
    /\ kept' = [kept EXCEPT !.revoked = {"j1"}]
    /\ UNCHANGED <<opening, kills>>

StoreFinishAnswer ==
    /\ opening = <<"open">>
    /\ Commit([work EXCEPT !.answers = @ \cup {"finish"}])
    /\ kept' = [kept EXCEPT !.answers = {"finish"}]
    /\ UNCHANGED <<opening, kills>>

Kill ==
    /\ opening # <<"down">> /\ kills > 0
    /\ kills' = kills - 1
    /\ opening' = <<"down">>
    /\ work' = file
    /\ UNCHANGED <<file, kept>>

OpenNext ==
    \/ Start \/ SchemaDone \/ DropKeyIndex \/ CreateKeyIndex \/ CheckVersion
    \/ \E t \in Tables : CreateTable(t)
    \/ \E c \in NewColumns : AddColumn(c)
    \/ \E v \in {"v1", "v2"} : RenameTables(v) \/ CopyRows(v)
    \/ RenameGrants \/ CopyGrants
    \/ \E v \in DOMAIN RebuiltTables : DropOld(v) \/ FinishRebuild(v)
    \/ SourcesDone \/ MigrateClaims \/ ScrubMetadata \/ ReconcileBundledPolicy
    \/ SafeRecipes \/ OwnershipRecipes
    \/ \E j \in NewJobs : AcceptJob(j)
    \/ RevokeGrant \/ StoreFinishAnswer \/ Kill

-----------------------------------------------------------------------------
\* Whenever the Gateway serves, and however often its start was interrupted, the
\* database has the current schema, no reference to a table that is gone, every
\* row it was given, every revocation since, and every answer it has stored
\* (GatewayDatabase.__init__, the migrations and their markers).
OpenedIsWhole ==
    opening = <<"open">> =>
        /\ file.version = 3 /\ file.unique /\ file.columns = NewColumns
        /\ \A n \in TableNames : file.tab[n] # NoTable <=> n \in Tables
        /\ \A t \in Tables :
               file.tab[t].new /\ file.tab[t].ref \in Tables \cup {"none"}
        /\ \A t \in Tables : kept.rows[t] \subseteq file.tab[t].rows
        /\ kept.revoked \subseteq file.revoked
        /\ kept.answers \subseteq file.answers
        /\ "retired" \in file.tab["grants"].rows => "retired" \in file.revoked
        /\ "unproved" \notin file.claims /\ ~file.plain
=============================================================================
