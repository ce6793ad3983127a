-------------------------- MODULE ContentBootstrap --------------------------
(***************************************************************************)
(* The production bootstrap (src/production-bootstrap): an operator copies *)
(* authored content, domain by domain, from the development database into  *)
(* production.  It only ever creates rows; a manifest on disk says which,  *)
(* so that a run that was cut short can be undone.                         *)
(*                                                                         *)
(* Rows are read model by model while authors and administrators go on     *)
(* editing; a domain's rows are written in one transaction, whose foreign  *)
(* and primary keys the database checks.  Two runs may overlap.            *)
(***************************************************************************)
EXTENDS Absent, Naturals, FiniteSets, Sequences, SequencesExt

CONSTANTS
    Models,         \* CONTENT_MODELS: [domain, parent] of each, parent None or a model
    ModelOrder,     \* the order of CONTENT_MODELS
    DOMAIN_ORDER,
    RowIds,         \* ids of rows, each of one model: [model, parent]
    Runs,           \* invocations of the script
    Arguments,      \* their command lines: [mode, confirmDb, confirmProduction]
    Targets,        \* what the environment gives: see preflight
    FirstSource, FirstProduction,   \* rows to begin with
    MaxChanges      \* bound: edits of either database

Domains == ToSet(DOMAIN_ORDER)
Contents == {"text", "__test__", "edited"}
ManifestType ==
    [planned : SUBSET RowIds, status : [Domains -> {"pending", "committed", "failed"}]]

\* A model comes up once and so does a domain, a parent is a row, production
\* starts whole, and a migration is what it says and how its lines end.
ASSUME BootstrapAssumption ==
    /\ MaxChanges \in Nat
    /\ ModelOrder \in Seq(DOMAIN Models) /\ IsInjective(ModelOrder)
    /\ DOMAIN_ORDER \in Seq(Domains) /\ IsInjective(DOMAIN_ORDER)
    /\ \A x \in RowIds : x.parent \in RowIds \cup {None}
    /\ None \notin Contents /\ None \notin ManifestType
    /\ FirstSource \in [RowIds -> Contents \cup {None}]
    /\ FirstProduction \in [RowIds -> Contents \cup {None}]
    /\ \A x \in RowIds : FirstProduction[x] # None =>
          /\ FirstProduction[x] # "__test__"
          /\ x.parent # None => FirstProduction[x.parent] # None
    /\ \A t \in Targets : \A m \in t.migrations :
          m.canonical = [sql |-> m.canonical.sql, eol |-> m.canonical.eol]
          /\ m.working = [sql |-> m.working.sql, eol |-> m.working.eol]

VARIABLES
    source,         \* [RowIds -> content, or None]
    production,
    script,         \* the runs
    manifests,      \* bootstrap-logs: [Runs -> manifest, or None]
    wrote,          \* history: the rows each run created
    unsure,         \* history: domains committed without the run knowing
    changes

bootstrapVars == <<source, production, script, manifests, wrote, unsure, changes>>

NewRun == [pc |-> "new", mode |-> None, todo |-> <<>>, diff |-> <<>>, domains |-> <<>>, count |-> None]

BootstrapInit ==
    /\ source = FirstSource /\ production = FirstProduction
    /\ script = [r \in Runs |-> NewRun]
    /\ manifests = [r \in Runs |-> None] /\ wrote = [r \in Runs |-> {}]
    /\ unsure = {}
    /\ changes = 0
-----------------------------------------------------------------------------
(* Preflight                                                               *)

\* A migration.sql is its statements and its line endings; a checksum tells
\* both apart, one of normalised bytes only the statements.
normalizeLineEndings(bytes) == [bytes EXCEPT !.eol = "LF"]

(* Mutant: the file on disk need not be the one that was applied.          *)
classifiedByContent(m) ==
    \/ m.applied = m.canonical
    \/ normalizeLineEndings(m.canonical) = normalizeLineEndings(m.working)

\* classifySourceMigrationChecksum: MATCH or EOL_ONLY
classified(m) ==
    \/ m.applied = m.canonical
    \/ /\ m.applied = m.working
       /\ normalizeLineEndings(m.canonical) = normalizeLineEndings(m.working)

\* The guards of main, in their order, before the first row is read: declared
\* identities, the live source, clean histories, one set of migrations, their
\* checksums, one schema.
preflight(t) ==
    /\ t.source.database = "engmasterai" /\ t.source.host \in {"localhost", "127.0.0.1"}
    /\ t.destination # None
    /\ t.source # [host |-> t.destination.host, database |-> t.destination.database]
    /\ t.liveSource = t.source.database
    /\ t.clean /\ t.sameNames
    /\ \A m \in t.migrations : m.produced = m.canonical /\ classified(m)
    /\ t.sameSchema

\* assertConfirmedDestinationName and assertProductionApplyAcknowledged
confirmed(arguments, t) ==
    arguments.confirmDb = t.liveDestination /\ arguments.confirmProduction
-----------------------------------------------------------------------------
(* A run                                                                   *)

keeps(r, run) == script' = [script EXCEPT ![r] = run]
domainRows(plan, domain) == {x \in plan : Models[x.model].domain = domain}

\* diffRows; a row that production has in other words is a conflict.
diffRows(rows, there) ==
    [insert   |-> {x \in DOMAIN rows : rows[x] # None /\ there[x] = None},
     conflict |-> {x \in DOMAIN rows : rows[x] # None /\ there[x] \notin {None, rows[x]}}]

Launch(r) ==
    /\ script[r].pc = "new"
    /\ \E arguments \in Arguments, t \in Targets :
         IF ~preflight(t) THEN keeps(r, [NewRun EXCEPT !.pc = "refused"])
         ELSE keeps(r, [NewRun EXCEPT !.pc = "diff", !.todo = ModelOrder,
                          !.mode = IF arguments.mode # "apply" THEN "read"
                                   ELSE IF confirmed(arguments, t) THEN "apply" ELSE "unconfirmed",
                          !.diff = [insert |-> {}, conflict |-> {}, rows |-> [x \in RowIds |-> None]]])
    /\ UNCHANGED <<source, production, manifests, wrote, changes, unsure>>

\* computeAllDiffs: both databases, a model at a time
DiffModel(r) ==
    /\ script[r].pc = "diff" /\ script[r].todo # <<>>
    /\ LET model == Head(script[r].todo)
           rows == [x \in RowIds |-> IF x.model = model THEN source[x] ELSE None]
           diff == diffRows(rows, production)
       IN  keeps(r, [script[r] EXCEPT !.todo = Tail(@),
                        !.diff = [insert   |-> @.insert \cup diff.insert,
                                  conflict |-> @.conflict \cup diff.conflict,
                                  rows     |-> [x \in RowIds |-> IF x.model = model THEN rows[x] ELSE @.rows[x]]]])
    /\ UNCHANGED <<source, production, manifests, wrote, changes, unsure>>

\* assertNoFixtureContamination, the confirmations; a dry run reports and ends.
contaminated(r) == \E x \in RowIds : script[r].diff.rows[x] = "__test__"

EndDiff(r) ==
    /\ script[r].pc = "diff" /\ script[r].todo = <<>>
    /\ keeps(r, [script[r] EXCEPT !.pc = IF contaminated(r) \/ script[r].mode # "apply" THEN "ended"
                                         ELSE "manifest"])
    /\ UNCHANGED <<source, production, manifests, wrote, changes, unsure>>

\* buildInitialManifest, persisted before the first write
WriteManifest(r) ==
    /\ script[r].pc = "manifest"
    /\ manifests' = [manifests EXCEPT ![r] =
            [planned |-> script[r].diff.insert, status |-> [d \in Domains |-> "pending"]]]
    /\ keeps(r, [script[r] EXCEPT !.pc = "domain", !.domains = DOMAIN_ORDER])
    /\ UNCHANGED <<source, production, wrote, changes, unsure>>

(* Mutant: a row that is there is written over.                             *)
mayUpsert(rows) ==
    \A x \in rows : x.parent # None => production[x.parent] # None \/ x.parent \in rows

\* createMany, model by model in one transaction: a key that is taken, or a
\* parent that is not there, undoes the domain; so it seems when the answer to
\* COMMIT is lost in the tunnel.
mayCreate(rows) ==
    \A x \in rows :
        /\ production[x] = None
        /\ x.parent # None => production[x.parent] # None \/ x.parent \in rows

WriteDomain(r) ==
    /\ script[r].pc = "domain" /\ script[r].domains # <<>>
    /\ LET domain == Head(script[r].domains)
           rows == domainRows(script[r].diff.insert, domain)
           written == [x \in RowIds |-> IF x \in rows THEN script[r].diff.rows[x] ELSE production[x]]
       IN  IF domainRows(script[r].diff.conflict, domain) # {} \/ ~mayCreate(rows)
           THEN keeps(r, [script[r] EXCEPT !.pc = "failed"]) /\ UNCHANGED <<production, wrote, unsure>>
           ELSE /\ production' = written
                /\ wrote' = [wrote EXCEPT ![r] = @ \cup rows]
                /\ \/ keeps(r, [script[r] EXCEPT !.pc = "committed"]) /\ UNCHANGED unsure
                   \/ /\ rows # {} /\ unsure' = unsure \cup {<<r, domain>>}
                      /\ keeps(r, [script[r] EXCEPT !.pc = "failed"])
    /\ UNCHANGED <<source, manifests, changes>>

\* withDomainStatus and persistManifest, by which a failure ends the run
MarkDomain(r) ==
    /\ script[r].pc \in {"committed", "failed"}
    /\ manifests' = [manifests EXCEPT ![r].status[Head(script[r].domains)] = script[r].pc]
    /\ keeps(r, IF script[r].pc = "failed" THEN [script[r] EXCEPT !.pc = "ended"]
                ELSE [script[r] EXCEPT !.pc = "domain", !.domains = Tail(@)])
    /\ UNCHANGED <<source, production, wrote, changes, unsure>>

\* runVerification counts what is still missing; it changes nothing.
Verify(r) ==
    /\ script[r].pc = "domain" /\ script[r].domains = <<>>
    /\ keeps(r, [script[r] EXCEPT !.pc = "verified"])
    /\ UNCHANGED <<source, production, manifests, wrote, changes, unsure>>

\* Interrupted, or a statement that timed out: an open transaction is undone.
Interrupt(r) ==
    /\ script[r].pc \in {"diff", "manifest", "domain", "committed", "failed"}
    /\ keeps(r, [script[r] EXCEPT !.pc = "ended"])
    /\ UNCHANGED <<source, production, manifests, wrote, changes, unsure>>

\* Editors of either database.
Edit ==
    /\ changes < MaxChanges /\ changes' = changes + 1
    /\ \E x \in RowIds :
         \/ /\ x.parent # None => source[x.parent] # None
            /\ \E content \in {"text", "__test__"} : source' = [source EXCEPT ![x] = content]
            /\ UNCHANGED production
         \/ /\ x.parent # None => production[x.parent] # None
            /\ production' = [production EXCEPT ![x] = "edited"] /\ UNCHANGED source
         \/ /\ production[x] # None /\ \A y \in RowIds : y.parent = x => production[y] = None
            /\ production' = [production EXCEPT ![x] = None] /\ UNCHANGED source
    /\ UNCHANGED <<script, manifests, wrote, unsure>>

BootstrapNext ==
    \/ \E r \in Runs : \/ Launch(r) \/ DiffModel(r) \/ EndDiff(r) \/ WriteManifest(r)
                       \/ WriteDomain(r) \/ MarkDomain(r) \/ Verify(r) \/ Interrupt(r)
    \/ Edit

BootstrapSpec == BootstrapInit /\ [][BootstrapNext]_bootstrapVars
-----------------------------------------------------------------------------
(* Properties                                                              *)

planOf(r, d) == domainRows(manifests[r].planned, d)

(* "An interrupted run's rollback never depends on memory": whenever a run *)
(* stops, each row it created is in its manifest; a domain it marked was   *)
(* written as a whole, or not at all when it says so, unless the answer to  *)
(* its commit was lost.                                                    *)
RollbackIsSafe ==
    \A r \in Runs :
        /\ wrote[r] # {} => manifests[r] # None /\ wrote[r] \subseteq manifests[r].planned
        /\ manifests[r] # None =>
              \A d \in Domains :
                 /\ manifests[r].status[d] = "committed" => planOf(r, d) \subseteq wrote[r]
                 /\ manifests[r].status[d] = "failed" /\ <<r, d>> \notin unsure =>
                       planOf(r, d) \cap wrote[r] = {}
                 /\ planOf(r, d) \cap wrote[r] \in {{}, planOf(r, d)}

(* No child without its parent, and nothing from the test fixtures.        *)
ContentWhole ==
    \A x \in RowIds :
        production[x] # None => /\ production[x] # "__test__"
                                /\ x.parent # None => production[x.parent] # None

(* What passes for the same migration has the same statements on all       *)
(* three sides, whatever the line endings and whatever is on disk.         *)
MigrationsProven ==
    \A t \in Targets :
        preflight(t) => \A m \in t.migrations : m.applied.sql = m.canonical.sql
                                                /\ m.produced.sql = m.canonical.sql

BootstrapSafe == RollbackIsSafe /\ ContentWhole /\ MigrationsProven

(* A run only creates: what production holds changes by an editor's hand.  *)
OnlyCreates ==
    [][changes' = changes =>
          \A x \in RowIds : production[x] # None => production'[x] = production[x]]_bootstrapVars
=============================================================================
