----------------------------- MODULE Migrations -----------------------------
(***************************************************************************)
(* The migration runner (indexer/src/migrate.js): every process runs it    *)
(* when it starts (db.init), without a lock between them.  The files are   *)
(* those of one release, in the order of their names.  A file's plan is    *)
(* what parseMigrationPlan made of it: phases of statements, which run     *)
(* one by one (online) or in a transaction.                                *)
(***************************************************************************)
EXTENDS Integers, Sequences, FiniteSets

CONSTANTS
    Migrators,           \* processes that start
    LastFile,            \* the files are 1..LastFile
    Plan,                \* the plan of each file
    MaxMigrationFaults   \* bound: crashes and statements that fail

ASSUME MigrationsAssumption ==
    /\ LastFile \in Nat /\ MaxMigrationFaults \in Nat
    /\ Plan \in [1..LastFile -> Seq([online : BOOLEAN, size : Nat \ {0}])]

VARIABLES
    executed,   \* the statements whose effect is in the schema
    recorded,   \* schema_migrations
    migrator,   \* a process: running?, the versions it read, its place
    migrationFaults

migrationVars == <<executed, recorded, migrator, migrationFaults>>

Files == 1..LastFile

\* A statement is named by its file, phase and number.
PhaseOf(f, h)  == {<<f, h, k>> : k \in 1..Plan[f][h].size}
Statements(f)  == UNION {PhaseOf(f, h) : h \in DOMAIN Plan[f]}

Stopped == [running |-> FALSE, applied |-> {}, file |-> 0, phase |-> 1, next |-> 1]

MigrationsInit ==
    /\ executed = {} /\ recorded = {}
    /\ migrator = [p \in Migrators |-> Stopped] /\ migrationFaults = 0

MigrationFault == migrationFaults < MaxMigrationFaults /\ migrationFaults' = migrationFaults + 1

\* The loop goes on to the first file after f that is not in the set read at the start,
\* or returns.
Proceed(p, f, applied) ==
    LET rest == {g \in Files : g > f /\ g \notin applied}
    IN  \/ rest = {} /\ migrator' = [migrator EXCEPT ![p] = Stopped]
        \/ \E g \in rest :
              /\ \A q \in rest : g <= q
              /\ migrator' = [migrator EXCEPT ![p] = [running |-> TRUE, applied |-> applied,
                                                      file |-> g, phase |-> 1, next |-> 1]]

StartMigrations(p) ==
    /\ ~migrator[p].running
    /\ Proceed(p, 0, recorded)
    /\ UNCHANGED <<executed, recorded, migrationFaults>>

InPhase(p, online) ==
    /\ migrator[p].running
    /\ migrator[p].phase \in DOMAIN Plan[migrator[p].file]
    /\ Plan[migrator[p].file][migrator[p].phase].online = online

\* An online statement commits on its own.
ExecuteOnline(p) ==
    LET m == migrator[p]
    IN  /\ InPhase(p, TRUE)
        /\ executed' = executed \cup {<<m.file, m.phase, m.next>>}
        /\ migrator' = [migrator EXCEPT ![p] =
               IF m.next < Plan[m.file][m.phase].size THEN [m EXCEPT !.next = @ + 1]
               ELSE [m EXCEPT !.phase = @ + 1, !.next = 1]]
        /\ UNCHANGED <<recorded, migrationFaults>>

ExecuteTransaction(p) ==
    LET m == migrator[p]
    IN  /\ InPhase(p, FALSE)
        /\ executed' = executed \cup PhaseOf(m.file, m.phase)
        /\ migrator' = [migrator EXCEPT ![p] = [m EXCEPT !.phase = @ + 1, !.next = 1]]
        /\ UNCHANGED <<recorded, migrationFaults>>

\* A statement that was executed before may refuse to run again: the run is over.
StatementRefused(p) ==
    LET m == migrator[p]
    IN  /\ \/ InPhase(p, TRUE) /\ <<m.file, m.phase, m.next>> \in executed
           \/ InPhase(p, FALSE) /\ PhaseOf(m.file, m.phase) \cap executed # {}
        /\ migrator' = [migrator EXCEPT ![p] = Stopped]
        /\ UNCHANGED <<executed, recorded, migrationFaults>>

\* Mutant: the version is recorded before the last phase has run.
RecordEarly(p) ==
    LET m == migrator[p]
    IN  /\ m.running /\ m.phase >= Len(Plan[m.file])
        /\ recorded' = recorded \cup {m.file}
        /\ IF m.file \in recorded THEN migrator' = [migrator EXCEPT ![p] = Stopped]
                                  ELSE Proceed(p, m.file, m.applied)
        /\ UNCHANGED <<executed, migrationFaults>>

\* The insert of a version another process has recorded violates the key: the run is over.
RecordVersion(p) ==
    LET m == migrator[p]
    IN  /\ m.running /\ m.phase > Len(Plan[m.file])
        /\ recorded' = recorded \cup {m.file}
        /\ IF m.file \in recorded THEN migrator' = [migrator EXCEPT ![p] = Stopped]
                                  ELSE Proceed(p, m.file, m.applied)
        /\ UNCHANGED <<executed, migrationFaults>>

\* The process dies, or a statement throws and run() rejects.
MigratorStops(p) ==
    /\ migrator[p].running /\ MigrationFault
    /\ migrator' = [migrator EXCEPT ![p] = Stopped]
    /\ UNCHANGED <<executed, recorded>>

MigrationsNext ==
    \E p \in Migrators :
        \/ StartMigrations(p) \/ ExecuteOnline(p) \/ ExecuteTransaction(p)
        \/ StatementRefused(p) \/ RecordVersion(p) \/ MigratorStops(p)

MigrationsSpec == MigrationsInit /\ [][MigrationsNext]_migrationVars
-----------------------------------------------------------------------------
(* Properties. *)

Positions ==
    {m \in [running : {TRUE}, applied : SUBSET Files, file : Files,
            phase : Nat \ {0}, next : Nat \ {0}] : m.phase <= Len(Plan[m.file]) + 1}

MigrationsTypeOK ==
    /\ executed \subseteq UNION {Statements(f) : f \in Files}
    /\ recorded \subseteq Files
    /\ migrator \in [Migrators -> {Stopped} \cup Positions]
    /\ migrationFaults \in 0..MaxMigrationFaults

Before(s, t) == s[2] < t[2] \/ (s[2] = t[2] /\ s[3] < t[3])

\* "Run all pending migrations", in the order of their names: however many processes
\* start at once, stop half-way and start again, a version is recorded only when every
\* statement of its file has been executed, no statement runs before the versions
\* before its file are recorded, and none runs for the first time out of its order.
MigrationsInOrder ==
    \A f \in Files :
        /\ f \in recorded => Statements(f) \subseteq executed
        /\ f \in recorded \/ Statements(f) \cap executed # {} => 1..(f - 1) \subseteq recorded
        /\ \A s, t \in Statements(f) : Before(s, t) /\ t \in executed => s \in executed
=============================================================================
