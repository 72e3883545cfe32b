------------------------------ MODULE Startup ------------------------------
(***************************************************************************)
(* How a velvt-service process comes up: the configuration, the probe for  *)
(* another instance, the migration of the database in one transaction, the *)
(* wiring, and the socket it serves.  Several processes may be launched at *)
(* once (the launch agent, the Mac app, a person), all on one database and *)
(* one socket path.  SQLite's file locks and the socket's file are the     *)
(* only things that keep them apart.                                       *)
(***************************************************************************)
EXTENDS Integers, FiniteSets

CONSTANTS
    Instances,           \* the processes
    Builds,              \* [migs: version -> file, policy: Refuse | Report]
    Environments,        \* what the variables of a launch say
    Databases,           \* what an earlier version left on disk
    Rows, Optional,      \* stored digests, and those their row can do without
    SaltVersion,         \* STABLE_KEY_SALT_MIGRATION, 37
    ChecksumVersion,     \* the migration that adds schema_migration.checksum
    MaxLaunches, MaxFaults   \* bounds

NoSum == "null"          \* a row recorded before there were checksums
None == "none"           \* nobody: of the write lock and of the socket's file

Recorded(d) == DOMAIN d.applied
Versions(b) == DOMAIN b.migs

(* Every digest is keyed by the migration that brings the salt, and none   *)
(* before it.                                                              *)
RowsAreKeyed(d) ==
    d.rows \in [Rows -> IF SaltVersion \in Recorded(d) THEN {"absent", "null", "keyed"}
                        ELSE {"absent", "null", "junk", "plain"}]

(* The shape of a database: the rows of schema_migration by version, and   *)
(* the stored digests.                                                     *)
IsDatabase(d) ==
    /\ d = [applied |-> d.applied, rows |-> d.rows]
    /\ d.applied = [v \in Recorded(d) |-> [name |-> d.applied[v].name, sum |-> d.applied[v].sum]]

(* Every build is of this code, which has had the salt and the checksums   *)
(* among its migrations since it runs them this way.                       *)
ASSUME StartupAssumption ==
    /\ Optional \subseteq Rows /\ None \notin Instances
    /\ {SaltVersion, ChecksumVersion, MaxLaunches, MaxFaults} \subseteq Nat
    /\ \A b \in Builds : /\ {SaltVersion, ChecksumVersion} \subseteq Versions(b)
                         /\ b.policy \in {"Refuse", "Report"}
                         /\ \A v \in Versions(b) : b.migs[v].code # NoSum
    /\ \A d \in Databases : IsDatabase(d) /\ RowsAreKeyed(d)

VARIABLES
    db,        \* the committed database: [applied: version -> [name, sum], rows]
    writer,    \* the process whose transaction holds SQLite's write lock
    path,      \* the process that bound the file at the socket path
    inst,      \* each process, see Off
    launches, faults

startupvars == <<db, writer, path, inst, launches, faults>>

(* A process that does not run.  view is its transaction's database, pend  *)
(* the migrations left to apply, mism the versions it reports, disturbed   *)
(* whether another start overlapped its own or the system failed it.       *)
Off ==
    [pc |-> "down", build |-> None, view |-> None, pend |-> {}, mism |-> {},
     stop |-> FALSE, disturbed |-> FALSE]

at(i) == inst[i].pc
Starting(i) == at(i) \in {"probe", "open", "migrate", "wire", "stat", "connect", "remove", "bind"}
Listening(i) == at(i) \in {"accept", "backoff"}
Running(i) == at(i) \in {"stat", "connect", "remove", "bind", "zombie", "closed"} \/ Listening(i)

Goto(i, p) == inst' = [inst EXCEPT ![i].pc = p]
(* Returning from main, or being killed: an open transaction rolls back.   *)
Gone(i) ==
    /\ inst' = [inst EXCEPT ![i] = Off]
    /\ writer' = IF writer = i THEN None ELSE writer

---------------------------------------------------------------------------
(* Configuration.  An environment gives the settings that have a rule of   *)
(* their own and, as positives, the least of those that must not be zero;  *)
(* readable says whether every variable parses and every path resolves.    *)
Accepts(e) ==
    /\ e.readable
    /\ e.max_errors # 0
    /\ e.batch_limit \in 25..100
    /\ e.flush_seconds \in 16..180
    /\ e.positives # 0
    /\ e.poll_initial # 0 /\ e.poll_max >= e.poll_initial
    /\ e.poll_path_is_absolute
    /\ e.threshold_percent \in 0..100

(* A launch.  Two starts that overlap disturb each other.                  *)
Launch(i) ==
    /\ at(i) = "down" /\ launches < MaxLaunches
    /\ launches' = launches + 1
    /\ \E e \in Environments, b \in Builds :
          IF ~Accepts(e) THEN UNCHANGED inst
          ELSE LET others == {j \in Instances \ {i} : Starting(j)} IN
               inst' = [j \in Instances |->
                   IF j = i THEN [Off EXCEPT !.pc = "probe", !.build = b,
                                              !.disturbed = others # {}]
                   ELSE [inst[j] EXCEPT !.disturbed = @ \/ j \in others]]
    /\ UNCHANGED <<db, writer, path, faults>>

(* connect() succeeds when the file's owner still listens.                 *)
Reachable == path # None /\ Listening(path)
socket_already_in_use == Reachable

(* Mutant of ProbeSocket: the start goes on whoever listens.                     *)
ProbeInVain(i) ==
    /\ at(i) = "probe" /\ Goto(i, "open")
    /\ UNCHANGED <<db, writer, path, launches, faults>>
ProbeSocket(i) ==
    /\ at(i) = "probe"
    /\ IF socket_already_in_use THEN Gone(i) ELSE Goto(i, "open") /\ UNCHANGED writer
    /\ UNCHANGED <<db, path, launches, faults>>

---------------------------------------------------------------------------
(* Migrations, all in one transaction.                                     *)
(* The hash of the statements: a comment is not part of it.                *)
migration_checksum(m) == m.code

RecordedAs(d, b, v) == d.applied[v].name = b.migs[v].name
Mismatched(d, b) ==
    {v \in Versions(b) \cap Recorded(d) :
        d.applied[v].sum \notin {NoSum, migration_checksum(b.migs[v])}}
Refused(d, b) ==
    \/ \E v \in Versions(b) \cap Recorded(d) : ~RecordedAs(d, b, v)
    \/ b.policy = "Refuse" /\ Mismatched(d, b) # {}

(* A digest under the salt; what is no digest costs its row, or the row    *)
(* its value.  Twice keyed, a digest matches nothing any more.             *)
rekey_stored_digest(x) ==
    CASE x = "plain" -> "keyed" [] x = "keyed" -> "twice" [] OTHER -> "none"
rekey_stored_digests(rows) ==
    [r \in Rows |->
        IF rows[r] \in {"absent", "null"} THEN rows[r]
        ELSE LET k == rekey_stored_digest(rows[r]) IN
             IF k # "none" THEN k ELSE IF r \in Optional THEN "null" ELSE "absent"]

(* The row of schema_migration; its checksum comes with the commit.        *)
Record(d, b, v) ==
    [w \in Recorded(d) \cup {v} |->
        IF w = v THEN [name |-> b.migs[v].name, sum |-> NoSum] ELSE d.applied[w]]

(* Mutant of ApplyMigration: every run re-keys, not only the one of 0037.  *)
ApplyRekeying(d, b, v) ==
    [applied |-> Record(d, b, v),
     rows |-> IF SaltVersion \in Recorded(d) \cup {v}
              THEN rekey_stored_digests(d.rows) ELSE d.rows]
ApplyMigration(d, b, v) ==
    [applied |-> Record(d, b, v),
     rows |-> IF v = SaltVersion THEN rekey_stored_digests(d.rows) ELSE d.rows]

(* Every row without a checksum gets this build's, once there is a column. *)
WithChecksums(d, b) ==
    [applied |-> [v \in Recorded(d) |->
        [name |-> d.applied[v].name,
         sum |-> IF ChecksumVersion \in Recorded(d) /\ v \in Versions(b) /\ d.applied[v].sum = NoSum
                 THEN migration_checksum(b.migs[v]) ELSE d.applied[v].sum]],
     rows |-> d.rows]

(* BEGIN and the reads: a shared lock from here on.  CREATE TABLE writes   *)
(* on a new file only, and then takes the write lock at once.              *)
OpenDatabase(i) ==
    /\ at(i) = "open"
    /\ LET b == inst[i].build
           new == Recorded(db) = {} IN
       /\ new => writer = None
       /\ IF Refused(db, b) THEN Gone(i)
          ELSE /\ inst' = [inst EXCEPT ![i].pc = "migrate", ![i].view = db,
                                       ![i].mism = Mismatched(db, b),
                                       ![i].pend = Versions(b) \ Recorded(db)]
               /\ writer' = IF new THEN i ELSE writer
    /\ UNCHANGED <<db, path, launches, faults>>

(* The next pending migration, in version order; the first one takes the   *)
(* write lock.                                                             *)
Migrate(i) ==
    /\ at(i) = "migrate" /\ writer \in {None, i}
    /\ \E v \in inst[i].pend :
          /\ \A w \in inst[i].pend : v <= w
          /\ inst' = [inst EXCEPT ![i].view = ApplyMigration(@, inst[i].build, v),
                                  ![i].pend = @ \ {v}]
    /\ writer' = i
    /\ UNCHANGED <<db, path, launches, faults>>

(* COMMIT waits until no other transaction reads.                          *)
CommitMigrations(i) ==
    /\ at(i) = "migrate" /\ inst[i].pend = {} /\ writer \in {None, i}
    /\ \A j \in Instances \ {i} : at(j) # "migrate"
    /\ db' = WithChecksums(inst[i].view, inst[i].build)
    /\ inst' = [inst EXCEPT ![i].pc = "wire", ![i].view = None]
    /\ writer' = None
    /\ UNCHANGED <<path, launches, faults>>

(* Two transactions in each other's way: after busy_timeout SQLite fails   *)
(* either, and that start halts.                                           *)
Busy(i) ==
    /\ \/ at(i) = "open" /\ Recorded(db) = {} /\ writer \notin {None, i}
       \/ at(i) = "migrate" /\ \E j \in Instances \ {i} : at(j) = "migrate"
    /\ Gone(i)
    /\ UNCHANGED <<db, path, launches, faults>>

(* A failing statement, an unreadable taxonomy, an engine that does not    *)
(* build: start-up halts, and the transaction with it.                     *)
Halt(i) ==
    /\ at(i) \in {"open", "migrate", "wire"} /\ faults < MaxFaults
    /\ faults' = faults + 1
    /\ Gone(i)
    /\ UNCHANGED <<db, path, launches>>

(* The tasks are spawned, mismatches are told to the client as Degraded,   *)
(* and the transport's task starts to bind.                                *)
Wire(i) ==
    /\ at(i) = "wire" /\ Goto(i, "stat")
    /\ UNCHANGED <<db, writer, path, launches, faults>>

(* A running process stores a digest, keyed with this install's salt.      *)
StoreDigest(i) ==
    /\ Running(i)
    /\ \E r \in Rows : db.rows[r] = "absent" /\ db' = [db EXCEPT !.rows[r] = "keyed"]
    /\ \A j \in Instances : at(j) # "migrate"
    /\ UNCHANGED <<writer, path, inst, launches, faults>>

---------------------------------------------------------------------------
(* TokioUnixTransport::bind, one system call per step.  An error ends the  *)
(* server task; nobody awaits it before the shutdown.                      *)
StatSocket(i) ==
    /\ at(i) = "stat" /\ Goto(i, IF path = None THEN "bind" ELSE "connect")
    /\ UNCHANGED <<db, writer, path, launches, faults>>
ConnectSocket(i) ==
    /\ at(i) = "connect" /\ Goto(i, IF Reachable THEN "zombie" ELSE "remove")
    /\ UNCHANGED <<db, writer, path, launches, faults>>
RemoveSocket(i) ==
    /\ at(i) = "remove" /\ Goto(i, IF path = None THEN "zombie" ELSE "bind")
    /\ path' = None
    /\ UNCHANGED <<db, writer, launches, faults>>
Bind(i) ==
    /\ at(i) = "bind"
    /\ IF path = None THEN path' = i /\ Goto(i, "accept")
       ELSE UNCHANGED path /\ Goto(i, "zombie")
    /\ UNCHANGED <<db, writer, launches, faults>>
BindFails(i) ==
    /\ at(i) \in {"stat", "remove", "bind"} /\ faults < MaxFaults
    /\ faults' = faults + 1
    /\ inst' = [inst EXCEPT ![i].pc = "zombie", ![i].disturbed = TRUE]
    /\ UNCHANGED <<db, writer, path, launches>>

(* accept_with_retry: an error waits and tries again.                      *)
(* Mutant of AcceptFails: an error ends the loop.                          *)
AcceptFailsForGood(i) ==
    /\ at(i) = "accept" /\ faults < MaxFaults
    /\ faults' = faults + 1
    /\ Goto(i, "closed")
    /\ UNCHANGED <<db, writer, path, launches>>
AcceptFails(i) ==
    /\ at(i) = "accept" /\ faults < MaxFaults
    /\ faults' = faults + 1
    /\ Goto(i, "backoff")
    /\ UNCHANGED <<db, writer, path, launches>>
AcceptAgain(i) ==
    /\ at(i) = "backoff" /\ Goto(i, "accept")
    /\ UNCHANGED <<db, writer, path, launches, faults>>
next_shutdown(i) ==
    /\ Listening(i) /\ inst[i].stop /\ Goto(i, "closed")
    /\ UNCHANGED <<db, writer, path, launches, faults>>

(* SIGTERM or SIGINT, and the exit once the tasks have ended or the        *)
(* shutdown deadline has passed.  The socket's file stays behind.          *)
Signal(i) ==
    /\ Running(i) /\ ~inst[i].stop
    /\ inst' = [inst EXCEPT ![i].stop = TRUE]
    /\ UNCHANGED <<db, writer, path, launches, faults>>
Exit(i) ==
    /\ Running(i) /\ inst[i].stop /\ Gone(i)
    /\ UNCHANGED <<db, path, launches, faults>>
Kill(i) ==
    /\ at(i) # "down" /\ faults < MaxFaults
    /\ faults' = faults + 1
    /\ Gone(i)
    /\ UNCHANGED <<db, path, launches>>

---------------------------------------------------------------------------
StartupInit ==
    /\ db \in Databases /\ writer = None /\ path = None
    /\ inst = [i \in Instances |-> Off] /\ launches = 0 /\ faults = 0

StartUp(i) ==
    \/ ProbeSocket(i) \/ OpenDatabase(i) \/ Migrate(i) \/ CommitMigrations(i) \/ Busy(i) \/ Wire(i)
    \/ StatSocket(i) \/ ConnectSocket(i) \/ RemoveSocket(i) \/ Bind(i)
ServeOrStop(i) == AcceptAgain(i) \/ next_shutdown(i) \/ Exit(i)
StartupNext ==
    \E i \in Instances :
        \/ StartUp(i) \/ ServeOrStop(i) \/ Launch(i) \/ Halt(i) \/ StoreDigest(i)
        \/ BindFails(i) \/ AcceptFails(i) \/ Signal(i) \/ Kill(i)

StartupSpec == StartupInit /\ [][StartupNext]_startupvars

ProcessOK(p) ==
    /\ p = [pc |-> p.pc, build |-> p.build, view |-> p.view, pend |-> p.pend,
            mism |-> p.mism, stop |-> p.stop, disturbed |-> p.disturbed]
    /\ p.pc \in {"down", "probe", "open", "migrate", "wire", "stat", "connect", "remove",
                 "bind", "accept", "backoff", "closed", "zombie"}
    /\ p.pc = "down" => p = Off
    /\ p.pc # "down" => p.build \in Builds
    /\ p.pc = "migrate" => IsDatabase(p.view)
    /\ p.stop \in BOOLEAN /\ p.disturbed \in BOOLEAN

StartupTypeOK ==
    /\ IsDatabase(db)
    /\ writer \in Instances \cup {None} /\ path \in Instances \cup {None}
    /\ inst = [i \in Instances |-> inst[i]]
    /\ \A i \in Instances : ProcessOK(inst[i])
    /\ launches \in 0..MaxLaunches /\ faults \in 0..MaxFaults

(* apply_embedded_migrations: whatever crashes, halts, locks and versions  *)
(* of the service meet, the database on disk has every digest keyed by the *)
(* migration that brought the salt and none before it, never twice, so a   *)
(* rule taught under an older version still matches; and a process that    *)
(* got past it runs on the very migrations it embeds, or knows which of    *)
(* them had other statements.                                              *)
DatabaseIsWhole ==
    /\ RowsAreKeyed(db)
    /\ \A i \in Instances : at(i) = "wire" \/ Running(i) =>
          LET b == inst[i].build IN
          /\ Versions(b) \subseteq Recorded(db)
          /\ \A v \in Versions(b) :
                /\ db.applied[v].name = b.migs[v].name
                /\ db.applied[v].sum # migration_checksum(b.migs[v]) => v \in inst[i].mism
                /\ v \in inst[i].mism => b.policy = "Report"

(* socket_already_in_use and bind: as long as no two starts overlap and    *)
(* the system calls succeed, a process that serves is the one the socket   *)
(* path leads to, and none is left running without a listener, however     *)
(* many died, were stopped or left their file behind before it.            *)
OneServiceAtATime ==
    \A i \in Instances : ~inst[i].disturbed =>
        /\ Listening(i) => path = i
        /\ at(i) # "zombie"

(* main: a launched process comes to serve, or is gone, or has lost the    *)
(* race for the socket; it never hangs on another's transaction, and an    *)
(* accept that fails does not end the service.                             *)
ServiceComesUp ==
    \A i \in Instances :
        at(i) # "down" ~> \/ at(i) \in {"accept", "down"} \/ inst[i].stop
                          \/ at(i) = "zombie" /\ inst[i].disturbed
=============================================================================
