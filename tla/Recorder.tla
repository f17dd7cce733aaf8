------------------------------ MODULE Recorder ------------------------------
(***************************************************************************)
(* Concurrent Recorder.record calls over one SQLite ledger file, with the  *)
(* auto-initialization of a ledger that has no schema (design decisions    *)
(* D15, D17, D20): recorder.py, db/migrate.py and the alembic scripts.     *)
(*                                                                         *)
(* Every call runs on a thread of its own.  A step is what another thread  *)
(* or process can see in between: one SQL statement, one unlocked access   *)
(* to a recorder's field, one critical section.                            *)
(*                                                                         *)
(* The ledger is the set of upgrade statements that have taken effect.     *)
(* alembic runs SQLite DDL outside a transaction, so each CREATE or ALTER  *)
(* is durable and visible by itself, before the revision it belongs to is  *)
(* stamped; a second CREATE of the same object is an error.                *)
(***************************************************************************)
EXTENDS Naturals, Sequences, FiniteSets

CONSTANTS Calls,         \* calls of Recorder.record, one event each
          Recorders,     \* recorder objects: one per wrapped client
          Processes,
          RecorderOf,    \* the recorder of each call
          ProcessOf,     \* the process each recorder lives in
          Priced,        \* calls whose event carries usage, so prices are read
          Migratable,    \* recorders whose engine is known to be SQLite
          Faulty,        \* calls whose statements can fail for other reasons
          Crashable,     \* processes that can die
          StartDbs,      \* ledgers the program can be started on
          WarnInterval,  \* Recorder.warn_interval_s
          MaxTime,       \* bound on the clock
          None

(* The statements of `alembic upgrade head`, in the order it runs them.    *)
VersionTable == 1
LlmEvents    == 2
ModelPrices  == 3
Rev0001      == 4
FirstTokenMs == 5
Rev0002      == 6
AlertFirings == 7
Rev0003      == 8
Finished     == 9
Statements   == 1 .. 8

\* Where an upgrade can pick up: after the version table or after a revision.
ResumePoints == {1, VersionTable + 1, Rev0001 + 1, Rev0002 + 1, Finished}

\* Ledgers a release of this package leaves: absent, or at one of its revisions.
Released == {{}, 1 .. Rev0001, 1 .. Rev0002, 1 .. Rev0003}

ASSUME CallsFinite == IsFiniteSet(Calls)
ASSUME Placement == /\ RecorderOf \in [Calls -> Recorders]
                    /\ ProcessOf \in [Recorders -> Processes]
ASSUME StartReleased == StartDbs \subseteq Released
ASSUME Clock == WarnInterval \in Nat \ {0} /\ MaxTime \in Nat
ASSUME NoneIsNone == None \notin Nat /\ None \notin Calls

VARIABLES pc,          \* where each call is
          retry,       \* the call is past its migration attempt
          at,          \* next upgrade statement of the call; 0 before it looked
          count,       \* the drop count the call read under the recorder's lock
          attempted,   \* Recorder._auto_init_attempted
          dropped,     \* Recorder._dropped
          lastWarned,  \* Recorder._last_warned
          log,         \* counts in the dropped-event warnings, per recorder
          lock,        \* db.migrate._migrate_lock of each process: its holder
          db,          \* upgrade statements in effect in the ledger file
          rows,        \* llm_events rows written for each call
          now          \* time.monotonic()

callVars     == <<pc, retry, at, count>>
recorderVars == <<attempted, dropped, lastWarned, log>>
ledgerVars   == <<db, rows>>
vars == <<callVars, recorderVars, lock, ledgerVars, now>>

Labels == {"idle", "price", "insert", "check", "claim", "lock", "heads",
           "migrate", "release", "note", "warn", "recorded", "dropped", "lost"}
Settled   == {"recorded", "dropped", "lost"}
Migrating == {"heads", "migrate", "release"}      \* inside the process's lock

Proc(c) == ProcessOf[RecorderOf[c]]
Goto(c, label) == pc' = [pc EXCEPT ![c] = label]
WriteLabel(c) == IF c \in Priced THEN "price" ELSE "insert"

TypeOK == /\ pc \in [Calls -> Labels]
          /\ retry \in [Calls -> BOOLEAN]
          /\ at \in [Calls -> 0 .. Finished]
          /\ \A c \in Calls : pc[c] = "migrate" => at[c] \in Statements
          /\ count \in [Calls -> Nat]
          /\ attempted \in [Recorders -> BOOLEAN]
          /\ dropped \in [Recorders -> Nat]
          /\ lastWarned \in [Recorders -> 0 .. MaxTime \cup {None}]
          /\ log \in [Recorders -> Seq(Nat)]
          /\ lock \in [Processes -> Calls \cup {None}]
          /\ db \in SUBSET Statements
          /\ rows \in [Calls -> Nat]
          /\ now \in 0 .. MaxTime

Init == /\ pc = [c \in Calls |-> "idle"]
        /\ retry = [c \in Calls |-> FALSE]
        /\ at = [c \in Calls |-> 0]
        /\ count = [c \in Calls |-> 0]
        /\ attempted = [r \in Recorders |-> FALSE]
        /\ dropped = [r \in Recorders |-> 0]
        /\ lastWarned = [r \in Recorders |-> None]
        /\ log = [r \in Recorders |-> <<>>]
        /\ lock = [p \in Processes |-> None]
        /\ db \in StartDbs
        /\ rows = [c \in Calls |-> 0]
        /\ now = 0

-----------------------------------------------------------------------------
(* Writing the event: Recorder._record.                                    *)

Begin(c) == /\ pc[c] = "idle"
            /\ Goto(c, WriteLabel(c))
            /\ UNCHANGED <<retry, at, count, recorderVars, lock, ledgerVars, now>>

\* The write failed with "no such table": the first time that leads to
\* _try_auto_init, in the retry to _note_dropped.
NoSuchTable(c) == Goto(c, IF retry[c] THEN "note" ELSE "check")

\* price_usage reads model_prices before the event row is built.
Price(c) == /\ pc[c] = "price"
            /\ IF ModelPrices \in db THEN Goto(c, "insert") ELSE NoSuchTable(c)
            /\ UNCHANGED <<retry, at, count, recorderVars, lock, ledgerVars, now>>

\* INSERT and commit.  A missing column is an OperationalError too, but not a
\* "no such table" one, so no initialization is attempted for it.
MutInsertFallsThrough(c) ==
    /\ pc[c] = "insert"
    /\ \/ LlmEvents \notin db /\ NoSuchTable(c) /\ UNCHANGED rows
       \/ LlmEvents \in db /\ FirstTokenMs \notin db /\ Goto(c, "note") /\ UNCHANGED rows
       \/ /\ {LlmEvents, FirstTokenMs} \subseteq db
          /\ rows' = [rows EXCEPT ![c] = @ + 1]
          /\ Goto(c, IF retry[c] THEN "note" ELSE "recorded")
    /\ UNCHANGED <<retry, at, count, recorderVars, lock, db, now>>

Insert(c) ==
    /\ pc[c] = "insert"
    /\ \/ LlmEvents \notin db /\ NoSuchTable(c) /\ UNCHANGED rows
       \/ LlmEvents \in db /\ FirstTokenMs \notin db /\ Goto(c, "note") /\ UNCHANGED rows
       \/ /\ {LlmEvents, FirstTokenMs} \subseteq db
          /\ rows' = [rows EXCEPT ![c] = @ + 1]
          /\ Goto(c, "recorded")
    /\ UNCHANGED <<retry, at, count, recorderVars, lock, db, now>>

-----------------------------------------------------------------------------
(* Auto-initialization: Recorder._try_auto_init and migrate.upgrade_to_head.*)

\* The flag is read and set in two unlocked steps.
Check(c) == /\ pc[c] = "check"
            /\ Goto(c, IF attempted[RecorderOf[c]] THEN "note" ELSE "claim")
            /\ UNCHANGED <<retry, at, count, recorderVars, lock, ledgerVars, now>>

Claim(c) == /\ pc[c] = "claim"
            /\ attempted' = [attempted EXCEPT ![RecorderOf[c]] = TRUE]
            /\ Goto(c, IF RecorderOf[c] \in Migratable THEN "lock" ELSE "note")
            /\ UNCHANGED <<retry, at, count, dropped, lastWarned, log, lock,
                           ledgerVars, now>>

MutLockUnserialized(c) ==
    /\ pc[c] = "lock"
    /\ lock' = [lock EXCEPT ![Proc(c)] = c]
    /\ Goto(c, "heads")
    /\ UNCHANGED <<retry, at, count, recorderVars, ledgerVars, now>>

Lock(c) == /\ pc[c] = "lock"
           /\ lock[Proc(c)] = None
           /\ lock' = [lock EXCEPT ![Proc(c)] = c]
           /\ Goto(c, "heads")
           /\ UNCHANGED <<retry, at, count, recorderVars, ledgerVars, now>>

\* alembic resumes after the revision stamped in the ledger; with none, it first
\* creates the version table unless that is there.
ResumesAt(k) == /\ k = 1 \/ k - 1 \in db
                /\ \A j \in ResumePoints : j > k => j - 1 \notin db

ReadHeads(c) == /\ pc[c] = "heads"
                /\ \E k \in ResumePoints :
                      /\ ResumesAt(k)
                      /\ at' = [at EXCEPT ![c] = k]
                      /\ Goto(c, IF k = Finished THEN "release" ELSE "migrate")
                /\ UNCHANGED <<retry, count, recorderVars, lock, ledgerVars, now>>

\* One statement of the upgrade.  It fails when another initializer got there
\* first: the object exists, or the revision row is not the one to replace.
MutMigrateIfNotExists(c) ==
    /\ pc[c] = "migrate"
    /\ db' = db \cup {at[c]}
    /\ at' = [at EXCEPT ![c] = @ + 1]
    /\ Goto(c, IF at[c] + 1 = Finished THEN "release" ELSE "migrate")
    /\ UNCHANGED <<retry, count, recorderVars, lock, rows, now>>

MutMigrateStampsFirst(c) ==
    LET stmt == IF at[c] = FirstTokenMs THEN Rev0002
                ELSE IF at[c] = Rev0002 THEN FirstTokenMs ELSE at[c]
    IN  /\ pc[c] = "migrate"
        /\ \/ stmt \in db /\ Goto(c, "release") /\ UNCHANGED <<at, db>>
           \/ /\ stmt \notin db
              /\ db' = db \cup {stmt}
              /\ at' = [at EXCEPT ![c] = @ + 1]
              /\ Goto(c, IF at[c] + 1 = Finished THEN "release" ELSE "migrate")
        /\ UNCHANGED <<retry, count, recorderVars, lock, rows, now>>

MutMigrateRunsPast(c) ==
    /\ pc[c] = "migrate"
    /\ \/ at[c] \in db /\ Goto(c, "release") /\ UNCHANGED <<at, db>>
       \/ /\ at[c] \notin db
          /\ db' = db \cup {at[c]}
          /\ at' = [at EXCEPT ![c] = @ + 1]
          /\ Goto(c, IF at[c] = Finished THEN "release" ELSE "migrate")
    /\ UNCHANGED <<retry, count, recorderVars, lock, rows, now>>

Migrate(c) ==
    /\ pc[c] = "migrate"
    /\ \/ at[c] \in db /\ Goto(c, "release") /\ UNCHANGED <<at, db>>
       \/ /\ at[c] \notin db
          /\ db' = db \cup {at[c]}
          /\ at' = [at EXCEPT ![c] = @ + 1]
          /\ Goto(c, IF at[c] + 1 = Finished THEN "release" ELSE "migrate")
    /\ UNCHANGED <<retry, count, recorderVars, lock, rows, now>>

\* Whatever became of the upgrade, the write is retried once.
MutReleaseOnlyOnSuccess(c) ==
    /\ pc[c] = "release"
    /\ lock' = IF at[c] = Finished THEN [lock EXCEPT ![Proc(c)] = None] ELSE lock
    /\ retry' = [retry EXCEPT ![c] = TRUE]
    /\ Goto(c, WriteLabel(c))
    /\ UNCHANGED <<at, count, recorderVars, ledgerVars, now>>

MutReleaseNoRetry(c) ==
    /\ pc[c] = "release"
    /\ lock' = [lock EXCEPT ![Proc(c)] = None]
    /\ retry' = [retry EXCEPT ![c] = TRUE]
    /\ Goto(c, "note")
    /\ UNCHANGED <<at, count, recorderVars, ledgerVars, now>>

Release(c) == /\ pc[c] = "release"
              /\ lock' = [lock EXCEPT ![Proc(c)] = None]
              /\ retry' = [retry EXCEPT ![c] = TRUE]
              /\ Goto(c, WriteLabel(c))
              /\ UNCHANGED <<at, count, recorderVars, ledgerVars, now>>

-----------------------------------------------------------------------------
(* Giving up on an event: Recorder._note_dropped.                          *)

MutWarningDueOnce(r) == lastWarned[r] = None

WarningDue(r) == lastWarned[r] # None => now - lastWarned[r] >= WarnInterval

\* Counter, clock and rate limit change together under the recorder's lock.
MutNoteCountsWarned(c) ==
    LET r == RecorderOf[c] IN
    /\ pc[c] = "note"
    /\ \/ /\ WarningDue(r)
          /\ dropped' = [dropped EXCEPT ![r] = @ + 1]
          /\ count' = [count EXCEPT ![c] = dropped[r] + 1]
          /\ lastWarned' = [lastWarned EXCEPT ![r] = now]
          /\ Goto(c, "warn")
       \/ ~WarningDue(r) /\ Goto(c, "dropped") /\ UNCHANGED <<dropped, count, lastWarned>>
    /\ UNCHANGED <<retry, at, attempted, log, lock, ledgerVars, now>>

Note(c) ==
    LET r == RecorderOf[c] IN
    /\ pc[c] = "note"
    /\ dropped' = [dropped EXCEPT ![r] = @ + 1]
    /\ count' = [count EXCEPT ![c] = dropped[r] + 1]
    /\ \/ WarningDue(r) /\ lastWarned' = [lastWarned EXCEPT ![r] = now] /\ Goto(c, "warn")
       \/ ~WarningDue(r) /\ UNCHANGED lastWarned /\ Goto(c, "dropped")
    /\ UNCHANGED <<retry, at, attempted, log, lock, ledgerVars, now>>

\* The log line is written after the lock is released.
MutWarnReadsLate(c) ==
    LET r == RecorderOf[c] IN
    /\ pc[c] = "warn"
    /\ log' = [log EXCEPT ![r] = Append(@, dropped[r])]
    /\ Goto(c, "dropped")
    /\ UNCHANGED <<retry, at, count, attempted, dropped, lastWarned, lock, ledgerVars, now>>

Warn(c) == /\ pc[c] = "warn"
           /\ log' = [log EXCEPT ![RecorderOf[c]] = Append(@, count[c])]
           /\ Goto(c, "dropped")
           /\ UNCHANGED <<retry, at, count, attempted, dropped, lastWarned, lock,
                          ledgerVars, now>>

-----------------------------------------------------------------------------
(* The environment.                                                        *)

\* A statement fails for a reason of its own: the file stays locked past the
\* busy timeout, the disk is full, a value cannot be stored.
Fault(c) == /\ c \in Faulty
            /\ \/ pc[c] \in {"price", "insert"} /\ Goto(c, "note")
               \/ pc[c] \in {"heads", "migrate"} /\ Goto(c, "release")
            /\ UNCHANGED <<retry, at, count, recorderVars, lock, ledgerVars, now>>

\* The process dies.  What its statements wrote stays in the file; a drop that
\* was counted stays counted, only its log line is lost.
Crash(p) == /\ p \in Crashable
            /\ \E c \in Calls : Proc(c) = p /\ pc[c] \notin Settled
            /\ pc' = [c \in Calls |->
                         IF Proc(c) # p \/ pc[c] \in Settled THEN pc[c]
                         ELSE IF pc[c] = "warn" THEN "dropped" ELSE "lost"]
            /\ lock' = [lock EXCEPT ![p] = None]
            /\ UNCHANGED <<retry, at, count, recorderVars, ledgerVars, now>>

Tick == /\ now < MaxTime
        /\ now' = now + 1
        /\ UNCHANGED <<callVars, recorderVars, lock, ledgerVars>>

\* Every call has returned or died with its process.
Quiet == /\ \A c \in Calls : pc[c] \in Settled
         /\ UNCHANGED vars

Step(c) == \/ Price(c) \/ Insert(c) \/ Check(c) \/ Claim(c) \/ Lock(c)
           \/ ReadHeads(c) \/ Migrate(c) \/ Release(c) \/ Note(c) \/ Warn(c)

Next == \/ \E c \in Calls : Begin(c) \/ Step(c) \/ Fault(c)
        \/ \E p \in Processes : Crash(p)
        \/ Tick
        \/ Quiet

\* The scheduler lets every thread of a live process run; nothing obliges the
\* program to make a call, a statement to fail or the clock to reach a bound.
Fairness == \A c \in Calls : WF_vars(Step(c))

Safe == Init /\ [][Next]_vars
Spec == Safe /\ Fairness

-----------------------------------------------------------------------------
(* Properties.                                                             *)

Counted(r) == {c \in Calls : RecorderOf[c] = r /\ pc[c] \in {"warn", "dropped"}}

\* Every event ends as one ledger row or as one count of its own recorder, never
\* as both, as neither or as two rows, whatever the retry after auto-init met
\* (recorder.py record, _note_dropped).
Accounting ==
    /\ \A c \in Calls : rows[c] = IF pc[c] = "recorded" THEN 1 ELSE 0
    /\ \A r \in Recorders : dropped[r] = Cardinality(Counted(r))

\* No two threads of a process are ever inside alembic at once: a second run
\* over one SQLite file can crash the interpreter (D20, db/migrate.py).
MigrationMutex ==
    \A c, d \in Calls : /\ pc[c] \in Migrating /\ pc[d] \in Migrating
                        /\ Proc(c) = Proc(d)
                        => c = d

\* The statements of a revision after its first, up to and with its stamp.
Body == {LlmEvents + 1 .. Rev0001, {Rev0002}, {Rev0003}}

\* Across processes, which share no lock, the first CREATE of a revision elects
\* the one thread that runs the rest of it, for good: should that thread fail or
\* die half-way, nobody takes its place (db/migrations/versions).
OneMigratorPerRevision ==
    \A c, d \in Calls : \A b \in Body : at[c] \in b /\ at[d] \in b => c = d

\* A stamped revision means its whole schema is there, at every moment and after
\* every crash: a reader that trusts the stamp never meets half a revision.
StampedSchema == \A s \in db \cap {Rev0001, Rev0002, Rev0003} : 1 .. s \subseteq db

\* The part of D20 that holds: a call whose own upgrade ran to the end has its
\* event written by the retry, whoever else was initializing the ledger.
MigratorRecorded ==
    \A c \in Calls \ Faulty : at[c] = Finished => pc[c] \notin {"note", "warn", "dropped"}

\* The warnings of a recorder carry distinct, cumulative counts that never run
\* ahead of its counter, and once it is quiet its first drop has been reported
\* unless its process died over it (D17).
WarningsAccurate ==
    \A r \in Recorders :
        /\ \A i \in DOMAIN log[r] : log[r][i] \in 1 .. dropped[r]
        /\ \A i, j \in DOMAIN log[r] : log[r][i] = log[r][j] => i = j
        /\ dropped[r] > 0 => \/ \E i \in DOMAIN log[r] : log[r][i] = 1
                             \/ \E c \in Counted(r) : pc[c] = "warn" /\ count[c] = 1
                             \/ ProcessOf[r] \in Crashable

\* Every drop falls within one interval after a warning of its recorder, itself
\* included: a failing ledger keeps being reported (D17, "rate-limited repeating
\* warnings").
WarnedEachWindow ==
    [][\A r \in Recorders :
          dropped'[r] # dropped[r] =>
              lastWarned'[r] # None /\ now - lastWarned'[r] < WarnInterval]_vars

\* record() always comes back to the wrapped call, over every failed migration
\* and every wait for the migration lock, unless the process dies.
Returns == \A c \in Calls : pc[c] # "idle" ~> pc[c] \in Settled

\* D20 as the design states it: racing an initializer never costs an event.
NeverDropped == \A c \in Calls \ Faulty : RecorderOf[c] \in Migratable => pc[c] # "dropped"

\* The recorder implements the event sink: see EventSink.
Fate == [c \in Calls |-> CASE pc[c] \in {"idle", "recorded", "lost"} -> pc[c]
                           [] pc[c] \in {"warn", "dropped"} -> "dropped"
                           [] OTHER -> "pending"]

Sink == INSTANCE EventSink WITH fate <- Fate, stored <- rows, dropCount <- dropped

\* Every behaviour of the recorder is one the event sink allows, and every event
\* handed over is settled.
ImplementsSink == Sink!Spec
=============================================================================
