--------------------------- MODULE RecorderProofs ---------------------------
(***************************************************************************)
(* Proofs about Recorder for any number of calls, recorders and processes. *)
(*                                                                         *)
(* TypeOK is inductive by itself.  On top of it:                           *)
(*   - a call between acquiring and releasing the migration lock is its    *)
(*     holder (LockHeld), which gives MigrationMutex;                      *)
(*   - a call about to run upgrade statement k sees all statements before  *)
(*     k in effect (UpgradePrefix).  Statements are never undone, so this  *)
(*     survives every step of other processes, and it gives StampedSchema, *)
(*     OneMigratorPerRevision and MigratorRecorded;                        *)
(*   - Accounting is inductive over TypeOK alone;                          *)
(*   - the counts in the warnings written and in those a thread is about   *)
(*     to write are all distinct and none is ahead of the counter, and the *)
(*     clock of the rate limit starts with the first drop (Reported): this *)
(*     gives WarningsAccurate.                                             *)
(***************************************************************************)
EXTENDS Recorder, FiniteSetTheorems, TLAPS

CallStep(c) == Begin(c) \/ Step(c) \/ Fault(c)

\* Every step is one of a call, a crash, a tick of the clock or a stutter.
LEMMA StepCases ==
  ASSUME [Next]_vars
  PROVE  \/ \E c \in Calls : CallStep(c)
         \/ \E p \in Processes : Crash(p)
         \/ Tick
         \/ UNCHANGED vars
BY DEF Next, CallStep, Quiet

\* What the log of one more warning is typed as.
LEMMA AppendType ==
  ASSUME NEW s \in Seq(Nat), NEW n \in Nat
  PROVE  Append(s, n) \in Seq(Nat)
OBVIOUS

-----------------------------------------------------------------------------
(* Types.                                                                  *)

LEMMA InitTypes == Init => TypeOK
<1>1. SUFFICES ASSUME Init PROVE TypeOK
  OBVIOUS
<1>2. db \in SUBSET Statements
  BY <1>1, StartReleased DEF Init, Released, Statements, Rev0001, Rev0002, Rev0003
<1>3. now \in 0 .. MaxTime
  BY <1>1, Clock DEF Init
<1>4. log \in [Recorders -> Seq(Nat)]
  BY <1>1 DEF Init
<1>5. QED
  BY <1>1, <1>2, <1>3, <1>4 DEF Init, TypeOK, Labels, Finished

LEMMA CallTypes ==
  ASSUME TypeOK, NEW c \in Calls, CallStep(c)
  PROVE  TypeOK'
<1> DEFINE AtStatement == \A d \in Calls : pc[d] = "migrate" => at[d] \in Statements
<1> USE Placement DEF TypeOK, Goto, Labels, recorderVars, ledgerVars
<1>1. CASE Begin(c)
  BY <1>1 DEF Begin, WriteLabel
<1>2. CASE Price(c)
  BY <1>2 DEF Price, NoSuchTable
<1>3. CASE Insert(c)
  <2>1. rows[c] + 1 \in Nat
    OBVIOUS
  <2>2. rows' \in [Calls -> Nat]
    BY <1>3, <2>1 DEF Insert
  <2>3. pc' \in [Calls -> Labels] /\ AtStatement'
    BY <1>3 DEF Insert, NoSuchTable
  <2>4. QED
    BY <1>3, <2>2, <2>3 DEF Insert
<1>4. CASE Check(c)
  BY <1>4 DEF Check
<1>5. CASE Claim(c)
  BY <1>5 DEF Claim
<1>6. CASE Lock(c)
  BY <1>6 DEF Lock, Proc
<1>7. CASE ReadHeads(c)
  BY <1>7 DEF ReadHeads, ResumePoints, Statements, VersionTable, Rev0001, Rev0002, Finished
<1>8. CASE Migrate(c)
  <2>1. CASE at[c] \in db
    BY <1>8, <2>1 DEF Migrate
  <2>2. CASE at[c] \notin db
    <3>1. at[c] \in Statements /\ at[c] + 1 \in 0 .. Finished
      BY <1>8 DEF Migrate, Statements, Finished
    <3>2. at' = [at EXCEPT ![c] = at[c] + 1] /\ db' = db \cup {at[c]}
      BY <1>8, <2>2 DEF Migrate
    <3>3. at' \in [Calls -> 0 .. Finished]
      BY <3>1, <3>2
    <3>4. pc' \in [Calls -> Labels]
      BY <1>8 DEF Migrate
    <3>5. ASSUME NEW d \in Calls, pc'[d] = "migrate" PROVE at'[d] \in Statements
      <4>1. CASE d = c
        <5>1. at[c] + 1 # Finished
          BY <1>8, <2>2, <3>5, <4>1 DEF Migrate
        <5>2. QED
          BY <3>1, <3>2, <4>1, <5>1 DEF Statements, Finished
      <4>2. CASE d # c
        BY <1>8, <3>2, <3>5, <4>2 DEF Migrate
      <4>3. QED
        BY <4>1, <4>2
    <3>6. QED
      BY <1>8, <3>1, <3>2, <3>3, <3>4, <3>5 DEF Migrate
  <2>3. QED
    BY <2>1, <2>2
<1>9. CASE Release(c)
  BY <1>9 DEF Release, WriteLabel, Proc
<1>10. CASE Note(c)
  <2>1. RecorderOf[c] \in Recorders /\ dropped[RecorderOf[c]] + 1 \in Nat
    OBVIOUS
  <2>2. dropped' \in [Recorders -> Nat] /\ count' \in [Calls -> Nat]
    BY <1>10, <2>1 DEF Note
  <2>3. pc' \in [Calls -> Labels] /\ AtStatement'
    BY <1>10 DEF Note
  <2>4. lastWarned' \in [Recorders -> 0 .. MaxTime \cup {None}]
    <3>1. now \in 0 .. MaxTime \cup {None}
      OBVIOUS
    <3>2. \/ lastWarned' = lastWarned
          \/ lastWarned' = [lastWarned EXCEPT ![RecorderOf[c]] = now]
      BY <1>10 DEF Note
    <3>3. lastWarned \in [Recorders -> 0 .. MaxTime \cup {None}]
      OBVIOUS
    <3> HIDE DEF TypeOK
    <3>4. QED
      BY <2>1, <3>1, <3>2, <3>3
  <2>5. QED
    BY <1>10, <2>2, <2>3, <2>4 DEF Note
<1>11. CASE Warn(c)
  <2>1. Append(log[RecorderOf[c]], count[c]) \in Seq(Nat)
    BY AppendType
  <2>2. log' \in [Recorders -> Seq(Nat)]
    BY <1>11, <2>1 DEF Warn
  <2>3. QED
    BY <1>11, <2>2 DEF Warn
<1>12. CASE Fault(c)
  BY <1>12 DEF Fault
<1>13. QED
  BY <1>1, <1>2, <1>3, <1>4, <1>5, <1>6, <1>7, <1>8, <1>9, <1>10, <1>11, <1>12
  DEF CallStep, Step

LEMMA CrashTypes ==
  ASSUME TypeOK, NEW p \in Processes, Crash(p)
  PROVE  TypeOK'
BY DEF TypeOK, Crash, Labels, recorderVars, ledgerVars

LEMMA NextTypes ==
  ASSUME TypeOK, [Next]_vars
  PROVE  TypeOK'
<1>1. ASSUME NEW c \in Calls, CallStep(c) PROVE TypeOK'
  BY <1>1, CallTypes
<1>2. ASSUME NEW p \in Processes, Crash(p) PROVE TypeOK'
  BY <1>2, CrashTypes
<1>3. CASE Tick
  BY <1>3, Clock DEF Tick, TypeOK, callVars, recorderVars, ledgerVars
<1>4. CASE UNCHANGED vars
  BY <1>4 DEF TypeOK, vars, callVars, recorderVars, ledgerVars
<1>5. QED
  BY <1>1, <1>2, <1>3, <1>4, StepCases

\* Every reachable state is well typed, and a call inside the upgrade has a
\* statement to run (recorder.py, db/migrate.py).
THEOREM TypeCorrect == Spec => []TypeOK
BY InitTypes, NextTypes, PTL DEF Spec, Safe

-----------------------------------------------------------------------------
(* The migration lock.                                                     *)

LockHeld == \A c \in Calls : pc[c] \in Migrating => lock[Proc(c)] = c

LEMMA LockStep ==
  ASSUME TypeOK, LockHeld, [Next]_vars
  PROVE  LockHeld'
<1> USE Placement, NoneIsNone DEF Migrating, recorderVars, ledgerVars, callVars
<1>1. ASSUME NEW c \in Calls, CallStep(c) PROVE LockHeld'
  <2> USE <1>1 DEF Goto, LockHeld, Proc
  <2>1. ASSUME NEW d \in Calls, pc'[d] \in Migrating PROVE lock'[Proc(d)] = d
    <3>1. CASE Lock(c)
      BY <2>1, <3>1 DEF Lock, TypeOK
    <3>2. CASE Release(c)
      <4>1. pc'[c] \notin Migrating
        BY <3>2 DEF Release, WriteLabel, TypeOK
      <4>2. QED
        BY <2>1, <3>2, <4>1 DEF Release, TypeOK
    <3>3. CASE Begin(c) \/ Price(c) \/ Insert(c) \/ Check(c) \/ Claim(c)
      BY <2>1, <3>3 DEF Begin, Price, Insert, Check, Claim, NoSuchTable, WriteLabel, TypeOK
    <3>4. CASE ReadHeads(c) \/ Migrate(c) \/ Fault(c)
      BY <2>1, <3>4 DEF ReadHeads, Migrate, Fault, TypeOK
    <3>5. CASE Note(c) \/ Warn(c)
      BY <2>1, <3>5 DEF Note, Warn, TypeOK
    <3>6. QED
      BY <3>1, <3>2, <3>3, <3>4, <3>5 DEF CallStep, Step
  <2>2. QED
    BY <2>1
<1>2. ASSUME NEW p \in Processes, Crash(p) PROVE LockHeld'
  BY <1>2 DEF Crash, LockHeld, Proc, Settled, TypeOK
<1>3. CASE Tick \/ UNCHANGED vars
  BY <1>3 DEF Tick, LockHeld, Proc, vars
<1>4. QED
  BY <1>1, <1>2, <1>3, StepCases

\* No two threads of one process are ever inside alembic at once (D20).
THEOREM NoTwoMigrators == Spec => []MigrationMutex
<1>1. Init => LockHeld
  BY DEF Init, LockHeld, Migrating
<1>2. TypeOK /\ LockHeld /\ [Next]_vars => LockHeld'
  BY LockStep
<1>3. TypeOK /\ LockHeld => MigrationMutex
  BY DEF LockHeld, MigrationMutex
<1>4. QED
  BY <1>1, <1>2, <1>3, TypeCorrect, PTL DEF Spec, Safe

-----------------------------------------------------------------------------
(* The upgrade, run by any number of processes without a common lock.      *)

\* Statements a call has got past are in effect.
UpgradePrefix == \A c \in Calls : \A s \in Statements : s < at[c] => s \in db

UpgradeInv == UpgradePrefix /\ StampedSchema /\ OneMigratorPerRevision

\* Only two actions move an upgrade on or change the ledger's schema.
LEMMA UpgradeSteps ==
  ASSUME TypeOK, [Next]_vars
  PROVE  \/ UNCHANGED <<at, db>>
         \/ \E c \in Calls : ReadHeads(c) \/ (Migrate(c) /\ at[c] \notin db)
<1>1. ASSUME NEW c \in Calls, CallStep(c)
      PROVE UNCHANGED <<at, db>> \/ ReadHeads(c) \/ (Migrate(c) /\ at[c] \notin db)
  BY <1>1 DEF CallStep, Step, Begin, Price, Insert, Check, Claim, Lock, Migrate, Release,
              Note, Warn, Fault, ledgerVars
<1>2. ASSUME NEW p \in Processes, Crash(p) PROVE UNCHANGED <<at, db>>
  BY <1>2 DEF Crash, ledgerVars
<1>3. CASE Tick \/ UNCHANGED vars
  BY <1>3 DEF Tick, vars, callVars, ledgerVars
<1>4. QED
  BY <1>1, <1>2, <1>3, StepCases

LEMMA ReadHeadsKeeps ==
  ASSUME TypeOK, UpgradeInv, NEW c \in Calls, ReadHeads(c)
  PROVE  UpgradeInv'
<1> USE DEF UpgradeInv, ReadHeads, ledgerVars, Statements, Rev0001, Rev0002, Rev0003
<1>1. PICK k \in ResumePoints : ResumesAt(k) /\ at' = [at EXCEPT ![c] = k]
  OBVIOUS
<1>2. \A s \in Statements : s < k => s \in db
  BY <1>1 DEF ResumesAt, ResumePoints, VersionTable, Finished, StampedSchema
<1>3. UpgradePrefix'
  BY <1>1, <1>2 DEF UpgradePrefix, TypeOK
<1>4. StampedSchema'
  BY DEF StampedSchema
<1>5. \A b \in Body : k \notin b
  BY DEF Body, ResumePoints, LlmEvents, VersionTable, Finished
<1>6. OneMigratorPerRevision'
  BY <1>1, <1>5 DEF OneMigratorPerRevision, TypeOK
<1>7. QED
  BY <1>3, <1>4, <1>6

LEMMA MigrateKeeps ==
  ASSUME TypeOK, UpgradeInv, NEW c \in Calls, Migrate(c), at[c] \notin db
  PROVE  UpgradeInv'
<1> USE DEF UpgradeInv, ledgerVars
<1>1. /\ at[c] \in Statements
      /\ at' = [at EXCEPT ![c] = at[c] + 1]
      /\ db' = db \cup {at[c]}
  BY DEF Migrate, TypeOK
<1>2. \A s \in Statements : s < at[c] => s \in db
  BY <1>1 DEF UpgradePrefix
<1>3. UpgradePrefix'
  <2>1. SUFFICES ASSUME NEW d \in Calls, NEW s \in Statements, s < at'[d] PROVE s \in db'
    BY DEF UpgradePrefix
  <2>2. CASE d = c
    BY <1>1, <1>2, <2>1, <2>2 DEF TypeOK, Statements
  <2>3. CASE d # c
    BY <1>1, <2>1, <2>3 DEF TypeOK, UpgradePrefix
  <2>4. QED
    BY <2>2, <2>3
<1>4. StampedSchema'
  <2>1. SUFFICES ASSUME NEW s \in db' \cap {Rev0001, Rev0002, Rev0003} PROVE 1 .. s \subseteq db'
    BY DEF StampedSchema
  <2>2. CASE s = at[c]
    BY <1>1, <1>2, <2>2 DEF Statements
  <2>3. CASE s # at[c]
    BY <1>1, <2>1, <2>3 DEF StampedSchema
  <2>4. QED
    BY <2>2, <2>3
<1>5. OneMigratorPerRevision'
  \* A call enters a body by running the revision's first statement; whoever is
  \* in the body already has that statement in effect.
  <2>1. ASSUME NEW d \in Calls, NEW b \in Body, d # c, at[d] \in b, at[c] + 1 \in b
        PROVE  FALSE
    <3>1. at[c] \in b \/ (at[c] \in Statements /\ at[c] < at[d])
      BY <1>1, <2>1 DEF Body, Statements, LlmEvents, Rev0001, Rev0002, Rev0003
    <3>2. CASE at[c] \in b
      BY <2>1, <3>2 DEF OneMigratorPerRevision
    <3>3. CASE at[c] \in Statements /\ at[c] < at[d]
      BY <3>3 DEF UpgradePrefix
    <3>4. QED
      BY <3>1, <3>2, <3>3
  <2>2. QED
    BY <1>1, <2>1 DEF OneMigratorPerRevision, TypeOK
<1>6. QED
  BY <1>3, <1>4, <1>5

LEMMA UpgradeInvariant == Spec => []UpgradeInv
<1>1. Init => UpgradeInv
  <2>1. SUFFICES ASSUME Init PROVE UpgradeInv
    OBVIOUS
  <2>2. UpgradePrefix
    BY <2>1 DEF Init, UpgradePrefix, Statements
  <2>3. StampedSchema
    BY <2>1, StartReleased DEF Init, Released, StampedSchema, Rev0001, Rev0002, Rev0003
  <2>4. OneMigratorPerRevision
    BY <2>1 DEF Init, OneMigratorPerRevision, Body, LlmEvents, Rev0001, Rev0002, Rev0003
  <2>5. QED
    BY <2>2, <2>3, <2>4 DEF UpgradeInv
<1>2. TypeOK /\ UpgradeInv /\ [Next]_vars => UpgradeInv'
  <2>1. SUFFICES ASSUME TypeOK, UpgradeInv, [Next]_vars PROVE UpgradeInv'
    OBVIOUS
  <2>2. CASE UNCHANGED <<at, db>>
    BY <2>1, <2>2 DEF UpgradeInv, UpgradePrefix, StampedSchema, OneMigratorPerRevision
  <2>3. QED
    BY <2>1, <2>2, UpgradeSteps, ReadHeadsKeeps, MigrateKeeps
<1>3. QED
  BY <1>1, <1>2, TypeCorrect, PTL DEF Spec, Safe

\* A stamped revision always has its whole schema, over any interleaving of
\* initializers and any crash (db/migrations/versions).
THEOREM StampsAreTrue == Spec => []StampedSchema
BY UpgradeInvariant, PTL DEF UpgradeInv

\* One thread runs the rest of a revision, across processes without a lock.
THEOREM FirstCreateElects == Spec => []OneMigratorPerRevision
BY UpgradeInvariant, PTL DEF UpgradeInv

-----------------------------------------------------------------------------
(* What a completed upgrade is worth to the call that ran it.              *)

\* A fault-free call that upgraded the ledger to the head only has its retry to
\* do, and the retry finds every object it needs.
Finishing == \A c \in Calls \ Faulty :
                 at[c] = Finished => pc[c] \in {"release", "price", "insert", "recorded", "lost"}

LEMMA FinishingStep ==
  ASSUME TypeOK, UpgradePrefix, Finishing, [Next]_vars
  PROVE  Finishing'
<1>1. ASSUME NEW c \in Calls, CallStep(c) PROVE Finishing'
  <2>1. ASSUME NEW d \in Calls \ Faulty, at'[d] = Finished
        PROVE  pc'[d] \in {"release", "price", "insert", "recorded", "lost"}
    <3> USE <2>1 DEF Finishing, TypeOK, Goto
    <3>1. CASE ReadHeads(c)
      BY <3>1 DEF ReadHeads
    <3>2. CASE Migrate(c)
      BY <3>2 DEF Migrate, Finished
    <3>3. CASE Price(c)
      <4>1. at[d] = Finished => ModelPrices \in db
        BY DEF UpgradePrefix, Statements, ModelPrices, Finished
      <4>2. QED
        BY <3>3, <4>1 DEF Price, NoSuchTable
    <3>4. CASE Insert(c)
      <4>1. at[d] = Finished => LlmEvents \in db /\ FirstTokenMs \in db
        BY DEF UpgradePrefix, Statements, LlmEvents, FirstTokenMs, Finished
      <4>2. QED
        BY <3>4, <4>1 DEF Insert, NoSuchTable
    <3>5. CASE Release(c)
      BY <3>5 DEF Release, WriteLabel
    <3>6. CASE Begin(c) \/ Check(c) \/ Claim(c) \/ Lock(c)
      BY <3>6 DEF Begin, Check, Claim, Lock, WriteLabel
    <3>7. CASE Note(c) \/ Warn(c) \/ Fault(c)
      BY <3>7 DEF Note, Warn, Fault
    <3>8. QED
      BY <1>1, <3>1, <3>2, <3>3, <3>4, <3>5, <3>6, <3>7 DEF CallStep, Step
  <2>2. QED
    BY <2>1 DEF Finishing
<1>2. ASSUME NEW p \in Processes, Crash(p) PROVE Finishing'
  BY <1>2 DEF Crash, Finishing, TypeOK
<1>3. CASE Tick \/ UNCHANGED vars
  BY <1>3 DEF Tick, vars, callVars, Finishing
<1>4. QED
  BY <1>1, <1>2, <1>3, StepCases

\* The part of D20 that holds: whoever completes an upgrade has its own event
\* written (recorder.py record, _try_auto_init).
THEOREM InitializerRecorded == Spec => []MigratorRecorded
<1>1. Init => Finishing
  BY DEF Init, Finishing, Finished
<1>2. TypeOK /\ UpgradePrefix /\ Finishing /\ [Next]_vars => Finishing'
  BY FinishingStep
<1>3. Finishing => MigratorRecorded
  BY DEF Finishing, MigratorRecorded
<1>4. UpgradeInv => UpgradePrefix
  BY DEF UpgradeInv
<1>5. QED
  BY <1>1, <1>2, <1>3, <1>4, TypeCorrect, UpgradeInvariant, PTL DEF Spec, Safe

-----------------------------------------------------------------------------
(* Accounting.                                                             *)

RowsMatch  == \A c \in Calls : rows[c] = IF pc[c] = "recorded" THEN 1 ELSE 0
DropsMatch == \A r \in Recorders : dropped[r] = Cardinality(Counted(r))

LEMMA RowsStep ==
  ASSUME TypeOK, RowsMatch, [Next]_vars
  PROVE  RowsMatch'
<1> USE DEF RowsMatch, TypeOK, Goto, ledgerVars
<1>1. ASSUME NEW c \in Calls, CallStep(c) PROVE RowsMatch'
  <2>1. CASE Insert(c)
    BY <2>1 DEF Insert, NoSuchTable
  <2>2. CASE Begin(c) \/ Price(c) \/ Check(c) \/ Claim(c) \/ Lock(c) \/ Fault(c)
    BY <2>2 DEF Begin, Price, Check, Claim, Lock, Fault, NoSuchTable, WriteLabel
  <2>3. CASE ReadHeads(c) \/ Migrate(c) \/ Release(c) \/ Note(c) \/ Warn(c)
    BY <2>3 DEF ReadHeads, Migrate, Release, Note, Warn, WriteLabel
  <2>4. QED
    BY <1>1, <2>1, <2>2, <2>3 DEF CallStep, Step
<1>2. ASSUME NEW p \in Processes, Crash(p) PROVE RowsMatch'
  BY <1>2 DEF Crash, Settled
<1>3. CASE Tick \/ UNCHANGED vars
  BY <1>3 DEF Tick, vars, callVars
<1>4. QED
  BY <1>1, <1>2, <1>3, StepCases

\* A step that is not a Note moves no call into or out of the counted ones.
LEMMA CountedStep ==
  ASSUME TypeOK, [Next]_vars
  PROVE  \/ \E c \in Calls : Note(c)
         \/ /\ UNCHANGED dropped
            /\ \A c \in Calls : (pc'[c] \in {"warn", "dropped"}) <=> (pc[c] \in {"warn", "dropped"})
<1> USE DEF TypeOK, Goto, recorderVars
<1> DEFINE Same == /\ UNCHANGED dropped
                   /\ \A c \in Calls : (pc'[c] \in {"warn", "dropped"})
                                           <=> (pc[c] \in {"warn", "dropped"})
<1>1. ASSUME NEW c \in Calls, CallStep(c) PROVE Note(c) \/ Same
  <2>1. CASE Begin(c) \/ Price(c) \/ Insert(c) \/ Check(c) \/ Claim(c) \/ Lock(c)
    BY <2>1 DEF Begin, Price, Insert, Check, Claim, Lock, NoSuchTable, WriteLabel
  <2>2. CASE ReadHeads(c) \/ Migrate(c) \/ Release(c) \/ Warn(c) \/ Fault(c)
    BY <2>2 DEF ReadHeads, Migrate, Release, Warn, Fault, WriteLabel
  <2>3. QED
    BY <1>1, <2>1, <2>2 DEF CallStep, Step
<1>2. ASSUME NEW p \in Processes, Crash(p) PROVE Same
  BY <1>2 DEF Crash, Settled
<1>3. CASE Tick \/ UNCHANGED vars
  BY <1>3 DEF Tick, vars, callVars
<1>4. QED
  BY <1>1, <1>2, <1>3, StepCases

LEMMA DropsStep ==
  ASSUME TypeOK, DropsMatch, [Next]_vars
  PROVE  DropsMatch'
<1>1. ASSUME NEW c \in Calls, Note(c) PROVE DropsMatch'
  <2>1. SUFFICES ASSUME NEW r \in Recorders PROVE dropped'[r] = Cardinality(Counted(r)')
    BY DEF DropsMatch
  <2>2. pc'[c] \in {"warn", "dropped"} /\ \A d \in Calls : d # c => pc'[d] = pc[d]
    BY <1>1 DEF Note, Goto, TypeOK
  <2>3. c \notin Counted(r)
    BY <1>1 DEF Counted, Note
  <2>4. CASE r = RecorderOf[c]
    <3>1. Counted(r)' = Counted(r) \cup {c}
      BY <2>2, <2>4 DEF Counted
    <3>2. IsFiniteSet(Counted(r))
      BY CallsFinite, FS_Subset DEF Counted
    <3>3. Cardinality(Counted(r)') = Cardinality(Counted(r)) + 1
      BY <2>3, <3>1, <3>2, FS_AddElement
    <3>4. dropped'[r] = dropped[r] + 1
      BY <1>1, <2>4 DEF Note, TypeOK
    <3>5. QED
      BY <3>3, <3>4 DEF DropsMatch
  <2>5. CASE r # RecorderOf[c]
    <3>1. Counted(r)' = Counted(r)
      BY <2>2, <2>5 DEF Counted
    <3>2. dropped'[r] = dropped[r]
      BY <1>1, <2>5 DEF Note, TypeOK
    <3>3. QED
      BY <3>1, <3>2 DEF DropsMatch
  <2>6. QED
    BY <2>4, <2>5
<1>2. CASE /\ UNCHANGED dropped
           /\ \A c \in Calls : (pc'[c] \in {"warn", "dropped"})
                                   <=> (pc[c] \in {"warn", "dropped"})
  <2>1. \A r \in Recorders : Counted(r)' = Counted(r)
    BY <1>2 DEF Counted
  <2>2. QED
    BY <1>2, <2>1 DEF DropsMatch
<1>3. QED
  BY <1>1, <1>2, CountedStep

\* Every event ends as one row or one counted drop of its own recorder, never as
\* both or neither (recorder.py record, _note_dropped).
THEOREM EventsAccounted == Spec => []Accounting
<1>1. Init => RowsMatch /\ DropsMatch
  <2>1. SUFFICES ASSUME Init PROVE RowsMatch /\ DropsMatch
    OBVIOUS
  <2>2. \A r \in Recorders : Counted(r) = {}
    BY <2>1 DEF Init, Counted
  <2>3. QED
    BY <2>1, <2>2, FS_EmptySet DEF Init, RowsMatch, DropsMatch
<1>2. TypeOK /\ RowsMatch /\ DropsMatch /\ [Next]_vars => RowsMatch' /\ DropsMatch'
  BY RowsStep, DropsStep
<1>3. RowsMatch /\ DropsMatch => Accounting
  BY DEF RowsMatch, DropsMatch, Accounting
<1>4. QED
  BY <1>1, <1>2, <1>3, TypeCorrect, PTL DEF Spec, Safe

-----------------------------------------------------------------------------
(* Warnings.                                                               *)

\* The counts in a log are distinct, up to the recorder's counter, and not those a
\* thread past the lock is about to write; the first drop is due a warning.
LogMatches == \A r \in Recorders :
    /\ \A i \in DOMAIN log[r] : log[r][i] \in 1 .. dropped[r]
    /\ \A i, j \in DOMAIN log[r] : log[r][i] = log[r][j] => i = j

WarnersMatch == \A c \in Calls : pc[c] = "warn" =>
    /\ count[c] \in 1 .. dropped[RecorderOf[c]]
    /\ \A i \in DOMAIN log[RecorderOf[c]] : log[RecorderOf[c]][i] # count[c]
    /\ \A d \in Calls : pc[d] = "warn" /\ RecorderOf[d] = RecorderOf[c]
                            /\ count[d] = count[c] => d = c

FirstReported == \A r \in Recorders :
    IF dropped[r] = 0 THEN lastWarned[r] = None
    ELSE \/ \E i \in DOMAIN log[r] : log[r][i] = 1
         \/ \E c \in Calls : RecorderOf[c] = r /\ pc[c] = "warn" /\ count[c] = 1
         \/ ProcessOf[r] \in Crashable

Reported == LogMatches /\ WarnersMatch /\ FirstReported

LEMMA ReportedInit == Init => Reported
BY DEF Init, Reported, LogMatches, WarnersMatch, FirstReported

LEMMA ReportSteps ==
  ASSUME TypeOK, [Next]_vars
  PROVE  \/ \E c \in Calls : Note(c) \/ Warn(c)
         \/ \E p \in Processes : Crash(p)
         \/ /\ UNCHANGED <<count, dropped, lastWarned, log>>
            /\ \A c \in Calls : pc'[c] = "warn" <=> pc[c] = "warn"
<1> USE DEF TypeOK, Goto, recorderVars
<1> DEFINE Same == /\ UNCHANGED <<count, dropped, lastWarned, log>>
                   /\ \A c \in Calls : pc'[c] = "warn" <=> pc[c] = "warn"
<1>1. ASSUME NEW c \in Calls, CallStep(c) PROVE Note(c) \/ Warn(c) \/ Same
  <2>1. CASE Begin(c) \/ Price(c) \/ Insert(c) \/ Check(c) \/ Claim(c) \/ Lock(c)
    BY <2>1 DEF Begin, Price, Insert, Check, Claim, Lock, NoSuchTable, WriteLabel
  <2>2. CASE ReadHeads(c) \/ Migrate(c) \/ Release(c) \/ Fault(c)
    BY <2>2 DEF ReadHeads, Migrate, Release, Fault, WriteLabel
  <2>3. QED
    BY <1>1, <2>1, <2>2 DEF CallStep, Step
<1>2. CASE Tick \/ UNCHANGED vars
  BY <1>2 DEF Tick, vars, callVars
<1>3. QED
  BY <1>1, <1>2, StepCases

LEMMA ReportedNote ==
  ASSUME TypeOK, Reported, NEW c \in Calls, Note(c)
  PROVE  Reported'
<1> DEFINE r == RecorderOf[c]
           n == dropped[r] + 1
<1>1. /\ r \in Recorders /\ dropped[r] \in Nat /\ n \in Nat
      /\ dropped'[r] = n /\ \A q \in Recorders : q # r => dropped'[q] = dropped[q]
      /\ count'[c] = n /\ \A d \in Calls : d # c => count'[d] = count[d] /\ pc'[d] = pc[d]
      /\ log' = log
      /\ \A q \in Recorders : dropped[q] \in Nat
      /\ RecorderOf \in [Calls -> Recorders]
  <2>1. /\ dropped \in [Recorders -> Nat] /\ count \in [Calls -> Nat] /\ pc \in [Calls -> Labels]
        /\ RecorderOf \in [Calls -> Recorders] /\ r \in Recorders /\ dropped[r] \in Nat
    BY Placement DEF TypeOK
  <2>2. /\ dropped' = [dropped EXCEPT ![r] = dropped[r] + 1]
        /\ count' = [count EXCEPT ![c] = dropped[r] + 1]
        /\ \E label : pc' = [pc EXCEPT ![c] = label]
        /\ log' = log
    BY DEF Note, Goto
  <2>3. QED
    BY <2>1, <2>2
<1> HIDE DEF r
<1>2. LogMatches'
  BY <1>1 DEF Reported, LogMatches
<1>3. WarnersMatch'
  <2>1. \A i \in DOMAIN log[r] : log[r][i] # n
    BY <1>1 DEF Reported, LogMatches
  <2>2. \A d \in Calls : d # c /\ pc[d] = "warn" /\ RecorderOf[d] = r => count[d] # n
    BY <1>1 DEF Reported, WarnersMatch
  <2>3. ASSUME NEW d \in Calls, pc'[d] = "warn"
        PROVE  /\ count'[d] \in 1 .. dropped'[RecorderOf[d]]
               /\ \A i \in DOMAIN log'[RecorderOf[d]] : log'[RecorderOf[d]][i] # count'[d]
               /\ \A e \in Calls : pc'[e] = "warn" /\ RecorderOf[e] = RecorderOf[d]
                                       /\ count'[e] = count'[d] => e = d
    <3>1. CASE d = c
      <4>1. RecorderOf[d] = r
        BY <3>1 DEF r
      <4>2. QED
        BY <1>1, <2>1, <2>2, <3>1, <4>1
    <3>2. CASE d # c
      <4>1. /\ pc[d] = "warn" /\ count'[d] = count[d]
            /\ count[d] \in 1 .. dropped[RecorderOf[d]]
            /\ \A i \in DOMAIN log[RecorderOf[d]] : log[RecorderOf[d]][i] # count[d]
        BY <1>1, <2>3, <3>2 DEF Reported, WarnersMatch
      <4>2. count'[d] \in 1 .. dropped'[RecorderOf[d]]
        BY <1>1, <4>1
      <4>3. ASSUME NEW e \in Calls, pc'[e] = "warn", RecorderOf[e] = RecorderOf[d],
                   count'[e] = count'[d]
            PROVE  e = d
        <5>1. CASE e = c
          BY <1>1, <2>2, <3>2, <4>1, <4>3, <5>1 DEF r
        <5>2. CASE e # c
          BY <1>1, <4>1, <4>3, <5>2 DEF Reported, WarnersMatch
        <5>3. QED
          BY <5>1, <5>2
      <4>4. QED
        BY <1>1, <4>1, <4>2, <4>3
    <3>3. QED
      BY <3>1, <3>2
  <2>4. QED
    BY <2>3 DEF WarnersMatch
<1>4. FirstReported'
  <2>1. ASSUME NEW q \in Recorders, q # r
        PROVE  IF dropped'[q] = 0 THEN lastWarned'[q] = None
               ELSE \/ \E i \in DOMAIN log'[q] : log'[q][i] = 1
                    \/ \E d \in Calls : RecorderOf[d] = q /\ pc'[d] = "warn" /\ count'[d] = 1
                    \/ ProcessOf[q] \in Crashable
    <3>1. lastWarned'[q] = lastWarned[q] /\ dropped'[q] = dropped[q]
      BY <1>1, <2>1 DEF Note, TypeOK, r
    <3>2. \A d \in Calls : RecorderOf[d] = q => pc'[d] = pc[d] /\ count'[d] = count[d]
      BY <1>1, <2>1 DEF r
    <3>3. QED
      BY <1>1, <3>1, <3>2 DEF Reported, FirstReported
  <2>2. dropped'[r] # 0
    BY <1>1
  <2>3. CASE dropped[r] = 0
    <3>1. lastWarned[r] = None
      BY <1>1, <2>3 DEF Reported, FirstReported
    <3>2. pc'[c] = "warn" /\ count'[c] = 1 /\ RecorderOf[c] = r
      BY <1>1, <2>3, <3>1 DEF Note, WarningDue, Goto, TypeOK, r
    <3>3. QED
      BY <2>1, <2>2, <3>2 DEF FirstReported
  <2>4. CASE dropped[r] # 0
    <3>1. \A d \in Calls : pc[d] = "warn" => pc'[d] = "warn" /\ count'[d] = count[d]
      BY <1>1 DEF Note
    <3>2. \/ \E i \in DOMAIN log'[r] : log'[r][i] = 1
          \/ \E d \in Calls : RecorderOf[d] = r /\ pc'[d] = "warn" /\ count'[d] = 1
          \/ ProcessOf[r] \in Crashable
      BY <1>1, <2>4, <3>1 DEF Reported, FirstReported
    <3>3. QED
      BY <2>1, <2>2, <3>2 DEF FirstReported
  <2>5. QED
    BY <2>3, <2>4
<1>5. QED
  BY <1>2, <1>3, <1>4 DEF Reported

LEMMA ReportedWarn ==
  ASSUME TypeOK, Reported, NEW c \in Calls, Warn(c)
  PROVE  Reported'
<1> DEFINE r == RecorderOf[c]
           s == log[r]
           t == log'[r]
<1>1. /\ r \in Recorders /\ s \in Seq(Nat) /\ count[c] \in Nat
      /\ t = Append(s, count[c])
      /\ \A q \in Recorders : q # r => log'[q] = log[q]
      /\ pc[c] = "warn" /\ pc'[c] # "warn" /\ \A d \in Calls : d # c => pc'[d] = pc[d]
      /\ UNCHANGED <<count, dropped, lastWarned>>
  BY Placement DEF Warn, Goto, TypeOK
<1>2. /\ count[c] \in 1 .. dropped[r] /\ \A i \in DOMAIN s : s[i] # count[c]
      /\ \A d \in Calls : pc[d] = "warn" /\ RecorderOf[d] = r /\ count[d] = count[c] => d = c
  BY <1>1 DEF Reported, WarnersMatch
<1>3. /\ \A i \in DOMAIN s : s[i] \in 1 .. dropped[r]
      /\ \A i, j \in DOMAIN s : s[i] = s[j] => i = j
  BY <1>1 DEF Reported, LogMatches
<1> HIDE DEF r, s, t
<1>4. /\ DOMAIN s = 1 .. Len(s) /\ DOMAIN t = 1 .. Len(s) + 1 /\ Len(s) \in Nat
      /\ t[Len(s) + 1] = count[c] /\ \A i \in DOMAIN s : i \in DOMAIN t /\ t[i] = s[i]
  BY <1>1
<1>5. \A i \in DOMAIN t : (i \in DOMAIN s /\ t[i] = s[i]) \/ (i = Len(s) + 1 /\ t[i] = count[c])
  BY <1>4
<1>6. LogMatches'
  <2>1. /\ \A i \in DOMAIN t : t[i] \in 1 .. dropped[r]
        /\ \A i, j \in DOMAIN t : t[i] = t[j] => i = j
    BY <1>2, <1>3, <1>5
  <2>2. \A q \in Recorders : q # r =>
            /\ \A i \in DOMAIN log'[q] : log'[q][i] \in 1 .. dropped'[q]
            /\ \A i, j \in DOMAIN log'[q] : log'[q][i] = log'[q][j] => i = j
    BY <1>1 DEF Reported, LogMatches
  <2>3. QED
    BY <1>1, <2>1, <2>2 DEF LogMatches, t
<1>7. WarnersMatch'
  <2>1. ASSUME NEW d \in Calls, pc'[d] = "warn"
        PROVE  /\ count'[d] \in 1 .. dropped'[RecorderOf[d]]
               /\ \A i \in DOMAIN log'[RecorderOf[d]] : log'[RecorderOf[d]][i] # count'[d]
               /\ \A e \in Calls : pc'[e] = "warn" /\ RecorderOf[e] = RecorderOf[d]
                                       /\ count'[e] = count'[d] => e = d
    <3>1. d # c /\ pc[d] = "warn" /\ RecorderOf[d] \in Recorders
      BY <1>1, <2>1, Placement
    <3>2. /\ count[d] \in 1 .. dropped[RecorderOf[d]]
          /\ \A i \in DOMAIN log[RecorderOf[d]] : log[RecorderOf[d]][i] # count[d]
          /\ \A e \in Calls : pc[e] = "warn" /\ RecorderOf[e] = RecorderOf[d]
                                  /\ count[e] = count[d] => e = d
      BY <3>1 DEF Reported, WarnersMatch
    <3>3. \A i \in DOMAIN log'[RecorderOf[d]] : log'[RecorderOf[d]][i] # count[d]
      <4>1. CASE RecorderOf[d] = r
        BY <1>2, <1>5, <3>1, <3>2, <4>1 DEF s, t
      <4>2. CASE RecorderOf[d] # r
        BY <1>1, <3>1, <3>2, <4>2
      <4>3. QED
        BY <4>1, <4>2
    <3>4. \A e \in Calls : pc'[e] = "warn" => pc[e] = "warn"
      BY <1>1
    <3>5. QED
      BY <1>1, <3>2, <3>3, <3>4
  <2>2. QED
    BY <2>1 DEF WarnersMatch
<1>8. FirstReported'
  <2>1. ASSUME NEW q \in Recorders
        PROVE  IF dropped'[q] = 0 THEN lastWarned'[q] = None
               ELSE \/ \E i \in DOMAIN log'[q] : log'[q][i] = 1
                    \/ \E d \in Calls : RecorderOf[d] = q /\ pc'[d] = "warn" /\ count'[d] = 1
                    \/ ProcessOf[q] \in Crashable
    <3>1. \A i \in DOMAIN log[q] : i \in DOMAIN log'[q] /\ log'[q][i] = log[q][i]
      <4>1. CASE q = r
        BY <1>4, <4>1 DEF s, t
      <4>2. CASE q # r
        BY <1>1, <4>2
      <4>3. QED
        BY <4>1, <4>2
    <3>2. ASSUME NEW d \in Calls, RecorderOf[d] = q, pc[d] = "warn", count[d] = 1
          PROVE  \/ \E i \in DOMAIN log'[q] : log'[q][i] = 1
                 \/ pc'[d] = "warn" /\ count'[d] = 1
      <4>1. CASE d = c
        <5>1. q = r /\ Len(s) + 1 \in DOMAIN t /\ t[Len(s) + 1] = 1
          BY <1>4, <3>2, <4>1 DEF r
        <5>2. QED
          BY <5>1 DEF t
      <4>2. CASE d # c
        BY <1>1, <3>2, <4>2
      <4>3. QED
        BY <4>1, <4>2
    <3>3. UNCHANGED <<dropped, lastWarned>>
      BY <1>1
    <3>4. QED
      BY <3>1, <3>2, <3>3 DEF Reported, FirstReported
  <2>2. QED
    BY <2>1 DEF FirstReported
<1>9. QED
  BY <1>6, <1>7, <1>8 DEF Reported

LEMMA ReportedCrash ==
  ASSUME TypeOK, Reported, NEW p \in Processes, Crash(p)
  PROVE  Reported'
<1>1. /\ UNCHANGED <<count, dropped, lastWarned, log>> /\ p \in Crashable
      /\ \A c \in Calls : /\ pc'[c] = "warn" => pc[c] = "warn"
                          /\ pc[c] = "warn" /\ Proc(c) # p => pc'[c] = "warn"
  BY DEF Crash, recorderVars, TypeOK
<1>2. LogMatches' /\ WarnersMatch'
  BY <1>1 DEF Reported, LogMatches, WarnersMatch
<1>3. FirstReported'
  <2>1. ASSUME NEW r \in Recorders, ProcessOf[r] \notin Crashable, NEW c \in Calls,
               RecorderOf[c] = r, pc[c] = "warn"
        PROVE  pc'[c] = "warn"
    BY <1>1, <2>1 DEF Proc
  <2>2. QED
    BY <1>1, <2>1 DEF Reported, FirstReported
<1>4. QED
  BY <1>2, <1>3 DEF Reported

LEMMA ReportedStep ==
  ASSUME TypeOK, Reported, [Next]_vars
  PROVE  Reported'
<1>1. CASE /\ UNCHANGED <<count, dropped, lastWarned, log>>
           /\ \A c \in Calls : pc'[c] = "warn" <=> pc[c] = "warn"
  BY <1>1 DEF Reported, LogMatches, WarnersMatch, FirstReported
<1>2. QED
  BY <1>1, ReportSteps, ReportedNote, ReportedWarn, ReportedCrash

\* The dropped-event warnings of a recorder carry distinct counts that never run
\* ahead of its counter, and its first drop is reported (recorder.py _note_dropped).
THEOREM WarningsTrue == Spec => []WarningsAccurate
<1>1. TypeOK /\ Reported => WarningsAccurate
  <2>1. SUFFICES ASSUME Reported, TypeOK, NEW r \in Recorders
                 PROVE  /\ \A i \in DOMAIN log[r] : log[r][i] \in 1 .. dropped[r]
                        /\ \A i, j \in DOMAIN log[r] : log[r][i] = log[r][j] => i = j
                        /\ dropped[r] > 0 => \/ \E i \in DOMAIN log[r] : log[r][i] = 1
                                             \/ \E c \in Counted(r) : pc[c] = "warn" /\ count[c] = 1
                                             \/ ProcessOf[r] \in Crashable
    BY DEF WarningsAccurate
  <2>2. dropped[r] > 0 => dropped[r] # 0
    BY <2>1 DEF TypeOK
  <2>3. QED
    BY <2>1, <2>2 DEF Reported, LogMatches, FirstReported, Counted
<1>2. Init => Reported
  BY ReportedInit
<1>3. TypeOK /\ Reported /\ [Next]_vars => Reported'
  BY ReportedStep
<1>4. QED
  BY <1>1, <1>2, <1>3, TypeCorrect, PTL DEF Spec, Safe

\* A failing ledger keeps being reported: every drop falls within one interval after
\* a warning of its recorder (recorder.py _note_dropped).
THEOREM DropsReported == Spec => WarnedEachWindow
<1>1. TypeOK /\ [Next]_vars =>
         [\A r \in Recorders :
             dropped'[r] # dropped[r] =>
                 lastWarned'[r] # None /\ now - lastWarned'[r] < WarnInterval]_vars
  <2>1. SUFFICES ASSUME TypeOK, [Next]_vars, NEW r \in Recorders, dropped'[r] # dropped[r]
                 PROVE  lastWarned'[r] # None /\ now - lastWarned'[r] < WarnInterval
    OBVIOUS
  <2>2. PICK c \in Calls : Note(c)
    BY <2>1, CountedStep
  <2>3. r = RecorderOf[c]
    BY <2>1, <2>2 DEF Note, TypeOK
  <2>4. now \in Nat /\ now # None /\ now - now < WarnInterval
    BY <2>1, Clock, NoneIsNone DEF TypeOK
  <2>5. CASE WarningDue(r) /\ lastWarned' = [lastWarned EXCEPT ![r] = now]
    BY <2>1, <2>4, <2>5 DEF TypeOK
  <2>6. CASE ~WarningDue(r) /\ UNCHANGED lastWarned
    <3>1. lastWarned[r] # None /\ lastWarned[r] \in Nat
      BY <2>1, <2>6 DEF WarningDue, TypeOK
    <3>2. QED
      BY <2>4, <2>6, <3>1, Clock DEF WarningDue
  <2>7. QED
    BY <2>2, <2>3, <2>5, <2>6 DEF Note
<1>2. QED
  BY <1>1, TypeCorrect, PTL DEF Spec, Safe, WarnedEachWindow

-----------------------------------------------------------------------------
(* Refinement: the recorder is an event sink.                              *)

LEMMA SinkCallStep ==
  ASSUME TypeOK, RowsMatch, NEW c \in Calls, CallStep(c)
  PROVE  Sink!Next \/ UNCHANGED Sink!sinkVars
<1> USE DEF TypeOK, Goto, ledgerVars, recorderVars
<1>1. CASE Begin(c)
  <2>1. Fate[c] = "idle" /\ Fate' = [Fate EXCEPT ![c] = "pending"]
    BY <1>1 DEF Begin, Fate, WriteLabel
  <2>2. Sink!Submit(c)
    BY <1>1, <2>1 DEF Begin, Sink!Submit
  <2>3. QED
    BY <2>2 DEF Sink!Next
<1>2. CASE Insert(c) /\ pc'[c] = "recorded"
  <2>1. Fate[c] = "pending" /\ Fate' = [Fate EXCEPT ![c] = "recorded"]
    BY <1>2 DEF Insert, Fate, NoSuchTable
  <2>2. rows' = [rows EXCEPT ![c] = 1]
    <3>1. rows[c] = 0 /\ pc'[c] \notin {"check", "note"}
      BY <1>2 DEF Insert, RowsMatch
    <3>2. rows' = [rows EXCEPT ![c] = rows[c] + 1]
      BY <1>2, <3>1 DEF Insert, NoSuchTable
    <3>3. rows[c] + 1 = 1
      BY <3>1
    <3>4. QED
      BY <3>2, <3>3
  <2>3. Sink!Store(c)
    BY <1>2, <2>1, <2>2 DEF Insert, Sink!Store, Sink!Settle
  <2>4. QED
    BY <2>3 DEF Sink!Next
<1>3. CASE Note(c)
  <2>1. Fate[c] = "pending" /\ Fate' = [Fate EXCEPT ![c] = "dropped"]
    BY <1>3 DEF Note, Fate
  <2>2. Sink!Drop(c)
    BY <1>3, <2>1 DEF Note, Sink!Drop, Sink!Settle
  <2>3. QED
    BY <2>2 DEF Sink!Next
<1>4. CASE Insert(c) /\ pc'[c] # "recorded"
  <2>1. Fate' = Fate /\ rows' = rows
    BY <1>4 DEF Insert, Fate, NoSuchTable
  <2>2. QED
    BY <1>4, <2>1 DEF Insert, Sink!sinkVars
<1>5. CASE Price(c) \/ Check(c) \/ Claim(c) \/ Lock(c) \/ Fault(c)
  <2>1. Fate' = Fate
    BY <1>5 DEF Price, Check, Claim, Lock, Fault, Fate, NoSuchTable
  <2>2. QED
    BY <1>5, <2>1 DEF Price, Check, Claim, Lock, Fault, Sink!sinkVars
<1>6. CASE ReadHeads(c) \/ Migrate(c) \/ Release(c) \/ Warn(c)
  <2>1. Fate' = Fate
    BY <1>6 DEF ReadHeads, Migrate, Release, Warn, Fate, WriteLabel
  <2>2. QED
    BY <1>6, <2>1 DEF ReadHeads, Migrate, Release, Warn, Sink!sinkVars
<1>7. QED
  BY <1>1, <1>2, <1>3, <1>4, <1>5, <1>6 DEF CallStep, Step

LEMMA SinkCrashStep ==
  ASSUME TypeOK, NEW p \in Processes, Crash(p)
  PROVE  Sink!Next
<1> DEFINE gone == {c \in Calls : Proc(c) = p /\ pc[c] \notin Settled \cup {"warn"}}
<1>1. \A c \in gone : Fate[c] \in {"idle", "pending"}
  BY DEF Fate, Settled
<1>2. Fate' = [c \in Calls |-> IF c \in gone THEN "lost" ELSE Fate[c]]
  BY DEF Crash, Fate, Settled, TypeOK
<1>3. Sink!Lose(gone)
  BY <1>1, <1>2 DEF Crash, Sink!Lose, ledgerVars, recorderVars
<1>4. QED
  BY <1>3 DEF Sink!Next

\* Every step of the recorder is one the event sink allows, or none it can see.
THEOREM RecorderIsSink == Safe => Sink!Safe
<1>1. Init => Sink!Init
  BY DEF Init, Sink!Init, Fate
<1>2. TypeOK /\ RowsMatch /\ [Next]_vars => [Sink!Next]_(Sink!sinkVars)
  <2>1. SUFFICES ASSUME TypeOK, RowsMatch, [Next]_vars
                 PROVE  Sink!Next \/ UNCHANGED Sink!sinkVars
    OBVIOUS
  <2>2. CASE Tick \/ UNCHANGED vars
    BY <2>2 DEF Tick, vars, callVars, recorderVars, ledgerVars, Fate, Sink!sinkVars
  <2>3. QED
    BY <2>1, <2>2, StepCases, SinkCallStep, SinkCrashStep
<1>3. Init => TypeOK /\ RowsMatch
  BY InitTypes DEF Init, RowsMatch
<1>4. TypeOK /\ RowsMatch /\ [Next]_vars => TypeOK' /\ RowsMatch'
  BY NextTypes, RowsStep
<1>5. QED
  BY <1>1, <1>2, <1>3, <1>4, PTL DEF Safe, Sink!Safe
=============================================================================
