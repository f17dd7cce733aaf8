------------------------------- MODULE Prices -------------------------------
(***************************************************************************)
(* The price of an event: the model_prices table, the pricing of events as *)
(* they are recorded (pricing.py) and the three commands that touch prices *)
(* (cli.py: init's seed, prices set, prices backfill), all running against *)
(* one SQLite ledger at the same time.                                     *)
(*                                                                         *)
(* A SELECT opens no transaction, so what a command has read may be stale  *)
(* when it writes.  Only a backfill can hold the ledger's write lock over  *)
(* several steps: its next price lookup flushes the rows priced so far.    *)
(*                                                                         *)
(* Amounts are integers: a rate is an amount per token bucket, and a cost  *)
(* is in quanta, each the size of Scale amounts.                           *)
(***************************************************************************)
EXTENDS Integers, Sequences, FiniteSets, FiniteSetsExt

CONSTANTS Calls,       \* events recorded, one per call
          Processes,
          ProcessOf,   \* the process each call is recorded in
          Keys,        \* (provider, model) pairs
          KeyOf,       \* the pair of each call
          Buckets,     \* token buckets
          Tokens,      \* tokens of each call per bucket, or None without usage
          Setters,     \* `prices set` commands
          SetKey,      \* the pair each names
          Asked,       \* the rates each names
          Backfills,   \* `prices backfill` commands
          Inits,       \* `init` commands
          Seed,        \* the rates of the seed file, None for a pair not in it
          Scale,       \* amounts in a quantum of cost
          None

Rates == [Buckets -> Nat \cup {None}]

ASSUME PriceConstants ==
    /\ IsFiniteSet(Calls) /\ IsFiniteSet(Buckets)
    /\ ProcessOf \in [Calls -> Processes] /\ KeyOf \in [Calls -> Keys]
    /\ Tokens \in [Calls -> [Buckets -> Nat] \cup {None}]
    /\ SetKey \in [Setters -> Keys] /\ Asked \in [Setters -> Rates]
    /\ Seed \in [Keys -> Rates \cup {None}]
    /\ Scale \in Nat \ {0}
    /\ None \notin Nat /\ None \notin Rates /\ None \notin [Buckets -> Nat]
    /\ None \notin Backfills

VARIABLES call,      \* each recording: where it is and the rates it read
          set,       \* each `prices set`: where it is and the row it loaded
          fill,      \* each `prices backfill`
          init,      \* each `init`: where it is
          prices,    \* model_prices: the rates of each pair, None without a row
          rows,      \* llm_events: each call's cost and snapshot, <<>> before
          writer,    \* the backfill that holds the write lock, None if free
          warned,    \* pricing._warned of each process
          warnings,  \* history: warnings logged, per process and pair
          held       \* history: all the rates each pair has had

vars == <<call, set, fill, init, prices, rows, writer, warned, warnings, held>>

-----------------------------------------------------------------------------
(* compute_cost.                                                           *)

\* Decimal.quantize: to the nearest, ties to the even one.
Quantize(n) ==
    LET q == n \div Scale
        r == n % Scale
    IN  IF 2 * r > Scale \/ (2 * r = Scale /\ q % 2 = 1) THEN q + 1 ELSE q

\* Buckets with no tokens need no rate and leave nothing in the snapshot.
Used(tokens) == {b \in Buckets : tokens[b] # 0}

Covers(rates, tokens) == \A b \in Used(tokens) : rates[b] # None

Cost(rates, tokens) == Quantize(SumFunction([b \in Used(tokens) |-> tokens[b] * rates[b]]))

Unpriced == [cost |-> None, snapshot |-> None]

MutComputeFreeWhenUnknown(rates, tokens) ==
    LET known == [b \in Buckets |-> IF rates[b] = None THEN 0 ELSE rates[b]]
    IN  [cost |-> Cost(known, tokens), snapshot |-> [b \in Used(tokens) |-> rates[b]]]

Compute(rates, tokens) ==
    IF Covers(rates, tokens)
    THEN [cost |-> Cost(rates, tokens), snapshot |-> [b \in Used(tokens) |-> rates[b]]]
    ELSE Unpriced

Priced(c) == rows[c] # <<>> /\ rows[c].cost # None

-----------------------------------------------------------------------------
Init == /\ call = [c \in Calls |-> [pc |-> "idle", rates |-> None]]
        /\ set = [s \in Setters |-> [pc |-> "idle", row |-> None]]
        /\ fill = [b \in Backfills |-> 
                   [pc |-> "idle", loaded |-> {}, todo |-> {}, read |-> <<>>, batch |-> <<>>]]
        /\ init = [i \in Inits |-> "idle"]
        /\ prices = [k \in Keys |-> None]
        /\ rows = [c \in Calls |-> <<>>]
        /\ writer = None
        /\ warned = [p \in Processes |-> {}]
        /\ warnings = [p \in Processes |-> [k \in Keys |-> 0]]
        /\ held = [k \in Keys |-> {}]

Free(a) == writer \in {None, a}     \* the lock, as the command a sees it

(* Recording: Recorder._record with price_usage.                           *)

\* The rates are read before the row is written; without usage there is nothing
\* to price, and the cost stays NULL.
Lookup(c) ==
    /\ call[c].pc = "idle"
    /\ LET rates == prices[KeyOf[c]] IN
       call' = [call EXCEPT ![c] =
                  IF Tokens[c] = None
                  THEN [pc |-> "store", rates |-> None]
                  ELSE [pc |-> IF rates # None /\ Covers(rates, Tokens[c]) THEN "store" ELSE "warn",
                        rates |-> rates]]
    /\ UNCHANGED <<set, fill, init, prices, rows, writer, warned, warnings, held>>

\* _warn_once: the check and the mark are one critical section; who marks will log.
MutWarnOnceUnmarked(c) ==
    /\ call[c].pc = "warn"
    /\ call' = [call EXCEPT ![c].pc = IF KeyOf[c] \in warned[ProcessOf[c]] THEN "store" ELSE "log"]
    /\ UNCHANGED <<set, fill, init, prices, rows, writer, warned, warnings, held>>

WarnOnce(c) ==
    /\ call[c].pc = "warn"
    /\ call' = [call EXCEPT ![c].pc = IF KeyOf[c] \in warned[ProcessOf[c]] THEN "store" ELSE "log"]
    /\ warned' = [warned EXCEPT ![ProcessOf[c]] = @ \cup {KeyOf[c]}]
    /\ UNCHANGED <<set, fill, init, prices, rows, writer, warnings, held>>

\* The warning is logged once the lock is released: another thread that has seen the
\* mark may store its row before.
Warn(c) ==
    /\ call[c].pc = "log"
    /\ warnings' = [warnings EXCEPT ![ProcessOf[c]][KeyOf[c]] = @ + 1]
    /\ call' = [call EXCEPT ![c].pc = "store"]
    /\ UNCHANGED <<set, fill, init, prices, rows, writer, warned, held>>

\* The INSERT waits for the write lock, and gives up after the busy timeout.
Store(c) ==
    /\ call[c].pc = "store"
    /\ \/ /\ Free(c)
          /\ rows' = [rows EXCEPT ![c] = IF call[c].rates = None THEN Unpriced
                                         ELSE Compute(call[c].rates, Tokens[c])]
          /\ call' = [call EXCEPT ![c].pc = "stored"]
       \/ /\ ~Free(c)
          /\ call' = [call EXCEPT ![c].pc = "dropped"]
          /\ UNCHANGED rows
    /\ UNCHANGED <<set, fill, init, prices, writer, warned, warnings, held>>

-----------------------------------------------------------------------------
(* prices set.                                                             *)

Put(new) == /\ prices' = new
            /\ held' = [k \in Keys |-> IF new[k] = None THEN held[k] ELSE held[k] \cup {new[k]}]

SetLoad(s) ==
    /\ set[s].pc = "idle"
    /\ set' = [set EXCEPT ![s] = [pc |-> "loaded", row |-> prices[SetKey[s]]]]
    /\ UNCHANGED <<call, fill, init, prices, rows, writer, warned, warnings, held>>

\* Without a row an INSERT, which fails if there is one by now; with one an UPDATE,
\* of the columns whose value differs from the one loaded.
SetCommit(s) ==
    LET k == SetKey[s]
        row == set[s].row
    IN  /\ set[s].pc = "loaded"
        /\ \/ /\ Free(s) /\ (row = None => prices[k] = None)
              /\ Put([prices EXCEPT ![k] =
                         IF row = None THEN Asked[s]
                         ELSE [b \in Buckets |-> IF Asked[s][b] # row[b] THEN Asked[s][b]
                                                 ELSE prices[k][b]]])
              /\ set' = [set EXCEPT ![s].pc = "done"]
           \/ /\ ~Free(s) \/ (row = None /\ prices[k] # None)
              /\ set' = [set EXCEPT ![s].pc = "failed"]
              /\ UNCHANGED <<prices, held>>
        /\ UNCHANGED <<call, fill, init, rows, writer, warned, warnings>>

-----------------------------------------------------------------------------
(* prices backfill.                                                        *)

FillLoad(b) ==
    /\ fill[b].pc = "idle"
    /\ LET unpriced == {c \in Calls : rows[c] # <<>> /\ ~Priced(c)} IN
       fill' = [fill EXCEPT ![b] = [pc |-> "pricing", loaded |-> unpriced, todo |-> unpriced,
                                    read |-> <<>>, batch |-> <<>>]]
    /\ UNCHANGED <<call, set, init, prices, rows, writer, warned, warnings, held>>

\* What the run makes of a row, given the rates it has read so far.
Repriced(c, read) ==
    IF Tokens[c] = None \/ read[KeyOf[c]] = None THEN Unpriced
    ELSE Compute(read[KeyOf[c]], Tokens[c])

With(f, x, y) == [d \in DOMAIN f \cup {x} |-> IF d = x THEN y ELSE f[d]]

\* The rates known once a row has been looked at: read at most once per pair.
MutReadOnceAnyPair(f, c) ==
    IF Tokens[c] = None \/ KeyOf[c] \in DOMAIN f.read THEN f.read
    ELSE With(f.read, KeyOf[c], IF f.read = <<>> THEN prices[KeyOf[c]]
                                ELSE f.read[CHOOSE k \in DOMAIN f.read : TRUE])

ReadOnce(f, c) ==
    IF Tokens[c] = None \/ KeyOf[c] \in DOMAIN f.read THEN f.read
    ELSE With(f.read, KeyOf[c], prices[KeyOf[c]])

\* The next row, in an order the query leaves open.  A SELECT of rates flushes the
\* rows already priced, which takes the write lock until the end.
MutFillRowStopsAtGap(b) ==
    /\ fill[b].pc = "pricing"
    /\ \E c \in fill[b].todo :
        LET read == ReadOnce(fill[b], c)
            result == Repriced(c, read)
        IN  /\ fill' = [fill EXCEPT
                           ![b].todo = IF result = Unpriced THEN {} ELSE @ \ {c},
                           ![b].read = read,
                           ![b].batch = IF result = Unpriced THEN @ ELSE With(@, c, result)]
            /\ UNCHANGED writer
    /\ UNCHANGED <<call, set, init, prices, rows, warned, warnings, held>>

FillRow(b) ==
    /\ fill[b].pc = "pricing"
    /\ \E c \in fill[b].todo :
        LET read == ReadOnce(fill[b], c)
            result == Repriced(c, read)
            flushes == read # fill[b].read /\ fill[b].batch # <<>>
        IN  /\ flushes => Free(b)
            /\ writer' = IF flushes THEN b ELSE writer
            /\ fill' = [fill EXCEPT ![b] =
                           [pc |-> "pricing", loaded |-> @.loaded, todo |-> @.todo \ {c},
                            read |-> read,
                            batch |-> IF result = Unpriced THEN @.batch
                                      ELSE With(@.batch, c, result)]]
    /\ UNCHANGED <<call, set, init, prices, rows, warned, warnings, held>>

\* One commit for the whole batch: an UPDATE by primary key of each row in it.
MutFillCommitKeepsLock(b) ==
    /\ fill[b].pc = "pricing" /\ fill[b].todo = {}
    /\ fill[b].batch # <<>> => Free(b)
    /\ rows' = [c \in Calls |-> IF c \in DOMAIN fill[b].batch THEN fill[b].batch[c] ELSE rows[c]]
    /\ fill' = [fill EXCEPT ![b].pc = "done"]
    /\ UNCHANGED <<call, set, init, prices, writer, warned, warnings, held>>

FillCommit(b) ==
    /\ fill[b].pc = "pricing" /\ fill[b].todo = {}
    /\ fill[b].batch # <<>> => Free(b)
    /\ rows' = [c \in Calls |-> IF c \in DOMAIN fill[b].batch THEN fill[b].batch[c] ELSE rows[c]]
    /\ writer' = IF writer = b THEN None ELSE writer
    /\ fill' = [fill EXCEPT ![b].pc = "done"]
    /\ UNCHANGED <<call, set, init, prices, warned, warnings, held>>

\* Locked out past the busy timeout: everything is rolled back.
FillFail(b) ==
    /\ fill[b].pc = "pricing" /\ ~Free(b) /\ fill[b].batch # <<>>
    /\ fill' = [fill EXCEPT ![b].pc = "failed"]
    /\ UNCHANGED <<call, set, init, prices, rows, writer, warned, warnings, held>>

-----------------------------------------------------------------------------
(* init, after its migration: seed the prices if there are none.           *)

InitCount(i) ==
    /\ init[i] = "idle"
    /\ init' = [init EXCEPT ![i] = IF \A k \in Keys : prices[k] = None THEN "seed" ELSE "done"]
    /\ UNCHANGED <<call, set, fill, prices, rows, writer, warned, warnings, held>>

\* All INSERTs in one transaction: one pair that has a row by now undoes them all.
MutInitSeedUpserts(i) ==
    /\ init[i] = "seed"
    /\ Free(i)
    /\ Put([k \in Keys |-> IF Seed[k] = None THEN prices[k] ELSE Seed[k]])
    /\ init' = [init EXCEPT ![i] = "done"]
    /\ UNCHANGED <<call, set, fill, rows, writer, warned, warnings>>

InitSeed(i) ==
    LET clash == \E k \in Keys : Seed[k] # None /\ prices[k] # None IN
    /\ init[i] = "seed"
    /\ \/ /\ Free(i) /\ ~clash
          /\ Put([k \in Keys |-> IF Seed[k] = None THEN prices[k] ELSE Seed[k]])
          /\ init' = [init EXCEPT ![i] = "done"]
       \/ /\ ~Free(i) \/ clash
          /\ init' = [init EXCEPT ![i] = "failed"]
          /\ UNCHANGED <<prices, held>>
    /\ UNCHANGED <<call, set, fill, rows, writer, warned, warnings>>

-----------------------------------------------------------------------------
Next == \/ \E c \in Calls : Lookup(c) \/ WarnOnce(c) \/ Warn(c) \/ Store(c)
        \/ \E s \in Setters : SetLoad(s) \/ SetCommit(s)
        \/ \E b \in Backfills : FillLoad(b) \/ FillRow(b) \/ FillCommit(b) \/ FillFail(b)
        \/ \E i \in Inits : InitCount(i) \/ InitSeed(i)

Spec == Init /\ [][Next]_vars
-----------------------------------------------------------------------------
(* Properties.                                                             *)

\* The shape of the state; a backfill holds the write lock only while it runs, and
\* what it is about to write concerns rows that exist.
TypeOK ==
    /\ \A c \in Calls : /\ call[c].pc \in {"idle", "warn", "log", "store", "stored", "dropped"}
                        /\ call[c].rates \in Rates \cup {None}
                        /\ rows[c] # <<>> <=> call[c].pc = "stored"
    /\ \A s \in Setters : /\ set[s].pc \in {"idle", "loaded", "done", "failed"}
                          /\ set[s].row \in Rates \cup {None}
    /\ \A b \in Backfills : /\ fill[b].pc \in {"idle", "pricing", "done", "failed"}
                            /\ DOMAIN fill[b].batch \subseteq fill[b].loaded
                            /\ \A c \in fill[b].loaded : rows[c] # <<>>
                            /\ writer = b => fill[b].pc = "pricing"
    /\ \A i \in Inits : init[i] \in {"idle", "seed", "done", "failed"}
    /\ prices \in [Keys -> Rates \cup {None}]
    /\ writer \in Backfills \cup {None}
    /\ warned \in [Processes -> SUBSET Keys]

\* "Any row's cost is independently recomputable from its own contents" (DESIGN.md):
\* its tokens and the rates in its snapshot give its cost, and the snapshot has a
\* rate for every bucket that has tokens and no other.  Unknown usage is never priced,
\* whichever command does it: it stays NULL, "never a fabricated $0" (D4).
Recomputable ==
    \A c \in Calls : Priced(c) =>
        /\ Tokens[c] # None
        /\ DOMAIN rows[c].snapshot = Used(Tokens[c])
        /\ Covers(rows[c].snapshot, Tokens[c])
        /\ rows[c].cost = Cost(rows[c].snapshot, Tokens[c])

\* The rates in a snapshot were in force together, for the row's own pair: no row is
\* priced from two readings, from another pair's rates or from rates nobody stored.
PricedAtRatesHeld ==
    \A c \in Calls : Priced(c) => \E rates \in held[KeyOf[c]] :
        \A b \in DOMAIN rows[c].snapshot : rows[c].snapshot[b] = rates[b]

\* The recordings about to log the warning of a pair in a process.
Logging(p, k) == {c \in Calls : call[c].pc = "log" /\ ProcessOf[c] = p /\ KeyOf[c] = k}

\* A gap in the prices is reported by every process that records over it, and once
\* per pair only, whatever threads meet it together (pricing.py _warn_once): at most
\* one of them is about to log, then nothing has been logged yet, and a row over the
\* gap is there only if the warning has been logged or is about to be.
GapsReportedOnce ==
    /\ \A p \in Processes : \A k \in Keys :
          \/ warnings[p][k] <= 1 /\ Logging(p, k) = {}
          \/ warnings[p][k] = 0 /\ \E c \in Calls : Logging(p, k) = {c}
    /\ \A c \in Calls : rows[c] # <<>> /\ ~Priced(c) /\ Tokens[c] # None =>
          warnings[ProcessOf[c]][KeyOf[c]] = 1 \/ Logging(ProcessOf[c], KeyOf[c]) # {}

\* A backfill that completes has priced every row it loaded whose usage is known and
\* whose pair had the rates when it looked, over any gap among the other rows.
BackfillRepairs ==
    \A b \in Backfills : fill[b].pc = "done" =>
        \A c \in fill[b].loaded :
            \/ Priced(c)
            \/ Tokens[c] = None
            \/ /\ KeyOf[c] \in DOMAIN fill[b].read
               /\ Repriced(c, fill[b].read) = Unpriced

\* Rates, once there, change only by a `prices set` of their pair: `init` never
\* overwrites what a user has set, even when it found the table empty.
SeedOnlyFills ==
    [][\A k \in Keys : prices[k] # None /\ prices'[k] # prices[k] =>
           \E s \in Setters : SetKey[s] = k /\ set[s].pc = "loaded" /\ set'[s].pc = "done"]_vars

\* "History never silently shifts" (DESIGN.md): a priced row keeps its cost.
HistoryFixed == [][\A c \in Calls : Priced(c) => rows'[c] = rows[c]]_vars
=============================================================================
