---------------------------- MODULE PricesProofs ----------------------------
(***************************************************************************)
(* Proofs about Prices for any calls, pairs, buckets, rates and commands.  *)
(*                                                                         *)
(*   - Shaped makes TypeOK inductive: what the records of the commands are *)
(*     made of, and that a price, once there, stays there, so that the row *)
(*     a `prices set` updates still exists;                                *)
(*   - Traced follows the rates from the table through every copy of them: *)
(*     what a recording or a backfill has read, what a backfill is about   *)
(*     to write and what the rows hold were all in force for their pair;   *)
(*   - Sounded says the same of the costs: what is or will be written can  *)
(*     be recomputed from its snapshot, and a backfill writes prices only; *)
(*   - Looked and Landed follow a backfill from row to row, and Reported   *)
(*     ties every gap to the mark of its process, and a mark to a warning  *)
(*     that has been logged or that one recording is about to log.         *)
(*                                                                         *)
(* A cost is None or the rounded sum of a row's buckets, never both: that  *)
(* the sum is a number at all comes from module Aggregates.                *)
(***************************************************************************)
EXTENDS Prices, Aggregates, TLAPS

LEMMA StepCases ==
  ASSUME [Next]_vars
  PROVE  \/ \E c \in Calls : Lookup(c) \/ WarnOnce(c) \/ Warn(c) \/ Store(c)
         \/ \E s \in Setters : SetLoad(s) \/ SetCommit(s)
         \/ \E b \in Backfills : FillLoad(b) \/ FillRow(b) \/ FillCommit(b) \/ FillFail(b)
         \/ \E i \in Inits : InitCount(i) \/ InitSeed(i)
         \/ UNCHANGED vars
BY DEF Next

-----------------------------------------------------------------------------
(* Types.                                                                  *)

CallStates == {"idle", "warn", "log", "store", "stored", "dropped"}
SetStates  == {"idle", "loaded", "done", "failed"}
FillStates == {"idle", "pricing", "done", "failed"}

\* What pricing makes of a row.
Outcome(r) == r = [cost |-> r.cost, snapshot |-> r.snapshot]

FillShape(f) ==
    /\ f = [pc |-> f.pc, loaded |-> f.loaded, todo |-> f.todo, read |-> f.read,
            batch |-> f.batch]
    /\ f.pc \in FillStates
    /\ f.loaded \subseteq Calls /\ f.todo \subseteq f.loaded
    /\ DOMAIN f.read \subseteq Keys
    /\ \A k \in DOMAIN f.read : f.read[k] \in Rates \cup {None}
    /\ DOMAIN f.batch \subseteq f.loaded
    /\ \A c \in DOMAIN f.batch : Outcome(f.batch[c])

Shaped ==
    /\ DOMAIN call = Calls
    /\ \A c \in Calls : call[c] \in [pc : CallStates, rates : Rates \cup {None}]
    /\ set \in [Setters -> [pc : SetStates, row : Rates \cup {None}]]
    /\ DOMAIN fill = Backfills /\ \A b \in Backfills : FillShape(fill[b])
    /\ init \in [Inits -> {"idle", "seed", "done", "failed"}]
    /\ prices \in [Keys -> Rates \cup {None}]
    /\ DOMAIN rows = Calls
    /\ \A c \in Calls : rows[c] = <<>> \/ Outcome(rows[c])
    /\ \A c \in Calls : rows[c] # <<>> <=> call[c].pc = "stored"
    /\ \A b \in Backfills : \A c \in fill[b].loaded : rows[c] # <<>>
    /\ writer \in Backfills \cup {None}
    /\ \A b \in Backfills : writer = b => fill[b].pc = "pricing"
    /\ warned \in [Processes -> SUBSET Keys]
    /\ \A s \in Setters : set[s].row # None => prices[SetKey[s]] # None

LEMMA OutcomeIsRow == \A r : Outcome(r) => r # <<>>
<1>1. \A x, y : DOMAIN [cost |-> x, snapshot |-> y] = {"cost", "snapshot"}
  OBVIOUS
<1>2. DOMAIN <<>> = {}
  OBVIOUS
<1>3. ASSUME NEW r, Outcome(r) PROVE r # <<>>
  <2>1. DOMAIN r = {"cost", "snapshot"}
    BY <1>1, <1>3 DEF Outcome
  <2>2. QED
    BY <1>2, <2>1
<1>4. QED
  BY <1>3

LEMMA ComputeOutcome == \A rates, tokens : Outcome(Compute(rates, tokens)) /\ Outcome(Unpriced)
BY DEF Outcome, Compute, Unpriced

LEMMA RepricedOutcome == \A c, read : Outcome(Repriced(c, read))
BY ComputeOutcome DEF Repriced

LEMMA ShapedGivesTypes == Shaped => TypeOK
<1> SUFFICES ASSUME Shaped PROVE TypeOK
  OBVIOUS
<1>1. \A c \in Calls : call[c].pc \in CallStates /\ call[c].rates \in Rates \cup {None}
  BY DEF Shaped
<1>2. \A s \in Setters : set[s].pc \in SetStates /\ set[s].row \in Rates \cup {None}
  BY DEF Shaped
<1>3. \A b \in Backfills : fill[b].pc \in FillStates /\ DOMAIN fill[b].batch \subseteq fill[b].loaded
  BY DEF Shaped, FillShape
<1>4. QED
  BY <1>1, <1>2, <1>3 DEF Shaped, TypeOK, CallStates, SetStates, FillStates

LEMMA ShapedInit == Init => Shaped
<1> SUFFICES ASSUME Init PROVE Shaped
  OBVIOUS
<1>1. /\ DOMAIN call = Calls
      /\ \A c \in Calls : call[c] \in [pc : CallStates, rates : Rates \cup {None}]
      /\ set \in [Setters -> [pc : SetStates, row : Rates \cup {None}]]
  BY DEF Init, CallStates, SetStates
<1>2. DOMAIN fill = Backfills /\ \A b \in Backfills : FillShape(fill[b])
  BY DEF Init, FillShape, FillStates
<1>3. \A s \in Setters : set[s].row = None
  BY DEF Init
<1>4. /\ \A c \in Calls : rows[c] = <<>> /\ call[c].pc = "idle"
      /\ \A b \in Backfills : fill[b].loaded = {}
  BY DEF Init
<1>5. writer = None /\ \A b \in Backfills : writer # b
  BY PriceConstants DEF Init
<1>6. DOMAIN rows = Calls
  BY DEF Init
<1>7. /\ init \in [Inits -> {"idle", "seed", "done", "failed"}]
      /\ prices \in [Keys -> Rates \cup {None}]
      /\ warned \in [Processes -> SUBSET Keys]
  BY DEF Init
<1>8. QED
  BY <1>1, <1>2, <1>3, <1>4, <1>5, <1>6, <1>7 DEF Shaped

\* One argument of a function gets another value.
Becomes(f, g, x, y) == DOMAIN g = DOMAIN f /\ g[x] = y /\ \A d \in DOMAIN f \ {x} : g[d] = f[d]

\* A backfill's record moves on, its rows and the table stay.
LEMMA ShapedFill ==
  ASSUME Shaped, NEW b \in Backfills, NEW f, FillShape(f),
         Becomes(fill, fill', b, f),
         \A c \in f.loaded : rows[c] # <<>>,
         writer' \in Backfills \cup {None},
         \A d \in Backfills : writer' = d => fill'[d].pc = "pricing",
         UNCHANGED <<call, set, init, prices, rows, warned>>
  PROVE  Shaped'
<1>1. DOMAIN fill' = Backfills /\ fill'[b] = f /\ \A d \in Backfills \ {b} : fill'[d] = fill[d]
  BY DEF Shaped, Becomes
<1>2. \A d \in Backfills : FillShape(fill'[d])
  BY <1>1 DEF Shaped
<1>3. \A d \in Backfills : \A c \in fill'[d].loaded : rows[c] # <<>>
  BY <1>1 DEF Shaped
<1>4. QED
  BY <1>1, <1>2, <1>3 DEF Shaped, FillShape

\* The prices change, none of them away.
LEMMA ShapedPut ==
  ASSUME Shaped, prices' \in [Keys -> Rates \cup {None}],
         \A k \in Keys : prices[k] # None => prices'[k] # None,
         UNCHANGED <<call, fill, rows, writer, warned>>,
         set' \in [Setters -> [pc : SetStates, row : Rates \cup {None}]],
         \A s \in Setters : set'[s].row = set[s].row,
         init' \in [Inits -> {"idle", "seed", "done", "failed"}]
  PROVE  Shaped'
<1>1. \A s \in Setters : SetKey[s] \in Keys
  BY PriceConstants
<1>2. \A s \in Setters : set'[s].row # None => prices'[SetKey[s]] # None
  BY <1>1 DEF Shaped
<1>3. QED
  BY <1>2 DEF Shaped, FillShape, Outcome

\* A recording moves on: its row is written, or not.
LEMMA ShapedCall ==
  ASSUME Shaped, NEW c \in Calls, NEW r \in [pc : CallStates, rates : Rates \cup {None}],
         Becomes(call, call', c, r), call[c].pc # "stored",
         \/ r.pc # "stored" /\ UNCHANGED rows
         \/ r.pc = "stored" /\ \E x : Outcome(x) /\ rows' = [rows EXCEPT ![c] = x],
         UNCHANGED <<set, fill, init, prices, writer>>, warned' \in [Processes -> SUBSET Keys]
  PROVE  Shaped'
<1>1. /\ DOMAIN call' = Calls
      /\ call'[c] = r /\ \A d \in Calls \ {c} : call'[d] = call[d]
  BY DEF Shaped, Becomes
<1>2. /\ DOMAIN rows' = Calls
      /\ \A d \in Calls \ {c} : rows'[d] = rows[d]
      /\ rows'[c] = <<>> \/ Outcome(rows'[c])
      /\ rows'[c] # <<>> <=> r.pc = "stored"
  <2>1. CASE r.pc # "stored" /\ UNCHANGED rows
    BY <2>1 DEF Shaped
  <2>2. ASSUME r.pc = "stored", NEW x, Outcome(x), rows' = [rows EXCEPT ![c] = x]
        PROVE  /\ DOMAIN rows' = Calls
               /\ \A d \in Calls \ {c} : rows'[d] = rows[d]
               /\ rows'[c] = <<>> \/ Outcome(rows'[c])
               /\ rows'[c] # <<>> <=> r.pc = "stored"
    <3>1. DOMAIN rows' = Calls /\ rows'[c] = x /\ \A d \in Calls \ {c} : rows'[d] = rows[d]
      BY <2>2 DEF Shaped
    <3>2. QED
      BY <2>2, <3>1, OutcomeIsRow
  <2>3. QED
    BY <2>1, <2>2
<1>3. \A d \in Calls : rows[d] # <<>> => rows'[d] # <<>>
  BY <1>2 DEF Shaped
<1>4. \A b \in Backfills : \A d \in fill[b].loaded : d \in Calls /\ rows'[d] # <<>>
  BY <1>3 DEF Shaped, FillShape
<1>5. \A d \in Calls : rows'[d] = <<>> \/ Outcome(rows'[d])
  BY <1>2 DEF Shaped
<1>6. \A d \in Calls : rows'[d] # <<>> <=> call'[d].pc = "stored"
  BY <1>1, <1>2 DEF Shaped
<1>7. \A b \in Backfills : FillShape(fill'[b])
  BY DEF Shaped
<1>8. QED
  BY <1>1, <1>2, <1>4, <1>5, <1>6, <1>7 DEF Shaped

LEMMA StepCall ==
  ASSUME Shaped, NEW c \in Calls, Lookup(c) \/ WarnOnce(c) \/ Warn(c) \/ Store(c)
  PROVE  Shaped'
<1>1. /\ call[c] \in [pc : CallStates, rates : Rates \cup {None}]
      /\ KeyOf[c] \in Keys /\ ProcessOf[c] \in Processes
      /\ prices[KeyOf[c]] \in Rates \cup {None}
      /\ warned \in [Processes -> SUBSET Keys]
  BY PriceConstants DEF Shaped
<1>2. call[c] = [pc |-> call[c].pc, rates |-> call[c].rates] /\ DOMAIN call = Calls
  BY <1>1 DEF Shaped
<1>3. CASE Lookup(c)
  <2> DEFINE r == IF Tokens[c] = None THEN [pc |-> "store", rates |-> None]
                  ELSE [pc |-> IF prices[KeyOf[c]] # None /\ Covers(prices[KeyOf[c]], Tokens[c])
                               THEN "store" ELSE "warn",
                        rates |-> prices[KeyOf[c]]]
  <2>1. r \in [pc : CallStates, rates : Rates \cup {None}] /\ r.pc # "stored"
    BY <1>1 DEF CallStates
  <2>2. /\ Becomes(call, call', c, r) /\ call[c].pc = "idle"
        /\ UNCHANGED <<set, fill, init, prices, rows, writer, warned>>
    BY <1>3 DEF Lookup, Becomes, Shaped
  <2> HIDE DEF r
  <2>3. QED
    BY <1>1, <2>1, <2>2, ShapedCall
<1>4. CASE WarnOnce(c)
  <2> DEFINE r == [pc |-> IF KeyOf[c] \in warned[ProcessOf[c]] THEN "store" ELSE "log",
                   rates |-> call[c].rates]
  <2>1. r \in [pc : CallStates, rates : Rates \cup {None}] /\ r.pc # "stored"
    BY <1>1 DEF CallStates
  <2>2. /\ Becomes(call, call', c, r) /\ call[c].pc = "warn"
        /\ UNCHANGED <<set, fill, init, prices, rows, writer>>
    <3>1. /\ call' = [call EXCEPT ![c].pc = IF KeyOf[c] \in warned[ProcessOf[c]] THEN "store"
                                            ELSE "log"]
          /\ call[c].pc = "warn"
          /\ UNCHANGED <<set, fill, init, prices, rows, writer>>
      BY <1>4 DEF WarnOnce
    <3>2. QED
      BY <1>2, <3>1 DEF Becomes
  <2>3. warned' \in [Processes -> SUBSET Keys]
    BY <1>1, <1>4 DEF WarnOnce
  <2> HIDE DEF r
  <2>4. QED
    BY <2>1, <2>2, <2>3, ShapedCall
<1>5. CASE Warn(c)
  <2> DEFINE r == [pc |-> "store", rates |-> call[c].rates]
  <2>1. r \in [pc : CallStates, rates : Rates \cup {None}] /\ r.pc # "stored"
    BY <1>1 DEF CallStates
  <2>2. /\ Becomes(call, call', c, r) /\ call[c].pc = "log"
        /\ UNCHANGED <<set, fill, init, prices, rows, writer, warned>>
    <3>1. /\ call' = [call EXCEPT ![c].pc = "store"] /\ call[c].pc = "log"
          /\ UNCHANGED <<set, fill, init, prices, rows, writer, warned>>
      BY <1>5 DEF Warn
    <3>2. QED
      BY <1>2, <3>1 DEF Becomes
  <2> HIDE DEF r
  <2>3. QED
    BY <1>1, <2>1, <2>2, ShapedCall
<1>6. CASE Store(c)
  <2>1. CASE Free(c) /\ call' = [call EXCEPT ![c].pc = "stored"]
             /\ rows' = [rows EXCEPT ![c] = IF call[c].rates = None THEN Unpriced
                                            ELSE Compute(call[c].rates, Tokens[c])]
    <3> DEFINE r == [pc |-> "stored", rates |-> call[c].rates]
               x == IF call[c].rates = None THEN Unpriced ELSE Compute(call[c].rates, Tokens[c])
    <3>1. r \in [pc : CallStates, rates : Rates \cup {None}] /\ r.pc = "stored"
      BY <1>1 DEF CallStates
    <3>2. /\ Becomes(call, call', c, r) /\ call[c].pc = "store"
          /\ UNCHANGED <<set, fill, init, prices, writer, warned>>
      <4>1. call[c].pc = "store" /\ UNCHANGED <<set, fill, init, prices, writer, warned>>
        BY <1>6 DEF Store
      <4>2. QED
        BY <1>2, <2>1, <4>1 DEF Becomes
    <3>3. Outcome(x) /\ rows' = [rows EXCEPT ![c] = x]
      BY <2>1, ComputeOutcome
    <3> HIDE DEF r, x
    <3>4. QED
      BY <1>1, <3>1, <3>2, <3>3, ShapedCall
  <2>2. CASE call' = [call EXCEPT ![c].pc = "dropped"] /\ UNCHANGED rows
    <3> DEFINE r == [pc |-> "dropped", rates |-> call[c].rates]
    <3>1. r \in [pc : CallStates, rates : Rates \cup {None}] /\ r.pc # "stored"
      BY <1>1 DEF CallStates
    <3>2. /\ Becomes(call, call', c, r) /\ call[c].pc = "store"
          /\ UNCHANGED <<set, fill, init, prices, writer, warned>>
      <4>1. call[c].pc = "store" /\ UNCHANGED <<set, fill, init, prices, writer, warned>>
        BY <1>6 DEF Store
      <4>2. QED
        BY <1>2, <2>2, <4>1 DEF Becomes
    <3> HIDE DEF r
    <3>3. QED
      BY <1>1, <2>2, <3>1, <3>2, ShapedCall
  <2>3. QED
    BY <1>6, <2>1, <2>2 DEF Store
<1>7. QED
  BY <1>3, <1>4, <1>5, <1>6

LEMMA StepSet ==
  ASSUME Shaped, NEW s \in Setters, SetLoad(s) \/ SetCommit(s)
  PROVE  Shaped'
<1>1. /\ set[s] \in [pc : SetStates, row : Rates \cup {None}]
      /\ SetKey[s] \in Keys /\ Asked[s] \in Rates /\ prices[SetKey[s]] \in Rates \cup {None}
      /\ set \in [Setters -> [pc : SetStates, row : Rates \cup {None}]]
      /\ prices \in [Keys -> Rates \cup {None}]
  BY PriceConstants DEF Shaped
<1>2. CASE SetLoad(s)
  <2>1. /\ set' = [set EXCEPT ![s] = [pc |-> "loaded", row |-> prices[SetKey[s]]]]
        /\ UNCHANGED <<call, fill, init, prices, rows, writer, warned>>
    BY <1>2 DEF SetLoad
  <2>2. set' \in [Setters -> [pc : SetStates, row : Rates \cup {None}]]
    BY <1>1, <2>1 DEF SetStates
  <2>3. \A t \in Setters : set'[t].row # None => prices[SetKey[t]] # None
    BY <1>1, <2>1 DEF Shaped
  <2>4. QED
    BY <2>1, <2>2, <2>3 DEF Shaped, FillShape, Outcome
<1>3. CASE SetCommit(s)
  <2>1. CASE set' = [set EXCEPT ![s].pc = "failed"] /\ UNCHANGED prices
    <3>1. /\ set' \in [Setters -> [pc : SetStates, row : Rates \cup {None}]]
          /\ \A t \in Setters : set'[t].row = set[t].row
      BY <1>1, <2>1 DEF SetStates
    <3>2. UNCHANGED <<call, fill, init, rows, writer, warned>>
      BY <1>3 DEF SetCommit
    <3>3. QED
      BY <1>1, <2>1, <3>1, <3>2, ShapedPut DEF Shaped
  <2>2. CASE set' = [set EXCEPT ![s].pc = "done"]
             /\ prices' = [prices EXCEPT ![SetKey[s]] =
                              IF set[s].row = None THEN Asked[s]
                              ELSE [b \in Buckets |->
                                       IF Asked[s][b] # set[s].row[b] THEN Asked[s][b]
                                       ELSE prices[SetKey[s]][b]]]
    <3>1. /\ set' \in [Setters -> [pc : SetStates, row : Rates \cup {None}]]
          /\ \A t \in Setters : set'[t].row = set[t].row
      BY <1>1, <2>2 DEF SetStates
    <3>2. UNCHANGED <<call, fill, init, rows, writer, warned>>
      BY <1>3 DEF SetCommit
    <3> DEFINE new == IF set[s].row = None THEN Asked[s]
                      ELSE [b \in Buckets |-> IF Asked[s][b] # set[s].row[b] THEN Asked[s][b]
                                              ELSE prices[SetKey[s]][b]]
    <3>3. new \in Rates
      <4>1. CASE set[s].row = None
        BY <1>1, <4>1
      <4>2. CASE set[s].row # None
        <5>1. prices[SetKey[s]] \in Rates
          BY <1>1, <4>2 DEF Shaped
        <5>2. QED
          BY <1>1, <4>2, <5>1 DEF Rates
      <4>3. QED
        BY <4>1, <4>2
    <3>4. prices' = [prices EXCEPT ![SetKey[s]] = new]
      BY <2>2
    <3> HIDE DEF new
    <3>5. new # None
      BY <3>3, PriceConstants
    <3>6. /\ prices' \in [Keys -> Rates \cup {None}]
          /\ \A k \in Keys : prices[k] # None => prices'[k] # None
      BY <1>1, <3>3, <3>4, <3>5
    <3>7. init' \in [Inits -> {"idle", "seed", "done", "failed"}]
      BY <3>2 DEF Shaped
    <3>8. QED
      BY <3>1, <3>2, <3>6, <3>7, ShapedPut
  <2>3. QED
    BY <1>3, <2>1, <2>2 DEF SetCommit, Put
<1>4. QED
  BY <1>2, <1>3

\* What a backfill knows of the rates after it has looked at a row.
LEMMA ReadValues ==
  ASSUME Shaped, NEW b \in Backfills, NEW c \in Calls
  PROVE  /\ DOMAIN ReadOnce(fill[b], c) \subseteq Keys
         /\ \A k \in DOMAIN ReadOnce(fill[b], c) :
                \/ ReadOnce(fill[b], c)[k] = prices[k]
                \/ k \in DOMAIN fill[b].read /\ ReadOnce(fill[b], c)[k] = fill[b].read[k]
         /\ Tokens[c] # None => KeyOf[c] \in DOMAIN ReadOnce(fill[b], c)
<1>1. KeyOf[c] \in Keys /\ DOMAIN fill[b].read \subseteq Keys
  BY PriceConstants DEF Shaped, FillShape
<1>2. CASE Tokens[c] = None \/ KeyOf[c] \in DOMAIN fill[b].read
  BY <1>1, <1>2 DEF ReadOnce
<1>3. CASE ~(Tokens[c] = None \/ KeyOf[c] \in DOMAIN fill[b].read)
  <2>1. ReadOnce(fill[b], c) = With(fill[b].read, KeyOf[c], prices[KeyOf[c]])
    BY <1>3 DEF ReadOnce
  <2> DEFINE f == fill[b].read
             g == ReadOnce(fill[b], c)
  <2>2. /\ DOMAIN g = DOMAIN f \cup {KeyOf[c]} /\ g[KeyOf[c]] = prices[KeyOf[c]]
        /\ \A k \in DOMAIN f : k # KeyOf[c] => g[k] = f[k]
    BY <2>1 DEF With
  <2> HIDE DEF f, g
  <2>3. /\ DOMAIN g \subseteq Keys
        /\ \A k \in DOMAIN g : g[k] = prices[k] \/ (k \in DOMAIN f /\ g[k] = f[k])
        /\ KeyOf[c] \in DOMAIN g
    BY <1>1, <2>2 DEF f
  <2>4. QED
    BY <2>3 DEF f, g
<1>4. QED
  BY <1>2, <1>3

\* The record of a backfill after a row.
RowDone(b, c) ==
    [pc |-> "pricing", loaded |-> fill[b].loaded, todo |-> fill[b].todo \ {c},
     read |-> ReadOnce(fill[b], c),
     batch |-> IF Repriced(c, ReadOnce(fill[b], c)) = Unpriced THEN fill[b].batch
               ELSE With(fill[b].batch, c, Repriced(c, ReadOnce(fill[b], c)))]

LEMMA BatchValues ==
  ASSUME Shaped, NEW b \in Backfills, NEW c \in fill[b].todo
  PROVE  /\ DOMAIN RowDone(b, c).batch \subseteq fill[b].loaded
         /\ \A d \in DOMAIN RowDone(b, c).batch :
                \/ d = c /\ RowDone(b, c).batch[d] = Repriced(c, ReadOnce(fill[b], c))
                \/ d \in DOMAIN fill[b].batch /\ RowDone(b, c).batch[d] = fill[b].batch[d]
<1>1. c \in fill[b].loaded /\ DOMAIN fill[b].batch \subseteq fill[b].loaded
  BY DEF Shaped, FillShape
<1>2. CASE Repriced(c, ReadOnce(fill[b], c)) = Unpriced
  BY <1>1, <1>2 DEF RowDone
<1>3. CASE Repriced(c, ReadOnce(fill[b], c)) # Unpriced
  <2>1. RowDone(b, c).batch = With(fill[b].batch, c, Repriced(c, ReadOnce(fill[b], c)))
    BY <1>3 DEF RowDone
  <2> DEFINE f == fill[b].batch
             g == RowDone(b, c).batch
  <2>2. /\ DOMAIN g = DOMAIN f \cup {c} /\ g[c] = Repriced(c, ReadOnce(fill[b], c))
        /\ \A d \in DOMAIN f : d # c => g[d] = f[d]
    BY <2>1 DEF With
  <2> HIDE DEF f, g
  <2>3. /\ DOMAIN g \subseteq fill[b].loaded
        /\ \A d \in DOMAIN g :
               \/ d = c /\ g[d] = Repriced(c, ReadOnce(fill[b], c))
               \/ d \in DOMAIN f /\ g[d] = f[d]
    BY <1>1, <2>2 DEF f
  <2>4. QED
    BY <2>3 DEF f, g
<1>4. QED
  BY <1>2, <1>3

LEMMA FillRowDone ==
  ASSUME Shaped, NEW b \in Backfills, FillRow(b)
  PROVE  \E c \in fill[b].todo :
            /\ Becomes(fill, fill', b, RowDone(b, c))
            /\ writer' = b \/ writer' = writer
            /\ fill[b].pc = "pricing"
            /\ UNCHANGED <<call, set, init, prices, rows, warned, warnings, held>>
<1>1. PICK c \in fill[b].todo :
        /\ fill' = [fill EXCEPT ![b] =
                       [pc |-> "pricing", loaded |-> fill[b].loaded, todo |-> fill[b].todo \ {c},
                        read |-> ReadOnce(fill[b], c),
                        batch |-> IF Repriced(c, ReadOnce(fill[b], c)) = Unpriced
                                  THEN fill[b].batch
                                  ELSE With(fill[b].batch, c, Repriced(c, ReadOnce(fill[b], c)))]]
        /\ writer' = b \/ writer' = writer
  BY DEF FillRow
<1>2. fill[b].pc = "pricing" /\ DOMAIN fill = Backfills
  BY DEF FillRow, Shaped
<1>3. fill' = [fill EXCEPT ![b] = RowDone(b, c)]
  BY <1>1 DEF RowDone
<1>4. Becomes(fill, fill', b, RowDone(b, c))
  BY <1>2, <1>3 DEF Becomes
<1>5. QED
  BY <1>1, <1>4 DEF FillRow

LEMMA StepFill ==
  ASSUME Shaped, NEW b \in Backfills, FillLoad(b) \/ FillRow(b) \/ FillCommit(b) \/ FillFail(b)
  PROVE  Shaped'
<1>1. FillShape(fill[b]) /\ DOMAIN fill = Backfills /\ writer \in Backfills \cup {None}
  BY DEF Shaped
<1>2. fill[b] = [pc |-> fill[b].pc, loaded |-> fill[b].loaded, todo |-> fill[b].todo,
                 read |-> fill[b].read, batch |-> fill[b].batch]
  BY <1>1 DEF FillShape
<1>3. CASE FillLoad(b)
  <2> DEFINE unpriced == {c \in Calls : rows[c] # <<>> /\ ~Priced(c)}
             f == [pc |-> "pricing", loaded |-> unpriced, todo |-> unpriced,
                   read |-> <<>>, batch |-> <<>>]
  <2>1. /\ fill' = [fill EXCEPT ![b] = f]
        /\ UNCHANGED <<call, set, init, prices, rows, writer, warned>>
    BY <1>3 DEF FillLoad
  <2>2. unpriced \subseteq Calls /\ \A c \in unpriced : rows[c] # <<>>
    OBVIOUS
  <2> HIDE DEF unpriced
  <2>3. Becomes(fill, fill', b, f)
    BY <1>1, <2>1 DEF Becomes
  <2>4. f.read = <<>> /\ f.batch = <<>> /\ DOMAIN <<>> = {}
    OBVIOUS
  <2>5. FillShape(f)
    BY <1>1, <2>2, <2>4 DEF FillShape, FillStates
  <2>6. f.loaded = unpriced /\ f.pc = "pricing"
    OBVIOUS
  <2> HIDE DEF f
  <2>7. \A d \in Backfills : writer' = d => fill'[d].pc = "pricing"
    BY <1>1, <2>1, <2>3, <2>6 DEF Shaped, Becomes
  <2>8. QED
    BY <1>1, <2>1, <2>2, <2>3, <2>5, <2>6, <2>7, ShapedFill
<1>4. CASE FillRow(b)
  <2>1. PICK c \in fill[b].todo :
            /\ Becomes(fill, fill', b, RowDone(b, c))
            /\ writer' = b \/ writer' = writer
            /\ fill[b].pc = "pricing"
            /\ UNCHANGED <<call, set, init, prices, rows, warned, warnings, held>>
    BY <1>4, FillRowDone
  <2>2. c \in Calls /\ c \in fill[b].loaded
    BY <1>1 DEF FillShape
  <2> DEFINE f == RowDone(b, c)
  <2>3. /\ f.pc = "pricing" /\ f.loaded = fill[b].loaded /\ f.todo = fill[b].todo \ {c}
        /\ f.read = ReadOnce(fill[b], c)
        /\ f = [pc |-> f.pc, loaded |-> f.loaded, todo |-> f.todo, read |-> f.read,
                batch |-> f.batch]
    BY DEF RowDone
  <2>4. /\ DOMAIN f.read \subseteq Keys
        /\ \A k \in DOMAIN f.read : f.read[k] \in Rates \cup {None}
    <3>1. /\ \A k \in Keys : prices[k] \in Rates \cup {None}
          /\ \A k \in DOMAIN fill[b].read : fill[b].read[k] \in Rates \cup {None}
      BY <1>1 DEF Shaped, FillShape
    <3>2. QED
      BY <2>2, <2>3, <3>1, ReadValues
  <2>5. /\ DOMAIN f.batch \subseteq fill[b].loaded
        /\ \A d \in DOMAIN f.batch : Outcome(f.batch[d])
    <3>1. \A d \in DOMAIN fill[b].batch : Outcome(fill[b].batch[d])
      BY <1>1 DEF FillShape
    <3>2. QED
      BY <3>1, BatchValues, RepricedOutcome
  <2> HIDE DEF f
  <2>6. FillShape(f)
    BY <1>1, <2>3, <2>4, <2>5 DEF FillShape, FillStates
  <2>7. \A d \in Backfills : writer' = d => fill'[d].pc = "pricing"
    BY <1>1, <2>1, <2>3 DEF Shaped, Becomes, f
  <2>8. Becomes(fill, fill', b, f) /\ writer' \in Backfills \cup {None}
    BY <1>1, <2>1 DEF f
  <2>9. \A d \in f.loaded : rows[d] # <<>>
    BY <2>3 DEF Shaped
  <2>10. QED
    BY <2>1, <2>6, <2>7, <2>8, <2>9, ShapedFill
<1>5. CASE FillFail(b)
  <2> DEFINE f == [pc |-> "failed", loaded |-> fill[b].loaded, todo |-> fill[b].todo,
                   read |-> fill[b].read, batch |-> fill[b].batch]
  <2>1. /\ fill' = [fill EXCEPT ![b].pc = "failed"]
        /\ writer # b /\ fill[b].pc = "pricing"
        /\ UNCHANGED <<call, set, init, prices, rows, writer, warned>>
    BY <1>5 DEF FillFail, Free
  <2>2. Becomes(fill, fill', b, f)
    BY <1>1, <1>2, <2>1 DEF Becomes
  <2>3. FillShape(f) /\ f.loaded = fill[b].loaded
    BY <1>1 DEF FillShape, FillStates
  <2> HIDE DEF f
  <2>4. \A d \in Backfills : writer' = d => fill'[d].pc = "pricing"
    BY <1>1, <2>1, <2>2 DEF Shaped, Becomes
  <2>5. \A c \in f.loaded : rows[c] # <<>>
    BY <2>3 DEF Shaped
  <2>6. QED
    BY <1>1, <2>1, <2>2, <2>3, <2>4, <2>5, ShapedFill
<1>6. CASE FillCommit(b)
  <2> DEFINE f == [pc |-> "done", loaded |-> fill[b].loaded, todo |-> fill[b].todo,
                   read |-> fill[b].read, batch |-> fill[b].batch]
  <2>1. /\ fill' = [fill EXCEPT ![b].pc = "done"]
        /\ writer' = IF writer = b THEN None ELSE writer
        /\ rows' = [c \in Calls |-> IF c \in DOMAIN fill[b].batch THEN fill[b].batch[c]
                                    ELSE rows[c]]
        /\ UNCHANGED <<call, set, init, prices, warned>>
    BY <1>6 DEF FillCommit
  <2>2. Becomes(fill, fill', b, f)
    BY <1>1, <1>2, <2>1 DEF Becomes
  <2>3. FillShape(f) /\ f.loaded = fill[b].loaded
    BY <1>1 DEF FillShape, FillStates
  <2> HIDE DEF f
  <2>4. \A d \in Backfills : writer' = d => fill'[d].pc = "pricing"
    BY <1>1, <2>1, <2>2, PriceConstants DEF Shaped, Becomes
  <2>5. \A c \in DOMAIN fill[b].batch : /\ c \in Calls /\ rows[c] # <<>>
                                        /\ Outcome(fill[b].batch[c]) /\ fill[b].batch[c] # <<>>
    BY <1>1, OutcomeIsRow DEF Shaped, FillShape
  <2>6. /\ DOMAIN rows' = Calls
        /\ \A c \in Calls : rows'[c] = rows[c] \/ (Outcome(rows'[c]) /\ rows[c] # <<>>)
    BY <2>1, <2>5
  <2>7. \A c \in Calls : rows'[c] # <<>> <=> rows[c] # <<>>
    BY <2>6, OutcomeIsRow
  <2>8. \A d \in Backfills : FillShape(fill'[d]) /\ fill'[d].loaded = fill[d].loaded
    BY <1>1, <2>2, <2>3 DEF Shaped, Becomes
  <2>9. \A d \in Backfills : \A c \in fill'[d].loaded : rows'[c] # <<>>
    BY <2>7, <2>8 DEF Shaped, FillShape
  <2>10. \A c \in Calls : rows'[c] = <<>> \/ Outcome(rows'[c])
    BY <2>6 DEF Shaped
  <2>11. DOMAIN fill' = Backfills /\ writer' \in Backfills \cup {None}
    BY <1>1, <2>1, <2>2 DEF Becomes
  <2>12. QED
    BY <2>1, <2>4, <2>6, <2>7, <2>8, <2>9, <2>10, <2>11 DEF Shaped
<1>7. QED
  BY <1>3, <1>4, <1>5, <1>6

LEMMA StepInit ==
  ASSUME Shaped, NEW i \in Inits, InitCount(i) \/ InitSeed(i)
  PROVE  Shaped'
<1>1. /\ init \in [Inits -> {"idle", "seed", "done", "failed"}]
      /\ prices \in [Keys -> Rates \cup {None}]
      /\ set \in [Setters -> [pc : SetStates, row : Rates \cup {None}]]
  BY DEF Shaped
<1>2. CASE UNCHANGED prices
  <2>1. init' \in [Inits -> {"idle", "seed", "done", "failed"}]
    BY <1>1 DEF InitCount, InitSeed
  <2>2. UNCHANGED <<call, set, fill, rows, writer, warned>>
    BY DEF InitCount, InitSeed
  <2>3. QED
    BY <1>1, <1>2, <2>1, <2>2, ShapedPut
<1>3. CASE /\ prices' = [k \in Keys |-> IF Seed[k] = None THEN prices[k] ELSE Seed[k]]
           /\ init' = [init EXCEPT ![i] = "done"]
           /\ InitSeed(i)
  <2>1. /\ prices' \in [Keys -> Rates \cup {None}]
        /\ \A k \in Keys : prices[k] # None => prices'[k] # None
    BY <1>1, <1>3, PriceConstants
  <2>2. UNCHANGED <<call, set, fill, rows, writer, warned>>
    BY <1>3 DEF InitSeed
  <2>3. init' \in [Inits -> {"idle", "seed", "done", "failed"}]
    BY <1>1, <1>3
  <2>4. QED
    BY <1>1, <2>1, <2>2, <2>3, ShapedPut
<1>4. QED
  BY <1>2, <1>3 DEF InitCount, InitSeed, Put

LEMMA ShapedStep ==
  ASSUME Shaped, [Next]_vars
  PROVE  Shaped'
<1>1. CASE UNCHANGED vars
  BY <1>1 DEF vars, Shaped, FillShape, Outcome
<1>2. QED
  BY <1>1, StepCases, StepCall, StepSet, StepFill, StepInit

\* The state of the ledger and of the commands keeps its shape; a backfill holds the
\* write lock only while it runs, and is about to write only rows that exist.
THEOREM PriceTypes == Spec => []TypeOK
<1>1. Init => Shaped
  BY ShapedInit
<1>2. Shaped /\ [Next]_vars => Shaped'
  BY ShapedStep
<1>3. Shaped => TypeOK
  BY ShapedGivesTypes
<1>4. QED
  BY <1>1, <1>2, <1>3, PTL DEF Spec

-----------------------------------------------------------------------------
(* The rates in the snapshots.                                             *)

\* What pricing made of a row of c uses rates that were in force together.
Traces(h, c, o) == o.cost # None => \E rates \in h[KeyOf[c]] :
                                        \A b \in DOMAIN o.snapshot : o.snapshot[b] = rates[b]

Traced ==
    /\ DOMAIN held = Keys
    /\ \A k \in Keys : prices[k] # None => prices[k] \in held[k]
    /\ \A c \in Calls : call[c].rates # None => call[c].rates \in held[KeyOf[c]]
    /\ \A b \in Backfills : \A k \in DOMAIN fill[b].read :
           fill[b].read[k] # None => fill[b].read[k] \in held[k]
    /\ \A b \in Backfills : \A c \in DOMAIN fill[b].batch : Traces(held, c, fill[b].batch[c])
    /\ \A c \in Calls : rows[c] # <<>> => Traces(held, c, rows[c])

LEMMA TracesCompute ==
  ASSUME NEW c, NEW rates \in held[KeyOf[c]], NEW tokens
  PROVE  Traces(held, c, Compute(rates, tokens)) /\ Traces(held, c, Unpriced)
BY DEF Traces, Compute, Unpriced

LEMMA TracedInit == Init => Traced
BY DEF Init, Traced

LEMMA TracedCall ==
  ASSUME Shaped, Traced, NEW c \in Calls, Lookup(c) \/ WarnOnce(c) \/ Warn(c) \/ Store(c)
  PROVE  Traced'
<1>1. /\ KeyOf[c] \in Keys /\ UNCHANGED <<fill, prices, held>>
      /\ DOMAIN call = Calls /\ DOMAIN rows = Calls
      /\ call[c] \in [pc : CallStates, rates : Rates \cup {None}]
  BY PriceConstants DEF Lookup, WarnOnce, Warn, Store, Shaped
<1>2. \A d, o : Traces(held', d, o) <=> Traces(held, d, o)
  BY <1>1 DEF Traces
<1>3. /\ \A d \in Calls : call'[d].rates = call[d].rates
             \/ (d = c /\ call'[d].rates \in {None, prices[KeyOf[c]]})
  <2>1. CASE Lookup(c)
    BY <1>1, <2>1 DEF Lookup
  <2>2. CASE WarnOnce(c)
    <3>1. \E pc : call' = [call EXCEPT ![c].pc = pc]
      BY <2>2 DEF WarnOnce
    <3>2. QED
      BY <1>1, <3>1
  <2>3. CASE Warn(c)
    <3>1. call' = [call EXCEPT ![c].pc = "store"]
      BY <2>3 DEF Warn
    <3>2. QED
      BY <1>1, <3>1
  <2>4. CASE Store(c)
    <3>1. call' = [call EXCEPT ![c].pc = "stored"] \/ call' = [call EXCEPT ![c].pc = "dropped"]
      BY <2>4 DEF Store
    <3>2. QED
      BY <1>1, <3>1
  <2>5. QED
    BY <2>1, <2>2, <2>3, <2>4
<1>4. \A d \in Calls : rows'[d] = rows[d] \/ Traces(held, d, rows'[d])
  <2>1. CASE UNCHANGED rows
    BY <2>1
  <2>2. CASE rows' = [rows EXCEPT ![c] = IF call[c].rates = None THEN Unpriced
                                         ELSE Compute(call[c].rates, Tokens[c])]
    <3>1. Traces(held, c, Unpriced)
      BY DEF Traces, Unpriced
    <3>2. call[c].rates # None => Traces(held, c, Compute(call[c].rates, Tokens[c]))
      BY TracesCompute DEF Traced
    <3>3. Traces(held, c, rows'[c]) /\ \A d \in Calls \ {c} : rows'[d] = rows[d]
      BY <1>1, <2>2, <3>1, <3>2
    <3>4. QED
      BY <3>3
  <2>3. QED
    BY <2>1, <2>2 DEF Lookup, WarnOnce, Warn, Store
<1>5. \A d \in Calls : call'[d].rates # None => call'[d].rates \in held'[KeyOf[d]]
  BY <1>1, <1>3 DEF Traced
<1>6. \A d \in Calls : rows'[d] # <<>> => Traces(held', d, rows'[d])
  BY <1>2, <1>4 DEF Traced
<1>7. \A b \in Backfills : \A d \in DOMAIN fill'[b].batch : Traces(held', d, fill'[b].batch[d])
  BY <1>1, <1>2 DEF Traced
<1>8. QED
  BY <1>1, <1>5, <1>6, <1>7 DEF Traced

\* The prices change, and the rates they had are remembered.
LEMMA TracedPut ==
  ASSUME Shaped, Traced, NEW new \in [Keys -> Rates \cup {None}], Put(new),
         UNCHANGED <<call, fill, rows>>
  PROVE  Traced'
<1>1. DOMAIN held' = Keys /\ \A k \in Keys : held[k] \subseteq held'[k]
  BY DEF Put
<1>2. \A c \in Calls : KeyOf[c] \in Keys
  BY PriceConstants
<1>3. \A c \in Calls : \A o : Traces(held, c, o) => Traces(held', c, o)
  BY <1>1, <1>2 DEF Traces
<1>4. \A k \in Keys : prices'[k] # None => prices'[k] \in held'[k]
  BY DEF Put
<1>5. \A c \in Calls : call'[c].rates # None => call'[c].rates \in held'[KeyOf[c]]
  BY <1>1, <1>2 DEF Traced
<1>6. \A b \in Backfills : /\ DOMAIN fill[b].read \subseteq Keys
                           /\ DOMAIN fill[b].batch \subseteq Calls
  BY DEF Shaped, FillShape
<1>7. \A b \in Backfills : \A k \in DOMAIN fill'[b].read :
          fill'[b].read[k] # None => fill'[b].read[k] \in held'[k]
  BY <1>1, <1>6 DEF Traced
<1>8. \A b \in Backfills : \A c \in DOMAIN fill'[b].batch : Traces(held', c, fill'[b].batch[c])
  BY <1>3, <1>6 DEF Traced
<1>9. \A c \in Calls : rows'[c] # <<>> => Traces(held', c, rows'[c])
  BY <1>3 DEF Traced
<1>10. QED
  BY <1>1, <1>4, <1>5, <1>7, <1>8, <1>9 DEF Traced

\* Neither prices nor rates held change, nor do calls.
LEMMA TracedFill ==
  ASSUME Shaped, Traced, NEW b \in Backfills,
         FillLoad(b) \/ FillRow(b) \/ FillCommit(b) \/ FillFail(b)
  PROVE  Traced'
<1>1. UNCHANGED <<call, prices, held>> /\ DOMAIN fill = Backfills
  BY DEF FillLoad, FillRow, FillCommit, FillFail, Shaped
<1>2. \A d, o : Traces(held', d, o) <=> Traces(held, d, o)
  BY <1>1 DEF Traces
<1>3. /\ FillShape(fill[b])
      /\ fill[b] = [pc |-> fill[b].pc, loaded |-> fill[b].loaded, todo |-> fill[b].todo,
                    read |-> fill[b].read, batch |-> fill[b].batch]
  BY DEF Shaped, FillShape
<1>4. ASSUME NEW f, Becomes(fill, fill', b, f),
             \A k \in DOMAIN f.read : f.read[k] # None => f.read[k] \in held[k],
             \A d \in DOMAIN f.batch : Traces(held, d, f.batch[d]),
             \A d \in Calls : rows'[d] # <<>> => Traces(held, d, rows'[d])
      PROVE  Traced'
  <2>1. \A e \in Backfills : fill'[e] = fill[e] \/ fill'[e] = f
    BY <1>1, <1>4 DEF Becomes
  <2>2. \A e \in Backfills : \A k \in DOMAIN fill'[e].read :
            fill'[e].read[k] # None => fill'[e].read[k] \in held'[k]
    BY <1>1, <1>4, <2>1 DEF Traced
  <2>3. \A e \in Backfills : \A d \in DOMAIN fill'[e].batch : Traces(held', d, fill'[e].batch[d])
    BY <1>2, <1>4, <2>1 DEF Traced
  <2>4. \A d \in Calls : rows'[d] # <<>> => Traces(held', d, rows'[d])
    BY <1>2, <1>4
  <2>5. QED
    BY <1>1, <2>2, <2>3, <2>4 DEF Traced
<1>5. CASE FillLoad(b)
  <2> DEFINE unpriced == {c \in Calls : rows[c] # <<>> /\ ~Priced(c)}
             f == [pc |-> "pricing", loaded |-> unpriced, todo |-> unpriced,
                   read |-> <<>>, batch |-> <<>>]
  <2>1. fill' = [fill EXCEPT ![b] = f] /\ UNCHANGED rows
    BY <1>5 DEF FillLoad
  <2>2. Becomes(fill, fill', b, f)
    BY <1>1, <2>1 DEF Becomes
  <2>3. DOMAIN f.read = {} /\ DOMAIN f.batch = {}
    OBVIOUS
  <2> HIDE DEF f
  <2>4. QED
    BY <1>4, <2>1, <2>2, <2>3 DEF Traced
<1>6. CASE FillRow(b)
  <2>1. PICK c \in fill[b].todo : /\ Becomes(fill, fill', b, RowDone(b, c)) /\ UNCHANGED rows
    BY <1>6, FillRowDone
  <2>2. c \in Calls /\ KeyOf[c] \in Keys
    BY <1>3, PriceConstants DEF FillShape
  <2> DEFINE read == ReadOnce(fill[b], c)
  <2>3. \A k \in DOMAIN read : read[k] # None => read[k] \in held[k]
    BY <2>2, ReadValues DEF Traced
  <2>4. Traces(held, c, Repriced(c, read))
    <3>1. CASE Tokens[c] = None \/ read[KeyOf[c]] = None
      BY <3>1 DEF Repriced, Traces, Unpriced
    <3>2. CASE Tokens[c] # None /\ read[KeyOf[c]] # None
      <4>1. read[KeyOf[c]] \in held[KeyOf[c]]
        BY <2>2, <2>3, <3>2, ReadValues
      <4>2. Repriced(c, read) = Compute(read[KeyOf[c]], Tokens[c])
        BY <3>2 DEF Repriced
      <4>3. QED
        BY <4>1, <4>2, TracesCompute
    <3>3. QED
      BY <3>1, <3>2
  <2>5. RowDone(b, c).read = read
    BY DEF RowDone
  <2>6. \A d \in DOMAIN RowDone(b, c).batch : Traces(held, d, RowDone(b, c).batch[d])
    BY <2>4, BatchValues DEF Traced
  <2>7. QED
    BY <1>4, <2>1, <2>3, <2>5, <2>6 DEF Traced
<1>7. CASE FillFail(b)
  <2> DEFINE f == [pc |-> "failed", loaded |-> fill[b].loaded, todo |-> fill[b].todo,
                   read |-> fill[b].read, batch |-> fill[b].batch]
  <2>1. fill' = [fill EXCEPT ![b].pc = "failed"] /\ UNCHANGED rows
    BY <1>7 DEF FillFail
  <2>2. Becomes(fill, fill', b, f)
    BY <1>1, <1>3, <2>1 DEF Becomes
  <2>3. f.read = fill[b].read /\ f.batch = fill[b].batch
    OBVIOUS
  <2> HIDE DEF f
  <2>4. QED
    BY <1>4, <2>1, <2>2, <2>3 DEF Traced
<1>8. CASE FillCommit(b)
  <2> DEFINE f == [pc |-> "done", loaded |-> fill[b].loaded, todo |-> fill[b].todo,
                   read |-> fill[b].read, batch |-> fill[b].batch]
  <2>1. /\ fill' = [fill EXCEPT ![b].pc = "done"]
        /\ rows' = [c \in Calls |-> IF c \in DOMAIN fill[b].batch THEN fill[b].batch[c]
                                    ELSE rows[c]]
    BY <1>8 DEF FillCommit
  <2>2. Becomes(fill, fill', b, f)
    BY <1>1, <1>3, <2>1 DEF Becomes
  <2>3. f.read = fill[b].read /\ f.batch = fill[b].batch
    OBVIOUS
  <2> HIDE DEF f
  <2>4. \A c \in Calls : rows'[c] # <<>> => Traces(held, c, rows'[c])
    BY <2>1 DEF Traced
  <2>5. QED
    BY <1>4, <2>2, <2>3, <2>4 DEF Traced
<1>9. QED
  BY <1>5, <1>6, <1>7, <1>8

\* What the two commands that write prices do to them.
LEMMA SetPuts ==
  ASSUME Shaped, NEW s \in Setters, SetCommit(s)
  PROVE  \/ UNCHANGED <<prices, held>>
         \/ /\ Put(prices') /\ prices' \in [Keys -> Rates \cup {None}]
            /\ \A k \in Keys : prices'[k] # prices[k] =>
                   k = SetKey[s] /\ set[s].pc = "loaded" /\ set'[s].pc = "done"
<1>1. prices' \in [Keys -> Rates \cup {None}]
  BY StepSet DEF Shaped
<1>2. CASE UNCHANGED <<prices, held>>
  BY <1>2
<1>3. ASSUME NEW new, prices' = [prices EXCEPT ![SetKey[s]] = new], Put(prices'),
             set' = [set EXCEPT ![s].pc = "done"], set[s].pc = "loaded"
      PROVE  \A k \in Keys : prices'[k] # prices[k] =>
                 k = SetKey[s] /\ set[s].pc = "loaded" /\ set'[s].pc = "done"
  <2>1. set'[s].pc = "done"
    BY <1>3 DEF Shaped
  <2>2. \A k \in Keys : prices'[k] # prices[k] => k = SetKey[s]
    BY <1>3 DEF Shaped
  <2>3. QED
    BY <1>3, <2>1, <2>2
<1> DEFINE asked == IF set[s].row = None THEN Asked[s]
                    ELSE [b \in Buckets |-> IF Asked[s][b] # set[s].row[b] THEN Asked[s][b]
                                            ELSE prices[SetKey[s]][b]]
<1>4. CASE /\ Put([prices EXCEPT ![SetKey[s]] = asked])
           /\ set' = [set EXCEPT ![s].pc = "done"]
  <2> HIDE DEF asked
  <2>1. prices' = [prices EXCEPT ![SetKey[s]] = asked] /\ Put(prices')
    BY <1>4 DEF Put
  <2>2. set[s].pc = "loaded"
    BY DEF SetCommit
  <2>3. QED
    BY <1>1, <1>3, <1>4, <2>1, <2>2
<1>5. QED
  BY <1>2, <1>4 DEF SetCommit

LEMMA SeedPuts ==
  ASSUME Shaped, NEW i \in Inits, InitSeed(i)
  PROVE  \/ UNCHANGED <<prices, held>>
         \/ /\ Put(prices') /\ prices' \in [Keys -> Rates \cup {None}]
            /\ \A k \in Keys : prices'[k] # prices[k] => prices[k] = None
<1>1. prices' \in [Keys -> Rates \cup {None}]
  BY StepInit DEF Shaped
<1>2. CASE UNCHANGED <<prices, held>>
  BY <1>2
<1>3. CASE /\ Put([k \in Keys |-> IF Seed[k] = None THEN prices[k] ELSE Seed[k]])
           /\ ~\E k \in Keys : Seed[k] # None /\ prices[k] # None
  <2>1. prices' = [k \in Keys |-> IF Seed[k] = None THEN prices[k] ELSE Seed[k]]
    BY <1>3 DEF Put
  <2>2. Put(prices')
    BY <1>3, <2>1
  <2>3. \A k \in Keys : prices'[k] # prices[k] => prices[k] = None
    BY <1>3, <2>1
  <2>4. QED
    BY <1>1, <2>2, <2>3
<1>4. QED
  BY <1>2, <1>3 DEF InitSeed

LEMMA TracedSame ==
  ASSUME Traced, UNCHANGED <<call, fill, rows, prices, held>>
  PROVE  Traced'
<1>1. \A d, o : Traces(held', d, o) <=> Traces(held, d, o)
  BY DEF Traces
<1>2. QED
  BY <1>1 DEF Traced

LEMMA TracedStep ==
  ASSUME Shaped, Traced, [Next]_vars
  PROVE  Traced'
<1>1. ASSUME NEW s \in Setters, SetLoad(s) \/ SetCommit(s) PROVE Traced'
  <2>1. UNCHANGED <<call, fill, rows>>
    BY <1>1 DEF SetLoad, SetCommit
  <2>2. CASE UNCHANGED <<prices, held>>
    BY <2>1, <2>2, TracedSame
  <2>3. CASE Put(prices') /\ prices' \in [Keys -> Rates \cup {None}]
    BY <2>1, <2>3, TracedPut
  <2>4. QED
    BY <1>1, <2>2, <2>3, SetPuts DEF SetLoad
<1>2. ASSUME NEW i \in Inits, InitCount(i) \/ InitSeed(i) PROVE Traced'
  <2>1. UNCHANGED <<call, fill, rows>>
    BY <1>2 DEF InitCount, InitSeed
  <2>2. CASE UNCHANGED <<prices, held>>
    BY <2>1, <2>2, TracedSame
  <2>3. CASE Put(prices') /\ prices' \in [Keys -> Rates \cup {None}]
    BY <2>1, <2>3, TracedPut
  <2>4. QED
    BY <1>2, <2>2, <2>3, SeedPuts DEF InitCount
<1>3. CASE UNCHANGED vars
  BY <1>3, TracedSame DEF vars
<1>4. QED
  BY <1>1, <1>2, <1>3, StepCases, TracedCall, TracedFill

\* The rates in a snapshot were all in force at one time, for the row's own pair.
THEOREM SnapshotsHeld == Spec => []PricedAtRatesHeld
<1>1. Init => Shaped /\ Traced
  BY ShapedInit, TracedInit
<1>2. Shaped /\ Traced /\ [Next]_vars => Shaped' /\ Traced'
  BY ShapedStep, TracedStep
<1>3. Traced => PricedAtRatesHeld
  BY DEF Traced, Traces, PricedAtRatesHeld, Priced
<1>4. QED
  BY <1>1, <1>2, <1>3, PTL DEF Spec

\* Rates change only by a `prices set` of their pair; the seed only fills gaps.
THEOREM SeedFills == Spec => SeedOnlyFills
<1>1. Shaped /\ [Next]_vars =>
         [\A k \in Keys : prices[k] # None /\ prices'[k] # prices[k] =>
              \E s \in Setters : SetKey[s] = k /\ set[s].pc = "loaded" /\ set'[s].pc = "done"]_vars
  <2> SUFFICES ASSUME Shaped, Next, NEW k \in Keys, prices[k] # None, prices'[k] # prices[k]
               PROVE  \E s \in Setters : /\ SetKey[s] = k /\ set[s].pc = "loaded"
                                         /\ set'[s].pc = "done"
    OBVIOUS
  <2>1. ASSUME NEW s \in Setters, SetCommit(s)
        PROVE  SetKey[s] = k /\ set[s].pc = "loaded" /\ set'[s].pc = "done"
    BY <2>1, SetPuts
  <2>2. ASSUME NEW i \in Inits, InitSeed(i) PROVE FALSE
    BY <2>2, SeedPuts
  <2>3. \/ \E s \in Setters : SetCommit(s)
        \/ \E i \in Inits : InitSeed(i)
    BY DEF Next, Lookup, WarnOnce, Warn, Store, SetLoad, FillLoad, FillRow, FillCommit, FillFail,
       InitCount
  <2>4. QED
    BY <2>1, <2>2, <2>3
<1>2. Init => Shaped
  BY ShapedInit
<1>3. Shaped /\ [Next]_vars => Shaped'
  BY ShapedStep
<1>4. QED
  BY <1>1, <1>2, <1>3, PTL DEF Spec, SeedOnlyFills

-----------------------------------------------------------------------------
(* The cost, and what a step does to a row.                                *)

Amounts == [Buckets -> Nat]

\* Rounding takes an amount to a whole number of quanta, at most half a quantum off.
LEMMA QuantizeNear ==
  ASSUME NEW n \in Nat
  PROVE  /\ Quantize(n) \in Nat
         /\ 2 * n - Scale <= 2 * (Scale * Quantize(n))
         /\ 2 * (Scale * Quantize(n)) <= 2 * n + Scale
<1> DEFINE q == n \div Scale
           r == n % Scale
<1>1. Scale \in Nat /\ Scale > 0
  BY PriceConstants
<1>2. q \in Nat /\ r \in 0 .. Scale - 1 /\ n = Scale * q + r
  BY <1>1
<1> HIDE DEF q, r
<1>3. Scale * q \in Nat /\ Scale * (q + 1) = Scale * q + Scale
  BY <1>1, <1>2
<1>4. CASE 2 * r > Scale \/ (2 * r = Scale /\ q % 2 = 1)
  <2>1. Quantize(n) = q + 1
    BY <1>4 DEF Quantize, q, r
  <2>2. QED
    BY <1>1, <1>2, <1>3, <1>4, <2>1
<1>5. CASE ~(2 * r > Scale \/ (2 * r = Scale /\ q % 2 = 1))
  <2>1. Quantize(n) = q
    BY <1>5 DEF Quantize, q, r
  <2>2. 2 * r <= Scale
    BY <1>1, <1>2, <1>5
  <2>3. QED
    BY <1>1, <1>2, <1>3, <2>1, <2>2
<1>6. QED
  BY <1>4, <1>5

\* What the used buckets come to.
LEMMA UsedAmounts ==
  ASSUME NEW tokens \in Amounts, NEW rates,
         \A b \in Used(tokens) : rates[b] \in Nat
  PROVE  /\ IsFiniteSet(Used(tokens))
         /\ \A b \in Used(tokens) : tokens[b] * rates[b] \in Nat
         /\ SumFunction([b \in Used(tokens) |-> tokens[b] * rates[b]]) \in Nat
<1>1. IsFiniteSet(Used(tokens))
  BY PriceConstants, FS_Subset DEF Used
<1>2. \A b \in Used(tokens) : tokens[b] * rates[b] \in Nat
  BY DEF Used, Amounts
<1> DEFINE f == [b \in Used(tokens) |-> tokens[b] * rates[b]]
<1>3. DOMAIN f = Used(tokens) /\ \A b \in Used(tokens) : f[b] \in Nat
  BY <1>2
<1> HIDE DEF f
<1>4. SumFunctionOnSet(f, Used(tokens)) \in Nat
  BY <1>1, <1>3, SumNat
<1>5. SumFunction(f) \in Nat
  BY <1>3, <1>4 DEF SumFunction
<1>6. QED
  BY <1>1, <1>2, <1>5 DEF f

LEMMA CostNat ==
  ASSUME NEW tokens \in Amounts, NEW rates \in Rates, Covers(rates, tokens)
  PROVE  Cost(rates, tokens) \in Nat /\ Cost(rates, tokens) # None
<1>1. \A b \in Used(tokens) : rates[b] \in Nat
  BY DEF Covers, Rates, Used
<1>2. SumFunction([b \in Used(tokens) |-> tokens[b] * rates[b]]) \in Nat
  BY <1>1, UsedAmounts
<1>3. Cost(rates, tokens) \in Nat
  BY <1>2, QuantizeNear DEF Cost
<1>4. QED
  BY <1>3, PriceConstants

\* A row of c that is priced can be recomputed from itself.
Sound(c, o) == o.cost # None => /\ Tokens[c] # None
                                /\ DOMAIN o.snapshot = Used(Tokens[c])
                                /\ Covers(o.snapshot, Tokens[c])
                                /\ o.cost = Cost(o.snapshot, Tokens[c])
                                /\ \A b \in Used(Tokens[c]) : o.snapshot[b] \in Nat

\* Pricing gives a cost exactly if the rates cover the tokens.
LEMMA ComputeSound ==
  ASSUME NEW c \in Calls, Tokens[c] # None, NEW rates \in Rates
  PROVE  /\ Sound(c, Compute(rates, Tokens[c]))
         /\ Covers(rates, Tokens[c]) => Compute(rates, Tokens[c]).cost # None
         /\ ~Covers(rates, Tokens[c]) => Compute(rates, Tokens[c]) = Unpriced
<1>1. Tokens[c] \in Amounts
  BY PriceConstants DEF Amounts
<1>2. CASE Covers(rates, Tokens[c])
  <2> DEFINE s == [b \in Used(Tokens[c]) |-> rates[b]]
  <2>1. /\ Compute(rates, Tokens[c]).cost = Cost(rates, Tokens[c])
        /\ Compute(rates, Tokens[c]).snapshot = s
    BY <1>2 DEF Compute
  <2>2. DOMAIN s = Used(Tokens[c]) /\ \A b \in Used(Tokens[c]) : s[b] = rates[b]
    OBVIOUS
  <2> HIDE DEF s
  <2>3. Covers(s, Tokens[c])
    BY <1>2, <2>2 DEF Covers
  <2>4. [b \in Used(Tokens[c]) |-> Tokens[c][b] * s[b]]
           = [b \in Used(Tokens[c]) |-> Tokens[c][b] * rates[b]]
    BY <2>2
  <2>5. Cost(s, Tokens[c]) = Cost(rates, Tokens[c])
    BY <2>4 DEF Cost
  <2>6. \A b \in Used(Tokens[c]) : s[b] \in Nat
    BY <1>2, <2>2 DEF Covers, Rates, Used
  <2>7. QED
    BY <1>1, <1>2, <2>1, <2>2, <2>3, <2>5, <2>6, CostNat DEF Sound
<1>3. CASE ~Covers(rates, Tokens[c])
  BY <1>3 DEF Compute, Unpriced, Sound
<1>4. QED
  BY <1>2, <1>3

\* What a recording stores, and what a step does to the rows.
Stored(c) == IF call[c].rates = None THEN Unpriced ELSE Compute(call[c].rates, Tokens[c])

LEMMA StepRows ==
  ASSUME Shaped, [Next]_vars, NEW c \in Calls
  PROVE  \/ rows'[c] = rows[c]
         \/ call[c].pc = "store" /\ rows'[c] = Stored(c)
         \/ \E b \in Backfills : c \in DOMAIN fill[b].batch /\ rows'[c] = fill[b].batch[c]
<1>1. DOMAIN rows = Calls
  BY DEF Shaped
<1>2. ASSUME NEW d \in Calls, Store(d)
      PROVE  \/ UNCHANGED rows
             \/ call[d].pc = "store" /\ rows' = [rows EXCEPT ![d] = Stored(d)]
  BY <1>2 DEF Store, Stored
<1>3. ASSUME NEW b \in Backfills, FillCommit(b)
      PROVE  rows' = [d \in Calls |-> IF d \in DOMAIN fill[b].batch THEN fill[b].batch[d]
                                      ELSE rows[d]]
  BY <1>3 DEF FillCommit
<1>4. \/ UNCHANGED rows
      \/ \E d \in Calls : Store(d)
      \/ \E b \in Backfills : FillCommit(b)
  BY StepCases DEF Lookup, WarnOnce, Warn, SetLoad, SetCommit, FillLoad, FillRow, FillFail,
     InitCount, InitSeed, vars
<1>5. QED
  BY <1>1, <1>2, <1>3, <1>4

\* A backfill's record when it has ended, and its next one.
Ended(f, pc) == [pc |-> pc, loaded |-> f.loaded, todo |-> f.todo, read |-> f.read,
                 batch |-> f.batch]

LEMMA EndedFields ==
  \A f, pc : /\ Ended(f, pc).pc = pc /\ Ended(f, pc).loaded = f.loaded
             /\ Ended(f, pc).todo = f.todo /\ Ended(f, pc).read = f.read
             /\ Ended(f, pc).batch = f.batch
BY DEF Ended

LEMMA StepFills ==
  ASSUME Shaped, [Next]_vars, NEW b \in Backfills
  PROVE  \/ fill'[b] = fill[b]
         \/ /\ fill'[b].todo = fill'[b].loaded
            /\ fill'[b].pc = "pricing" /\ fill'[b].batch = <<>>
         \/ \E c \in fill[b].todo : fill'[b] = RowDone(b, c) /\ fill[b].pc = "pricing"
         \/ fill'[b] = Ended(fill[b], "failed")
         \/ /\ fill'[b] = Ended(fill[b], "done")
            /\ fill[b].pc = "pricing" /\ fill[b].todo = {}
            /\ \A c \in DOMAIN fill[b].batch : rows'[c] = fill[b].batch[c]
<1>1. /\ DOMAIN fill = Backfills /\ FillShape(fill[b])
      /\ fill[b] = [pc |-> fill[b].pc, loaded |-> fill[b].loaded, todo |-> fill[b].todo,
                    read |-> fill[b].read, batch |-> fill[b].batch]
  BY DEF Shaped, FillShape
<1>2. ASSUME NEW d \in Backfills, FillLoad(d) \/ FillRow(d) \/ FillCommit(d) \/ FillFail(d), d # b
      PROVE  fill'[b] = fill[b]
  <2>1. CASE FillRow(d)
    BY <1>1, <1>2, <2>1, FillRowDone DEF Becomes
  <2>2. CASE FillLoad(d)
    BY <1>1, <1>2, <2>2 DEF FillLoad
  <2>3. CASE FillCommit(d)
    BY <1>1, <1>2, <2>3 DEF FillCommit
  <2>4. CASE FillFail(d)
    BY <1>1, <1>2, <2>4 DEF FillFail
  <2>5. QED
    BY <1>2, <2>1, <2>2, <2>3, <2>4
<1>3. CASE FillLoad(b)
  <2> DEFINE unpriced == {c \in Calls : rows[c] # <<>> /\ ~Priced(c)}
             f == [pc |-> "pricing", loaded |-> unpriced, todo |-> unpriced,
                   read |-> <<>>, batch |-> <<>>]
  <2>1. fill'[b] = f
    BY <1>1, <1>3 DEF FillLoad
  <2>2. QED
    BY <2>1
<1>4. CASE FillRow(b)
  BY <1>1, <1>4, FillRowDone DEF Becomes
<1>5. CASE FillFail(b)
  <2>1. fill' = [fill EXCEPT ![b].pc = "failed"]
    BY <1>5 DEF FillFail
  <2>2. fill'[b] = Ended(fill[b], "failed")
    BY <1>1, <2>1 DEF Ended
  <2>3. QED
    BY <2>2
<1>6. CASE FillCommit(b)
  <2>1. /\ fill' = [fill EXCEPT ![b].pc = "done"]
        /\ fill[b].pc = "pricing" /\ fill[b].todo = {}
        /\ rows' = [c \in Calls |-> IF c \in DOMAIN fill[b].batch THEN fill[b].batch[c]
                                    ELSE rows[c]]
    BY <1>6 DEF FillCommit
  <2>2. fill'[b] = Ended(fill[b], "done")
    BY <1>1, <2>1 DEF Ended
  <2>3. DOMAIN fill[b].batch \subseteq Calls
    BY <1>1 DEF FillShape
  <2>4. \A c \in DOMAIN fill[b].batch : rows'[c] = fill[b].batch[c]
    BY <2>1, <2>3
  <2>5. QED
    BY <2>1, <2>2, <2>4
<1>7. \/ UNCHANGED fill
      \/ \E d \in Backfills : FillLoad(d) \/ FillRow(d) \/ FillCommit(d) \/ FillFail(d)
  BY StepCases DEF Lookup, WarnOnce, Warn, Store, SetLoad, SetCommit, InitCount, InitSeed, vars
<1>8. QED
  BY <1>2, <1>3, <1>4, <1>5, <1>6, <1>7

-----------------------------------------------------------------------------
(* Rows that explain themselves.                                           *)

\* A recording has read rates only for a call whose usage is known; what a backfill
\* is about to write is priced; what is or will be written is sound.
Sounded ==
    /\ \A c \in Calls : call[c].rates # None => Tokens[c] # None
    /\ \A b \in Backfills : \A c \in DOMAIN fill[b].batch :
           fill[b].batch[c].cost # None /\ Sound(c, fill[b].batch[c])
    /\ \A c \in Calls : rows[c] # <<>> => Sound(c, rows[c])

LEMMA SoundedInit == Init => Sounded
<1> SUFFICES ASSUME Init PROVE Sounded
  OBVIOUS
<1>1. \A c \in Calls : call[c].rates = None /\ rows[c] = <<>>
  BY DEF Init
<1>2. \A b \in Backfills : DOMAIN fill[b].batch = {}
  BY DEF Init
<1>3. QED
  BY <1>1, <1>2 DEF Sounded

\* Only a call with usage looks up rates.
LEMMA StepReads ==
  ASSUME Shaped, [Next]_vars, NEW c \in Calls, call'[c].rates # None
  PROVE  call[c].rates # None \/ Tokens[c] # None
<1>1. DOMAIN call = Calls /\ call[c] \in [pc : CallStates, rates : Rates \cup {None}]
  BY DEF Shaped
<1>2. ASSUME NEW d \in Calls, Lookup(d)
      PROVE  call[c].rates # None \/ Tokens[c] # None
  BY <1>1, <1>2 DEF Lookup
<1>3. ASSUME NEW d \in Calls, WarnOnce(d) \/ Warn(d) \/ Store(d)
      PROVE  call'[c].rates = call[c].rates
  <2>1. \E pc : call' = [call EXCEPT ![d].pc = pc]
    BY <1>3 DEF WarnOnce, Warn, Store
  <2>2. QED
    BY <1>1, <2>1
<1>4. UNCHANGED call \/ \E d \in Calls : Lookup(d) \/ WarnOnce(d) \/ Warn(d) \/ Store(d)
  BY StepCases DEF SetLoad, SetCommit, FillLoad, FillRow, FillCommit, FillFail, InitCount,
     InitSeed, vars
<1>5. QED
  BY <1>2, <1>3, <1>4

\* What a backfill makes of a row is sound, and priced unless it is Unpriced.
LEMMA RepricedSound ==
  ASSUME Shaped, NEW b \in Backfills, NEW c \in fill[b].todo
  PROVE  /\ Sound(c, Repriced(c, ReadOnce(fill[b], c)))
         /\ Repriced(c, ReadOnce(fill[b], c)) # Unpriced =>
                Repriced(c, ReadOnce(fill[b], c)).cost # None
<1> DEFINE read == ReadOnce(fill[b], c)
<1>1. c \in Calls /\ KeyOf[c] \in Keys
  BY PriceConstants DEF Shaped, FillShape
<1>2. CASE Tokens[c] = None \/ read[KeyOf[c]] = None
  BY <1>2 DEF Repriced, Unpriced, Sound
<1>3. CASE Tokens[c] # None /\ read[KeyOf[c]] # None
  <2>1. Repriced(c, read) = Compute(read[KeyOf[c]], Tokens[c])
    BY <1>3 DEF Repriced
  <2>2. KeyOf[c] \in DOMAIN read
    BY <1>1, <1>3, ReadValues
  <2>3. \/ read[KeyOf[c]] = prices[KeyOf[c]]
        \/ KeyOf[c] \in DOMAIN fill[b].read /\ read[KeyOf[c]] = fill[b].read[KeyOf[c]]
    BY <1>1, <2>2, ReadValues
  <2>4. read[KeyOf[c]] \in Rates
    BY <1>1, <1>3, <2>3 DEF Shaped, FillShape
  <2> HIDE DEF read
  <2>5. QED
    BY <1>1, <1>3, <2>1, <2>4, ComputeSound DEF read
<1>4. QED
  BY <1>2, <1>3

LEMMA SoundedStep ==
  ASSUME Shaped, Sounded, [Next]_vars
  PROVE  Sounded'
<1>1. ASSUME NEW c \in Calls, call'[c].rates # None
      PROVE  Tokens[c] # None
  BY <1>1, StepReads DEF Sounded
<1>2. ASSUME NEW b \in Backfills, NEW c \in DOMAIN fill'[b].batch
      PROVE  fill'[b].batch[c].cost # None /\ Sound(c, fill'[b].batch[c])
  <2>1. CASE fill'[b].batch = fill[b].batch
    BY <1>2, <2>1 DEF Sounded
  <2>2. CASE fill'[b].batch = <<>>
    BY <1>2, <2>2
  <2>3. ASSUME NEW d \in fill[b].todo, fill'[b] = RowDone(b, d)
        PROVE  fill'[b].batch[c].cost # None /\ Sound(c, fill'[b].batch[c])
    <3>1. CASE Repriced(d, ReadOnce(fill[b], d)) = Unpriced
      <4>1. fill'[b].batch = fill[b].batch
        BY <2>3, <3>1 DEF RowDone
      <4>2. QED
        BY <2>1, <4>1
    <3>2. CASE Repriced(d, ReadOnce(fill[b], d)) # Unpriced
      BY <1>2, <2>3, <3>2, BatchValues, RepricedSound DEF Sounded
    <3>3. QED
      BY <3>1, <3>2
  <2>4. CASE fill'[b] = Ended(fill[b], "failed") \/ fill'[b] = Ended(fill[b], "done")
    <3>1. fill'[b].batch = fill[b].batch
      BY <2>4, EndedFields
    <3>2. QED
      BY <2>1, <3>1
  <2>5. QED
    BY <2>1, <2>2, <2>3, <2>4, StepFills
<1>3. ASSUME NEW c \in Calls, rows'[c] # <<>>
      PROVE  Sound(c, rows'[c])
  <2>1. CASE rows'[c] = rows[c]
    BY <1>3, <2>1 DEF Sounded
  <2>2. CASE rows'[c] = Stored(c)
    <3>1. CASE call[c].rates = None
      BY <2>2, <3>1 DEF Stored, Unpriced, Sound
    <3>2. CASE call[c].rates # None
      <4>1. call[c].rates \in Rates /\ Tokens[c] # None
        BY <3>2 DEF Shaped, Sounded
      <4>2. QED
        BY <2>2, <3>2, <4>1, ComputeSound DEF Stored
    <3>3. QED
      BY <3>1, <3>2
  <2>3. ASSUME NEW b \in Backfills, c \in DOMAIN fill[b].batch, rows'[c] = fill[b].batch[c]
        PROVE  Sound(c, rows'[c])
    BY <2>3 DEF Sounded
  <2>4. QED
    BY <2>1, <2>2, <2>3, StepRows
<1>4. QED
  BY <1>1, <1>2, <1>3 DEF Sounded

LEMMA SoundedAlways == Spec => [](Shaped /\ Sounded)
<1>1. Init => Shaped /\ Sounded
  BY ShapedInit, SoundedInit
<1>2. Shaped /\ Sounded /\ [Next]_vars => Shaped' /\ Sounded'
  BY ShapedStep, SoundedStep
<1>3. QED
  BY <1>1, <1>2, PTL DEF Spec

\* "Any row's cost is independently recomputable from its own contents": the tokens of
\* a priced row and the rates in its snapshot give its cost, whichever command priced it.
THEOREM RowsRecomputable == Spec => []Recomputable
<1>1. Sounded => Recomputable
  BY DEF Sounded, Sound, Recomputable, Priced
<1>2. QED
  BY <1>1, SoundedAlways, PTL

-----------------------------------------------------------------------------
(* Backfills that leave no gap behind.                                     *)

\* Of the rows a backfill has loaded and looked at, each has no usage, has no price at
\* the rates read, or is about to be written; a backfill that is done has looked at
\* all of them, and what it was about to write has a price in the ledger.
Looked ==
    \A b \in Backfills : fill[b].pc \in {"pricing", "done"} =>
        \A c \in fill[b].loaded \ fill[b].todo :
            \/ Tokens[c] = None
            \/ /\ KeyOf[c] \in DOMAIN fill[b].read
               /\ Repriced(c, fill[b].read) = Unpriced \/ c \in DOMAIN fill[b].batch

Landed ==
    \A b \in Backfills : fill[b].pc = "done" =>
        fill[b].todo = {} /\ \A c \in DOMAIN fill[b].batch : Priced(c)

LEMMA LookedInit == Init => Looked /\ Landed
<1> SUFFICES ASSUME Init PROVE Looked /\ Landed
  OBVIOUS
<1>1. \A b \in Backfills : fill[b].pc = "idle"
  BY DEF Init
<1>2. QED
  BY <1>1 DEF Looked, Landed

\* What has been read is not read again.
LEMMA ReadStays ==
  ASSUME NEW f, NEW c, NEW k \in DOMAIN f.read
  PROVE  k \in DOMAIN ReadOnce(f, c) /\ ReadOnce(f, c)[k] = f.read[k]
BY DEF ReadOnce, With

LEMMA LookedRow ==
  ASSUME Shaped, Looked, NEW b \in Backfills, fill[b].pc = "pricing", NEW c \in fill[b].todo,
         NEW d \in fill[b].loaded, d = c \/ d \notin fill[b].todo, Tokens[d] # None
  PROVE  /\ KeyOf[d] \in DOMAIN RowDone(b, c).read
         /\ Repriced(d, RowDone(b, c).read) = Unpriced \/ d \in DOMAIN RowDone(b, c).batch
<1> DEFINE read == ReadOnce(fill[b], c)
<1>1. RowDone(b, c).read = read /\ c \in Calls
  BY DEF RowDone, Shaped, FillShape
<1>2. CASE d = c
  <2>1. KeyOf[d] \in DOMAIN read
    BY <1>1, <1>2, ReadValues
  <2>2. CASE Repriced(d, read) # Unpriced
    <3>1. RowDone(b, c).batch = With(fill[b].batch, c, Repriced(c, read))
      BY <1>2, <2>2 DEF RowDone
    <3>2. QED
      BY <1>1, <1>2, <2>1, <3>1 DEF With
  <2>3. QED
    BY <1>1, <2>1, <2>2
<1>3. CASE d # c
  <2>1. /\ KeyOf[d] \in DOMAIN fill[b].read
        /\ Repriced(d, fill[b].read) = Unpriced \/ d \in DOMAIN fill[b].batch
    BY <1>3 DEF Looked
  <2>2. KeyOf[d] \in DOMAIN read /\ read[KeyOf[d]] = fill[b].read[KeyOf[d]]
    BY <2>1, ReadStays
  <2>3. Repriced(d, read) = Repriced(d, fill[b].read)
    BY <2>2 DEF Repriced
  <2>4. DOMAIN fill[b].batch \subseteq DOMAIN RowDone(b, c).batch
    BY DEF RowDone, With
  <2>5. QED
    BY <1>1, <2>1, <2>2, <2>3, <2>4
<1>4. QED
  BY <1>2, <1>3

LEMMA LookedStep ==
  ASSUME Shaped, Looked, [Next]_vars
  PROVE  Looked'
<1> SUFFICES ASSUME NEW b \in Backfills, fill'[b].pc \in {"pricing", "done"},
                    NEW d \in fill'[b].loaded \ fill'[b].todo, Tokens[d] # None
             PROVE  /\ KeyOf[d] \in DOMAIN fill'[b].read
                    /\ \/ Repriced(d, fill'[b].read) = Unpriced
                       \/ d \in DOMAIN fill'[b].batch
  BY DEF Looked, Repriced
<1>1. CASE fill'[b] = fill[b]
  BY <1>1 DEF Looked
<1>2. CASE fill'[b].todo = fill'[b].loaded
  BY <1>2
<1>3. ASSUME NEW c \in fill[b].todo, fill'[b] = RowDone(b, c), fill[b].pc = "pricing"
      PROVE  /\ KeyOf[d] \in DOMAIN fill'[b].read
             /\ \/ Repriced(d, fill'[b].read) = Unpriced
                \/ d \in DOMAIN fill'[b].batch
  <2>1. d \in fill[b].loaded /\ (d = c \/ d \notin fill[b].todo)
    BY <1>3 DEF RowDone
  <2>2. QED
    BY <1>3, <2>1, LookedRow
<1>4. CASE fill'[b] = Ended(fill[b], "done") /\ fill[b].pc = "pricing"
  <2>1. /\ fill'[b].loaded = fill[b].loaded /\ fill'[b].todo = fill[b].todo
        /\ fill'[b].read = fill[b].read /\ fill'[b].batch = fill[b].batch
    BY <1>4, EndedFields
  <2>2. QED
    BY <1>4, <2>1 DEF Looked
<1>5. CASE fill'[b] = Ended(fill[b], "failed")
  <2>1. fill'[b].pc = "failed"
    BY <1>5, EndedFields
  <2>2. QED
    BY <2>1
<1>6. QED
  BY <1>1, <1>2, <1>3, <1>4, <1>5, StepFills

\* A priced row stays priced.
LEMMA PricedStays ==
  ASSUME Shaped, Sounded, [Next]_vars, NEW c \in Calls, Priced(c)
  PROVE  Priced(c)'
<1>1. call[c].pc # "store"
  BY DEF Shaped, Priced
<1>2. rows'[c] # <<>>
  BY StepRows, <1>1, OutcomeIsRow DEF Priced, Shaped, FillShape
<1>3. rows'[c].cost # None
  BY StepRows, <1>1 DEF Priced, Sounded
<1>4. QED
  BY <1>2, <1>3 DEF Priced

LEMMA LandedStep ==
  ASSUME Shaped, Sounded, Landed, [Next]_vars
  PROVE  Landed'
<1> SUFFICES ASSUME NEW b \in Backfills, fill'[b].pc = "done"
             PROVE  fill'[b].todo = {} /\ \A c \in DOMAIN fill'[b].batch : Priced(c)'
  BY DEF Landed, Priced
<1>1. FillShape(fill[b])
  BY DEF Shaped
<1>2. CASE fill'[b] = fill[b]
  BY <1>1, <1>2, PricedStays DEF Landed, FillShape
<1>3. CASE /\ fill'[b] = Ended(fill[b], "done")
           /\ fill[b].todo = {}
           /\ \A c \in DOMAIN fill[b].batch : rows'[c] = fill[b].batch[c]
  <2>1. fill'[b].todo = {} /\ fill'[b].batch = fill[b].batch
    BY <1>3, EndedFields
  <2>2. \A c \in DOMAIN fill[b].batch : rows'[c] # <<>> /\ rows'[c].cost # None
    BY <1>1, <1>3, OutcomeIsRow DEF FillShape, Sounded
  <2>3. QED
    BY <2>1, <2>2 DEF Priced
<1>4. ASSUME NEW c \in fill[b].todo, fill'[b] = RowDone(b, c)
      PROVE  FALSE
  BY <1>4 DEF RowDone
<1>5. fill'[b].pc # "pricing" /\ fill'[b] # Ended(fill[b], "failed")
  BY EndedFields
<1>6. QED
  BY <1>2, <1>3, <1>4, <1>5, StepFills

\* A backfill that completes has priced every row it loaded that could be priced at the
\* rates it read, over any gap among the others.
THEOREM BackfillsRepair == Spec => []BackfillRepairs
<1>1. Init => Looked /\ Landed
  BY LookedInit
<1>2. Shaped /\ Sounded /\ Looked /\ Landed /\ [Next]_vars => Looked' /\ Landed'
  BY LookedStep, LandedStep
<1>3. Looked /\ Landed => BackfillRepairs
  BY DEF Looked, Landed, BackfillRepairs
<1>4. QED
  BY <1>1, <1>2, <1>3, SoundedAlways, PTL DEF Spec

-----------------------------------------------------------------------------
(* Gaps that are reported.                                                 *)

\* Per process and pair: without the mark nothing has been or will be logged; with it
\* one warning has been, or one recording is about to log it.
Tally(p, k) ==
    IF k \in warned[p]
    THEN \/ warnings[p][k] = 1 /\ Logging(p, k) = {}
         \/ warnings[p][k] = 0 /\ \E c \in Calls : Logging(p, k) = {c}
    ELSE warnings[p][k] = 0 /\ Logging(p, k) = {}

\* A recording that is past its warning, or need not warn, has its gap marked if it has
\* one, and so has every row left without a price.
Marked(c) == KeyOf[c] \in warned[ProcessOf[c]]

Reported ==
    /\ warnings \in [Processes -> [Keys -> Nat]]
    /\ \A p \in Processes : \A k \in Keys : Tally(p, k)
    /\ \A c \in Calls : call[c].pc = "log" => Marked(c)
    /\ \A c \in Calls : call[c].pc = "store" /\ Tokens[c] # None =>
           \/ call[c].rates # None /\ Covers(call[c].rates, Tokens[c])
           \/ Marked(c)
    /\ \A c \in Calls : rows[c] # <<>> /\ ~Priced(c) /\ Tokens[c] # None => Marked(c)

LEMMA ReportedInit == Init => Reported
<1> SUFFICES ASSUME Init PROVE Reported
  OBVIOUS
<1>1. warnings \in [Processes -> [Keys -> Nat]] /\ warned = [p \in Processes |-> {}]
  BY DEF Init
<1>2. \A p \in Processes : \A k \in Keys : warnings[p][k] = 0
  BY DEF Init
<1>3. \A c \in Calls : call[c].pc = "idle" /\ rows[c] = <<>>
  BY DEF Init
<1>4. \A p \in Processes : \A k \in Keys : Logging(p, k) = {}
  BY <1>3 DEF Logging
<1>5. QED
  BY <1>1, <1>2, <1>3, <1>4 DEF Reported, Tally

\* What has been marked stays so.
LEMMA MarkedStays ==
  ASSUME Shaped, [Next]_vars, NEW c \in Calls, Marked(c)
  PROVE  Marked(c)'
<1>1. warned \in [Processes -> SUBSET Keys] /\ ProcessOf[c] \in Processes
  BY PriceConstants DEF Shaped
<1>2. ASSUME NEW d \in Calls, WarnOnce(d)
      PROVE  \A p \in Processes : warned[p] \subseteq warned'[p]
  BY <1>1, <1>2 DEF WarnOnce
<1>3. UNCHANGED warned \/ \E d \in Calls : WarnOnce(d)
  BY StepCases DEF Lookup, Warn, Store, SetLoad, SetCommit, FillLoad, FillRow, FillCommit,
     FillFail, InitCount, InitSeed, vars
<1>4. QED
  BY <1>1, <1>2, <1>3 DEF Marked

\* A step of a recording moves only that one, and by these ways.
LEMMA OneCallMoves ==
  ASSUME Shaped, NEW c \in Calls, Lookup(c) \/ WarnOnce(c) \/ Warn(c) \/ Store(c)
  PROVE  /\ \A d \in Calls \ {c} : call'[d] = call[d]
         /\ Lookup(c) \/ Store(c) => call[c].pc # "log" /\ call'[c].pc # "log"
         /\ WarnOnce(c) => /\ call[c].pc = "warn"
                           /\ call'[c].pc = IF Marked(c) THEN "store" ELSE "log"
         /\ Warn(c) => call[c].pc = "log" /\ call'[c].pc = "store"
<1>1. DOMAIN call = Calls /\ call[c] \in [pc : CallStates, rates : Rates \cup {None}]
  BY DEF Shaped
<1>2. CASE Lookup(c)
  BY <1>1, <1>2 DEF Lookup, WarnOnce, Warn, Store
<1>3. CASE WarnOnce(c)
  BY <1>1, <1>3 DEF Lookup, WarnOnce, Warn, Store, Marked
<1>4. CASE Warn(c)
  BY <1>1, <1>4 DEF Lookup, WarnOnce, Warn, Store
<1>5. CASE Store(c)
  <2>1. call' = [call EXCEPT ![c].pc = "stored"] \/ call' = [call EXCEPT ![c].pc = "dropped"]
    BY <1>5 DEF Store
  <2>2. call[c].pc = "store"
    BY <1>5 DEF Store
  <2>3. QED
    BY <1>1, <2>1, <2>2 DEF Lookup, WarnOnce, Warn
<1>6. QED
  BY <1>2, <1>3, <1>4, <1>5

\* Only the two steps of a warning touch the marks and the log.
LEMMA TallyStep ==
  ASSUME Shaped, Reported, [Next]_vars, NEW p \in Processes, NEW k \in Keys
  PROVE  warnings' \in [Processes -> [Keys -> Nat]] /\ Tally(p, k)'
<1>1. /\ warned \in [Processes -> SUBSET Keys] /\ warnings \in [Processes -> [Keys -> Nat]]
      /\ Tally(p, k)
  BY DEF Shaped, Reported
<1>2. ASSUME UNCHANGED <<warned, warnings>>,
             \A d \in Calls : call'[d].pc = "log" <=> call[d].pc = "log"
      PROVE  warnings' \in [Processes -> [Keys -> Nat]] /\ Tally(p, k)'
  <2>1. Logging(p, k)' = Logging(p, k)
    BY <1>2 DEF Logging
  <2>2. QED
    BY <1>1, <1>2, <2>1 DEF Tally
<1>3. ASSUME NEW c \in Calls, Lookup(c) \/ Store(c)
      PROVE  warnings' \in [Processes -> [Keys -> Nat]] /\ Tally(p, k)'
  <2>1. UNCHANGED <<warned, warnings>>
    BY <1>3 DEF Lookup, Store
  <2>2. \A d \in Calls : call'[d].pc = "log" <=> call[d].pc = "log"
    BY <1>3, OneCallMoves
  <2>3. QED
    BY <1>2, <2>1, <2>2
<1>4. ASSUME NEW c \in Calls, WarnOnce(c)
      PROVE  warnings' \in [Processes -> [Keys -> Nat]] /\ Tally(p, k)'
  <2>1. /\ UNCHANGED warnings
        /\ k \in warned'[p] <=> k \in warned[p] \/ (p = ProcessOf[c] /\ k = KeyOf[c])
    BY <1>1, <1>4, PriceConstants DEF WarnOnce
  <2>2. CASE Marked(c)
    <3>1. \A d \in Calls : call'[d].pc = "log" <=> call[d].pc = "log"
      BY <1>4, <2>2, OneCallMoves
    <3>2. Logging(p, k)' = Logging(p, k)
      BY <3>1 DEF Logging
    <3>3. k \in warned'[p] <=> k \in warned[p]
      BY <2>1, <2>2 DEF Marked
    <3>4. QED
      BY <1>1, <2>1, <3>2, <3>3 DEF Tally
  <2>3. CASE ~Marked(c)
    <3>1. \A d \in Calls : call'[d].pc = "log" <=> call[d].pc = "log" \/ d = c
      BY <1>4, <2>3, OneCallMoves
    <3>2. CASE p = ProcessOf[c] /\ k = KeyOf[c]
      <4>1. warnings[p][k] = 0 /\ Logging(p, k) = {}
        BY <1>1, <2>3, <3>2 DEF Tally, Marked
      <4>2. Logging(p, k)' = {c}
        BY <3>1, <3>2, <4>1 DEF Logging
      <4>3. QED
        BY <1>1, <2>1, <3>2, <4>1, <4>2 DEF Tally
    <3>3. CASE ~(p = ProcessOf[c] /\ k = KeyOf[c])
      <4>1. Logging(p, k)' = Logging(p, k)
        BY <3>1, <3>3 DEF Logging
      <4>2. QED
        BY <1>1, <2>1, <3>3, <4>1 DEF Tally
    <3>4. QED
      BY <3>2, <3>3
  <2>4. QED
    BY <2>2, <2>3
<1>5. ASSUME NEW c \in Calls, Warn(c)
      PROVE  warnings' \in [Processes -> [Keys -> Nat]] /\ Tally(p, k)'
  <2>1. PICK q \in Processes, j \in Keys : q = ProcessOf[c] /\ j = KeyOf[c]
    BY PriceConstants
  <2>2. warnings' = [warnings EXCEPT ![q][j] = warnings[q][j] + 1] /\ UNCHANGED warned
    BY <1>5, <2>1 DEF Warn
  <2>3. /\ warnings' \in [Processes -> [Keys -> Nat]]
        /\ warnings'[p][k] = IF p = q /\ k = j THEN warnings[p][k] + 1 ELSE warnings[p][k]
    BY <1>1, <2>1, <2>2
  <2>4. call[c].pc = "log" /\ \A d \in Calls : call'[d].pc = "log" <=> call[d].pc = "log" /\ d # c
    BY <1>5, OneCallMoves
  <2>5. CASE p = q /\ k = j
    <3>1. c \in Logging(p, k)
      BY <2>1, <2>4, <2>5 DEF Logging
    <3>2. k \in warned[p] /\ warnings[p][k] = 0 /\ Logging(p, k) = {c}
      BY <1>1, <3>1 DEF Tally
    <3>3. Logging(p, k)' = Logging(p, k) \ {c}
      BY <2>4 DEF Logging
    <3>4. QED
      BY <2>2, <2>3, <2>5, <3>2, <3>3 DEF Tally
  <2>6. CASE ~(p = q /\ k = j)
    <3>1. Logging(p, k)' = Logging(p, k)
      BY <2>1, <2>4, <2>6 DEF Logging
    <3>2. QED
      BY <1>1, <2>2, <2>3, <2>6, <3>1 DEF Tally
  <2>7. QED
    BY <2>5, <2>6
<1>6. \/ UNCHANGED <<call, warned, warnings>>
      \/ \E c \in Calls : Lookup(c) \/ WarnOnce(c) \/ Warn(c) \/ Store(c)
  BY StepCases DEF SetLoad, SetCommit, FillLoad, FillRow, FillCommit, FillFail, InitCount,
     InitSeed, vars
<1>7. QED
  BY <1>2, <1>3, <1>4, <1>5, <1>6

\* A recording about to log.
LEMMA LogStep ==
  ASSUME Shaped, Reported, [Next]_vars, NEW c \in Calls, call'[c].pc = "log"
  PROVE  Marked(c)'
<1>1. ProcessOf[c] \in Processes /\ warned \in [Processes -> SUBSET Keys]
  BY PriceConstants DEF Shaped
<1>2. CASE call'[c] = call[c]
  BY <1>2, MarkedStays DEF Reported
<1>3. CASE WarnOnce(c)
  BY <1>1, <1>3 DEF WarnOnce, Marked
<1>4. call'[c] = call[c] \/ WarnOnce(c)
  <2>1. UNCHANGED call \/ \E d \in Calls : Lookup(d) \/ WarnOnce(d) \/ Warn(d) \/ Store(d)
    BY StepCases DEF SetLoad, SetCommit, FillLoad, FillRow, FillCommit, FillFail, InitCount,
       InitSeed, vars
  <2>2. ASSUME NEW d \in Calls, Lookup(d) \/ WarnOnce(d) \/ Warn(d) \/ Store(d)
        PROVE  call'[c] = call[c] \/ WarnOnce(c)
    BY <2>2, OneCallMoves
  <2>3. QED
    BY <2>1, <2>2
<1>5. QED
  BY <1>2, <1>3, <1>4

\* A recording about to be stored.
LEMMA StoreStep ==
  ASSUME Shaped, Reported, [Next]_vars, NEW c \in Calls, call'[c].pc = "store", Tokens[c] # None
  PROVE  \/ call'[c].rates # None /\ Covers(call'[c].rates, Tokens[c])
         \/ Marked(c)'
<1>1. DOMAIN call = Calls /\ call[c] \in [pc : CallStates, rates : Rates \cup {None}]
  BY DEF Shaped
<1>2. CASE call'[c] = call[c]
  BY <1>2, MarkedStays DEF Reported
<1>3. CASE Lookup(c)
  <2>1. call'[c] = [pc |-> IF prices[KeyOf[c]] # None /\ Covers(prices[KeyOf[c]], Tokens[c])
                           THEN "store" ELSE "warn",
                    rates |-> prices[KeyOf[c]]]
    BY <1>1, <1>3 DEF Lookup
  <2>2. QED
    BY <2>1
<1>4. CASE WarnOnce(c)
  <2>1. warned' = [warned EXCEPT ![ProcessOf[c]] = warned[ProcessOf[c]] \cup {KeyOf[c]}]
    BY <1>4 DEF WarnOnce
  <2>2. warned \in [Processes -> SUBSET Keys] /\ ProcessOf[c] \in Processes
    BY PriceConstants DEF Shaped
  <2>3. QED
    BY <2>1, <2>2 DEF Marked
<1>5. CASE Warn(c)
  BY <1>5, MarkedStays DEF Reported, Warn
<1>6. CASE Store(c)
  <2>1. call' = [call EXCEPT ![c].pc = "stored"] \/ call' = [call EXCEPT ![c].pc = "dropped"]
    BY <1>6 DEF Store
  <2>2. QED
    BY <1>1, <2>1
<1>7. \/ call'[c] = call[c] \/ Lookup(c) \/ WarnOnce(c) \/ Warn(c) \/ Store(c)
  <2>1. ASSUME NEW d \in Calls, d # c, Lookup(d) \/ WarnOnce(d) \/ Warn(d) \/ Store(d)
        PROVE  call'[c] = call[c]
    BY <2>1, OneCallMoves
  <2>2. UNCHANGED call \/ \E d \in Calls : Lookup(d) \/ WarnOnce(d) \/ Warn(d) \/ Store(d)
    BY StepCases DEF SetLoad, SetCommit, FillLoad, FillRow, FillCommit, FillFail, InitCount,
       InitSeed, vars
  <2>3. QED
    BY <2>1, <2>2
<1>8. QED
  BY <1>2, <1>3, <1>4, <1>5, <1>6, <1>7

LEMMA ReportedStep ==
  ASSUME Shaped, Sounded, Reported, [Next]_vars
  PROVE  Reported'
<1>1. ASSUME NEW c \in Calls, rows'[c] # <<>>, ~Priced(c)', Tokens[c] # None
      PROVE  Marked(c)'
  <2>1. rows'[c].cost = None
    BY <1>1 DEF Priced
  <2>2. CASE rows'[c] = rows[c]
    <3>1. rows[c] # <<>> /\ ~Priced(c)
      BY <1>1, <2>1, <2>2 DEF Priced
    <3>2. QED
      BY <1>1, <3>1, MarkedStays DEF Reported
  <2>3. CASE call[c].pc = "store" /\ rows'[c] = Stored(c)
    <3>1. CASE call[c].rates = None
      BY <1>1, <2>3, <3>1, MarkedStays DEF Reported
    <3>2. CASE call[c].rates # None
      <4>1. call[c].rates \in Rates /\ rows'[c] = Compute(call[c].rates, Tokens[c])
        BY <2>3, <3>2 DEF Shaped, Stored
      <4>2. ~Covers(call[c].rates, Tokens[c])
        BY <1>1, <2>1, <4>1, ComputeSound
      <4>3. QED
        BY <1>1, <2>3, <4>2, MarkedStays DEF Reported
    <3>3. QED
      BY <3>1, <3>2
  <2>4. ASSUME NEW b \in Backfills, c \in DOMAIN fill[b].batch, rows'[c] = fill[b].batch[c]
        PROVE  FALSE
    BY <2>1, <2>4 DEF Sounded
  <2>5. QED
    BY <2>2, <2>3, <2>4, StepRows
<1>2. \A p \in Processes : \A k \in Keys : Tally(p, k)'
  BY TallyStep
<1>3. warnings' \in [Processes -> [Keys -> Nat]]
  <2>1. UNCHANGED warnings \/ \E c \in Calls : Warn(c)
    BY StepCases DEF Lookup, WarnOnce, Store, SetLoad, SetCommit, FillLoad, FillRow, FillCommit,
       FillFail, InitCount, InitSeed, vars
  <2>2. CASE UNCHANGED warnings
    BY <2>2 DEF Reported
  <2>3. ASSUME NEW c \in Calls, Warn(c)
        PROVE  warnings' \in [Processes -> [Keys -> Nat]]
    <3>1. ProcessOf[c] \in Processes /\ KeyOf[c] \in Keys
      BY PriceConstants
    <3>2. QED
      BY <3>1, TallyStep
  <2>4. QED
    BY <2>1, <2>2, <2>3
<1>4. \A c \in Calls : call'[c].pc = "log" => Marked(c)'
  BY LogStep
<1>5. \A c \in Calls : call'[c].pc = "store" /\ Tokens[c] # None =>
           \/ call'[c].rates # None /\ Covers(call'[c].rates, Tokens[c])
           \/ Marked(c)'
  BY StoreStep
<1>6. QED
  BY <1>1, <1>2, <1>3, <1>4, <1>5 DEF Reported, Priced, Covers

\* A gap in the prices is reported by every process that records over it, once per pair:
\* logged, or about to be by the one recording that has marked it.
THEOREM GapsReported == Spec => []GapsReportedOnce
<1>1. Init => Reported
  BY ReportedInit
<1>2. Shaped /\ Sounded /\ Reported /\ [Next]_vars => Reported'
  BY ReportedStep
<1>3. Reported => GapsReportedOnce
  <2> SUFFICES ASSUME Reported PROVE GapsReportedOnce
    OBVIOUS
  <2>1. \A p \in Processes : \A k \in Keys :
           \/ warnings[p][k] <= 1 /\ Logging(p, k) = {}
           \/ warnings[p][k] = 0 /\ \E c \in Calls : Logging(p, k) = {c}
    BY DEF Reported, Tally
  <2>2. ASSUME NEW c \in Calls, rows[c] # <<>>, ~Priced(c), Tokens[c] # None
        PROVE  warnings[ProcessOf[c]][KeyOf[c]] = 1 \/ Logging(ProcessOf[c], KeyOf[c]) # {}
    <3>1. ProcessOf[c] \in Processes /\ KeyOf[c] \in Keys /\ Marked(c)
      BY <2>2, PriceConstants DEF Reported
    <3>2. Tally(ProcessOf[c], KeyOf[c]) /\ KeyOf[c] \in warned[ProcessOf[c]]
      BY <3>1 DEF Reported, Marked
    <3>3. QED
      BY <3>2 DEF Tally
  <2>3. QED
    BY <2>1, <2>2 DEF GapsReportedOnce
<1>4. QED
  BY <1>1, <1>2, <1>3, SoundedAlways, PTL DEF Spec

=============================================================================
