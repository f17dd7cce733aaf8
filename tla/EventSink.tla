----------------------------- MODULE EventSink ------------------------------
(***************************************************************************)
(* What the recorder promises the wrapped client, with nothing of how it   *)
(* gets there: every event handed over is settled once, either stored as   *)
(* one ledger row or counted as dropped by the recorder it was handed to,  *)
(* and only the death of the process can leave it unsettled.  There is no  *)
(* fate "raised": record() never reports a failure to its caller.          *)
(***************************************************************************)
EXTENDS Naturals

CONSTANTS Calls,        \* calls of Recorder.record, one event each
          Recorders,    \* recorder objects
          RecorderOf    \* the recorder each call goes to

VARIABLES fate,         \* what has become of each call's event
          stored,       \* ledger rows that carry the event
          dropCount     \* events each recorder has given up on

sinkVars == <<fate, stored, dropCount>>

Fates == {"idle", "pending", "recorded", "dropped", "lost"}

Settle(c, f) == /\ fate[c] = "pending"
                /\ fate' = [fate EXCEPT ![c] = f]

Init == /\ fate = [c \in Calls |-> "idle"]
        /\ stored = [c \in Calls |-> 0]
        /\ dropCount = [r \in Recorders |-> 0]

Submit(c) == /\ fate[c] = "idle"
             /\ fate' = [fate EXCEPT ![c] = "pending"]
             /\ UNCHANGED <<stored, dropCount>>

Store(c) == /\ Settle(c, "recorded")
            /\ stored' = [stored EXCEPT ![c] = 1]
            /\ UNCHANGED dropCount

Drop(c) == /\ Settle(c, "dropped")
           /\ dropCount' = [dropCount EXCEPT ![RecorderOf[c]] = @ + 1]
           /\ UNCHANGED stored

\* A process dies: its calls that had not returned never will.
Lose(gone) == /\ \A c \in gone : fate[c] \in {"idle", "pending"}
              /\ fate' = [c \in Calls |-> IF c \in gone THEN "lost" ELSE fate[c]]
              /\ UNCHANGED <<stored, dropCount>>

Next == \/ \E c \in Calls : Submit(c) \/ Store(c) \/ Drop(c)
        \/ \E gone \in SUBSET Calls : Lose(gone)

Fairness == \A c \in Calls : WF_sinkVars(Store(c) \/ Drop(c))

Safe == Init /\ [][Next]_sinkVars
Spec == Safe /\ Fairness
=============================================================================
