----------------------------- MODULE StatusFeed -----------------------------
(***************************************************************************)
(* What the notification path promises, whatever carries it: every change  *)
(* that is announced is owed to the watchers, a debt is settled only by    *)
(* showing a state at least that new, and watchers never go back in time.  *)
(* The README's "Real-time updates via WebSocket" in terms of versions;    *)
(* JobPipeline is shown to implement it.                                   *)
(***************************************************************************)
EXTENDS Naturals

CONSTANT Jobs

VARIABLES
    version,  \* how many times each job's state has changed
    seen,     \* the newest version shown to the watchers of each job
    owed,     \* announced and not settled: records [job, ver]
    expired,  \* debts given up because of their age
    gone      \* jobs that no longer exist

vars == <<version, seen, owed, expired, gone>>

Init ==
    /\ version = [j \in Jobs |-> 0]
    /\ seen = [j \in Jobs |-> 0]
    /\ owed = {}
    /\ expired = {}
    /\ gone = {}

Change(j) ==
    /\ version' = [version EXCEPT ![j] = @ + 1]
    /\ UNCHANGED <<seen, owed, expired, gone>>

Announce(j) ==
    /\ owed' = owed \cup {[job |-> j, ver |-> version[j]]}
    /\ UNCHANGED <<version, seen, expired, gone>>

Show(j) ==
    /\ \E v \in seen[j] .. version[j] : seen' = [seen EXCEPT ![j] = v]
    /\ UNCHANGED <<version, owed, expired, gone>>

Settle(n) ==
    /\ seen[n.job] >= n.ver \/ n.job \in gone
    /\ owed' = owed \ {n}
    /\ UNCHANGED <<version, seen, expired, gone>>

Expire(n) ==
    /\ owed' = owed \ {n}
    /\ expired' = expired \cup {n}
    /\ UNCHANGED <<version, seen, gone>>

Retire(j) ==
    /\ gone' = gone \cup {j}
    /\ UNCHANGED <<version, seen, owed, expired>>

Next ==
    \/ \E j \in Jobs : Change(j) \/ Announce(j) \/ Show(j) \/ Retire(j)
    \/ \E n \in owed : Settle(n) \/ Expire(n)

Spec == Init /\ [][Next]_vars

=============================================================================
