--------------------------- MODULE RestoreLifecycle ---------------------------
(***************************************************************************)
(* What the API promises of a restore job (GET /api/restores/jobs/:id): it *)
(* runs until it is settled; a settled job keeps its status, but that a    *)
(* cancelled one may still be found to have failed; no job starts while    *)
(* another runs; a job that is forgotten does not come back.               *)
(***************************************************************************)
CONSTANT JobIds

VARIABLE life

Final == {"success", "partial", "failed", "cancelled"}

Init == life = [j \in JobIds |-> "unknown"]

\* The jobs in `forgotten` make room for j: none of them is running.
Start(j, forgotten) ==
    /\ life[j] = "unknown"
    /\ \A q \in JobIds : life[q] # "running"
    /\ \A q \in forgotten : life[q] \in Final
    /\ life' = [q \in JobIds |-> IF q = j THEN "running"
                                 ELSE IF q \in forgotten THEN "forgotten" ELSE life[q]]

Settle(j, status) ==
    /\ life[j] = "running" \/ (life[j] = "cancelled" /\ status = "failed")
    /\ life' = [life EXCEPT ![j] = status]

Restart ==
    life' = [j \in JobIds |-> IF life[j] = "unknown" THEN "unknown" ELSE "forgotten"]

Next ==
    \/ \E j \in JobIds, forgotten \in SUBSET JobIds : Start(j, forgotten)
    \/ \E j \in JobIds, status \in Final : Settle(j, status)
    \/ Restart

Spec == Init /\ [][Next]_life
=============================================================================
