------------------------------ MODULE Wakeups ------------------------------
(***************************************************************************)
(* What the scheduler promises to the coroutines, without its queue: each  *)
(* resume is worth one wake-up, a timed wait is worth one more at most, a  *)
(* suspended coroutine runs by spending one, and wake-ups are kept until   *)
(* they are spent, whatever wait they were meant for.                      *)
(***************************************************************************)
EXTENDS Naturals

CONSTANT Coroutine

VARIABLES
    phase,       \* "unborn", "suspended", "running" or "over"
    limit,       \* TRUE iff the wait's time limit may still run out
    wakeups,     \* the wake-ups posted and not spent
    open         \* FALSE once the io_service runs nothing more

vars == <<phase, limit, wakeups, open>>

Init ==
    /\ phase = [c \in Coroutine |-> "unborn"]
    /\ limit = [c \in Coroutine |-> FALSE]
    /\ wakeups = [c \in Coroutine |-> 0]
    /\ open = TRUE

\* A spawned coroutine waits for its first wake-up, which is posted with it.
Spawn(c) ==
    /\ phase[c] = "unborn"
    /\ phase' = [phase EXCEPT ![c] = "suspended"]
    /\ wakeups' = [wakeups EXCEPT ![c] = @ + 1]
    /\ UNCHANGED <<limit, open>>

Resume(c) ==
    /\ phase[c] # "unborn"
    /\ wakeups' = [wakeups EXCEPT ![c] = @ + 1]
    /\ UNCHANGED <<phase, limit, open>>

\* A wait starts, with a limit or without one.
Wait(c) ==
    /\ phase[c] = "running"
    /\ phase' = [phase EXCEPT ![c] = "suspended"]
    /\ \E timed \in BOOLEAN : limit' = [limit EXCEPT ![c] = timed]
    /\ UNCHANGED <<wakeups, open>>

\* The limit runs out while the coroutine waits: one wake-up, once per wait.
RunOut(c) ==
    /\ open
    /\ phase[c] = "suspended" /\ limit[c]
    /\ limit' = [limit EXCEPT ![c] = FALSE]
    /\ wakeups' = [wakeups EXCEPT ![c] = @ + 1]
    /\ UNCHANGED <<phase, open>>

\* The coroutine spends a wake-up and runs; its limit no longer counts.
Run(c) ==
    /\ open
    /\ \A d \in Coroutine : phase[d] # "running"
    /\ phase[c] = "suspended"
    /\ wakeups[c] > 0
    /\ phase' = [phase EXCEPT ![c] = "running"]
    /\ wakeups' = [wakeups EXCEPT ![c] = @ - 1]
    /\ limit' = [limit EXCEPT ![c] = FALSE]
    /\ UNCHANGED open

\* A wake-up of a coroutine that is over is worth nothing.
Drop(c) ==
    /\ open
    /\ phase[c] = "over"
    /\ wakeups[c] > 0
    /\ wakeups' = [wakeups EXCEPT ![c] = @ - 1]
    /\ UNCHANGED <<phase, limit, open>>

\* The body returns, or throws and takes the scheduler down with it.
End(c) ==
    /\ phase[c] = "running"
    /\ phase' = [phase EXCEPT ![c] = "over"]
    /\ open' \in {open, FALSE}
    /\ UNCHANGED <<limit, wakeups>>

Close ==
    /\ open
    /\ open' = FALSE
    /\ UNCHANGED <<phase, limit, wakeups>>

Next ==
    \/ \E c \in Coroutine :
          Spawn(c) \/ Resume(c) \/ Wait(c) \/ RunOut(c) \/ Run(c) \/ Drop(c) \/ End(c)
    \/ Close

\* A coroutine that waits with a limit or with a wake-up to spend runs again.
Fairness == \A c \in Coroutine : SF_vars(Run(c)) /\ WF_vars(RunOut(c))

Spec == Init /\ [][Next]_vars
FairSpec == Spec /\ Fairness
=============================================================================
