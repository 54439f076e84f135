---------------------------- MODULE CachedChecks ----------------------------
(***************************************************************************)
(* CachedCheck of session/validation.rs: a layout check whose success is   *)
(* kept for the attachment and whose failure is kept until its own retry   *)
(* deadline, whoever asks.  A deadline is the time left until it.          *)
(***************************************************************************)
EXTENDS Naturals, Sequences, SequencesExt

CONSTANT ValidationRetry   \* VALIDATION_RETRY

RetryAssumption == ValidationRetry \in Nat \ {0}

Unchecked == [status |-> "Unchecked", left |-> 0]

\* Mutant: a failed check is tried again by whoever asks.
EnsureEager(check, bad) ==
    IF check.status = "Passed" THEN check
    ELSE IF bad THEN [status |-> "Failed", left |-> ValidationRetry]
    ELSE [status |-> "Passed", left |-> 0]

Ensure(check, bad) ==
    IF check.status = "Passed" \/ (check.status = "Failed" /\ check.left > 0) THEN check
    ELSE IF bad THEN [status |-> "Failed", left |-> ValidationRetry]
    ELSE [status |-> "Passed", left |-> 0]

\* and_then over a list of different checks: the first that fails ends it.
EnsureAll(checks, list, bad) ==
    LET Result(c) == Ensure(checks[c], c \in bad)
        failed == {n \in DOMAIN list : Result(list[n]).left > 0}
        asked == {n \in DOMAIN list : \A m \in failed : n <= m}
    IN [checks |-> [c \in DOMAIN checks |-> IF \E n \in asked : list[n] = c THEN Result(c)
                                            ELSE checks[c]],
        left |-> IF failed = {} THEN 0
                 ELSE Result(list[CHOOSE n \in failed \cap asked : TRUE]).left]
=============================================================================
