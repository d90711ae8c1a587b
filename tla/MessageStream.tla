--------------------------- MODULE MessageStream ---------------------------
(***************************************************************************)
(* What a connection promises the task that owns it, and module Download   *)
(* takes for granted: it is handed over with the first message read and    *)
(* found good, or never; then `next' returns the peer's messages one by    *)
(* one, each once and in their order; it may return one error, and after   *)
(* that, or without it, None.  The task may stop asking, and drops it.     *)
(***************************************************************************)
EXTENDS Naturals, Sequences

VARIABLES
    messages,   \* what the peer sends
    returned,   \* what `next' has returned of it
    state       \* "checked" by check_is_seed, "open", "errored", "ended" or "dropped"

vars == <<messages, returned, state>>

Init == returned = <<>> /\ state = "checked"

\* The next message in order.
Advance ==
    /\ Len(returned) < Len(messages)
    /\ returned' = Append(returned, messages[Len(returned) + 1])

Accept == state = "checked" /\ Advance /\ state' = "open" /\ UNCHANGED messages

Drop ==
    /\ state = "checked"
    /\ state' = "dropped"
    /\ Advance \/ UNCHANGED returned
    /\ UNCHANGED messages

Deliver == state = "open" /\ Advance /\ UNCHANGED <<messages, state>>
Error == state = "open" /\ state' = "errored" /\ UNCHANGED <<messages, returned>>
None == state \in {"open", "errored"} /\ state' = "ended" /\ UNCHANGED <<messages, returned>>

\* The task ends, perhaps by the message it was given.
Abandon ==
    /\ state \in {"open", "errored"}
    /\ state' = "dropped"
    /\ (state = "open" /\ Advance) \/ UNCHANGED returned
    /\ UNCHANGED messages

Next == Accept \/ Drop \/ Deliver \/ Error \/ None \/ Abandon

Spec == Init /\ [][Next]_vars
=============================================================================
