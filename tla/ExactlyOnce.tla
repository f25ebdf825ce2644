---------------------------- MODULE ExactlyOnce ----------------------------
(***************************************************************************)
(* What the idempotency layer promises a client that retries: a request    *)
(* key takes effect at most once, for one payload, and every successful    *)
(* answer for the key reports that one effect.                             *)
(***************************************************************************)
CONSTANTS
    Key,        \* (client_id, operation, idempotency_key)
    Payload,    \* request bodies
    Request     \* executions of a request; an outcome is named after its execution

VARIABLES
    made,       \* the effects made so far
    reported    \* the effects that successful answers reported so far

onceVars == <<made, reported>>

Effect == [key : Key, payload : Payload, outcome : Request]

Init == made = {} /\ reported = {}

\* A key that had its effect never has another.
Make(e) ==
    /\ \A f \in made : f.key # e.key
    /\ made' = made \cup {e}

\* Only what was done is reported, and for the payload it was done for.
Tell(e) ==
    /\ e \in made'
    /\ reported' = reported \cup {e}

\* The answer may be lost, given at once, or given again later.
Next ==
    \E e \in Effect :
        \/ Make(e) /\ (Tell(e) \/ UNCHANGED reported)
        \/ Tell(e) /\ UNCHANGED made

Spec == Init /\ [][Next]_onceVars
=============================================================================
