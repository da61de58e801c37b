----------------------------- MODULE RemoteCall -----------------------------
(***************************************************************************)
(* What a caller of the VLM relies on (vlm_client.py): a call ends at most *)
(* once, with the answer that was computed for this very call or with an   *)
(* error; what the other side computes, it computes at most once per call, *)
(* and it may do so after the caller gave up. VlmLink implements this.     *)
(***************************************************************************)
CONSTANTS
    Clients,
    Calls,     \* the identities of calls
    None

VARIABLES
    begun,     \* the calls made so far
    pending,   \* for each client the call it waits for, or None
    executed,  \* the calls whose answer was computed
    answers    \* for each call the call that its answer was computed for

vars == <<begun, pending, executed, answers>>

Init ==
    /\ begun = {} /\ executed = {}
    /\ pending = [c \in Clients |-> None]
    /\ answers = [n \in Calls |-> None]

Begin(c) ==
    /\ pending[c] = None
    /\ \E n \in Calls \ begun :
          /\ begun' = begun \cup {n}
          /\ pending' = [pending EXCEPT ![c] = n]
    /\ UNCHANGED <<executed, answers>>

Execute(n) ==
    /\ n \in begun \ executed
    /\ executed' = executed \cup {n}
    /\ UNCHANGED <<begun, pending, answers>>

Answer(c) ==
    /\ pending[c] \in executed
    /\ answers' = [answers EXCEPT ![pending[c]] = pending[c]]
    /\ pending' = [pending EXCEPT ![c] = None]
    /\ UNCHANGED <<begun, executed>>

Fail(c) ==
    /\ pending[c] # None
    /\ pending' = [pending EXCEPT ![c] = None]
    /\ UNCHANGED <<begun, executed, answers>>

Next ==
    \/ \E c \in Clients : Begin(c) \/ Answer(c) \/ Fail(c)
    \/ \E n \in Calls : Execute(n)

Spec == Init /\ [][Next]_vars
=============================================================================
