-------------------------------- MODULE Rpc --------------------------------
(***************************************************************************)
(* What a service promises to its callers, whatever connections and        *)
(* handlers carry the calls: the callback of the service runs at most once *)
(* for each call, and an answer is only had when it has run.  A call that  *)
(* fails may still run, or have run.  Once its server has ended, a call    *)
(* may be misled: it returns as if it had been answered, although no       *)
(* answer came, and does not run any more.  The modules Service and        *)
(* XmlRpcServer implement this specification.                              *)
(***************************************************************************)
EXTENDS Naturals

CONSTANT Call       \* the calls that may be made

VARIABLES
    status,         \* status[k]: "idle", "called", "answered", "misled" or "failed"
    unserved,       \* calls whose server has ended
    ran             \* ran[k]: how often the callback has run for call k

rpcVars == <<status, unserved, ran>>

Init ==
    /\ status = [k \in Call |-> "idle"]
    /\ unserved = {}
    /\ ran = [k \in Call |-> 0]

Turns(k, from, to) ==
    /\ status[k] = from
    /\ status' = [status EXCEPT ![k] = to]
    /\ UNCHANGED ran

Make(k) == Turns(k, "idle", "called")

\* The caller was told that there is no such service, or lost the connection.
Fail(S) ==
    /\ \A k \in S : status[k] \in {"idle", "called"}
    /\ status' = [k \in Call |-> IF k \in S THEN "failed" ELSE status[k]]
    /\ UNCHANGED ran

Run(k) ==
    /\ status[k] \in {"called", "failed"}
    /\ ran[k] = 0
    /\ ran' = [ran EXCEPT ![k] = 1]
    /\ UNCHANGED status

Answer(k) == ran[k] = 1 /\ Turns(k, "called", "answered")

Mislead(k) == k \in unserved /\ Turns(k, "called", "misled")

\* Servers may end in every step, and do not come back to a call.
Next ==
    /\ unserved \subseteq unserved'
    /\ \/ \E k \in Call : Make(k) \/ Run(k) \/ Answer(k) \/ Mislead(k)
       \/ \E S \in SUBSET Call : Fail(S)
       \/ UNCHANGED <<status, ran>>

Spec == Init /\ [][Next]_rpcVars
=============================================================================
