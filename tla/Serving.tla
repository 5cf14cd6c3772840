------------------------------ MODULE Serving ------------------------------
(***************************************************************************)
(* How the requests of Groups, Contacts, Feed and Media are served: a worker *)
(* of the server reads the tables, notes what it will write, and writes it   *)
(* later in one transaction, while other workers do the same.                *)
(***************************************************************************)
CONSTANTS
    Workers,
    Mixes       \* bound: the requests that are explored together

VARIABLES
    requests,   \* which requests are made, a mix
    work,       \* what each worker has read
    overlapped  \* two requests have run at the same time

At(w, op) == work[w].op = op

\* Worker w has a new request and has read x.
Takes(w, x) ==
    /\ At(w, "idle")
    /\ work' = [work EXCEPT ![w] = x]
    /\ overlapped' = (overlapped \/ \E v \in Workers \ {w} : ~At(v, "idle"))
    /\ UNCHANGED requests

\* Worker w is left with x.
Keeps(w, x) == work' = [work EXCEPT ![w] = x] /\ UNCHANGED <<requests, overlapped>>

\* At most one worker is serving a request.
Alone == \A v, w \in Workers : ~At(v, "idle") /\ ~At(w, "idle") => v = w
=============================================================================
