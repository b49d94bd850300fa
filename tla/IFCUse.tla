------------------------------- MODULE IFCUse -------------------------------
(***************************************************************************)
(* What inter-fiber calls promise: a server offers its state; while it     *)
(* does, clients use the state, one alone that has it locked or several    *)
(* that share it; the server gets its state back when nobody uses it.      *)
(***************************************************************************)
CONSTANTS Fibers, Clients

VARIABLES offered,        (* the servers that offer their state             *)
          users           (* per server, its users as <<client, type>>      *)

useVars == <<offered, users>>

Init == offered = {} /\ users = [s \in Fibers |-> {}]

Offer(s) ==
    /\ s \notin offered
    /\ offered' = offered \union {s}
    /\ UNCHANGED users

\* A locked user comes to a state nobody uses, shared ones to one that is not locked.
Lock(s, c) ==
    /\ s \in offered
    /\ users[s] = {}
    /\ users' = [users EXCEPT ![s] = {<<c, "lock">>}]
    /\ UNCHANGED offered

Share(s) ==
    /\ s \in offered
    /\ users' = [users EXCEPT ![s] = users'[s]]
    /\ users[s] \subseteq users'[s]
    /\ users'[s] \subseteq Clients \X {"shared"}
    /\ UNCHANGED offered

Leave(s, u) ==
    /\ u \in users[s]
    /\ users' = [users EXCEPT ![s] = @ \ {u}]
    /\ UNCHANGED offered

TakeBack(s) ==
    /\ s \in offered
    /\ users[s] = {}
    /\ offered' = offered \ {s}
    /\ UNCHANGED users

Next ==
    \E s \in Fibers :
        \/ Offer(s)
        \/ \E c \in Clients : Lock(s, c)
        \/ Share(s)
        \/ \E u \in users[s] : Leave(s, u)
        \/ TakeBack(s)

Spec == Init /\ [][Next]_useVars
=============================================================================
