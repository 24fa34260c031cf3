------------------------------ MODULE Delivery ------------------------------
(***************************************************************************)
(* What a publish/subscribe broker promises, whatever its tables: a client  *)
(* that is here collects grants for topics; when something is published on  *)
(* a topic it goes, at once, to all those open clients, and to no others,   *)
(* that hold a grant for the topic or for one above it.  A client takes no  *)
(* grants with it when it leaves and finds none when it joins.              *)
(***************************************************************************)
EXTENDS Naturals

CONSTANTS
    Clients,  \* who may join
    Topics,
    Above,    \* for each topic, those above it
    Nobody

VARIABLES
    here,     \* the clients the broker has
    open,     \* those that have introduced themselves
    grants,   \* grants[c][t]: how often c has been granted t
    sent      \* the publish of this moment: its topic and receivers

NoGrants == [t \in Topics |-> 0]

Init ==
    /\ here = {} /\ open = {}
    /\ grants = [c \in Clients |-> NoGrants]
    /\ sent = Nobody

Join(c) ==
    /\ c \notin here
    /\ here' = here \cup {c}
    /\ sent' = Nobody
    /\ UNCHANGED <<open, grants>>

Open(c) ==
    /\ c \in here
    /\ open' = open \cup {c}
    /\ sent' = Nobody
    /\ UNCHANGED <<here, grants>>

Grant(c, t) ==
    /\ c \in here
    /\ grants' = [grants EXCEPT ![c][t] = @ + 1]
    /\ sent' = Nobody
    /\ UNCHANGED <<here, open>>

Revoke(c, t) ==
    /\ c \in here /\ grants[c][t] > 0
    /\ grants' = [grants EXCEPT ![c][t] = @ - 1]
    /\ sent' = Nobody
    /\ UNCHANGED <<here, open>>

Leave(c) ==
    /\ c \in here
    /\ here' = here \ {c} /\ open' = open \ {c}
    /\ grants' = [grants EXCEPT ![c] = NoGrants]
    /\ sent' = Nobody

Publish(t) ==
    /\ sent' = [topic |-> t,
                to |-> {c \in open : \E u \in {t} \cup Above[t] : grants[c][u] > 0}]
    /\ UNCHANGED <<here, open, grants>>

(* The publish is over.                                                     *)
Quiet ==
    /\ sent' = Nobody
    /\ UNCHANGED <<here, open, grants>>

Next == \/ \E c \in Clients : Join(c) \/ Open(c) \/ Leave(c)
        \/ \E c \in Clients, t \in Topics : Grant(c, t) \/ Revoke(c, t)
        \/ \E t \in Topics : Publish(t)
        \/ Quiet

Spec == Init /\ [][Next]_<<here, open, grants, sent>>

=============================================================================
