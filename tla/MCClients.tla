------------------------------ MODULE MCClients ------------------------------
(* Small instances of Clients for TLC.                                      *)
EXTENDS Clients, TLC

CONSTANTS h1, h2, t1, t2

(* A tree of two topics, t2 below t1; and of one.                           *)
MCAboveTwo == [t \in {t1, t2} |-> IF t = t2 THEN {t1} ELSE {}]
MCAboveOne == [t \in {t1} |-> {}]

MCSymmetry == Permutations(Handles)

(* SUBSCRIBE and UNSUBSCRIBE of one or two topics the broker has; and with  *)
(* a filter that resolves to none.                                          *)
MCOneFilter      == {<<t>> : t \in Topics}
MCKnownFilters   == MCOneFilter \cup {<<t, u>> : t \in Topics, u \in Topics}
MCUnknownFilters == MCOneFilter \cup {<<NULL>>}

=============================================================================
