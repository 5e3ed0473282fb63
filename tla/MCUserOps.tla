------------------------------- MODULE MCUserOps -------------------------------
(***************************************************************************)
(* Two operations of one wallet and three calls: two flushes and a direct  *)
(* submission overlap two at a time.                                       *)
(***************************************************************************)
EXTENDS UserOps, FiniteSets

CONSTANTS w1, o1, o2

MCWallets == {w1}
MCOps == {o1, o2}
MCWalletOf == [o \in MCOps |-> w1]

\* Calls are alike: of the behaviours that differ in their names only, those that
\* start them in order.
InOrder == \A c \in Calls : calls[c].phase # "new" => \A b \in Calls : b < c => calls[b].phase # "new"

\* Any two of them overlap, and the third follows one that has ended.
UnderWay == {c \in Calls : calls[c].phase \notin {"new", "done", "dead"}}

OrderedSpec == Init /\ [][Next /\ InOrder' /\ Cardinality(UnderWay') <= 2]_vars /\ Fairness
=============================================================================
