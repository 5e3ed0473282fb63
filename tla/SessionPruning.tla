---------------------------- MODULE SessionPruning ----------------------------
(***************************************************************************)
(* The loop of pruneExpiredSessions in contracts/src/SessionManager.sol,   *)
(* one iteration per step.  It walks the array of a wallet's session ids   *)
(* from its end, and removes an id by moving the last one into its place   *)
(* and popping, until it has removed limit of them.  SessionManager models *)
(* the call as one step on the SET of the ids; what that step takes the    *)
(* loop to do is PrunesUpToLimit.                                          *)
(***************************************************************************)
EXTENDS SwapAndPop, FiniteSets, Functions

CONSTANT SessionIds

ASSUME FiniteIds == IsFiniteSet(SessionIds)

VARIABLES
    initialIds,     \* the array when the call begins
    expired,        \* the ids that the body of the loop finds prunable
    limit,          \* the argument
    sessionIds,     \* the array
    i,              \* the next index to examine, counted from 1; 0 ends the loop
    pruned          \* how many ids have been removed

pruningVars == <<initialIds, expired, limit, sessionIds, i, pruned>>
inputs == <<initialIds, expired, limit>>

\* The create functions never list an id twice.
Arrays == UNION {Injection(1 .. n, SessionIds) : n \in 0 .. Cardinality(SessionIds)}

PruningInit ==
    /\ initialIds \in Arrays
    /\ expired \in SUBSET SessionIds
    /\ limit \in 0 .. Cardinality(SessionIds) + 1
    /\ sessionIds = initialIds
    /\ i = Len(initialIds)
    /\ pruned = 0

Looping == i > 0 /\ pruned < limit

Keep ==
    /\ Looping
    /\ sessionIds[i] \notin expired
    /\ i' = i - 1
    /\ UNCHANGED <<inputs, sessionIds, pruned>>

\* Mutant: the number removed is not counted.
RemoveUncounted ==
    /\ Looping
    /\ sessionIds[i] \in expired
    /\ sessionIds' = SwapPop(sessionIds, i)
    /\ pruned' = pruned
    /\ i' = i - 1
    /\ UNCHANGED inputs

Remove ==
    /\ Looping
    /\ sessionIds[i] \in expired
    /\ sessionIds' = SwapPop(sessionIds, i)
    /\ pruned' = pruned + 1
    /\ i' = i - 1
    /\ UNCHANGED inputs

PruningNext == Keep \/ Remove

PruningSpec == PruningInit /\ [][PruningNext]_pruningVars

-----------------------------------------------------------------------------
PruningTypeOK ==
    /\ expired \subseteq SessionIds
    /\ limit \in Nat
    /\ initialIds \in Seq(SessionIds) /\ sessionIds \in Seq(SessionIds)
    /\ i \in Nat /\ pruned \in Nat

\* The loop invariant.  The array holds each id once, and what left it was
\* prunable; every index above i holds an id already examined and kept, the
\* moved one included, so that examining i next misses none.
LoopInvariant ==
    /\ i <= Len(sessionIds)
    /\ Len(sessionIds) + pruned = Len(initialIds)
    /\ pruned <= limit
    /\ IsInjective(sessionIds)
    /\ Range(sessionIds) \subseteq Range(initialIds)
    /\ Range(initialIds) \ Range(sessionIds) \subseteq expired
    /\ \A j \in i + 1 .. Len(sessionIds) : sessionIds[j] \notin expired

\* When the loop ends the array has lost limit prunable ids, or, when there are
\* fewer, all of them and nothing else.
PrunesUpToLimit == ~Looping =>
    LET gone == Range(initialIds) \ Range(sessionIds)
        prunable == Range(initialIds) \cap expired
    IN  /\ gone \subseteq prunable
        /\ Cardinality(gone) = IF limit < Cardinality(prunable) THEN limit ELSE Cardinality(prunable)
        /\ Len(sessionIds) = Cardinality(Range(sessionIds))
=============================================================================
