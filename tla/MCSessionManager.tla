--------------------------- MODULE MCSessionManager ---------------------------
(***************************************************************************)
(* Finite instances of SessionManager for TLC.  Spec itself is checked     *)
(* with few sessions; the run on lightweight sessions and on pruning       *)
(* starts from a registry already set up and leaves it so, that more calls *)
(* and more days fit.                                                      *)
(***************************************************************************)
EXTENDS SessionManager, TLC

CONSTANT f1

\* The first factory knows the wallets, the others know none of them.
MCAgentWalletsOf == [f \in Factories |-> IF f = f1 THEN Wallets ELSE {}]

\* Model values the specification never distinguishes.
Symmetry == Permutations(SessionIds) \cup Permutations(Nullifiers)

\* The registry once deployed: this manager allowed and both roots published.
DeployedRegistryInit ==
    /\ issuers = {RegistryOwner}
    /\ sessionManagers = {Self}
    /\ activeRoot \in Roots
    /\ revokedSecretRoot \in Roots
    /\ usedNullifiers = {}
    /\ registryPaused = FALSE

DeployedInit == DeployedRegistryInit /\ ManagerInit

SessionNext ==
    \/ SessionStep \/ Pause \/ Unpause \/ Tick
    \/ \E w \in Wallets, o \in Owners : AcceptOwnership(w, o)

\* Sessions while the factory is set, proposed and replaced.
OwnedSessionSpec == DeployedInit /\ [][SessionNext \/ OwnerStep]_vars
=============================================================================
