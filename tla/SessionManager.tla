---------------------------- MODULE SessionManager ----------------------------
(***************************************************************************)
(* contracts/src/SessionManager.sol together with the CredentialRegistry   *)
(* it consumes nullifiers from.                                            *)
(*                                                                         *)
(* A session lets a key other than the owner's spend from an AgentWallet.  *)
(* A standard session is opened with a credential proof and carries one    *)
(* cumulative budget; a lightweight session is opened with a signature of  *)
(* the wallet's owner and carries a budget of value and of calls per day.  *)
(* The wallet (msg.sender) is the caller of create, validate and prune.    *)
(*                                                                         *)
(* Abstractions.  The proof and the signatures are data the caller brings: *)
(* a proof is given by its public signals, a signature by its signer.      *)
(* walletSessions[w] is the SET of the ids in the array: its order is only *)
(* seen by pruneExpiredSessions, whose loop is the module SessionPruning.  *)
(* sessionTargets[s] is the set of the targets in the array.               *)
(* agentWallets of the factories is a constant: the factories never remove *)
(* a wallet, and which wallets a factory knows is all this contract asks.  *)
(***************************************************************************)
EXTENDS CredentialRegistry, Naturals, FiniteSets

CONSTANTS
    Wallets, Keys, Owners, SessionIds, Targets,
    NoAddr,             \* address(0)
    NoNullifier,        \* bytes32(0)
    Factories,
    AgentWalletsOf,     \* [Factories -> SUBSET Wallets] : isAgentWallet
    InitialFactory,     \* the factory given to initialize, NoAddr for none
    Self,               \* this SessionManager, one of the registry's Managers
    MaxSessions,        \* MAX_SESSIONS_PER_WALLET
    MaxTargets,         \* MAX_ALLOWED_TARGETS
    DayLength,          \* 1 days
    TimelockDelay,      \* TIMELOCK_DELAY
    \* the inputs the calls are made with
    Amounts, MaxValues, DailySpendLimits, DailyTxLimits, InitialOwner,
    MaxNow              \* bound: the clock stops here

ASSUME SessionManagerAssumption ==
    /\ NoAddr \notin Wallets \cup Keys \cup Factories
    /\ NoNullifier \notin Nullifiers
    /\ AgentWalletsOf \in [Factories -> SUBSET Wallets]
    /\ InitialFactory \in Factories \cup {NoAddr}
    /\ InitialOwner \in Owners
    /\ Self \in Managers
    /\ MaxSessions \in Nat /\ MaxTargets \in Nat
    /\ DayLength \in Nat \ {0} /\ TimelockDelay \in Nat \ {0}
    /\ Amounts \subseteq Nat /\ MaxValues \subseteq Nat
    /\ DailySpendLimits \subseteq Nat /\ DailyTxLimits \subseteq Nat
    /\ MaxNow \in Nat

VARIABLES
    now,                            \* block.timestamp
    paused,
    sessions, lightSessions, sessionTargets, walletSessions,
    walletFactory, walletFactoryInitialized,
    pendingWalletFactory, walletFactoryActivationTime,
    walletOwner,                    \* AgentWallet.owner() of each wallet
    \* history variables: read by the properties only
    chargedTotal,                   \* value validated so far, per session
    chargedOn, callsOn,             \* value and calls validated on each day
    nullifierOf,                    \* the nullifier a session consumed
    factoryProposedAt               \* when pendingWalletFactory was proposed

factoryVars == <<walletFactory, walletFactoryInitialized, pendingWalletFactory,
                 walletFactoryActivationTime, factoryProposedAt>>
sessionVars == <<sessions, lightSessions, sessionTargets, walletSessions>>
historyVars == <<chargedTotal, chargedOn, callsOn, nullifierOf>>
managerVars == <<now, paused, sessionVars, factoryVars, walletOwner, historyVars>>
vars == <<registryVars, managerVars>>

Session == [wallet : Wallets, sessionKey : Keys, valueUsed : Nat, maxValue : Nat,
            expiry : Nat, revoked : BOOLEAN]
LightweightSession ==
           [wallet : Wallets, sessionKey : Keys, dailySpendLimit : Nat, dailyTxLimit : Nat,
            dailySpendUsed : Nat, dailyTxUsed : Nat, lastResetDay : Nat,
            expiry : Nat, revoked : BOOLEAN]

\* What an unset mapping entry reads as.
NoSession == [wallet |-> NoAddr, sessionKey |-> NoAddr, valueUsed |-> 0, maxValue |-> 0,
              expiry |-> 0, revoked |-> FALSE]
NoLightSession ==
             [wallet |-> NoAddr, sessionKey |-> NoAddr, dailySpendLimit |-> 0, dailyTxLimit |-> 0,
              dailySpendUsed |-> 0, dailyTxUsed |-> 0, lastResetDay |-> 0,
              expiry |-> 0, revoked |-> FALSE]

Today == now \div DayLength
Days == 0 .. MaxNow     \* no day index exceeds its timestamp
Expiries == 1 .. MaxNow

IsStandard(s) == sessions[s].sessionKey # NoAddr
IsLight(s) == lightSessions[s].sessionKey # NoAddr

IsAgentWallet(w) ==
    /\ walletFactory # NoAddr
    /\ w \in AgentWalletsOf[walletFactory]

ManagerInit ==
    /\ now = 0
    /\ paused = FALSE
    /\ sessions = [s \in SessionIds |-> NoSession]
    /\ lightSessions = [s \in SessionIds |-> NoLightSession]
    /\ sessionTargets = [s \in SessionIds |-> {}]
    /\ walletSessions = [w \in Wallets |-> {}]
    /\ walletFactory = InitialFactory
    /\ walletFactoryInitialized = (InitialFactory # NoAddr)
    /\ pendingWalletFactory = NoAddr
    /\ walletFactoryActivationTime = 0
    /\ walletOwner = [w \in Wallets |-> InitialOwner]
    /\ chargedTotal = [s \in SessionIds |-> 0]
    /\ chargedOn = [s \in SessionIds |-> [d \in Days |-> 0]]
    /\ callsOn = [s \in SessionIds |-> [d \in Days |-> 0]]
    /\ nullifierOf = [s \in SessionIds |-> NoNullifier]
    /\ factoryProposedAt = 0

Init == RegistryInit /\ ManagerInit

-----------------------------------------------------------------------------
(* The contract's owner: pause and the factory behind its timelock.        *)

Pause ==
    /\ ~paused
    /\ paused' = TRUE
    /\ UNCHANGED <<registryVars, now, sessionVars, factoryVars, walletOwner, historyVars>>

Unpause ==
    /\ paused
    /\ paused' = FALSE
    /\ UNCHANGED <<registryVars, now, sessionVars, factoryVars, walletOwner, historyVars>>

SetInitialWalletFactory(f) ==
    /\ ~walletFactoryInitialized
    /\ walletFactory' = f
    /\ walletFactoryInitialized' = TRUE
    /\ UNCHANGED <<registryVars, now, paused, sessionVars, pendingWalletFactory,
                   walletFactoryActivationTime, factoryProposedAt, walletOwner, historyVars>>

\* Mutant: a pending proposal may be replaced without restarting its timelock.
ProposeWalletFactoryReplacing(f) ==
    /\ pendingWalletFactory' = f
    /\ walletFactoryActivationTime' = IF pendingWalletFactory = NoAddr THEN now + TimelockDelay
                                      ELSE walletFactoryActivationTime
    /\ factoryProposedAt' = now
    /\ UNCHANGED <<registryVars, now, paused, sessionVars, walletFactory,
                   walletFactoryInitialized, walletOwner, historyVars>>

ProposeWalletFactory(f) ==
    /\ pendingWalletFactory = NoAddr
    /\ pendingWalletFactory' = f
    /\ walletFactoryActivationTime' = now + TimelockDelay
    /\ factoryProposedAt' = now
    /\ UNCHANGED <<registryVars, now, paused, sessionVars, walletFactory,
                   walletFactoryInitialized, walletOwner, historyVars>>

\* Accepting does not set _walletFactoryInitialized.
AcceptWalletFactory ==
    /\ pendingWalletFactory # NoAddr
    /\ now >= walletFactoryActivationTime
    /\ walletFactory' = pendingWalletFactory
    /\ pendingWalletFactory' = NoAddr
    /\ walletFactoryActivationTime' = 0
    /\ UNCHANGED <<registryVars, now, paused, sessionVars, walletFactoryInitialized,
                   factoryProposedAt, walletOwner, historyVars>>

-----------------------------------------------------------------------------
(* Standard sessions.                                                      *)

\* Mutants: the array may grow one past its limit; an id is looked up in the
\* mapping of lightweight sessions only.
MayOpenOneMore(s, w, key, expiry) ==
    /\ ~paused /\ IsAgentWallet(w) /\ key # NoAddr /\ key # w /\ expiry > now
    /\ ~IsStandard(s) /\ ~IsLight(s)
    /\ Cardinality(walletSessions[w]) <= MaxSessions
MayOpenUnlessLight(s, w, key, expiry) ==
    /\ ~paused /\ IsAgentWallet(w) /\ key # NoAddr /\ key # w /\ expiry > now
    /\ ~IsLight(s)
    /\ Cardinality(walletSessions[w]) < MaxSessions

\* The conditions createSession puts on the wallet, the key, the expiry and
\* the id, and which createLightweightSession repeats.
MayOpen(s, w, key, expiry) ==
    /\ ~paused
    /\ IsAgentWallet(w)
    /\ key # NoAddr
    /\ key # w
    /\ expiry > now
    /\ ~IsStandard(s)
    /\ ~IsLight(s)
    /\ Cardinality(walletSessions[w]) < MaxSessions

\* signals is the record of the proof's public signals; the remaining three,
\* maxValue, sessionExpiry and wallet, must equal the call's own arguments.
CreateSession(s, w, key, maxValue, expiry, signals) ==
    /\ MayOpen(s, w, key, expiry)
    /\ signals.nullifier # NoNullifier
    /\ signals.activeRoot = activeRoot
    /\ signals.revokedRoot = revokedSecretRoot
    /\ sessions' = [sessions EXCEPT ![s] =
            [wallet |-> w, sessionKey |-> key, valueUsed |-> 0, maxValue |-> maxValue,
             expiry |-> expiry, revoked |-> FALSE]]
    /\ walletSessions' = [walletSessions EXCEPT ![w] = @ \cup {s}]
    /\ MarkNullifierUsed(Self, signals.nullifier)
    /\ nullifierOf' = [nullifierOf EXCEPT ![s] = signals.nullifier]
    /\ UNCHANGED <<now, paused, lightSessions, sessionTargets, factoryVars, walletOwner,
                   chargedTotal, chargedOn, callsOn>>

\* The test of newValue against type(uint128).max is implied by the test against
\* maxValue, which createSession takes as a uint128.
ValidateSession(w, s, signer, value, target) ==
    /\ IsAgentWallet(w)
    /\ ~paused
    /\ sessions[s].wallet = w
    /\ ~sessions[s].revoked
    /\ now <= sessions[s].expiry
    /\ sessions[s].sessionKey = signer
    /\ target # NoAddr
    /\ sessions[s].valueUsed + value <= sessions[s].maxValue
    /\ sessions' = [sessions EXCEPT ![s].valueUsed = @ + value]
    /\ chargedTotal' = [chargedTotal EXCEPT ![s] = @ + value]
    /\ chargedOn' = [chargedOn EXCEPT ![s][Today] = @ + value]
    /\ callsOn' = [callsOn EXCEPT ![s][Today] = @ + 1]
    /\ UNCHANGED <<registryVars, now, paused, lightSessions, sessionTargets, walletSessions,
                   factoryVars, walletOwner, nullifierOf>>

\* Who may revoke a session of key, naming the wallet w: the key, or the owner
\* of w.  The wallet named is not compared with the session's wallet.
MayRevoke(caller, key, w) == caller = key \/ walletOwner[w] = caller

RevokeSession(caller, s, w) ==
    /\ ~paused
    /\ IsStandard(s)
    /\ ~sessions[s].revoked
    /\ MayRevoke(caller, sessions[s].sessionKey, w)
    /\ sessions' = [sessions EXCEPT ![s].revoked = TRUE]
    /\ UNCHANGED <<registryVars, now, paused, lightSessions, sessionTargets, walletSessions,
                   factoryVars, walletOwner, historyVars>>

-----------------------------------------------------------------------------
(* Lightweight sessions.                                                   *)

\* signer is the account that signed exactly these arguments.
CreateLightweightSession(w, s, key, spendLimit, txLimit, expiry, allowed, signer) ==
    /\ MayOpen(s, w, key, expiry)
    /\ Cardinality(allowed) <= MaxTargets
    /\ walletOwner[w] = signer
    /\ lightSessions' = [lightSessions EXCEPT ![s] =
            [wallet |-> w, sessionKey |-> key,
             dailySpendLimit |-> spendLimit, dailyTxLimit |-> txLimit,
             dailySpendUsed |-> 0, dailyTxUsed |-> 0, lastResetDay |-> Today,
             expiry |-> expiry, revoked |-> FALSE]]
    /\ sessionTargets' = IF allowed = {} THEN sessionTargets
                         ELSE [sessionTargets EXCEPT ![s] = allowed]
    /\ walletSessions' = [walletSessions EXCEPT ![w] = @ \cup {s}]
    /\ UNCHANGED <<registryVars, now, paused, sessions, factoryVars, walletOwner, historyVars>>

\* Mutant: the day of the reset is not recorded.
ResetDailyUnrecorded(ls) ==
    IF ls.lastResetDay < Today
    THEN [ls EXCEPT !.dailySpendUsed = 0, !.dailyTxUsed = 0]
    ELSE ls

\* The session after _checkAndResetDaily: the counters restart on a new day.
ResetDaily(ls) ==
    IF ls.lastResetDay < Today
    THEN [ls EXCEPT !.dailySpendUsed = 0, !.dailyTxUsed = 0, !.lastResetDay = Today]
    ELSE ls

ValidateLightweightSession(w, s, signer, value, target) ==
    LET ls == ResetDaily(lightSessions[s]) IN
    /\ IsAgentWallet(w)
    /\ ~paused
    /\ ls.wallet = w
    /\ ls.sessionKey # NoAddr
    /\ ~ls.revoked
    /\ now <= ls.expiry
    /\ ls.sessionKey = signer
    /\ sessionTargets[s] # {} => target \in sessionTargets[s]
    /\ ls.dailySpendUsed + value <= ls.dailySpendLimit
    /\ ls.dailyTxUsed + 1 <= ls.dailyTxLimit
    /\ lightSessions' = [lightSessions EXCEPT ![s] =
            [ls EXCEPT !.dailySpendUsed = @ + value, !.dailyTxUsed = @ + 1]]
    /\ chargedTotal' = [chargedTotal EXCEPT ![s] = @ + value]
    /\ chargedOn' = [chargedOn EXCEPT ![s][Today] = @ + value]
    /\ callsOn' = [callsOn EXCEPT ![s][Today] = @ + 1]
    /\ UNCHANGED <<registryVars, now, paused, sessions, sessionTargets, walletSessions,
                   factoryVars, walletOwner, nullifierOf>>

RevokeLightweightSession(caller, s, w) ==
    /\ ~paused
    /\ IsLight(s)
    /\ ~lightSessions[s].revoked
    /\ MayRevoke(caller, lightSessions[s].sessionKey, w)
    /\ lightSessions' = [lightSessions EXCEPT ![s].revoked = TRUE]
    /\ UNCHANGED <<registryVars, now, paused, sessions, sessionTargets, walletSessions,
                   factoryVars, walletOwner, historyVars>>

-----------------------------------------------------------------------------
(* Pruning.  Not stopped by the pause.                                     *)

\* Mutant: the expiry is read without asking which kind of session the id names.
IsPrunableEitherKind(s) ==
    \/ sessions[s].expiry <= now \/ sessions[s].revoked
    \/ lightSessions[s].expiry <= now \/ lightSessions[s].revoked

\* The test pruneExpiredSessions makes on a listed id.
IsPrunable(s) ==
    \/ IsStandard(s) /\ (sessions[s].expiry <= now \/ sessions[s].revoked)
    \/ IsLight(s) /\ (lightSessions[s].expiry <= now \/ lightSessions[s].revoked)

\* Up to limit prunable ids leave the array, which ones depends on its order.
PruneExpiredSessions(w, limit) ==
    LET expired == {s \in walletSessions[w] : IsPrunable(s)} IN
    /\ IsAgentWallet(w)
    /\ \E gone \in SUBSET expired :
         /\ Cardinality(gone) = IF limit < Cardinality(expired) THEN limit
                                ELSE Cardinality(expired)
         /\ walletSessions' = [walletSessions EXCEPT ![w] = @ \ gone]
    /\ UNCHANGED <<registryVars, now, paused, sessions, lightSessions, sessionTargets,
                   factoryVars, walletOwner, historyVars>>

-----------------------------------------------------------------------------
(* The environment: time, the wallets' owners, other session managers.     *)

Tick ==
    /\ now < MaxNow
    /\ now' = now + 1
    /\ UNCHANGED <<registryVars, paused, sessionVars, factoryVars, walletOwner, historyVars>>

AcceptOwnership(w, o) ==
    /\ walletOwner' = [walletOwner EXCEPT ![w] = o]
    /\ UNCHANGED <<registryVars, now, paused, sessionVars, factoryVars, historyVars>>

RegistryStep ==
    /\ RegistryAdmin \/ \E m \in Managers \ {Self}, n \in Nullifiers : MarkNullifierUsed(m, n)
    /\ UNCHANGED managerVars

ProofSignals == [activeRoot : Roots \cup {NoRoot}, revokedRoot : Roots \cup {NoRoot},
                 nullifier : Nullifiers \cup {NoNullifier}]

OwnerStep ==
    \/ Pause
    \/ Unpause
    \/ \E f \in Factories : SetInitialWalletFactory(f) \/ ProposeWalletFactory(f)
    \/ AcceptWalletFactory

CreateStep(s, w) == \E key \in Keys, expiry \in Expiries :
    \/ \E maxValue \in MaxValues, signals \in ProofSignals :
         CreateSession(s, w, key, maxValue, expiry, signals)
    \/ \E spend \in DailySpendLimits, tx \in DailyTxLimits, o \in Owners,
          allowed \in SUBSET Targets :
         CreateLightweightSession(w, s, key, spend, tx, expiry, allowed, o)

ValidateStep(s, w) == \E signer \in Keys, value \in Amounts, target \in Targets \cup {NoAddr} :
    \/ ValidateSession(w, s, signer, value, target)
    \/ ValidateLightweightSession(w, s, signer, value, target)

RevokeStep(s, w) == \E caller \in Keys \cup Owners :
    \/ RevokeSession(caller, s, w)
    \/ RevokeLightweightSession(caller, s, w)

SessionStep ==
    \/ \E s \in SessionIds, w \in Wallets : CreateStep(s, w) \/ ValidateStep(s, w) \/ RevokeStep(s, w)
    \/ \E w \in Wallets, limit \in 0 .. Cardinality(SessionIds) : PruneExpiredSessions(w, limit)

Next ==
    \/ SessionStep
    \/ OwnerStep
    \/ RegistryStep
    \/ Tick
    \/ \E w \in Wallets, o \in Owners : AcceptOwnership(w, o)

Spec == Init /\ [][Next]_vars

-----------------------------------------------------------------------------
(* Properties.                                                             *)

\* Every variable has its type.
TypeOK ==
    /\ RegistryTypeOK
    /\ now \in 0 .. MaxNow
    /\ paused \in BOOLEAN
    /\ sessions \in [SessionIds -> Session \cup {NoSession}]
    /\ lightSessions \in [SessionIds -> LightweightSession \cup {NoLightSession}]
    /\ sessionTargets \in [SessionIds -> SUBSET Targets]
    /\ walletSessions \in [Wallets -> SUBSET SessionIds]
    /\ walletFactory \in Factories \cup {NoAddr}
    /\ walletFactoryInitialized \in BOOLEAN
    /\ pendingWalletFactory \in Factories \cup {NoAddr}
    /\ walletFactoryActivationTime \in Nat
    /\ walletOwner \in [Wallets -> Owners]
    /\ chargedTotal \in [SessionIds -> Nat]
    /\ chargedOn \in [SessionIds -> [Days -> Nat]]
    /\ callsOn \in [SessionIds -> [Days -> Nat]]
    /\ nullifierOf \in [SessionIds -> Nullifiers \cup {NoNullifier}]
    /\ factoryProposedAt \in 0 .. MaxNow

\* createSession and createLightweightSession look in both mappings, so that
\* getSessionType, by which the wallet chooses the validator, is unambiguous:
\* no id ever names a session of both kinds.
SessionKindsDisjoint == \A s \in SessionIds : ~(IsStandard(s) /\ IsLight(s))

\* Whatever validateSession and validateLightweightSession approved, over the
\* whole life of a session and across every reset of its daily counters, stays
\* within the budget it was opened with: in total for a standard session, on
\* each single day for a lightweight one.
ApprovedWithinBudget == \A s \in SessionIds :
    /\ IsStandard(s) => chargedTotal[s] <= sessions[s].maxValue
    /\ IsLight(s) => \A d \in Days :
            /\ chargedOn[s][d] <= lightSessions[s].dailySpendLimit
            /\ callsOn[s][d] <= lightSessions[s].dailyTxLimit

Live(s) ==
    \/ IsStandard(s) /\ ~sessions[s].revoked /\ now < sessions[s].expiry
    \/ IsLight(s) /\ ~lightSessions[s].revoked /\ now < lightSessions[s].expiry

BelongsTo(s, w) == sessions[s].wallet = w \/ lightSessions[s].wallet = w

\* walletSessions is a faithful index through any order of creation, expiry,
\* revocation and pruning: it lists only sessions of that wallet, and every
\* session of the wallet that is neither expired nor revoked.
ListingFaithful == \A w \in Wallets, s \in SessionIds :
    /\ s \in walletSessions[w] => BelongsTo(s, w)
    /\ Live(s) /\ BelongsTo(s, w) => s \in walletSessions[w]

\* MAX_SESSIONS_PER_WALLET bounds the sessions of a wallet that are neither
\* expired nor revoked, although only the length of the array is tested and
\* pruning shortens it.
LiveSessionsBounded == \A w \in Wallets :
    Cardinality({s \in SessionIds : Live(s) /\ BelongsTo(s, w)}) <= MaxSessions

\* One credential nullifier opens one session: no two standard sessions were
\* opened with the same nullifier, and each is consumed in the registry, where
\* no other session manager can use it again.
NullifierOpensOneSession ==
    /\ \A s \in SessionIds : IsStandard(s) => nullifierOf[s] \in usedNullifiers
    /\ \A s, t \in SessionIds :
         IsStandard(s) /\ IsStandard(t) /\ nullifierOf[s] = nullifierOf[t] => s = t

\* The part of a session that no call may change.
StandardTerms(s) == <<sessions[s].wallet, sessions[s].sessionKey, sessions[s].maxValue,
                      sessions[s].expiry>>
LightTerms(s) == <<lightSessions[s].wallet, lightSessions[s].sessionKey,
                   lightSessions[s].dailySpendLimit, lightSessions[s].dailyTxLimit,
                   lightSessions[s].expiry, sessionTargets[s]>>

Ended(s) ==
    \/ IsStandard(s) /\ (sessions[s].revoked \/ now > sessions[s].expiry)
    \/ IsLight(s) /\ (lightSessions[s].revoked \/ now > lightSessions[s].expiry)

\* An id is used once: after a session is opened its terms never change, even
\* when it was pruned from its wallet's list, and a session that has ended, by
\* revocation or expiry, never revives and is never charged again.
SessionTermsFixed == [][\A s \in SessionIds :
    /\ IsStandard(s) => UNCHANGED StandardTerms(s)
    /\ IsLight(s) => UNCHANGED LightTerms(s)
    /\ Ended(s) => Ended(s)' /\ UNCHANGED <<chargedTotal[s], callsOn[s]>>]_vars

\* After the first factory is set, the factory that decides who is an
\* AgentWallet only ever becomes the one proposed, at least TIMELOCK_DELAY
\* after it was proposed.
FactoryChangesTimelocked == [][
    walletFactory' # walletFactory /\ walletFactoryInitialized =>
        /\ walletFactory' = pendingWalletFactory
        /\ now >= factoryProposedAt + TimelockDelay]_vars

-----------------------------------------------------------------------------
(* The inductive invariant behind the properties.                          *)

\* What is known of the history of one id: nothing was charged before it is
\* opened; a standard session's valueUsed is all that was ever charged; a
\* lightweight session's counters are those of the day of its last reset, no
\* later day has been charged, and every earlier day kept within the limits.
UnopenedAccount(s) ==
    /\ chargedTotal[s] = 0
    /\ \A d \in Days : chargedOn[s][d] = 0 /\ callsOn[s][d] = 0
StandardAccount(s) ==
    /\ chargedTotal[s] = sessions[s].valueUsed
    /\ sessions[s].valueUsed <= sessions[s].maxValue
LightAccount(s) == LET ls == lightSessions[s] IN
    /\ ls.lastResetDay \in Days
    /\ ls.lastResetDay <= Today
    /\ chargedOn[s][ls.lastResetDay] = ls.dailySpendUsed
    /\ callsOn[s][ls.lastResetDay] = ls.dailyTxUsed
    /\ \A d \in Days :
         /\ d > ls.lastResetDay => chargedOn[s][d] = 0 /\ callsOn[s][d] = 0
         /\ chargedOn[s][d] <= ls.dailySpendLimit
         /\ callsOn[s][d] <= ls.dailyTxLimit
AccountInv(s) ==
    /\ ~IsStandard(s) /\ ~IsLight(s) => UnopenedAccount(s)
    /\ IsStandard(s) => StandardAccount(s)
    /\ IsLight(s) => LightAccount(s)

ListingInv ==
    /\ ListingFaithful
    /\ \A w \in Wallets :
         IsFiniteSet(walletSessions[w]) /\ Cardinality(walletSessions[w]) <= MaxSessions

FactoryInv == pendingWalletFactory # NoAddr =>
    walletFactoryActivationTime = factoryProposedAt + TimelockDelay

IInv ==
    /\ TypeOK
    /\ SessionKindsDisjoint
    /\ \A s \in SessionIds : AccountInv(s)
    /\ ListingInv
    /\ NullifierOpensOneSession
    /\ FactoryInv
=============================================================================
