------------------------- MODULE SessionManagerProofs -------------------------
(***************************************************************************)
(* Proofs about SessionManager, for any number of wallets, sessions,       *)
(* nullifiers and days.                                                    *)
(***************************************************************************)
EXTENDS SessionManager, FiniteSetTheorems, TLAPS

\* A day index never exceeds its timestamp, and days follow one another.
LEMMA DayInRange ==
    ASSUME NEW t \in Nat, NEW len \in Nat \ {0}
    PROVE  t \div len \in 0 .. t
  OBVIOUS

LEMMA DayMonotone ==
    ASSUME NEW t \in Nat, NEW u \in Nat, t <= u, NEW len \in Nat \ {0}
    PROVE  t \div len <= u \div len
  OBVIOUS

LEMMA TodayIsDay == TypeOK => Today \in Days /\ Today \in Nat
  <1> SUFFICES ASSUME TypeOK PROVE Today \in Days /\ Today \in Nat
    OBVIOUS
  <1>1. now \in Nat /\ now <= MaxNow /\ MaxNow \in Nat
    BY SessionManagerAssumption DEF TypeOK
  <1>2. Today \in 0 .. now
    BY <1>1, DayInRange, SessionManagerAssumption DEF Today
  <1>3. QED
    BY <1>1, <1>2 DEF Days

\* A mapping entry is unset exactly when its session key is zero.
LEMMA EntryOrUnset ==
    ASSUME TypeOK, NEW s \in SessionIds
    PROVE  /\ IsStandard(s) <=> sessions[s] \in Session
           /\ ~IsStandard(s) <=> sessions[s] = NoSession
           /\ IsStandard(s) <=> sessions[s].wallet # NoAddr
           /\ IsLight(s) <=> lightSessions[s] \in LightweightSession
           /\ ~IsLight(s) <=> lightSessions[s] = NoLightSession
           /\ IsLight(s) <=> lightSessions[s].wallet # NoAddr
  BY SessionManagerAssumption
     DEF TypeOK, Session, LightweightSession, NoSession, NoLightSession, IsStandard, IsLight

-----------------------------------------------------------------------------
(* Type correctness.                                                       *)

LEMMA InitTypeOK == Init => TypeOK
  <1> SUFFICES ASSUME Init PROVE TypeOK
    OBVIOUS
  <1>1. RegistryTypeOK
    BY RegistryAssumption DEF Init, RegistryInit, RegistryTypeOK
  <1>2. /\ chargedTotal \in [SessionIds -> Nat]
        /\ chargedOn \in [SessionIds -> [Days -> Nat]]
        /\ callsOn \in [SessionIds -> [Days -> Nat]]
        /\ nullifierOf \in [SessionIds -> Nullifiers \cup {NoNullifier}]
    BY DEF Init, ManagerInit
  <1>3. /\ now \in 0 .. MaxNow
        /\ factoryProposedAt \in 0 .. MaxNow
        /\ walletFactoryActivationTime \in Nat
    BY SessionManagerAssumption DEF Init, ManagerInit
  <1>4. /\ paused \in BOOLEAN
        /\ walletFactoryInitialized \in BOOLEAN
        /\ walletFactory \in Factories \cup {NoAddr}
        /\ pendingWalletFactory \in Factories \cup {NoAddr}
    BY SessionManagerAssumption DEF Init, ManagerInit
  <1>5. /\ sessions \in [SessionIds -> Session \cup {NoSession}]
        /\ lightSessions \in [SessionIds -> LightweightSession \cup {NoLightSession}]
        /\ sessionTargets \in [SessionIds -> SUBSET Targets]
        /\ walletSessions \in [Wallets -> SUBSET SessionIds]
        /\ walletOwner \in [Wallets -> Owners]
    BY SessionManagerAssumption DEF Init, ManagerInit
  <1>6. QED
    BY <1>1, <1>2, <1>3, <1>4, <1>5 DEF TypeOK

\* The registry alone.
LEMMA RegistryStepTypeOK == TypeOK /\ RegistryStep => TypeOK'
  <1> SUFFICES ASSUME TypeOK, RegistryStep PROVE TypeOK'
    OBVIOUS
  <1> USE DEF TypeOK, RegistryTypeOK, RegistryStep, managerVars, sessionVars, factoryVars,
              historyVars
  <1>1. CASE \E m \in Managers \ {Self}, n \in Nullifiers : MarkNullifierUsed(m, n)
    BY <1>1 DEF MarkNullifierUsed
  <1>2. CASE RegistryAdmin
    BY <1>2 DEF RegistryAdmin, PauseRegistry, UnpauseRegistry, AddIssuer, RemoveIssuer,
                SetSessionManager, UpdateActiveRoot, UpdateRevokedSecretRoot
  <1>3. QED
    BY <1>1, <1>2

LEMMA OwnerStepTypeOK == TypeOK /\ OwnerStep => TypeOK'
  <1> SUFFICES ASSUME TypeOK, OwnerStep PROVE TypeOK'
    OBVIOUS
  <1> USE SessionManagerAssumption
      DEF TypeOK, RegistryTypeOK, registryVars, sessionVars, factoryVars, historyVars
  <1>1. CASE Pause \/ Unpause
    BY <1>1 DEF Pause, Unpause
  <1>2. CASE \E f \in Factories : SetInitialWalletFactory(f)
    BY <1>2 DEF SetInitialWalletFactory
  <1>3. CASE \E f \in Factories : ProposeWalletFactory(f)
    BY <1>3 DEF ProposeWalletFactory
  <1>4. CASE AcceptWalletFactory
    BY <1>4 DEF AcceptWalletFactory
  <1>5. QED
    BY <1>1, <1>2, <1>3, <1>4 DEF OwnerStep

LEMMA CreateSessionTypeOK ==
    ASSUME TypeOK, NEW s \in SessionIds, NEW w \in Wallets, NEW key \in Keys,
           NEW maxValue \in Nat, NEW expiry \in Nat, NEW signals \in ProofSignals,
           CreateSession(s, w, key, maxValue, expiry, signals)
    PROVE  TypeOK'
  <1> USE DEF CreateSession, MarkNullifierUsed, factoryVars
  <1>1. signals.nullifier \in Nullifiers
    BY DEF ProofSignals
  <1>2. RegistryTypeOK'
    BY <1>1 DEF TypeOK, RegistryTypeOK
  <1>3. sessions' \in [SessionIds -> Session \cup {NoSession}]
    BY DEF TypeOK, Session
  <1>4. walletSessions' \in [Wallets -> SUBSET SessionIds]
    BY DEF TypeOK
  <1>5. nullifierOf' \in [SessionIds -> Nullifiers \cup {NoNullifier}]
    BY <1>1 DEF TypeOK
  <1>6. QED
    BY <1>2, <1>3, <1>4, <1>5 DEF TypeOK

LEMMA CreateLightweightSessionTypeOK ==
    ASSUME TypeOK, NEW s \in SessionIds, NEW w \in Wallets, NEW key \in Keys,
           NEW spend \in Nat, NEW tx \in Nat, NEW expiry \in Nat,
           NEW allowed \in SUBSET Targets, NEW o \in Owners,
           CreateLightweightSession(w, s, key, spend, tx, expiry, allowed, o)
    PROVE  TypeOK'
  <1> USE DEF CreateLightweightSession, registryVars, factoryVars, historyVars
  <1>1. lightSessions' \in [SessionIds -> LightweightSession \cup {NoLightSession}]
    BY TodayIsDay DEF TypeOK, LightweightSession
  <1>2. /\ sessionTargets' \in [SessionIds -> SUBSET Targets]
        /\ walletSessions' \in [Wallets -> SUBSET SessionIds]
    BY DEF TypeOK
  <1>3. QED
    BY <1>1, <1>2 DEF TypeOK, RegistryTypeOK

\* What a validated call adds to the history.
LEMMA ChargeTypeOK ==
    ASSUME TypeOK, NEW s \in SessionIds, NEW value \in Nat,
           chargedTotal' = [chargedTotal EXCEPT ![s] = @ + value],
           chargedOn' = [chargedOn EXCEPT ![s][Today] = @ + value],
           callsOn' = [callsOn EXCEPT ![s][Today] = @ + 1]
    PROVE  /\ chargedTotal' \in [SessionIds -> Nat]
           /\ chargedOn' \in [SessionIds -> [Days -> Nat]]
           /\ callsOn' \in [SessionIds -> [Days -> Nat]]
  <1>1. Today \in Days
    BY TodayIsDay
  <1>2. chargedTotal[s] + value \in Nat /\ chargedOn[s][Today] + value \in Nat
        /\ callsOn[s][Today] + 1 \in Nat
    BY <1>1 DEF TypeOK
  <1>3. QED
    BY <1>1, <1>2 DEF TypeOK

LEMMA ValidateSessionTypeOK ==
    ASSUME TypeOK, NEW s \in SessionIds, NEW w \in Wallets, NEW signer \in Keys,
           NEW value \in Nat, NEW target, ValidateSession(w, s, signer, value, target)
    PROVE  TypeOK'
  <1>1. sessions[s] \in Session
    BY EntryOrUnset, SessionManagerAssumption DEF ValidateSession
  <1>2. sessions' \in [SessionIds -> Session \cup {NoSession}]
    <2>1. [sessions[s] EXCEPT !.valueUsed = @ + value] \in Session
      BY <1>1 DEF Session
    <2>2. QED
      BY <2>1 DEF ValidateSession, TypeOK
  <1>3. /\ chargedTotal' \in [SessionIds -> Nat]
        /\ chargedOn' \in [SessionIds -> [Days -> Nat]]
        /\ callsOn' \in [SessionIds -> [Days -> Nat]]
    BY ChargeTypeOK DEF ValidateSession
  <1>4. QED
    BY <1>2, <1>3 DEF ValidateSession, TypeOK, RegistryTypeOK, registryVars, factoryVars

LEMMA ResetDailyTyped ==
    ASSUME TypeOK, NEW ls \in LightweightSession
    PROVE  ResetDaily(ls) \in LightweightSession
  BY TodayIsDay DEF ResetDaily, LightweightSession

LEMMA ChargedRecordTyped ==
    ASSUME NEW r \in LightweightSession, NEW value \in Nat
    PROVE  [r EXCEPT !.dailySpendUsed = @ + value, !.dailyTxUsed = @ + 1] \in LightweightSession
  <1>1. r.dailySpendUsed + value \in Nat /\ r.dailyTxUsed + 1 \in Nat
    BY DEF LightweightSession
  <1>2. QED
    BY <1>1 DEF LightweightSession

LEMMA ValidateLightweightSessionTypeOK ==
    ASSUME TypeOK, NEW s \in SessionIds, NEW w \in Wallets, NEW signer \in Keys,
           NEW value \in Nat, NEW target, ValidateLightweightSession(w, s, signer, value, target)
    PROVE  TypeOK'
  <1> DEFINE ls == ResetDaily(lightSessions[s])
  <1>1. lightSessions[s] \in LightweightSession
    <2>1. ls.wallet = lightSessions[s].wallet
      BY DEF ResetDaily, TypeOK, LightweightSession, NoLightSession
    <2>2. QED
      BY <2>1, EntryOrUnset, SessionManagerAssumption DEF ValidateLightweightSession
  <1>2. ls \in LightweightSession
    BY <1>1, ResetDailyTyped
  <1>3. [ls EXCEPT !.dailySpendUsed = @ + value, !.dailyTxUsed = @ + 1] \in LightweightSession
    BY <1>2, ChargedRecordTyped
  <1>4. lightSessions' \in [SessionIds -> LightweightSession \cup {NoLightSession}]
    BY <1>3 DEF ValidateLightweightSession, TypeOK
  <1>5. /\ chargedTotal' \in [SessionIds -> Nat]
        /\ chargedOn' \in [SessionIds -> [Days -> Nat]]
        /\ callsOn' \in [SessionIds -> [Days -> Nat]]
    BY ChargeTypeOK DEF ValidateLightweightSession
  <1>6. QED
    BY <1>4, <1>5 DEF ValidateLightweightSession, TypeOK, RegistryTypeOK, registryVars, factoryVars

LEMMA RevokeTypeOK ==
    ASSUME TypeOK, NEW s \in SessionIds, NEW w \in Wallets, NEW caller,
           RevokeSession(caller, s, w) \/ RevokeLightweightSession(caller, s, w)
    PROVE  TypeOK'
  <1> USE DEF registryVars, factoryVars, historyVars
  <1>1. CASE RevokeSession(caller, s, w)
    <2>1. [sessions[s] EXCEPT !.revoked = TRUE] \in Session
      BY <1>1, EntryOrUnset DEF RevokeSession, Session
    <2>2. QED
      BY <1>1, <2>1 DEF RevokeSession, TypeOK, RegistryTypeOK
  <1>2. CASE RevokeLightweightSession(caller, s, w)
    <2>1. [lightSessions[s] EXCEPT !.revoked = TRUE] \in LightweightSession
      BY <1>2, EntryOrUnset DEF RevokeLightweightSession, LightweightSession
    <2>2. QED
      BY <1>2, <2>1 DEF RevokeLightweightSession, TypeOK, RegistryTypeOK
  <1>3. QED
    BY <1>1, <1>2

LEMMA PruneTypeOK ==
    ASSUME TypeOK, NEW w \in Wallets, NEW limit, PruneExpiredSessions(w, limit)
    PROVE  TypeOK'
  BY DEF PruneExpiredSessions, TypeOK, RegistryTypeOK, registryVars, factoryVars, historyVars

LEMMA EnvironmentTypeOK ==
    ASSUME TypeOK, Tick \/ \E w \in Wallets, o \in Owners : AcceptOwnership(w, o)
    PROVE  TypeOK'
  BY SessionManagerAssumption
     DEF Tick, AcceptOwnership, TypeOK, RegistryTypeOK, registryVars, sessionVars, factoryVars,
         historyVars

LEMMA NextTypeOK == TypeOK /\ [Next]_vars => TypeOK'
  <1> SUFFICES ASSUME TypeOK, [Next]_vars PROVE TypeOK'
    OBVIOUS
  <1>1. CASE UNCHANGED vars
    BY <1>1 DEF vars, managerVars, registryVars, sessionVars, factoryVars, historyVars,
                TypeOK, RegistryTypeOK
  <1>2. ASSUME NEW s \in SessionIds, NEW w \in Wallets, CreateStep(s, w) PROVE TypeOK'
    BY <1>2, CreateSessionTypeOK, CreateLightweightSessionTypeOK, SessionManagerAssumption
       DEF CreateStep, Expiries
  <1>3. ASSUME NEW s \in SessionIds, NEW w \in Wallets, ValidateStep(s, w) PROVE TypeOK'
    BY <1>3, ValidateSessionTypeOK, ValidateLightweightSessionTypeOK, SessionManagerAssumption
       DEF ValidateStep
  <1>4. ASSUME NEW s \in SessionIds, NEW w \in Wallets, RevokeStep(s, w) PROVE TypeOK'
    BY <1>4, RevokeTypeOK DEF RevokeStep
  <1>5. ASSUME NEW w \in Wallets, NEW limit, PruneExpiredSessions(w, limit) PROVE TypeOK'
    BY <1>5, PruneTypeOK
  <1>6. QED
    BY <1>1, <1>2, <1>3, <1>4, <1>5, RegistryStepTypeOK, OwnerStepTypeOK, EnvironmentTypeOK
       DEF Next, SessionStep

\* Type correctness: the variables of the manager and of the registry keep
\* their types in every reachable state.
THEOREM TypeCorrect == Spec => []TypeOK
  <1>1. Init => TypeOK
    BY InitTypeOK
  <1>2. TypeOK /\ [Next]_vars => TypeOK'
    BY NextTypeOK
  <1>3. QED
    BY <1>1, <1>2, PTL DEF Spec

-----------------------------------------------------------------------------
(* Steps that open, charge and unlist no session.                          *)

\* The entries keep everything but a revocation, time does not run backwards,
\* the lists and the history stay, and no consumed nullifier is released.
Quiet ==
    /\ \A s \in SessionIds :
         /\ sessions'[s] \in {sessions[s], [sessions[s] EXCEPT !.revoked = TRUE]}
         /\ lightSessions'[s] \in {lightSessions[s], [lightSessions[s] EXCEPT !.revoked = TRUE]}
    /\ now <= now'
    /\ usedNullifiers \subseteq usedNullifiers'
    /\ UNCHANGED <<sessionTargets, walletSessions, historyVars>>

LEMMA RevokeStepQuiet ==
    ASSUME TypeOK, NEW s \in SessionIds, NEW w \in Wallets, RevokeStep(s, w)
    PROVE  Quiet
  <1> USE DEF registryVars, factoryVars, historyVars
  <1>0. now \in Nat
    BY SessionManagerAssumption DEF TypeOK
  <1>1. ASSUME NEW caller, RevokeSession(caller, s, w) PROVE Quiet
    <2>1. ASSUME NEW t \in SessionIds
          PROVE  sessions'[t] \in {sessions[t], [sessions[t] EXCEPT !.revoked = TRUE]}
      BY <1>1 DEF RevokeSession, TypeOK
    <2>2. QED
      BY <1>0, <1>1, <2>1 DEF RevokeSession, Quiet
  <1>2. ASSUME NEW caller, RevokeLightweightSession(caller, s, w) PROVE Quiet
    <2>1. ASSUME NEW t \in SessionIds
          PROVE  lightSessions'[t] \in {lightSessions[t], [lightSessions[t] EXCEPT !.revoked = TRUE]}
      BY <1>2 DEF RevokeLightweightSession, TypeOK
    <2>2. QED
      BY <1>0, <1>2, <2>1 DEF RevokeLightweightSession, Quiet
  <1>3. QED
    BY <1>1, <1>2 DEF RevokeStep

LEMMA OtherStepQuiet ==
    ASSUME TypeOK,
           \/ OwnerStep
           \/ RegistryStep
           \/ Tick
           \/ \E w \in Wallets, o \in Owners : AcceptOwnership(w, o)
           \/ UNCHANGED vars
    PROVE  Quiet
  <1> USE DEF vars, managerVars, registryVars, sessionVars, factoryVars, historyVars, Quiet
  <1>0. now \in Nat
    BY SessionManagerAssumption DEF TypeOK
  <1>1. CASE OwnerStep
    BY <1>0, <1>1 DEF OwnerStep, Pause, Unpause, SetInitialWalletFactory, ProposeWalletFactory,
                AcceptWalletFactory
  <1>2. CASE RegistryStep
    BY <1>0, <1>2 DEF RegistryStep, RegistryAdmin, PauseRegistry, UnpauseRegistry, AddIssuer,
                RemoveIssuer, SetSessionManager, UpdateActiveRoot, UpdateRevokedSecretRoot,
                MarkNullifierUsed
  <1>3. CASE Tick
    BY <1>0, <1>3 DEF Tick
  <1>4. CASE \E w \in Wallets, o \in Owners : AcceptOwnership(w, o)
    BY <1>0, <1>4 DEF AcceptOwnership
  <1>5. CASE UNCHANGED vars
    BY <1>0, <1>5
  <1>6. QED
    BY <1>1, <1>2, <1>3, <1>4, <1>5

\* What a quiet step preserves of a session, whatever its kind.
LEMMA QuietKeeps ==
    ASSUME TypeOK, Quiet, NEW s \in SessionIds
    PROVE  /\ IsStandard(s)' <=> IsStandard(s)
           /\ IsLight(s)' <=> IsLight(s)
           /\ UNCHANGED StandardTerms(s)
           /\ UNCHANGED LightTerms(s)
           /\ sessions'[s].valueUsed = sessions[s].valueUsed
           /\ sessions[s].revoked => sessions'[s].revoked
           /\ lightSessions[s].revoked => lightSessions'[s].revoked
           /\ lightSessions'[s].dailySpendUsed = lightSessions[s].dailySpendUsed
           /\ lightSessions'[s].dailyTxUsed = lightSessions[s].dailyTxUsed
           /\ lightSessions'[s].lastResetDay = lightSessions[s].lastResetDay
  <1>1. /\ sessions[s] \in Session \cup {NoSession}
        /\ lightSessions[s] \in LightweightSession \cup {NoLightSession}
    BY DEF TypeOK
  <1>2. sessions'[s] \in {sessions[s], [sessions[s] EXCEPT !.revoked = TRUE]}
    BY DEF Quiet
  <1>3. lightSessions'[s] \in {lightSessions[s], [lightSessions[s] EXCEPT !.revoked = TRUE]}
    BY DEF Quiet
  <1>4. sessionTargets' = sessionTargets
    BY DEF Quiet
  <1>5. /\ IsStandard(s)' <=> IsStandard(s)
        /\ UNCHANGED StandardTerms(s)
        /\ sessions'[s].valueUsed = sessions[s].valueUsed
        /\ sessions[s].revoked => sessions'[s].revoked
    BY <1>1, <1>2 DEF Session, NoSession, IsStandard, StandardTerms
  <1>6. /\ IsLight(s)' <=> IsLight(s)
        /\ UNCHANGED LightTerms(s)
        /\ lightSessions[s].revoked => lightSessions'[s].revoked
        /\ lightSessions'[s].dailySpendUsed = lightSessions[s].dailySpendUsed
        /\ lightSessions'[s].dailyTxUsed = lightSessions[s].dailyTxUsed
        /\ lightSessions'[s].lastResetDay = lightSessions[s].lastResetDay
    BY <1>1, <1>3, <1>4 DEF LightweightSession, NoLightSession, IsLight, LightTerms
  <1>7. QED
    BY <1>5, <1>6

\* The cases every invariant is proved by.
LEMMA StepCases ==
    ASSUME TypeOK, [Next]_vars
    PROVE  \/ Quiet
           \/ \E s \in SessionIds, w \in Wallets, key \in Keys, expiry \in Nat,
                 maxValue \in Nat, signals \in ProofSignals :
                   CreateSession(s, w, key, maxValue, expiry, signals)
           \/ \E s \in SessionIds, w \in Wallets, key \in Keys, expiry \in Nat,
                 spend \in Nat, tx \in Nat, o \in Owners, allowed \in SUBSET Targets :
                   CreateLightweightSession(w, s, key, spend, tx, expiry, allowed, o)
           \/ \E s \in SessionIds, w \in Wallets, signer \in Keys, value \in Nat,
                 target \in Targets \cup {NoAddr} :
                   \/ ValidateSession(w, s, signer, value, target)
                   \/ ValidateLightweightSession(w, s, signer, value, target)
           \/ \E w \in Wallets, limit \in Nat : PruneExpiredSessions(w, limit)
  <1>1. ASSUME NEW s \in SessionIds, NEW w \in Wallets, CreateStep(s, w)
        PROVE  \/ \E key \in Keys, expiry \in Nat, maxValue \in Nat, signals \in ProofSignals :
                    CreateSession(s, w, key, maxValue, expiry, signals)
               \/ \E key \in Keys, expiry \in Nat, spend \in Nat, tx \in Nat, o \in Owners,
                    allowed \in SUBSET Targets :
                    CreateLightweightSession(w, s, key, spend, tx, expiry, allowed, o)
    BY <1>1, SessionManagerAssumption DEF CreateStep, Expiries
  <1>2. ASSUME NEW s \in SessionIds, NEW w \in Wallets, ValidateStep(s, w)
        PROVE  \E signer \in Keys, value \in Nat, target \in Targets \cup {NoAddr} :
                 \/ ValidateSession(w, s, signer, value, target)
                 \/ ValidateLightweightSession(w, s, signer, value, target)
    BY <1>2, SessionManagerAssumption DEF ValidateStep
  <1>3. ASSUME NEW w \in Wallets, NEW limit \in 0 .. Cardinality(SessionIds),
               PruneExpiredSessions(w, limit)
        PROVE  \E n \in Nat : PruneExpiredSessions(w, n)
    BY <1>3
  <1>4. CASE SessionStep
    BY <1>1, <1>2, <1>3, <1>4, RevokeStepQuiet DEF SessionStep
  <1>5. QED
    BY <1>4, OtherStepQuiet DEF Next

-----------------------------------------------------------------------------
(* The accounts: what was charged agrees with the counters and the budget. *)

\* A step that touches neither the session nor its history keeps its account.
LEMMA AccountFrame ==
    ASSUME NEW t \in SessionIds, AccountInv(t), now' = now,
           sessions'[t] = sessions[t], lightSessions'[t] = lightSessions[t],
           chargedTotal'[t] = chargedTotal[t], chargedOn'[t] = chargedOn[t],
           callsOn'[t] = callsOn[t]
    PROVE  AccountInv(t)'
  BY DEF AccountInv, UnopenedAccount, StandardAccount, LightAccount, IsStandard, IsLight, Today

LEMMA AccountQuiet ==
    ASSUME TypeOK, TypeOK', Quiet, NEW t \in SessionIds, AccountInv(t)
    PROVE  AccountInv(t)'
  <1>1. UNCHANGED <<chargedTotal, chargedOn, callsOn>>
    BY DEF Quiet, historyVars
  <1>2. IsStandard(t) => StandardAccount(t)'
    BY <1>1, QuietKeeps DEF AccountInv, StandardAccount, StandardTerms
  <1>3. Today \in Nat /\ Today' \in Nat /\ Today <= Today'
    <2>1. now \in Nat /\ now' \in Nat /\ now <= now' /\ DayLength \in Nat \ {0}
      BY SessionManagerAssumption DEF TypeOK, Quiet
    <2>2. now \div DayLength \in 0 .. now
      BY <2>1, DayInRange
    <2>3. now' \div DayLength \in 0 .. now'
      BY <2>1, DayInRange
    <2>4. now \div DayLength <= now' \div DayLength
      BY <2>1, DayMonotone
    <2>5. Today = now \div DayLength /\ Today' = now' \div DayLength
      BY DEF Today
    <2>6. \A a, b : a \in 0 .. b /\ b \in Nat => a \in Nat
      OBVIOUS
    <2>7. now \div DayLength \in Nat /\ now' \div DayLength \in Nat
      BY <2>1, <2>2, <2>3, <2>6
    <2>8. QED
      BY <2>4, <2>5, <2>7
  <1>4. IsLight(t) => LightAccount(t)'
    <2> SUFFICES ASSUME IsLight(t) PROVE LightAccount(t)'
      OBVIOUS
    <2>1. LightAccount(t)
      BY DEF AccountInv
    <2>2. /\ lightSessions'[t].dailySpendLimit = lightSessions[t].dailySpendLimit
          /\ lightSessions'[t].dailyTxLimit = lightSessions[t].dailyTxLimit
      BY QuietKeeps DEF LightTerms
    <2>3. lightSessions[t].lastResetDay <= Today'
      <3>1. lightSessions[t].lastResetDay \in Nat
        BY <2>1, SessionManagerAssumption DEF LightAccount, Days
      <3>2. QED
        BY <1>3, <2>1, <3>1 DEF LightAccount
    <2>4. QED
      BY <1>1, <2>1, <2>2, <2>3, QuietKeeps DEF LightAccount
  <1>5. UnopenedAccount(t) => UnopenedAccount(t)'
    BY <1>1 DEF UnopenedAccount
  <1>6. QED
    BY <1>2, <1>4, <1>5, QuietKeeps DEF AccountInv

LEMMA AccountCreate ==
    ASSUME TypeOK, NEW s \in SessionIds, NEW w \in Wallets, NEW key \in Keys,
           NEW maxValue \in Nat, NEW expiry \in Nat, NEW signals,
           CreateSession(s, w, key, maxValue, expiry, signals),
           NEW t \in SessionIds, AccountInv(t)
    PROVE  AccountInv(t)'
  <1>1. CASE t = s
    <2>1. chargedTotal'[s] = 0
      BY <1>1 DEF AccountInv, UnopenedAccount, CreateSession, MayOpen
    <2>2. sessions'[s].valueUsed = 0 /\ sessions'[s].maxValue = maxValue /\ IsStandard(s)'
      BY SessionManagerAssumption DEF CreateSession, TypeOK, IsStandard
    <2>3. ~IsLight(s)'
      BY DEF CreateSession, MayOpen, IsLight
    <2>4. QED
      BY <1>1, <2>1, <2>2, <2>3 DEF AccountInv, StandardAccount
  <1>2. CASE t # s
    BY <1>2, AccountFrame DEF CreateSession, TypeOK
  <1>3. QED
    BY <1>1, <1>2

LEMMA AccountCreateLight ==
    ASSUME TypeOK, NEW s \in SessionIds, NEW w \in Wallets, NEW key \in Keys,
           NEW spend \in Nat, NEW tx \in Nat, NEW expiry \in Nat, NEW allowed, NEW o,
           CreateLightweightSession(w, s, key, spend, tx, expiry, allowed, o),
           NEW t \in SessionIds, AccountInv(t)
    PROVE  AccountInv(t)'
  <1> USE DEF historyVars
  <1>1. CASE t = s
    <2>1. /\ ~IsStandard(s)'
          /\ IsLight(s)'
      BY SessionManagerAssumption
         DEF CreateLightweightSession, MayOpen, IsStandard, IsLight, TypeOK
    <2>2. \A d \in Days : chargedOn'[s][d] = 0 /\ callsOn'[s][d] = 0
      BY <1>1 DEF AccountInv, UnopenedAccount, CreateLightweightSession, MayOpen
    <2>3. /\ lightSessions'[s].lastResetDay = Today
          /\ lightSessions'[s].dailySpendUsed = 0
          /\ lightSessions'[s].dailyTxUsed = 0
          /\ lightSessions'[s].dailySpendLimit = spend
          /\ lightSessions'[s].dailyTxLimit = tx
          /\ Today' = Today
      BY DEF CreateLightweightSession, TypeOK, Today
    <2>4. /\ Today \in Days /\ Today <= Today
          /\ \A d \in Days : chargedOn'[s][d] <= spend /\ callsOn'[s][d] <= tx
      BY <2>2, TodayIsDay
    <2>5. LightAccount(s)'
      <3>1. Days' = Days
        BY DEF Days
      <3>2. QED
        BY <2>2, <2>3, <2>4, <3>1 DEF LightAccount
    <2>6. QED
      BY <1>1, <2>1, <2>5 DEF AccountInv
  <1>2. CASE t # s
    BY <1>2, AccountFrame DEF CreateLightweightSession, TypeOK
  <1>3. QED
    BY <1>1, <1>2

LEMMA AccountValidate ==
    ASSUME TypeOK, SessionKindsDisjoint,
           NEW s \in SessionIds, NEW w \in Wallets, NEW signer, NEW value \in Nat, NEW target,
           ValidateSession(w, s, signer, value, target),
           NEW t \in SessionIds, AccountInv(t)
    PROVE  AccountInv(t)'
  <1>1. CASE t = s
    <2>1. IsStandard(s) /\ ~IsLight(s) /\ sessions[s] \in Session
      BY EntryOrUnset, SessionManagerAssumption DEF ValidateSession, SessionKindsDisjoint
    <2>2. /\ sessions'[s] = [sessions[s] EXCEPT !.valueUsed = @ + value]
          /\ chargedTotal'[s] = chargedTotal[s] + value
          /\ lightSessions' = lightSessions
      BY DEF ValidateSession, TypeOK
    <2>3. /\ IsStandard(s)' /\ ~IsLight(s)'
          /\ sessions'[s].valueUsed = sessions[s].valueUsed + value
          /\ sessions'[s].maxValue = sessions[s].maxValue
      BY <2>1, <2>2 DEF IsStandard, IsLight, Session
    <2>4. sessions[s].valueUsed + value <= sessions[s].maxValue
      BY DEF ValidateSession
    <2>5. QED
      BY <1>1, <2>1, <2>2, <2>3, <2>4 DEF AccountInv, StandardAccount
  <1>2. CASE t # s
    BY <1>2, AccountFrame DEF ValidateSession, TypeOK
  <1>3. QED
    BY <1>1, <1>2

LEMMA AccountValidateLight ==
    ASSUME TypeOK, SessionKindsDisjoint,
           NEW s \in SessionIds, NEW w \in Wallets, NEW signer, NEW value \in Nat, NEW target,
           ValidateLightweightSession(w, s, signer, value, target),
           NEW t \in SessionIds, AccountInv(t)
    PROVE  AccountInv(t)'
  <1> DEFINE old == lightSessions[s]
             ls == ResetDaily(old)
             new == lightSessions'[s]
  <1>1. CASE t = s
    <2>1. old \in LightweightSession /\ IsLight(s) /\ ~IsStandard(s)
      <3>1. ls.wallet = old.wallet
        BY DEF ResetDaily, TypeOK, LightweightSession, NoLightSession
      <3>2. QED
        BY <3>1, EntryOrUnset, SessionManagerAssumption
           DEF ValidateLightweightSession, SessionKindsDisjoint
    <2>2. /\ Today \in Days /\ Today \in Nat /\ Today' = Today
          /\ \A d \in Days : d \in Nat
      BY TodayIsDay, SessionManagerAssumption DEF Days, Today, ValidateLightweightSession
    <2>3. /\ ls \in LightweightSession
          /\ ls.dailySpendLimit = old.dailySpendLimit
          /\ ls.dailyTxLimit = old.dailyTxLimit
          /\ ls.sessionKey = old.sessionKey
      BY <2>1, ResetDailyTyped DEF ResetDaily, LightweightSession
    \* After the reset the counters are today's, whether or not it happened.
    <2>4. /\ ls.lastResetDay = Today
          /\ chargedOn[s][Today] = ls.dailySpendUsed
          /\ callsOn[s][Today] = ls.dailyTxUsed
      <3>1. LightAccount(s)
        BY <1>1, <2>1 DEF AccountInv
      <3>2. CASE old.lastResetDay < Today
        BY <2>1, <2>2, <3>1, <3>2 DEF ResetDaily, LightAccount, LightweightSession
      <3>3. CASE ~(old.lastResetDay < Today)
        <4>1. old.lastResetDay = Today
          BY <2>1, <2>2, <3>1, <3>3 DEF LightAccount, LightweightSession
        <4>2. ls = old
          BY <3>3 DEF ResetDaily
        <4>3. QED
          BY <3>1, <4>1, <4>2 DEF LightAccount
      <3>4. QED
        BY <3>2, <3>3
    <2> HIDE DEF ls
    <2>5. new = [ls EXCEPT !.dailySpendUsed = @ + value, !.dailyTxUsed = @ + 1]
      BY DEF ValidateLightweightSession, TypeOK, ls
    <2>6. /\ new.lastResetDay = Today
          /\ new.dailySpendLimit = old.dailySpendLimit
          /\ new.dailyTxLimit = old.dailyTxLimit
          /\ new.dailySpendUsed = ls.dailySpendUsed + value
          /\ new.dailyTxUsed = ls.dailyTxUsed + 1
          /\ new.sessionKey = old.sessionKey
      BY <2>3, <2>4, <2>5 DEF LightweightSession
    <2>7. /\ ls.dailySpendUsed + value <= old.dailySpendLimit
          /\ ls.dailyTxUsed + 1 <= old.dailyTxLimit
      BY <2>3 DEF ValidateLightweightSession, ls
    <2>8. ASSUME NEW d \in Days
          PROVE  /\ chargedOn'[s][d] = IF d = Today THEN ls.dailySpendUsed + value ELSE chargedOn[s][d]
                 /\ callsOn'[s][d] = IF d = Today THEN ls.dailyTxUsed + 1 ELSE callsOn[s][d]
      BY <2>2, <2>4 DEF ValidateLightweightSession, TypeOK
    <2>9. ASSUME NEW d \in Days
          PROVE  /\ d > Today => chargedOn'[s][d] = 0 /\ callsOn'[s][d] = 0
                 /\ chargedOn'[s][d] <= old.dailySpendLimit
                 /\ callsOn'[s][d] <= old.dailyTxLimit
      <3>1. LightAccount(s)
        BY <1>1, <2>1 DEF AccountInv
      <3>2. old.lastResetDay <= Today /\ old.lastResetDay \in Nat
        BY <2>1, <3>1 DEF LightAccount, LightweightSession
      <3>3. d > Today => chargedOn[s][d] = 0 /\ callsOn[s][d] = 0
        <4>1. d \in Nat /\ Today \in Nat
          BY <2>2
        <4>2. ASSUME NEW last \in Nat, last <= Today, d > Today PROVE d > last
          BY <4>1, <4>2
        <4>3. QED
          BY <3>1, <3>2, <4>2 DEF LightAccount
      <3>4. chargedOn[s][d] <= old.dailySpendLimit /\ callsOn[s][d] <= old.dailyTxLimit
        BY <3>1 DEF LightAccount
      <3>5. QED
        BY <2>2, <2>7, <2>8, <3>3, <3>4
    <2>10. LightAccount(s)'
      <3>1. Days' = Days
        BY DEF Days
      <3>2. Today <= Today
        BY <2>2
      <3>3. QED
        BY <2>2, <2>4, <2>6, <2>8, <2>9, <3>1, <3>2 DEF LightAccount
    <2>11. IsLight(s)' /\ ~IsStandard(s)'
      BY <2>1, <2>6 DEF IsLight, IsStandard, ValidateLightweightSession
    <2>12. QED
      BY <1>1, <2>10, <2>11 DEF AccountInv
  <1>2. CASE t # s
    BY <1>2, AccountFrame DEF ValidateLightweightSession, TypeOK
  <1>3. QED
    BY <1>1, <1>2

LEMMA AccountStep ==
    ASSUME TypeOK, TypeOK', SessionKindsDisjoint, [Next]_vars,
           NEW t \in SessionIds, AccountInv(t)
    PROVE  AccountInv(t)'
  <1>1. ASSUME NEW w \in Wallets, NEW limit \in Nat, PruneExpiredSessions(w, limit)
        PROVE  AccountInv(t)'
    BY <1>1, AccountFrame DEF PruneExpiredSessions, historyVars
  <1>2. QED
    BY <1>1, StepCases, AccountQuiet, AccountCreate, AccountCreateLight, AccountValidate,
       AccountValidateLight

-----------------------------------------------------------------------------
(* An id names a session of one kind, and each nullifier opens one.        *)

\* What validating and pruning keep of every entry.
LEMMA ValidateKeeps ==
    ASSUME TypeOK, NEW s \in SessionIds, NEW w \in Wallets, NEW signer, NEW value \in Nat,
           NEW target,
           \/ ValidateSession(w, s, signer, value, target)
           \/ ValidateLightweightSession(w, s, signer, value, target),
           NEW t \in SessionIds
    PROVE  /\ IsStandard(t)' <=> IsStandard(t)
           /\ IsLight(t)' <=> IsLight(t)
           /\ UNCHANGED StandardTerms(t)
           /\ UNCHANGED LightTerms(t)
           /\ sessions'[t].revoked = sessions[t].revoked
           /\ lightSessions'[t].revoked = lightSessions[t].revoked
           /\ UNCHANGED <<now, walletSessions, nullifierOf, usedNullifiers>>
  <1>1. CASE ValidateSession(w, s, signer, value, target)
    <2>1. sessions[s] \in Session
      BY <1>1, EntryOrUnset, SessionManagerAssumption DEF ValidateSession
    <2>2. sessions'[t] = IF t = s THEN [sessions[s] EXCEPT !.valueUsed = @ + value] ELSE sessions[t]
      BY <1>1 DEF ValidateSession, TypeOK
    <2>3. /\ sessions'[t].wallet = sessions[t].wallet
          /\ sessions'[t].sessionKey = sessions[t].sessionKey
          /\ sessions'[t].maxValue = sessions[t].maxValue
          /\ sessions'[t].expiry = sessions[t].expiry
          /\ sessions'[t].revoked = sessions[t].revoked
      BY <2>1, <2>2 DEF Session
    <2>4. UNCHANGED <<lightSessions, sessionTargets, now, walletSessions, nullifierOf, usedNullifiers>>
      BY <1>1 DEF ValidateSession, registryVars
    <2>5. QED
      BY <2>3, <2>4 DEF IsStandard, IsLight, StandardTerms, LightTerms
  <1>2. CASE ValidateLightweightSession(w, s, signer, value, target)
    <2> DEFINE ls == ResetDaily(lightSessions[s])
    <2>1. ls \in LightweightSession /\ lightSessions[s] \in LightweightSession
      <3>1. ls.wallet = lightSessions[s].wallet
        BY DEF ResetDaily, TypeOK, LightweightSession, NoLightSession
      <3>2. lightSessions[s] \in LightweightSession
        BY <1>2, <3>1, EntryOrUnset, SessionManagerAssumption DEF ValidateLightweightSession
      <3>3. QED
        BY <3>2, ResetDailyTyped
    <2>2. /\ ls.wallet = lightSessions[s].wallet
          /\ ls.sessionKey = lightSessions[s].sessionKey
          /\ ls.dailySpendLimit = lightSessions[s].dailySpendLimit
          /\ ls.dailyTxLimit = lightSessions[s].dailyTxLimit
          /\ ls.expiry = lightSessions[s].expiry
          /\ ls.revoked = lightSessions[s].revoked
      BY <2>1 DEF ResetDaily, LightweightSession
    <2> HIDE DEF ls
    <2>3. lightSessions'[t] =
            IF t = s THEN [ls EXCEPT !.dailySpendUsed = @ + value, !.dailyTxUsed = @ + 1]
            ELSE lightSessions[t]
      BY <1>2 DEF ValidateLightweightSession, TypeOK, ls
    <2>4. /\ lightSessions'[t].wallet = lightSessions[t].wallet
          /\ lightSessions'[t].sessionKey = lightSessions[t].sessionKey
          /\ lightSessions'[t].dailySpendLimit = lightSessions[t].dailySpendLimit
          /\ lightSessions'[t].dailyTxLimit = lightSessions[t].dailyTxLimit
          /\ lightSessions'[t].expiry = lightSessions[t].expiry
          /\ lightSessions'[t].revoked = lightSessions[t].revoked
      BY <2>1, <2>2, <2>3 DEF LightweightSession
    <2>5. UNCHANGED <<sessions, sessionTargets, now, walletSessions, nullifierOf, usedNullifiers>>
      BY <1>2 DEF ValidateLightweightSession, registryVars
    <2>6. QED
      BY <2>4, <2>5 DEF IsStandard, IsLight, StandardTerms, LightTerms
  <1>3. QED
    BY <1>1, <1>2

LEMMA KindsStep ==
    ASSUME TypeOK, SessionKindsDisjoint, [Next]_vars PROVE SessionKindsDisjoint'
  <1> SUFFICES ASSUME NEW t \in SessionIds PROVE (~(IsStandard(t) /\ IsLight(t)))'
    BY DEF SessionKindsDisjoint
  <1>0. ~(IsStandard(t) /\ IsLight(t))
    BY DEF SessionKindsDisjoint
  <1>1. CASE Quiet
    BY <1>0, <1>1, QuietKeeps
  <1>2. ASSUME NEW s \in SessionIds, NEW w \in Wallets, NEW key, NEW expiry,
               NEW maxValue, NEW signals, CreateSession(s, w, key, maxValue, expiry, signals)
        PROVE  (~(IsStandard(t) /\ IsLight(t)))'
    BY <1>0, <1>2 DEF CreateSession, MayOpen, TypeOK, IsStandard, IsLight
  <1>3. ASSUME NEW s \in SessionIds, NEW w \in Wallets, NEW key, NEW expiry, NEW spend, NEW tx,
               NEW o, NEW allowed,
               CreateLightweightSession(w, s, key, spend, tx, expiry, allowed, o)
        PROVE  (~(IsStandard(t) /\ IsLight(t)))'
    BY <1>0, <1>3 DEF CreateLightweightSession, MayOpen, TypeOK, IsStandard, IsLight
  <1>4. ASSUME NEW w \in Wallets, NEW limit, PruneExpiredSessions(w, limit)
        PROVE  (~(IsStandard(t) /\ IsLight(t)))'
    BY <1>0, <1>4 DEF PruneExpiredSessions, IsStandard, IsLight
  <1>5. QED
    BY <1>0, <1>1, <1>2, <1>3, <1>4, StepCases, ValidateKeeps

LEMMA NullifierStep ==
    ASSUME TypeOK, NullifierOpensOneSession, [Next]_vars PROVE NullifierOpensOneSession'
  <1>1. CASE Quiet
    BY <1>1, QuietKeeps DEF Quiet, historyVars, NullifierOpensOneSession
  <1>2. ASSUME NEW s \in SessionIds, NEW w \in Wallets, NEW key, NEW expiry,
               NEW maxValue, NEW signals, CreateSession(s, w, key, maxValue, expiry, signals)
        PROVE  NullifierOpensOneSession'
    <2> DEFINE n == signals.nullifier
    <2>1. n \notin usedNullifiers /\ usedNullifiers' = usedNullifiers \cup {n}
      BY <1>2 DEF CreateSession, MarkNullifierUsed
    <2>2. nullifierOf' = [nullifierOf EXCEPT ![s] = n]
      BY <1>2 DEF CreateSession
    <2>3. ASSUME NEW t \in SessionIds, t # s
          PROVE  (IsStandard(t)' <=> IsStandard(t)) /\ nullifierOf'[t] = nullifierOf[t]
      BY <1>2, <2>2, <2>3 DEF CreateSession, TypeOK, IsStandard
    <2>4. nullifierOf'[s] = n
      BY <2>2 DEF TypeOK
    <2>5. \A t \in SessionIds : t # s /\ IsStandard(t)' =>
            nullifierOf'[t] \in usedNullifiers /\ nullifierOf'[t] # n
      BY <2>1, <2>3 DEF NullifierOpensOneSession
    <2>6. \A t \in SessionIds : IsStandard(t)' => nullifierOf'[t] \in usedNullifiers'
      BY <2>1, <2>4, <2>5
    <2>7. ASSUME NEW t \in SessionIds, NEW u \in SessionIds, IsStandard(t)', IsStandard(u)',
                 nullifierOf'[t] = nullifierOf'[u]
          PROVE  t = u
      <3>1. CASE t # s /\ u # s
        BY <2>3, <2>7, <3>1 DEF NullifierOpensOneSession
      <3>2. CASE t = s \/ u = s
        BY <2>4, <2>5, <2>7, <3>2
      <3>3. QED
        BY <3>1, <3>2
    <2>8. QED
      BY <2>6, <2>7 DEF NullifierOpensOneSession
  <1>3. ASSUME NEW s \in SessionIds, NEW w \in Wallets, NEW key, NEW expiry, NEW spend, NEW tx,
               NEW o, NEW allowed,
               CreateLightweightSession(w, s, key, spend, tx, expiry, allowed, o)
        PROVE  NullifierOpensOneSession'
    BY <1>3 DEF CreateLightweightSession, registryVars, historyVars, NullifierOpensOneSession,
                IsStandard
  <1>4. ASSUME NEW w \in Wallets, NEW limit, PruneExpiredSessions(w, limit)
        PROVE  NullifierOpensOneSession'
    BY <1>4 DEF PruneExpiredSessions, registryVars, historyVars, NullifierOpensOneSession, IsStandard
  <1>5. ASSUME NEW s \in SessionIds, NEW w \in Wallets, NEW signer, NEW value \in Nat, NEW target,
               \/ ValidateSession(w, s, signer, value, target)
               \/ ValidateLightweightSession(w, s, signer, value, target)
        PROVE  NullifierOpensOneSession'
    BY <1>5, ValidateKeeps DEF NullifierOpensOneSession
  <1>6. QED
    BY <1>1, <1>2, <1>3, <1>4, <1>5, StepCases

-----------------------------------------------------------------------------
(* The list of a wallet's sessions.                                        *)

\* A step that opens no session, changes no terms and leaves the lists alone
\* cannot make a listed session foreign or an unlisted one live.
LEMMA ListingFrame ==
    ASSUME TypeOK, TypeOK', ListingInv, now <= now', walletSessions' = walletSessions,
           \A t \in SessionIds :
              /\ IsStandard(t)' <=> IsStandard(t)
              /\ IsLight(t)' <=> IsLight(t)
              /\ UNCHANGED StandardTerms(t)
              /\ UNCHANGED LightTerms(t)
              /\ sessions[t].revoked => sessions'[t].revoked
              /\ lightSessions[t].revoked => lightSessions'[t].revoked
    PROVE  ListingInv'
  <1>1. ASSUME NEW t \in SessionIds, NEW w \in Wallets
        PROVE  /\ BelongsTo(t, w)' <=> BelongsTo(t, w)
               /\ Live(t)' => Live(t)
    <2>1. /\ sessions'[t].wallet = sessions[t].wallet
          /\ lightSessions'[t].wallet = lightSessions[t].wallet
          /\ sessions'[t].expiry = sessions[t].expiry
          /\ lightSessions'[t].expiry = lightSessions[t].expiry
      BY DEF StandardTerms, LightTerms
    <2>2. now \in Nat /\ now' \in Nat
      BY SessionManagerAssumption DEF TypeOK
    <2>3. sessions[t].expiry \in Nat /\ lightSessions[t].expiry \in Nat
      BY DEF TypeOK, Session, NoSession, LightweightSession, NoLightSession
    <2>4. \A e \in Nat : now' < e => now < e
      BY <2>2
    <2>5. QED
      BY <2>1, <2>3, <2>4 DEF BelongsTo, Live
  <1>2. ListingFaithful'
    BY <1>1 DEF ListingInv, ListingFaithful
  <1>3. QED
    BY <1>2 DEF ListingInv

\* Opening a session for w lists it, and there was room for one more.
LEMMA ListingOpen ==
    ASSUME TypeOK, TypeOK', ListingInv, NEW s \in SessionIds, NEW w \in Wallets,
           Cardinality(walletSessions[w]) < MaxSessions, now' = now,
           walletSessions' = [walletSessions EXCEPT ![w] = @ \cup {s}],
           \A v \in Wallets : BelongsTo(s, v)' <=> v = w,
           \A v \in Wallets : ~BelongsTo(s, v),
           \A t \in SessionIds \ {s} :
               sessions'[t] = sessions[t] /\ lightSessions'[t] = lightSessions[t]
    PROVE  ListingInv'
  <1>1. ASSUME NEW v \in Wallets
        PROVE  walletSessions'[v] = IF v = w THEN walletSessions[w] \cup {s} ELSE walletSessions[v]
    BY DEF TypeOK
  <1>2. ASSUME NEW v \in Wallets, NEW t \in SessionIds, t # s
        PROVE  /\ BelongsTo(t, v)' <=> BelongsTo(t, v)
               /\ Live(t)' <=> Live(t)
    BY <1>2 DEF BelongsTo, Live, IsStandard, IsLight
  <1>3. ListingFaithful'
    <2> SUFFICES ASSUME NEW v \in Wallets, NEW t \in SessionIds
                 PROVE  /\ t \in walletSessions'[v] => BelongsTo(t, v)'
                        /\ Live(t)' /\ BelongsTo(t, v)' => t \in walletSessions'[v]
      BY DEF ListingFaithful
    <2>1. /\ t \in walletSessions[v] => BelongsTo(t, v)
          /\ Live(t) /\ BelongsTo(t, v) => t \in walletSessions[v]
      BY DEF ListingInv, ListingFaithful
    <2>2. CASE t = s
      BY <1>1, <2>1, <2>2
    <2>3. CASE t # s
      BY <1>1, <1>2, <2>1, <2>3
    <2>4. QED
      BY <2>2, <2>3
  <1>4. ASSUME NEW v \in Wallets
        PROVE  IsFiniteSet(walletSessions'[v]) /\ Cardinality(walletSessions'[v]) <= MaxSessions
    <2>1. IsFiniteSet(walletSessions[v]) /\ Cardinality(walletSessions[v]) <= MaxSessions
      BY DEF ListingInv
    <2>2. CASE v # w
      BY <1>1, <2>1, <2>2
    <2>3. CASE v = w
      <3>1. /\ IsFiniteSet(walletSessions[w] \cup {s})
            /\ Cardinality(walletSessions[w] \cup {s}) =
                 IF s \in walletSessions[w] THEN Cardinality(walletSessions[w])
                 ELSE Cardinality(walletSessions[w]) + 1
        BY <2>1, <2>3, FS_AddElement
      <3>2. Cardinality(walletSessions[w]) \in Nat
        BY <2>1, <2>3, FS_CardinalityType
      <3>3. QED
        <4>1. MaxSessions \in Nat
          BY SessionManagerAssumption
        <4>2. \A c, m \in Nat : c < m => c + 1 <= m /\ c <= m
          OBVIOUS
        <4>3. Cardinality(walletSessions[w] \cup {s}) <= MaxSessions
          BY <3>1, <3>2, <4>1, <4>2
        <4>4. QED
          BY <1>1, <2>3, <3>1, <4>3
    <2>4. QED
      BY <2>2, <2>3
  <1>5. QED
    BY <1>3, <1>4 DEF ListingInv

LEMMA ListingCreate ==
    ASSUME TypeOK, TypeOK', ListingInv, NEW s \in SessionIds, NEW w \in Wallets,
           NEW key \in Keys, NEW maxValue \in Nat, NEW expiry \in Nat, NEW signals,
           CreateSession(s, w, key, maxValue, expiry, signals)
    PROVE  ListingInv'
  <1>1. ~IsStandard(s) /\ ~IsLight(s) /\ Cardinality(walletSessions[w]) < MaxSessions
    BY DEF CreateSession, MayOpen
  <1>2. sessions[s] = NoSession /\ lightSessions[s] = NoLightSession
    BY <1>1, EntryOrUnset
  <1>3. \A v \in Wallets : ~BelongsTo(s, v)
    BY <1>2, SessionManagerAssumption DEF BelongsTo, NoSession, NoLightSession
  <1>4. sessions'[s].wallet = w /\ lightSessions'[s] = NoLightSession
    BY <1>2 DEF CreateSession, TypeOK
  <1>5. \A v \in Wallets : BelongsTo(s, v)' <=> v = w
    BY <1>4, SessionManagerAssumption DEF BelongsTo, NoLightSession
  <1>6. \A t \in SessionIds \ {s} :
           sessions'[t] = sessions[t] /\ lightSessions'[t] = lightSessions[t]
    BY DEF CreateSession, TypeOK
  <1>7. now' = now /\ walletSessions' = [walletSessions EXCEPT ![w] = @ \cup {s}]
    BY DEF CreateSession
  <1>8. QED
    BY <1>1, <1>3, <1>5, <1>6, <1>7, ListingOpen

LEMMA ListingCreateLight ==
    ASSUME TypeOK, TypeOK', ListingInv, NEW s \in SessionIds, NEW w \in Wallets,
           NEW key \in Keys, NEW spend, NEW tx, NEW expiry \in Nat, NEW allowed, NEW o,
           CreateLightweightSession(w, s, key, spend, tx, expiry, allowed, o)
    PROVE  ListingInv'
  <1>1. ~IsStandard(s) /\ ~IsLight(s) /\ Cardinality(walletSessions[w]) < MaxSessions
    BY DEF CreateLightweightSession, MayOpen
  <1>2. sessions[s] = NoSession /\ lightSessions[s] = NoLightSession
    BY <1>1, EntryOrUnset
  <1>3. \A v \in Wallets : ~BelongsTo(s, v)
    BY <1>2, SessionManagerAssumption DEF BelongsTo, NoSession, NoLightSession
  <1>4. lightSessions'[s].wallet = w /\ sessions'[s] = NoSession
    BY <1>2 DEF CreateLightweightSession, TypeOK
  <1>5. \A v \in Wallets : BelongsTo(s, v)' <=> v = w
    BY <1>4, SessionManagerAssumption DEF BelongsTo, NoSession
  <1>6. \A t \in SessionIds \ {s} :
           sessions'[t] = sessions[t] /\ lightSessions'[t] = lightSessions[t]
    BY DEF CreateLightweightSession, TypeOK
  <1>7. now' = now /\ walletSessions' = [walletSessions EXCEPT ![w] = @ \cup {s}]
    BY DEF CreateLightweightSession
  <1>8. QED
    BY <1>1, <1>3, <1>5, <1>6, <1>7, ListingOpen

\* Pruning removes only ids that are not live.
LEMMA ListingPrune ==
    ASSUME TypeOK, SessionKindsDisjoint, ListingInv, NEW w \in Wallets, NEW limit,
           PruneExpiredSessions(w, limit)
    PROVE  ListingInv'
  <1> DEFINE expired == {s \in walletSessions[w] : IsPrunable(s)}
  <1>1. PICK gone \in SUBSET expired :
            walletSessions' = [walletSessions EXCEPT ![w] = @ \ gone]
    BY DEF PruneExpiredSessions
  <1>2. UNCHANGED <<sessions, lightSessions, now>>
    BY DEF PruneExpiredSessions
  <1>3. ASSUME NEW t \in SessionIds, IsPrunable(t) PROVE ~Live(t)
    <2>1. now \in Nat
      BY SessionManagerAssumption DEF TypeOK
    <2>2. sessions[t].expiry \in Nat /\ lightSessions[t].expiry \in Nat
      BY DEF TypeOK, Session, NoSession, LightweightSession, NoLightSession
    <2>3. QED
      BY <1>3, <2>1, <2>2 DEF IsPrunable, Live, SessionKindsDisjoint
  <1>4. ASSUME NEW v \in Wallets
        PROVE  walletSessions'[v] = IF v = w THEN walletSessions[w] \ gone ELSE walletSessions[v]
    BY <1>1 DEF TypeOK
  <1>5. ListingFaithful'
    <2> SUFFICES ASSUME NEW v \in Wallets, NEW t \in SessionIds
                 PROVE  /\ t \in walletSessions'[v] => BelongsTo(t, v)'
                        /\ Live(t)' /\ BelongsTo(t, v)' => t \in walletSessions'[v]
      BY DEF ListingFaithful
    <2>1. /\ BelongsTo(t, v)' <=> BelongsTo(t, v)
          /\ Live(t)' <=> Live(t)
      BY <1>2 DEF BelongsTo, Live, IsStandard, IsLight
    <2>2. /\ t \in walletSessions[v] => BelongsTo(t, v)
          /\ Live(t) /\ BelongsTo(t, v) => t \in walletSessions[v]
      BY DEF ListingInv, ListingFaithful
    <2>3. t \in gone => ~Live(t)
      BY <1>3
    <2>4. QED
      BY <1>4, <2>1, <2>2, <2>3
  <1>6. ASSUME NEW v \in Wallets
        PROVE  IsFiniteSet(walletSessions'[v]) /\ Cardinality(walletSessions'[v]) <= MaxSessions
    <2>1. IsFiniteSet(walletSessions[v]) /\ Cardinality(walletSessions[v]) <= MaxSessions
      BY DEF ListingInv
    <2>2. walletSessions'[v] \subseteq walletSessions[v]
      BY <1>4
    <2>3. /\ IsFiniteSet(walletSessions'[v])
          /\ Cardinality(walletSessions'[v]) <= Cardinality(walletSessions[v])
      BY <2>1, <2>2, FS_Subset
    <2>4. Cardinality(walletSessions'[v]) \in Nat /\ Cardinality(walletSessions[v]) \in Nat
      BY <2>1, <2>3, FS_CardinalityType
    <2>5. MaxSessions \in Nat
      BY SessionManagerAssumption
    <2>6. QED
      BY <2>1, <2>3, <2>4, <2>5
  <1>7. QED
    BY <1>5, <1>6 DEF ListingInv

LEMMA ListingStep ==
    ASSUME TypeOK, TypeOK', SessionKindsDisjoint, ListingInv, [Next]_vars
    PROVE  ListingInv'
  <1>1. CASE Quiet
    BY <1>1, QuietKeeps, ListingFrame DEF Quiet
  <1>2. ASSUME NEW s \in SessionIds, NEW w \in Wallets, NEW signer, NEW value \in Nat, NEW target,
               \/ ValidateSession(w, s, signer, value, target)
               \/ ValidateLightweightSession(w, s, signer, value, target)
        PROVE  ListingInv'
    <2>1. now <= now' /\ walletSessions' = walletSessions
      BY <1>2, SessionManagerAssumption
         DEF ValidateSession, ValidateLightweightSession, TypeOK
    <2>2. QED
      BY <1>2, <2>1, ValidateKeeps, ListingFrame
  <1>3. QED
    BY <1>1, <1>2, StepCases, ListingCreate, ListingCreateLight, ListingPrune

-----------------------------------------------------------------------------
(* The inductive invariant.                                                *)

\* No call on sessions touches the factory or its timelock.
LEMMA SessionStepFrame == SessionStep => UNCHANGED factoryVars
  <1>1. ASSUME NEW s \in SessionIds, NEW w \in Wallets, CreateStep(s, w)
        PROVE  UNCHANGED factoryVars
    BY <1>1 DEF CreateStep, CreateSession, CreateLightweightSession
  <1>2. ASSUME NEW s \in SessionIds, NEW w \in Wallets, ValidateStep(s, w)
        PROVE  UNCHANGED factoryVars
    BY <1>2 DEF ValidateStep, ValidateSession, ValidateLightweightSession
  <1>3. ASSUME NEW s \in SessionIds, NEW w \in Wallets, RevokeStep(s, w)
        PROVE  UNCHANGED factoryVars
    BY <1>3 DEF RevokeStep, RevokeSession, RevokeLightweightSession
  <1>4. ASSUME NEW w \in Wallets, NEW limit, PruneExpiredSessions(w, limit)
        PROVE  UNCHANGED factoryVars
    BY <1>4 DEF PruneExpiredSessions
  <1>5. QED
    BY <1>1, <1>2, <1>3, <1>4, Zenon DEF SessionStep

LEMMA FactoryStep ==
    ASSUME TypeOK, FactoryInv, [Next]_vars PROVE FactoryInv'
  <1> USE DEF FactoryInv, vars, managerVars, factoryVars
  <1>1. CASE OwnerStep
    BY <1>1 DEF OwnerStep, Pause, Unpause, SetInitialWalletFactory, ProposeWalletFactory,
                AcceptWalletFactory
  <1>2. CASE RegistryStep
    BY <1>2 DEF RegistryStep
  <1>3. CASE SessionStep
    BY <1>3, SessionStepFrame
  <1>4. CASE Tick \/ \E w \in Wallets, o \in Owners : AcceptOwnership(w, o)
    BY <1>4 DEF Tick, AcceptOwnership
  <1>5. CASE UNCHANGED vars
    BY <1>5
  <1>6. QED
    BY <1>1, <1>2, <1>3, <1>4, <1>5 DEF Next

LEMMA InitIInv == Init => IInv
  <1> SUFFICES ASSUME Init PROVE IInv
    OBVIOUS
  <1>1. TypeOK
    BY InitTypeOK
  <1>2. ASSUME NEW s \in SessionIds
        PROVE  /\ ~IsStandard(s) /\ ~IsLight(s)
               /\ sessions[s] = NoSession /\ lightSessions[s] = NoLightSession
    BY DEF Init, ManagerInit, IsStandard, IsLight, NoSession, NoLightSession
  <1>3. SessionKindsDisjoint /\ NullifierOpensOneSession
    BY <1>2 DEF SessionKindsDisjoint, NullifierOpensOneSession
  <1>4. ASSUME NEW s \in SessionIds PROVE AccountInv(s)
    BY <1>2 DEF AccountInv, UnopenedAccount, Init, ManagerInit
  <1>5. ListingInv
    <2>1. \A w \in Wallets : walletSessions[w] = {}
      BY DEF Init, ManagerInit
    <2>2. ListingFaithful
      BY <1>2, <2>1 DEF ListingFaithful, Live
    <2>3. IsFiniteSet({}) /\ Cardinality({}) = 0
      BY FS_EmptySet
    <2>4. QED
      BY <2>1, <2>2, <2>3, SessionManagerAssumption DEF ListingInv
  <1>6. FactoryInv
    BY DEF Init, ManagerInit, FactoryInv
  <1>7. QED
    BY <1>1, <1>3, <1>4, <1>5, <1>6 DEF IInv

LEMMA StepIInv == IInv /\ [Next]_vars => IInv'
  <1> SUFFICES ASSUME IInv, [Next]_vars PROVE IInv'
    OBVIOUS
  <1>1. TypeOK /\ TypeOK'
    BY NextTypeOK DEF IInv
  <1>2. QED
    BY <1>1, AccountStep, KindsStep, ListingStep, NullifierStep, FactoryStep DEF IInv

\* No call, day or pause breaks the inductive invariant.
THEOREM Invariance == Spec => []IInv
  BY InitIInv, StepIInv, PTL DEF Spec

-----------------------------------------------------------------------------
(* What follows for the properties.                                        *)

\* No sequence of calls, days and pauses charges a session beyond the budget
\* it was opened with.
THEOREM BudgetsHold == Spec => []ApprovedWithinBudget
  <1>1. IInv => ApprovedWithinBudget
    BY DEF IInv, AccountInv, StandardAccount, LightAccount, ApprovedWithinBudget
  <1>2. QED
    BY <1>1, Invariance, PTL

\* The kinds of sessions never share an id.
THEOREM KindsDisjoint == Spec => []SessionKindsDisjoint
  <1>1. IInv => SessionKindsDisjoint
    BY DEF IInv
  <1>2. QED
    BY <1>1, Invariance, PTL

\* A wallet's list holds its sessions only, and every live one of them.
THEOREM ListingsFaithful == Spec => []ListingFaithful
  <1>1. IInv => ListingFaithful
    BY DEF IInv, ListingInv
  <1>2. QED
    BY <1>1, Invariance, PTL

\* A wallet never has more live sessions than its list has room for.
THEOREM LiveSessionsAreBounded == Spec => []LiveSessionsBounded
  <1>1. IInv => LiveSessionsBounded
    <2> SUFFICES ASSUME IInv, NEW w \in Wallets
                 PROVE  Cardinality({s \in SessionIds : Live(s) /\ BelongsTo(s, w)}) <= MaxSessions
      BY DEF LiveSessionsBounded
    <2> DEFINE live == {s \in SessionIds : Live(s) /\ BelongsTo(s, w)}
    <2>1. IsFiniteSet(walletSessions[w]) /\ Cardinality(walletSessions[w]) <= MaxSessions
      BY DEF IInv, ListingInv
    <2>2. live \subseteq walletSessions[w]
      BY DEF IInv, ListingInv, ListingFaithful
    <2>3. IsFiniteSet(live) /\ Cardinality(live) <= Cardinality(walletSessions[w])
      BY <2>1, <2>2, FS_Subset
    <2>4. /\ Cardinality(live) \in Nat /\ Cardinality(walletSessions[w]) \in Nat
          /\ MaxSessions \in Nat
      BY <2>1, <2>3, FS_CardinalityType, SessionManagerAssumption
    <2> HIDE DEF live
    <2>5. Cardinality(live) <= MaxSessions
      BY <2>1, <2>3, <2>4
    <2>6. QED
      BY <2>5 DEF live
  <1>2. QED
    BY <1>1, Invariance, PTL

\* A credential nullifier opens at most one session.
THEOREM NullifiersOpenOneSession == Spec => []NullifierOpensOneSession
  <1>1. IInv => NullifierOpensOneSession
    BY DEF IInv
  <1>2. QED
    BY <1>1, Invariance, PTL

\* The factory that decides who is an agent wallet is replaced only through
\* its timelock, once the first one is set.
THEOREM FactoryTimelocked == Spec => FactoryChangesTimelocked
  <1>1. IInv /\ [Next]_vars =>
          [walletFactory' # walletFactory /\ walletFactoryInitialized =>
              /\ walletFactory' = pendingWalletFactory
              /\ now >= factoryProposedAt + TimelockDelay]_vars
    <2> SUFFICES ASSUME IInv, [Next]_vars, walletFactory' # walletFactory,
                        walletFactoryInitialized
                 PROVE  /\ walletFactory' = pendingWalletFactory
                        /\ now >= factoryProposedAt + TimelockDelay
      OBVIOUS
    <2>1. CASE OwnerStep
      <3>1. AcceptWalletFactory
        BY <2>1 DEF OwnerStep, Pause, Unpause, SetInitialWalletFactory, ProposeWalletFactory,
                    factoryVars
      <3>2. QED
        BY <3>1 DEF AcceptWalletFactory, IInv, FactoryInv
    <2>2. CASE SessionStep
      BY <2>2, SessionStepFrame DEF factoryVars
    <2>3. CASE RegistryStep \/ Tick \/ (\E w \in Wallets, o \in Owners : AcceptOwnership(w, o))
      BY <2>3 DEF RegistryStep, managerVars, Tick, AcceptOwnership, factoryVars
    <2>4. CASE UNCHANGED vars
      BY <2>4 DEF vars, managerVars, factoryVars
    <2>5. QED
      BY <2>1, <2>2, <2>3, <2>4 DEF Next
  <1>2. QED
    BY <1>1, Invariance, PTL DEF Spec, FactoryChangesTimelocked

-----------------------------------------------------------------------------
(* The terms of a session.                                                 *)

Kept(t) ==
    /\ IsStandard(t) => UNCHANGED StandardTerms(t)
    /\ IsLight(t) => UNCHANGED LightTerms(t)
    /\ Ended(t) => Ended(t)' /\ UNCHANGED <<chargedTotal[t], callsOn[t]>>

\* An entry whose terms are kept and that is revoked at most once keeps its end.
LEMMA EndedStays ==
    ASSUME TypeOK, TypeOK', NEW t \in SessionIds, now <= now',
           IsStandard(t)' <=> IsStandard(t), IsLight(t)' <=> IsLight(t),
           UNCHANGED StandardTerms(t), UNCHANGED LightTerms(t),
           sessions[t].revoked => sessions'[t].revoked,
           lightSessions[t].revoked => lightSessions'[t].revoked,
           Ended(t)
    PROVE  Ended(t)'
  <1>1. sessions'[t].expiry = sessions[t].expiry /\ lightSessions'[t].expiry = lightSessions[t].expiry
    BY DEF StandardTerms, LightTerms
  <1>2. now \in Nat /\ now' \in Nat
    BY SessionManagerAssumption DEF TypeOK
  <1>3. sessions[t].expiry \in Nat /\ lightSessions[t].expiry \in Nat
    BY DEF TypeOK, Session, NoSession, LightweightSession, NoLightSession
  <1>4. QED
    BY <1>1, <1>2, <1>3 DEF Ended

\* A call that charges a session finds it not ended.
LEMMA EndedNotCharged ==
    ASSUME TypeOK, SessionKindsDisjoint, NEW s \in SessionIds, NEW w \in Wallets, NEW signer,
           NEW value \in Nat, NEW target,
           \/ ValidateSession(w, s, signer, value, target)
           \/ ValidateLightweightSession(w, s, signer, value, target),
           NEW t \in SessionIds, Ended(t)
    PROVE  UNCHANGED <<chargedTotal[t], callsOn[t]>>
  <1>1. now \in Nat
    BY SessionManagerAssumption DEF TypeOK
  <1>2. ~Ended(s)
    <2>1. CASE ValidateSession(w, s, signer, value, target)
      <3>1. IsStandard(s) /\ ~IsLight(s) /\ sessions[s] \in Session
        BY <2>1, EntryOrUnset, SessionManagerAssumption
           DEF ValidateSession, SessionKindsDisjoint
      <3>2. ~sessions[s].revoked /\ now <= sessions[s].expiry /\ sessions[s].expiry \in Nat
        BY <2>1, <3>1 DEF ValidateSession, Session
      <3>3. QED
        BY <1>1, <3>1, <3>2 DEF Ended
    <2>2. CASE ValidateLightweightSession(w, s, signer, value, target)
      <3>1. LET ls == ResetDaily(lightSessions[s]) IN
              /\ ls.sessionKey = lightSessions[s].sessionKey
              /\ ls.revoked = lightSessions[s].revoked
              /\ ls.expiry = lightSessions[s].expiry
        BY DEF ResetDaily, TypeOK, LightweightSession, NoLightSession
      <3>2. /\ IsLight(s) /\ ~lightSessions[s].revoked /\ now <= lightSessions[s].expiry
        BY <2>2, <3>1 DEF ValidateLightweightSession, IsLight
      <3>3. lightSessions[s].expiry \in Nat
        BY DEF TypeOK, LightweightSession, NoLightSession
      <3>4. QED
        BY <1>1, <3>2, <3>3 DEF Ended, SessionKindsDisjoint
    <2>3. QED
      BY <2>1, <2>2
  <1>3. t # s
    BY <1>2
  <1>4. QED
    BY <1>3 DEF ValidateSession, ValidateLightweightSession, TypeOK

LEMMA KeptStep ==
    ASSUME TypeOK, TypeOK', SessionKindsDisjoint, [Next]_vars, NEW t \in SessionIds
    PROVE  Kept(t)
  <1>1. CASE Quiet
    <2>1. now <= now' /\ UNCHANGED <<chargedTotal, callsOn>>
      BY <1>1 DEF Quiet, historyVars
    <2>2. Ended(t) => Ended(t)'
      BY <1>1, <2>1, QuietKeeps, EndedStays
    <2>3. QED
      BY <1>1, <2>1, <2>2, QuietKeeps DEF Kept
  <1>2. ASSUME NEW s \in SessionIds, NEW w \in Wallets, NEW signer, NEW value \in Nat, NEW target,
               \/ ValidateSession(w, s, signer, value, target)
               \/ ValidateLightweightSession(w, s, signer, value, target)
        PROVE  Kept(t)
    <2>1. now <= now'
      <3>1. now' = now /\ now \in Nat
        BY <1>2, ValidateKeeps, SessionManagerAssumption DEF TypeOK
      <3>2. QED
        BY <3>1
    <2>2. Ended(t) => Ended(t)'
      BY <1>2, <2>1, ValidateKeeps, EndedStays
    <2>3. Ended(t) => UNCHANGED <<chargedTotal[t], callsOn[t]>>
      BY <1>2, EndedNotCharged
    <2>4. QED
      BY <1>2, <2>2, <2>3, ValidateKeeps DEF Kept
  <1>3. ASSUME NEW s \in SessionIds, ~IsStandard(s), ~IsLight(s), now' = now,
               UNCHANGED <<chargedTotal, callsOn>>,
               t # s => UNCHANGED <<sessions[t], lightSessions[t], sessionTargets[t]>>
        PROVE  Kept(t)
    <2>1. CASE t = s
      BY <1>3, <2>1 DEF Kept, Ended
    <2>2. CASE t # s
      BY <1>3, <2>2 DEF Kept, Ended, IsStandard, IsLight, StandardTerms, LightTerms
    <2>3. QED
      BY <2>1, <2>2
  <1>4. ASSUME NEW s \in SessionIds, NEW w \in Wallets, NEW key, NEW expiry, NEW maxValue,
               NEW signals, CreateSession(s, w, key, maxValue, expiry, signals)
        PROVE  Kept(t)
    <2>1. /\ ~IsStandard(s) /\ ~IsLight(s) /\ now' = now /\ UNCHANGED <<chargedTotal, callsOn>>
          /\ t # s => UNCHANGED <<sessions[t], lightSessions[t], sessionTargets[t]>>
      BY <1>4 DEF CreateSession, MayOpen, TypeOK
    <2>2. QED
      BY <1>3, <2>1
  <1>5. ASSUME NEW s \in SessionIds, NEW w \in Wallets, NEW key, NEW expiry, NEW spend, NEW tx,
               NEW o, NEW allowed,
               CreateLightweightSession(w, s, key, spend, tx, expiry, allowed, o)
        PROVE  Kept(t)
    <2>1. /\ ~IsStandard(s) /\ ~IsLight(s) /\ now' = now /\ UNCHANGED <<chargedTotal, callsOn>>
          /\ t # s => UNCHANGED <<sessions[t], lightSessions[t], sessionTargets[t]>>
      BY <1>5 DEF CreateLightweightSession, MayOpen, TypeOK, historyVars
    <2>2. QED
      BY <1>3, <2>1
  <1>6. ASSUME NEW w \in Wallets, NEW limit, PruneExpiredSessions(w, limit)
        PROVE  Kept(t)
    <2>1. UNCHANGED <<sessions, lightSessions, sessionTargets, now, chargedTotal, callsOn>>
      BY <1>6 DEF PruneExpiredSessions, historyVars
    <2>2. QED
      BY <2>1 DEF Kept, Ended, IsStandard, IsLight, StandardTerms, LightTerms
  <1>7. QED
    BY <1>1, <1>2, <1>4, <1>5, <1>6, StepCases

\* A session keeps the terms it was opened with, and once revoked or expired it
\* never revives and is never charged again.
THEOREM TermsFixed == Spec => SessionTermsFixed
  <1>1. IInv /\ IInv' /\ [Next]_vars =>
          [\A s \in SessionIds :
              /\ IsStandard(s) => UNCHANGED StandardTerms(s)
              /\ IsLight(s) => UNCHANGED LightTerms(s)
              /\ Ended(s) => Ended(s)' /\ UNCHANGED <<chargedTotal[s], callsOn[s]>>]_vars
    BY KeptStep DEF IInv, Kept
  <1>2. QED
    BY <1>1, Invariance, PTL DEF Spec, SessionTermsFixed
=============================================================================
