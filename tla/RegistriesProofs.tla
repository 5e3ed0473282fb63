--------------------------- MODULE RegistriesProofs ---------------------------
(***************************************************************************)
(* Proofs about the contracts that keep tables: the loop that prunes the   *)
(* session ids of a wallet, for arrays of any length; CapabilityRegistry,  *)
(* for any number of capabilities; AgentWalletFactory with its wallets and *)
(* identities, for any accounts, salts and addresses; OrganizationRegistry *)
(* with its anchors, for any organisations and roots.                      *)
(***************************************************************************)
EXTENDS SessionPruning, CapabilityRegistry, AgentWalletFactory, OrganizationRegistry,
        FiniteSetTheorems, FunctionTheorems, TLAPS

LEMMA SeqFacts ==
    ASSUME NEW S, NEW s \in Seq(S)
    PROVE  Len(s) \in Nat /\ s \in [1 .. Len(s) -> S] /\ DOMAIN s = 1 .. Len(s)
  OBVIOUS

LEMMA FunIsSeq ==
    ASSUME NEW S, NEW n \in Nat, NEW s \in [1 .. n -> S]
    PROVE  s \in Seq(S) /\ Len(s) = n
  OBVIOUS

\* What moving the last id into position k does to an array.
LEMMA SwapPopFacts ==
    ASSUME NEW S, NEW s \in Seq(S), NEW k \in 1 .. Len(s)
    PROVE  /\ SwapPop(s, k) \in Seq(S)
           /\ Len(SwapPop(s, k)) = Len(s) - 1
           /\ \A j \in 1 .. Len(s) - 1 :
                SwapPop(s, k)[j] = IF j = k THEN s[Len(s)] ELSE s[j]
  <1>1. Len(s) \in Nat /\ s \in [1 .. Len(s) -> S] /\ Len(s) - 1 \in Nat /\ Len(s) \in 1 .. Len(s)
    BY SeqFacts
  <1>2. SwapPop(s, k) \in [1 .. Len(s) - 1 -> S]
    BY <1>1 DEF SwapPop
  <1>3. QED
    BY <1>1, <1>2, FunIsSeq DEF SwapPop

-----------------------------------------------------------------------------
(* The loop.                                                               *)

LEMMA PruningInitInv == PruningInit => PruningTypeOK /\ LoopInvariant
  <1> SUFFICES ASSUME PruningInit PROVE PruningTypeOK /\ LoopInvariant
    OBVIOUS
  <1>1. PICK n \in 0 .. Cardinality(SessionIds) : initialIds \in Injection(1 .. n, SessionIds)
    BY DEF PruningInit, Arrays
  <1>2. Cardinality(SessionIds) \in Nat
    BY FiniteIds, FS_CardinalityType
  <1>3. n \in Nat /\ initialIds \in [1 .. n -> SessionIds] /\ IsInjective(initialIds)
    BY <1>1, <1>2 DEF Injection
  <1>4. initialIds \in Seq(SessionIds) /\ Len(initialIds) \in Nat
    BY <1>3, FunIsSeq
  <1>5. PruningTypeOK
    BY <1>2, <1>4 DEF PruningInit, PruningTypeOK
  <1>6. LoopInvariant
    BY <1>2, <1>3, <1>4 DEF PruningInit, LoopInvariant
  <1>7. QED
    BY <1>5, <1>6

LEMMA PruningKeepStep ==
    ASSUME PruningTypeOK, LoopInvariant, Keep
    PROVE  PruningTypeOK' /\ LoopInvariant'
  <1>1. i \in Nat /\ i > 0 /\ i' = i - 1 /\ sessionIds[i] \notin expired /\ Len(sessionIds) \in Nat
    BY DEF Keep, Looping, PruningTypeOK
  <1>2. UNCHANGED <<initialIds, expired, limit, sessionIds, pruned>>
    BY DEF Keep, inputs
  <1>3. PruningTypeOK'
    BY <1>1, <1>2 DEF PruningTypeOK
  <1>4. ASSUME NEW j \in i' + 1 .. Len(sessionIds) PROVE sessionIds[j] \notin expired
    BY <1>1, <1>4 DEF LoopInvariant
  <1>5. i' <= Len(sessionIds)
    BY <1>1 DEF LoopInvariant
  <1>6. QED
    BY <1>2, <1>3, <1>4, <1>5 DEF LoopInvariant

LEMMA PruningRemoveStep ==
    ASSUME PruningTypeOK, LoopInvariant, Remove
    PROVE  PruningTypeOK' /\ LoopInvariant'
  <1> DEFINE s == sessionIds
             last == Len(s)
  <1>1. /\ i \in Nat /\ i > 0 /\ i' = i - 1 /\ s[i] \in expired
        /\ pruned \in Nat /\ limit \in Nat /\ pruned < limit /\ pruned' = pruned + 1
        /\ UNCHANGED <<initialIds, expired, limit>>
    BY DEF Remove, Looping, PruningTypeOK, inputs
  <1>2. /\ s \in Seq(SessionIds) /\ last \in Nat /\ s \in [1 .. last -> SessionIds]
        /\ DOMAIN s = 1 .. last /\ i \in 1 .. last /\ last > 0
    BY <1>1, SeqFacts DEF PruningTypeOK, LoopInvariant
  <1>3. /\ s' \in Seq(SessionIds) /\ Len(s') = last - 1
        /\ \A j \in 1 .. last - 1 : s'[j] = IF j = i THEN s[last] ELSE s[j]
        /\ DOMAIN s' = 1 .. last - 1
    <2>1. s' = SwapPop(s, i)
      BY DEF Remove
    <2>2. /\ SwapPop(s, i) \in Seq(SessionIds)
          /\ Len(SwapPop(s, i)) = last - 1
          /\ \A j \in 1 .. last - 1 : SwapPop(s, i)[j] = IF j = i THEN s[last] ELSE s[j]
      BY <1>2, SwapPopFacts
    <2>3. DOMAIN SwapPop(s, i) = 1 .. Len(SwapPop(s, i))
      BY <2>2, SeqFacts
    <2>4. QED
      BY <2>1, <2>2, <2>3
  <1> HIDE DEF s, last
  <1>4. \A a, b \in 1 .. last : s[a] = s[b] => a = b
    BY <1>2 DEF LoopInvariant, IsInjective, s
  <1>5. IsInjective(s')
    <2> SUFFICES ASSUME NEW a \in 1 .. last - 1, NEW b \in 1 .. last - 1, s'[a] = s'[b]
                 PROVE  a = b
      BY <1>3 DEF IsInjective
    <2>1. a \in 1 .. last /\ b \in 1 .. last /\ last \in 1 .. last /\ a # last /\ b # last
      BY <1>2
    <2>2. QED
      BY <1>3, <1>4, <2>1
  <1>6. ASSUME NEW j \in 1 .. last, j # i PROVE s[j] \in Range(s')
    <2>1. CASE j = last
      <3>1. i \in 1 .. last - 1 /\ s'[i] = s[last]
        BY <1>2, <1>3, <1>6, <2>1
      <3>2. QED
        BY <1>3, <2>1, <3>1 DEF Range
    <2>2. CASE j # last
      <3>1. j \in 1 .. last - 1 /\ s'[j] = s[j]
        BY <1>2, <1>3, <1>6, <2>2
      <3>2. QED
        BY <1>3, <3>1 DEF Range
    <2>3. QED
      BY <2>1, <2>2
  <1>7. Range(s') \subseteq Range(s)
    <2> SUFFICES ASSUME NEW j \in 1 .. last - 1 PROVE s'[j] \in Range(s)
      BY <1>3 DEF Range
    <2>1. j \in 1 .. last /\ last \in 1 .. last
      BY <1>2
    <2>2. QED
      BY <1>2, <1>3, <2>1 DEF Range
  <1>8. Range(s) \ Range(s') \subseteq expired
    BY <1>1, <1>2, <1>6 DEF Range
  <1>9. ASSUME NEW j \in i' + 1 .. last - 1 PROVE s'[j] \notin expired
    <2>1. \A k \in i + 1 .. last : s[k] \notin expired
      BY DEF LoopInvariant, s, last
    <2>2. j \in 1 .. last - 1 /\ (j = i \/ j \in i + 1 .. last)
      BY <1>1, <1>2
    <2>3. i \in 1 .. last - 1 => last \in i + 1 .. last
      BY <1>2
    <2>4. QED
      BY <1>3, <2>1, <2>2, <2>3
  <1>10. /\ i' <= last - 1
         /\ last - 1 + pruned' = Len(initialIds)
         /\ pruned' <= limit
    BY <1>1, <1>2 DEF LoopInvariant, s, last
  <1>11. /\ Range(s') \subseteq Range(initialIds)
         /\ Range(initialIds) \ Range(s') \subseteq expired
    BY <1>7, <1>8 DEF LoopInvariant, s
  <1>12. PruningTypeOK'
    BY <1>1, <1>3 DEF PruningTypeOK, s
  <1>13. LoopInvariant'
    BY <1>1, <1>3, <1>5, <1>9, <1>10, <1>11 DEF LoopInvariant, s
  <1>14. QED
    BY <1>12, <1>13

\* The loop invariant holds at every iteration, for arrays of any length.
THEOREM LoopCorrect == PruningSpec => [](PruningTypeOK /\ LoopInvariant)
  <1>1. PruningTypeOK /\ LoopInvariant /\ [PruningNext]_pruningVars => (PruningTypeOK /\ LoopInvariant)'
    <2> SUFFICES ASSUME PruningTypeOK, LoopInvariant, [PruningNext]_pruningVars PROVE (PruningTypeOK /\ LoopInvariant)'
      OBVIOUS
    <2>1. CASE UNCHANGED pruningVars
      BY <2>1 DEF pruningVars, PruningTypeOK, LoopInvariant
    <2>2. QED
      BY <2>1, PruningKeepStep, PruningRemoveStep DEF PruningNext
  <1>2. QED
    BY <1>1, PruningInitInv, PTL DEF PruningSpec

-----------------------------------------------------------------------------
\* An array that holds each id once has as many ids as positions.
LEMMA InjectiveRange ==
    ASSUME NEW S, NEW s \in Seq(S), IsInjective(s)
    PROVE  IsFiniteSet(Range(s)) /\ Cardinality(Range(s)) = Len(s)
  <1>1. Len(s) \in Nat /\ DOMAIN s = 1 .. Len(s) /\ s \in [1 .. Len(s) -> Range(s)]
    BY SeqFacts DEF Range
  <1>2. s \in Bijection(1 .. Len(s), Range(s))
    BY <1>1 DEF Bijection, Injection, Surjection, IsInjective, Range
  <1>3. IsFiniteSet(1 .. Len(s)) /\ Cardinality(1 .. Len(s)) = Len(s)
    BY <1>1, FS_Interval
  <1>4. QED
    BY <1>2, <1>3, FS_Bijection DEF ExistsBijection

\* Pruning removes as many prunable ids as it may and nothing else.
THEOREM PruningCorrect == PruningSpec => []PrunesUpToLimit
  <1>1. PruningInit => IsInjective(initialIds)
    BY DEF PruningInit, Arrays, Injection
  <1>2. IsInjective(initialIds) /\ [PruningNext]_pruningVars => IsInjective(initialIds)'
    BY DEF PruningNext, pruningVars, Keep, Remove, inputs
  <1>3. PruningTypeOK /\ LoopInvariant /\ IsInjective(initialIds) => PrunesUpToLimit
    <2> SUFFICES ASSUME PruningTypeOK, LoopInvariant, IsInjective(initialIds), ~Looping
                 PROVE  PrunesUpToLimit
      BY DEF PrunesUpToLimit
    <2> DEFINE all == Range(initialIds)
               left == Range(sessionIds)
               gone == all \ left
               prunable == all \cap expired
    <2>1. /\ IsFiniteSet(all) /\ Cardinality(all) = Len(initialIds)
          /\ IsFiniteSet(left) /\ Cardinality(left) = Len(sessionIds)
      BY InjectiveRange DEF PruningTypeOK, LoopInvariant
    <2>2. left \subseteq all /\ gone \subseteq prunable
      BY DEF LoopInvariant
    <2>3. Len(sessionIds) \in Nat /\ Len(initialIds) \in Nat /\ pruned \in Nat /\ limit \in Nat
      BY SeqFacts DEF PruningTypeOK
    <2>4. IsFiniteSet(gone) /\ Cardinality(gone) = pruned
      <3>1. all \cap left = left
        BY <2>2
      <3>2. IsFiniteSet(gone) /\ Cardinality(gone) = Cardinality(all) - Cardinality(left)
        <4>1. /\ IsFiniteSet(all \ left)
              /\ Cardinality(all \ left) = Cardinality(all) - Cardinality(all \cap left)
          BY <2>1, FS_Difference
        <4>2. QED
          BY <3>1, <4>1
      <3>3. Len(sessionIds) + pruned = Len(initialIds)
        BY DEF LoopInvariant
      <3>4. Cardinality(all) - Cardinality(left) = Len(initialIds) - Len(sessionIds)
        BY <2>1
      <3>5. QED
        BY <2>3, <3>2, <3>3, <3>4
    <2>5. IsFiniteSet(prunable) /\ Cardinality(gone) <= Cardinality(prunable)
      <3>1. IsFiniteSet(prunable)
        BY <2>1, FS_Subset
      <3>2. QED
        BY <2>2, <3>1, FS_Subset
    <2>6. pruned = limit \/ i = 0
      BY <2>3 DEF Looping, PruningTypeOK, LoopInvariant
    <2>7. i = 0 => gone = prunable
      <3>1. ASSUME i = 0, NEW x \in left PROVE x \notin expired
        <4>1. PICK j \in 1 .. Len(sessionIds) : x = sessionIds[j]
          BY <3>1, SeqFacts DEF PruningTypeOK, Range
        <4>2. \A k \in 0 + 1 .. Len(sessionIds) : sessionIds[k] \notin expired
          BY <3>1 DEF LoopInvariant
        <4>3. QED
          BY <4>1, <4>2, <2>3
      <3>2. QED
        BY <2>2, <3>1
    <2>8. Cardinality(prunable) \in Nat
      BY <2>5, FS_CardinalityType
    <2> HIDE DEF all, left, gone, prunable
    <2>9. Cardinality(gone) = IF limit < Cardinality(prunable) THEN limit ELSE Cardinality(prunable)
      <3>1. pruned <= limit
        BY DEF LoopInvariant
      <3>2. QED
        BY <2>3, <2>4, <2>5, <2>6, <2>7, <2>8, <3>1
    <2>10. QED
      BY <2>1, <2>2, <2>9 DEF PrunesUpToLimit, all, left, gone, prunable
  <1>4. QED
    BY <1>1, <1>2, <1>3, LoopCorrect, PTL DEF PruningSpec

-----------------------------------------------------------------------------
(* The capability registry.                                                *)

CapabilityInv == CapabilityTypeOK /\ CapabilitiesListed /\ RootsOfRegistered

LEMMA CapabilityInitInv == CapabilityInit => CapabilityInv
  <1> SUFFICES ASSUME CapabilityInit PROVE CapabilityInv
    OBVIOUS
  <1>1. <<>> \in Seq(Capabilities) /\ Len(<<>>) = 0
    OBVIOUS
  <1>2. CapabilityTypeOK
    <2>1. 0 \in 0 .. MaxNow /\ RegistryOwner \in Accounts
      BY BlockAssumption, CapabilityAssumption
    <2>2. grantRoots \in [Accounts -> [Accounts -> [Capabilities -> Trees]]]
      BY DEF CapabilityInit, Trees
    <2>3. capabilities \in [Capabilities -> [registrar : Accounts \union {NoAddr}, expiresAt : Nat, revoked : BOOLEAN]]
      BY DEF CapabilityInit
    <2>4. QED
      BY <1>1, <2>1, <2>2, <2>3 DEF CapabilityInit, CapabilityTypeOK
  <1>3. CapabilitiesListed
    BY <1>1 DEF CapabilityInit, CapabilitiesListed, Live, Registered
  <1>4. RootsOfRegistered
    BY DEF CapabilityInit, RootsOfRegistered
  <1>5. QED
    BY <1>2, <1>3, <1>4 DEF CapabilityInv

LEMMA RegisterInv ==
    ASSUME CapabilityInv, NEW caller \in Accounts, NEW c \in Capabilities, NEW expiresAt \in Nat,
           RegisterCapability(caller, c, expiresAt)
    PROVE  CapabilityInv'
  <1> DEFINE n == Len(capabilityList)
             LiveAfter(d) == capabilities'[d].registrar # NoAddr /\ ~capabilities'[d].revoked
  <1> USE DEF CapabilityInv
  <1>1. /\ n \in Nat /\ ~Registered(c) /\ expiresAt \in Nat
        /\ capabilityList' \in Seq(Capabilities) /\ Len(capabilityList') = n + 1
        /\ \A k \in 1 .. n : capabilityList'[k] = capabilityList[k] /\ capabilityList[k] \in Capabilities
        /\ capabilityList'[n + 1] = c
    BY SeqFacts, BlockAssumption, CapabilityAssumption DEF RegisterCapability, CapabilityTypeOK
  <1>2. /\ \A d \in Capabilities \ {c} : capabilities'[d] = capabilities[d]
                                         /\ capabilityIndex'[d] = capabilityIndex[d]
        /\ capabilities'[c].registrar = caller /\ ~capabilities'[c].revoked
        /\ capabilityIndex'[c] = n
    BY DEF RegisterCapability, CapabilityTypeOK
  <1>3. CapabilityTypeOK'
    BY <1>1 DEF RegisterCapability, CapabilityTypeOK
  <1>4. LiveAfter(c) /\ ~Live(c)
    BY <1>1, <1>2, BlockAssumption, CapabilityAssumption DEF Live, Registered
  <1>5. \A d \in Capabilities \ {c} : LiveAfter(d) <=> Live(d)
    BY <1>2 DEF Live, Registered
  <1>6. CapabilitiesListed'
    <2>1. ASSUME NEW d \in Capabilities, LiveAfter(d)
          PROVE  capabilityIndex'[d] < n + 1 /\ capabilityList'[capabilityIndex'[d] + 1] = d
      <3>1. CASE d = c
        BY <1>1, <1>2, <3>1
      <3>2. CASE d # c
        <4>1. capabilityIndex[d] < n /\ capabilityList[capabilityIndex[d] + 1] = d
          BY <1>5, <2>1, <3>2 DEF CapabilitiesListed
        <4>2. capabilityIndex[d] \in Nat /\ capabilityIndex'[d] = capabilityIndex[d]
          BY <1>2, <3>2 DEF CapabilityTypeOK
        <4>3. QED
          BY <1>1, <4>1, <4>2
      <3>3. QED
        BY <3>1, <3>2
    <2>2. ASSUME NEW k \in 1 .. n + 1
          PROVE  LiveAfter(capabilityList'[k]) /\ capabilityIndex'[capabilityList'[k]] = k - 1
      <3>1. CASE k = n + 1
        BY <1>1, <1>2, <1>4, <3>1
      <3>2. CASE k # n + 1
        <4>1. k \in 1 .. n
          BY <1>1, <3>2
        <4>2. Live(capabilityList[k]) /\ capabilityIndex[capabilityList[k]] = k - 1
          BY <4>1 DEF CapabilitiesListed
        <4>3. capabilityList'[k] = capabilityList[k] /\ capabilityList[k] \in Capabilities \ {c}
          BY <1>1, <1>4, <4>1, <4>2
        <4>4. QED
          BY <1>2, <1>5, <4>2, <4>3
      <3>3. QED
        BY <3>1, <3>2
    <2>3. QED
      BY <1>1, <2>1, <2>2 DEF CapabilitiesListed, Live, Registered
  <1>7. RootsOfRegistered'
    BY <1>2, BlockAssumption, CapabilityAssumption DEF RegisterCapability, RootsOfRegistered, Registered
  <1>8. QED
    BY <1>3, <1>6, <1>7

\* The index of the last capability is written before that of the revoked one is
\* deleted; the two may be one.
LEMMA RevokeInv ==
    ASSUME CapabilityInv, NEW caller \in Accounts, NEW c \in Capabilities, RevokeCapability(caller, c)
    PROVE  CapabilityInv'
  <1> DEFINE n == Len(capabilityList)
             LiveAfter(d) == capabilities'[d].registrar # NoAddr /\ ~capabilities'[d].revoked
             index == capabilityIndex[c]
             last == capabilityList[n]
  <1> USE DEF CapabilityInv
  <1>1. /\ Live(c) /\ n \in Nat /\ index \in Nat
        /\ \A k \in 1 .. n : capabilityList[k] \in Capabilities
    BY SeqFacts DEF RevokeCapability, Live, CapabilityTypeOK
  <1>2. index < n /\ capabilityList[index + 1] = c
    BY <1>1 DEF CapabilitiesListed
  <1>3. index + 1 \in 1 .. n /\ n \in 1 .. n /\ last \in Capabilities
    BY <1>1, <1>2
  <1>4. Live(last) /\ capabilityIndex[last] = n - 1
    BY <1>3 DEF CapabilitiesListed
  <1>5. /\ capabilityList' \in Seq(Capabilities) /\ Len(capabilityList') = n - 1
        /\ \A j \in 1 .. n - 1 : capabilityList'[j] = IF j = index + 1 THEN last ELSE capabilityList[j]
    <2>1. capabilityList' = SwapPop(capabilityList, index + 1) /\ capabilityList \in Seq(Capabilities)
      BY DEF RevokeCapability, CapabilityTypeOK
    <2>2. QED
      BY <1>3, <2>1, SwapPopFacts
  <1>6. /\ \A d \in Capabilities \ {c} : capabilities'[d] = capabilities[d]
        /\ capabilities'[c].revoked
        /\ capabilities'[c].registrar = capabilities[c].registrar
        /\ \A d \in Capabilities \ {c, last} : capabilityIndex'[d] = capabilityIndex[d]
        /\ last # c => capabilityIndex'[last] = index
    BY <1>3 DEF RevokeCapability, CapabilityTypeOK
  <1>7. CapabilityTypeOK'
    <2>1. capabilityIndex' \in [Capabilities -> Nat]
      BY <1>1, <1>3 DEF RevokeCapability, CapabilityTypeOK
    <2>2. QED
      BY <1>5, <2>1 DEF RevokeCapability, CapabilityTypeOK
  <1>8. ~LiveAfter(c) /\ \A d \in Capabilities \ {c} : LiveAfter(d) <=> Live(d)
    BY <1>6 DEF Live, Registered
  <1> HIDE DEF last, index, n
  <1>9. CapabilitiesListed'
    <2>1. ASSUME NEW d \in Capabilities, LiveAfter(d)
          PROVE  capabilityIndex'[d] < n - 1 /\ capabilityList'[capabilityIndex'[d] + 1] = d
      <3>1. d # c /\ Live(d)
        BY <1>8, <2>1
      <3>2. /\ capabilityIndex[d] < n /\ capabilityList[capabilityIndex[d] + 1] = d
            /\ capabilityIndex[d] \in Nat
        BY <3>1 DEF CapabilitiesListed, CapabilityTypeOK, n
      <3>3. CASE d = last
        <4>1. capabilityIndex'[d] = index /\ index # n - 1
          BY <1>1, <1>2, <1>6, <3>1, <3>3 DEF last
        <4>2. index + 1 \in 1 .. n - 1
          BY <1>1, <1>2, <4>1
        <4>3. QED
          BY <1>1, <1>2, <1>5, <3>3, <4>1, <4>2
      <3>4. CASE d # last
        <4>1. capabilityIndex'[d] = capabilityIndex[d]
          BY <1>6, <3>1, <3>4
        <4>2. capabilityIndex[d] + 1 # n /\ capabilityIndex[d] + 1 # index + 1
          BY <1>2, <3>1, <3>2, <3>4 DEF last
        <4>3. capabilityIndex[d] + 1 \in 1 .. n - 1
          BY <1>1, <3>2, <4>2
        <4>4. QED
          BY <1>1, <1>5, <3>2, <4>1, <4>2, <4>3
      <3>5. QED
        BY <3>3, <3>4
    <2>2. ASSUME NEW k \in 1 .. n - 1
          PROVE  LiveAfter(capabilityList'[k]) /\ capabilityIndex'[capabilityList'[k]] = k - 1
      <3>1. CASE k = index + 1
        <4>1. capabilityList'[k] = last /\ last # c
          BY <1>1, <1>2, <1>4, <1>5, <2>2, <3>1 DEF index
        <4>2. LiveAfter(last) /\ capabilityIndex'[last] = k - 1
          BY <1>1, <1>3, <1>4, <1>6, <1>8, <3>1, <4>1
        <4>3. QED
          BY <4>1, <4>2
      <3>2. CASE k # index + 1
        <4>1. k \in 1 .. n /\ k # n /\ capabilityList'[k] = capabilityList[k]
          BY <1>1, <1>5, <2>2, <3>2
        <4>2. Live(capabilityList[k]) /\ capabilityIndex[capabilityList[k]] = k - 1
          BY <4>1 DEF CapabilitiesListed, n
        <4>3. capabilityList[k] \in Capabilities \ {c, last}
          BY <1>1, <1>4, <3>2, <4>1, <4>2 DEF index
        <4>4. LiveAfter(capabilityList[k]) /\ capabilityIndex'[capabilityList[k]] = k - 1
          <5>1. \A d \in Capabilities \ {c} : LiveAfter(d) <=> Live(d)
            BY <1>8
          <5>2. capabilityIndex'[capabilityList[k]] = capabilityIndex[capabilityList[k]]
            BY <1>6, <4>3
          <5>3. capabilities'[capabilityList[k]] = capabilities[capabilityList[k]]
            BY <1>6, <4>3
          <5>4. QED
            BY <4>2, <5>2, <5>3 DEF Live, Registered
        <4>5. QED
          BY <4>1, <4>4
      <3>3. QED
        BY <3>1, <3>2
    <2>3. QED
      BY <1>5, <2>1, <2>2 DEF CapabilitiesListed, Live, Registered
  <1>10. RootsOfRegistered'
    BY <1>6 DEF RevokeCapability, RootsOfRegistered, Registered
  <1>11. QED
    BY <1>7, <1>9, <1>10

\* The steps that register or revoke nothing.
LEMMA ListUntouched ==
    ASSUME CapabilityInv, CapabilityTypeOK',
           UNCHANGED <<capabilities, capabilityList, capabilityIndex>>
    PROVE  CapabilitiesListed'
  BY DEF CapabilityInv, CapabilitiesListed, Live, Registered

LEMMA CapabilityStep == CapabilityInv /\ [CapabilityNext]_capabilityVars => CapabilityInv'
  <1> SUFFICES ASSUME CapabilityInv, [CapabilityNext]_capabilityVars PROVE CapabilityInv'
    OBVIOUS
  <1>1. ASSUME CapabilityTypeOK', RootsOfRegistered',
               UNCHANGED <<capabilities, capabilityList, capabilityIndex>>
        PROVE  CapabilityInv'
    BY <1>1, ListUntouched DEF CapabilityInv
  <1>2. CASE UNCHANGED capabilityVars
    BY <1>2 DEF capabilityVars, CapabilityInv, CapabilityTypeOK, CapabilitiesListed, Live, Registered, RootsOfRegistered
  <1>3. ASSUME NEW caller \in Accounts, NEW value \in BOOLEAN, SetPaused(caller, value) PROVE CapabilityInv'
    BY <1>1, <1>3 DEF SetPaused, CapabilityInv, CapabilityTypeOK, RootsOfRegistered, Registered
  <1>4. ASSUME NEW caller \in Accounts, NEW account \in Accounts \union {NoAddr}, SetOwner(caller, account)
        PROVE  CapabilityInv'
    BY <1>1, <1>4 DEF SetOwner, CapabilityInv, CapabilityTypeOK, RootsOfRegistered, Registered
  <1>5. ASSUME NEW caller \in Accounts, NEW p \in Publications, UpdateGrantRoot(caller, p[1], p[2], p[3])
        PROVE  CapabilityInv'
    <2>1. p[1] \in Accounts /\ p[2] \in Capabilities /\ p[3] \in GrantTrees
      BY BlockAssumption, CapabilityAssumption
    <2>2. CapabilityTypeOK'
      BY <1>5, <2>1 DEF UpdateGrantRoot, CapabilityInv, CapabilityTypeOK, Trees
    <2>3. RootsOfRegistered'
      BY <1>5, <2>1 DEF UpdateGrantRoot, CapabilityInv, CapabilityTypeOK, RootsOfRegistered, Registered
    <2>4. QED
      BY <1>1, <1>5, <2>2, <2>3 DEF UpdateGrantRoot
  <1>6. ASSUME NEW caller \in Accounts, NEW r \in Revocations, RevokeGrant(caller, r[1], r[2], r[3], r[4])
        PROVE  CapabilityInv'
    <2>1. r[1] \in Grant
      BY BlockAssumption, CapabilityAssumption
    <2>2. QED
      BY <1>1, <1>6, <2>1 DEF RevokeGrant, CapabilityInv, CapabilityTypeOK, RootsOfRegistered, Registered
  <1>7. ASSUME CapabilityTick PROVE CapabilityInv'
    BY <1>1, <1>7, BlockAssumption, CapabilityAssumption
    DEF CapabilityTick, TimePasses, CapabilityInv, CapabilityTypeOK, RootsOfRegistered, Registered
  <1>8. QED
    BY <1>2, <1>3, <1>4, <1>5, <1>6, <1>7, RegisterInv, RevokeInv, CapabilityAssumption DEF CapabilityNext

LEMMA CapabilityInvariant == CapabilitySpec => []CapabilityInv
  BY CapabilityInitInv, CapabilityStep, PTL DEF CapabilitySpec

\* Every variable of the registry holds a value of its type.
THEOREM CapabilityTypeCorrect == CapabilitySpec => []CapabilityTypeOK
  BY CapabilityInvariant, PTL DEF CapabilityInv

\* The list and the indices agree with each other and with the live capabilities,
\* for any number of them.
THEOREM ListCorrect == CapabilitySpec => []CapabilitiesListed
  BY CapabilityInvariant, PTL DEF CapabilityInv

LEMMA OverStays ==
    ASSUME NEW expiresAt \in Nat, now \in Nat, now' \in Nat, now <= now', Over(expiresAt)
    PROVE  Over(expiresAt)'
  BY DEF Over

\* Only a publication by the registrar while unpaused enables a grant.
THEOREM EnablingCorrect == CapabilitySpec => OnlyRegistrarsEnable
  <1> DEFINE Enabling(leaf) ==
        VerifyCapability(leaf)' /\ ~VerifyCapability(leaf) =>
            /\ ~paused
            /\ leaf.grantor = capabilities[leaf.capability].registrar
            /\ LET root == grantRoots[leaf.grantor][leaf.agent][leaf.capability]
               IN  root' # root
  <1>1. CapabilityInv /\ CapabilityInv' /\ [CapabilityNext]_capabilityVars
            => [\A leaf \in UNION GrantTrees : Enabling(leaf)]_capabilityVars
    <2> SUFFICES ASSUME CapabilityInv, CapabilityInv', CapabilityNext, NEW leaf \in UNION GrantTrees,
                        VerifyCapability(leaf)', ~VerifyCapability(leaf)
                 PROVE  /\ ~paused
                        /\ leaf.grantor = capabilities[leaf.capability].registrar
                        /\ grantRoots'[leaf.grantor][leaf.agent][leaf.capability]
                            # grantRoots[leaf.grantor][leaf.agent][leaf.capability]
      OBVIOUS
    <2> DEFINE d == leaf.capability
    <2>1. /\ leaf \in Grant /\ d \in Capabilities /\ leaf.grantor \in Accounts
          /\ leaf.agent \in Accounts /\ leaf.expiresAt \in Nat
      BY BlockAssumption, CapabilityAssumption DEF Grant
    <2>2. /\ now \in Nat /\ now' \in Nat
          /\ capabilities[d].expiresAt \in Nat /\ capabilities[d].revoked \in BOOLEAN
      BY <2>1, BlockAssumption, CapabilityAssumption DEF CapabilityInv, CapabilityTypeOK
    <2>3. ASSUME now <= now', revokedGrants \subseteq revokedGrants',
                 capabilities[d].registrar = capabilities'[d].registrar,
                 capabilities[d].expiresAt = capabilities'[d].expiresAt,
                 capabilities[d].revoked => capabilities'[d].revoked
          PROVE  /\ capabilities[d].registrar = leaf.grantor
                 /\ grantRoots'[leaf.grantor][leaf.agent][d] # grantRoots[leaf.grantor][leaf.agent][d]
      BY <2>1, <2>2, <2>3, OverStays DEF VerifyCapability, Over
    <2>4. ASSUME NEW caller \in Accounts, NEW value \in BOOLEAN, SetPaused(caller, value) PROVE FALSE
      BY <2>2, <2>3, <2>4 DEF SetPaused
    <2>5. ASSUME NEW caller \in Accounts, NEW account \in Accounts \union {NoAddr}, SetOwner(caller, account)
          PROVE  FALSE
      BY <2>2, <2>3, <2>5 DEF SetOwner
    <2>6. ASSUME NEW caller \in Accounts, NEW c \in Capabilities, NEW expiresAt \in Nat,
                 RegisterCapability(caller, c, expiresAt)
          PROVE  FALSE
      <3>1. CASE d # c
        <4>1. capabilities'[d] = capabilities[d]
          BY <2>1, <2>6, <3>1 DEF RegisterCapability, CapabilityInv, CapabilityTypeOK
        <4>2. QED
          BY <2>2, <2>3, <2>6, <4>1 DEF RegisterCapability
      <3>2. CASE d = c
        <4>1. ~Registered(d) /\ UNCHANGED grantRoots
          BY <2>6, <3>2 DEF RegisterCapability
        <4>2. grantRoots[leaf.grantor][leaf.agent][d] = NoGrants
          BY <2>1, <4>1 DEF CapabilityInv, RootsOfRegistered
        <4>3. leaf \in grantRoots'[leaf.grantor][leaf.agent][d]
          BY DEF VerifyCapability
        <4>4. QED
          BY <4>1, <4>2, <4>3 DEF NoGrants
      <3>3. QED
        BY <3>1, <3>2
    <2>7. ASSUME NEW caller \in Accounts, NEW c \in Capabilities, RevokeCapability(caller, c) PROVE FALSE
      <3>1. /\ capabilities'[d].registrar = capabilities[d].registrar
            /\ capabilities'[d].expiresAt = capabilities[d].expiresAt
            /\ capabilities[d].revoked => capabilities'[d].revoked
        BY <2>1, <2>7 DEF RevokeCapability, CapabilityInv, CapabilityTypeOK
      <3>2. QED
        BY <2>2, <2>3, <2>7, <3>1 DEF RevokeCapability
    <2>8. ASSUME NEW caller \in Accounts, NEW p \in Publications, UpdateGrantRoot(caller, p[1], p[2], p[3])
          PROVE  /\ ~paused
                 /\ capabilities[d].registrar = leaf.grantor
                 /\ grantRoots'[leaf.grantor][leaf.agent][d] # grantRoots[leaf.grantor][leaf.agent][d]
      BY <2>2, <2>3, <2>8 DEF UpdateGrantRoot
    <2>9. ASSUME NEW caller \in Accounts, NEW r \in Revocations, RevokeGrant(caller, r[1], r[2], r[3], r[4])
          PROVE  FALSE
      BY <2>2, <2>3, <2>9 DEF RevokeGrant
    <2>10. ASSUME CapabilityTick PROVE FALSE
      BY <2>2, <2>3, <2>10 DEF CapabilityTick, TimePasses
    <2>11. QED
      BY <2>4, <2>5, <2>6, <2>7, <2>8, <2>9, <2>10, CapabilityAssumption DEF CapabilityNext
  <1>2. QED
    BY <1>1, CapabilityInvariant, PTL DEF CapabilitySpec, OnlyRegistrarsEnable

-----------------------------------------------------------------------------
(* Slots.                                                                  *)

LEMMA HoldingTyped ==
    ASSUME NEW A, NEW a \in A \cup {NoAddr}
    PROVE  Holding(a) \in Slot(A) /\ Holding(a).current = a /\ PendingWaits(Holding(a))
  BY DEF Holding, Slot, PendingWaits

LEMMA ProposedTyped ==
    ASSUME NEW A, NEW slot \in Slot(A), NEW a \in A, NEW time \in Nat
    PROVE  /\ Proposed(slot, a, time) \in Slot(A)
           /\ Proposed(slot, a, time).current = slot.current
           /\ PendingWaits(Proposed(slot, a, time))
  <1> DEFINE ready == time + TimelockDelay
             next == [slot EXCEPT !.pending = a, !.activationTime = ready, !.proposedAt = time]
  <1>1. ready \in Nat
    BY TimelockAssumption
  <1>2. next = Proposed(slot, a, time)
    BY DEF Proposed
  <1>3. ready >= time + TimelockDelay
    BY <1>1
  <1> HIDE DEF ready
  <1>4. /\ next \in Slot(A)
        /\ next.current = slot.current
        /\ next.activationTime = ready /\ next.proposedAt = time
    BY <1>1 DEF Slot
  <1>5. QED
    BY <1>2, <1>3, <1>4 DEF PendingWaits

LEMMA AcceptedTyped ==
    ASSUME NEW A, NEW slot \in Slot(A)
    PROVE  /\ Accepted(slot) \in Slot(A)
           /\ Accepted(slot).current = slot.pending
           /\ PendingWaits(Accepted(slot))
  BY DEF Accepted, Slot, PendingWaits

\* A slot that accepts after its wait changes as it may.
LEMMA AcceptanceTimelocked ==
    ASSUME NEW A, NEW slot \in Slot(A), NEW time \in Nat,
           MayAccept(slot, time), PendingWaits(slot)
    PROVE  ChangesTimelocked(slot, Accepted(slot), time)
  <1>1. slot.activationTime \in Nat /\ slot.proposedAt \in Nat /\ TimelockDelay \in Nat
    BY TimelockAssumption DEF Slot
  <1>2. time >= slot.proposedAt + TimelockDelay
    BY <1>1 DEF MayAccept, PendingWaits
  <1>3. QED
    BY <1>2, AcceptedTyped DEF ChangesTimelocked, MayAccept

LEMMA CandidatesAddresses ==
    ASSUME NEW k \in FactorySlotNames
    PROVE  NoAddr \notin Candidates(k) /\ Slot(Candidates(k)) \subseteq AnySlot
  <1>1. Candidates(k) \subseteq Implementations \cup SessionManagers \cup EntryPoints
    BY DEF Candidates, FactorySlotNames, WalletSlotNames
  <1>2. QED
    BY <1>1, WalletAssumption DEF Slot, AnySlot

-----------------------------------------------------------------------------
(* The actions of a group, and what each leaves alone.                     *)

\* The body of SlotChangesTimelocked.
Timelocked ==
    /\ \A k \in FactorySlotNames : ChangesTimelocked(factorySlots[k], factorySlots'[k], now)
    /\ \A w \in agentWallets, k \in WalletSlotNames :
         ChangesTimelocked(walletSlots[w][k], walletSlots'[w][k], now)

FactorySlotsOK ==
    /\ factorySlots \in [FactorySlotNames -> AnySlot]
    /\ \A k \in FactorySlotNames :
        /\ factorySlots[k] \in Slot(Candidates(k))
        /\ factorySlots[k].current # NoAddr
        /\ PendingWaits(factorySlots[k])

WalletSlotsOK ==
    /\ walletSlots \in [Wallets -> [WalletSlotNames -> AnySlot]]
    /\ \A w \in Wallets, k \in WalletSlotNames :
        /\ walletSlots[w][k] \in Slot(Candidates(k))
        /\ w \in agentWallets => walletSlots[w][k].current # NoAddr
        /\ PendingWaits(walletSlots[w][k])

OwnersOK ==
    /\ walletOwner \in [Wallets -> Accounts \cup {NoAddr}]
    /\ pendingOwner \in [Wallets -> Accounts \cup {NoAddr}]
    /\ agentWallets = {w \in Wallets : walletOwner[w] # NoAddr}
    /\ NominationsOwned

RegistriesOK == IdentityTypeOK /\ IdentitiesMatchWallets /\ IdentityFromBirth

FactoryOK ==
    /\ agentIdentity \in Registries \cup {NoAddr}
    /\ bornWith \in [Wallets -> Registries \cup {NoAddr}]
    /\ agentWallets \subseteq Wallets
    /\ walletCount \in 0 .. MaxWallets
    /\ IsFiniteSet(agentWallets)
    /\ walletCount = Cardinality(agentWallets)

\* The invariant in the parts that the steps disturb separately.
LEMMA IInvParts ==
    IInv <=> /\ now \in Nat
             /\ FactorySlotsOK /\ WalletSlotsOK /\ OwnersOK /\ RegistriesOK /\ FactoryOK
  <1>1. IInv => /\ now \in Nat
                /\ FactorySlotsOK /\ WalletSlotsOK /\ OwnersOK /\ RegistriesOK /\ FactoryOK
    BY DEF IInv, TypeOK, WalletTypeOK, SlotsWait, Current, WalletsCounted,
           FactorySlotsOK, WalletSlotsOK, OwnersOK, RegistriesOK, FactoryOK
  <1>2. /\ now \in Nat
        /\ FactorySlotsOK /\ WalletSlotsOK /\ OwnersOK /\ RegistriesOK /\ FactoryOK
        => IInv
    BY DEF IInv, TypeOK, WalletTypeOK, SlotsWait, Current, WalletsCounted,
           FactorySlotsOK, WalletSlotsOK, OwnersOK, RegistriesOK, FactoryOK
  <1>3. QED
    BY <1>1, <1>2

LEMMA IInvFromParts ==
    ASSUME now' \in Nat, FactorySlotsOK', WalletSlotsOK', OwnersOK', RegistriesOK', FactoryOK'
    PROVE  IInv'
  BY DEF IInv, TypeOK, WalletTypeOK, SlotsWait, Current, WalletsCounted,
         FactorySlotsOK, WalletSlotsOK, OwnersOK, RegistriesOK, FactoryOK

LEMMA InitIInv == Init => IInv
  <1> SUFFICES ASSUME Init PROVE IInv
    OBVIOUS
  <1>1. now \in Nat
    BY DEF Init
  <1>2. FactorySlotsOK
    <2>1. ASSUME NEW k \in FactorySlotNames
          PROVE  /\ Holding(FirstAddress[k]) \in Slot(Candidates(k))
                 /\ Holding(FirstAddress[k]).current # NoAddr
                 /\ PendingWaits(Holding(FirstAddress[k]))
                 /\ Slot(Candidates(k)) \subseteq AnySlot
      BY HoldingTyped, CandidatesAddresses, FactoryAssumption
    <2>2. QED
      BY <2>1 DEF Init, FactorySlotsOK
  <1>3. agentWallets = {}
    BY DEF Init
  <1>4. WalletSlotsOK
    <2>1. ASSUME NEW k \in WalletSlotNames
          PROVE  /\ Holding(NoAddr) \in Slot(Candidates(k))
                 /\ PendingWaits(Holding(NoAddr))
                 /\ Slot(Candidates(k)) \subseteq AnySlot
      BY HoldingTyped, CandidatesAddresses DEF FactorySlotNames
    <2>2. QED
      BY <1>3, <2>1 DEF Init, WalletInit, WalletSlotsOK
  <1>5. OwnersOK
    BY <1>3 DEF Init, WalletInit, OwnersOK, NominationsOwned
  <1>6. RegistriesOK
    <2>1. MaxWallets \in Nat /\ 0 \in Ids
      BY IdentityAssumption DEF Ids
    <2>2. IdentityTypeOK
      BY <2>1 DEF Init, IdentityInit, IdentityTypeOK
    <2>3. IdentitiesMatchWallets
      BY <2>1 DEF Init, IdentityInit, IdentitiesMatchWallets, Exists, NoIdentity
    <2>4. IdentityFromBirth
      BY <1>3 DEF Init, IdentityInit, IdentityFromBirth
    <2>5. QED
      BY <2>2, <2>3, <2>4 DEF RegistriesOK
  <1>7. FactoryOK
    <2>1. IsFiniteSet({}) /\ Cardinality({}) = 0
      BY FS_EmptySet
    <2>2. QED
      BY <2>1, IdentityAssumption DEF Init, FactoryOK
  <1>8. QED
    BY <1>1, <1>2, <1>4, <1>5, <1>6, <1>7, IInvParts

-----------------------------------------------------------------------------
(* The factory's slots and its registry.                                   *)

LEMMA FactorySlotStep ==
    ASSUME IInv, NEW k \in FactorySlotNames, NEW slot \in Slot(Candidates(k)),
           slot.current # NoAddr, PendingWaits(slot),
           ChangesTimelocked(factorySlots[k], slot, now),
           factorySlots' = [factorySlots EXCEPT ![k] = slot]
    PROVE  /\ FactorySlotsOK'
           /\ \A j \in FactorySlotNames : ChangesTimelocked(factorySlots[j], factorySlots'[j], now)
  <1>1. FactorySlotsOK
    BY IInvParts
  <1>2. slot \in AnySlot
    BY CandidatesAddresses
  <1>3. /\ factorySlots' \in [FactorySlotNames -> AnySlot]
        /\ factorySlots'[k] = slot
        /\ \A j \in FactorySlotNames \ {k} : factorySlots'[j] = factorySlots[j]
    BY <1>1, <1>2 DEF FactorySlotsOK
  <1>4. FactorySlotsOK'
    BY <1>1, <1>3 DEF FactorySlotsOK
  <1>5. \A j \in FactorySlotNames : ChangesTimelocked(factorySlots[j], factorySlots'[j], now)
    BY <1>3 DEF ChangesTimelocked
  <1>6. QED
    BY <1>4, <1>5

LEMMA FactoryStepIInv ==
    ASSUME IInv, FactoryStep
    PROVE  IInv' /\ Timelocked
  <1>1. /\ now \in Nat /\ FactorySlotsOK /\ WalletSlotsOK /\ OwnersOK /\ RegistriesOK /\ FactoryOK
    BY IInvParts
  <1>2. UNCHANGED <<now, walletVars, identityVars, agentWallets, walletCount, bornWith>>
    BY DEF FactoryStep, ProposeFactorySlot, AcceptFactorySlot, SetAgentIdentity
  <1>3. /\ FactorySlotsOK'
        /\ \A j \in FactorySlotNames : ChangesTimelocked(factorySlots[j], factorySlots'[j], now)
        /\ agentIdentity' \in Registries \cup {NoAddr}
    <2>1. ASSUME NEW k \in FactorySlotNames, NEW a \in Candidates(k), ProposeFactorySlot(k, a)
          PROVE  /\ FactorySlotsOK'
                 /\ \A j \in FactorySlotNames : ChangesTimelocked(factorySlots[j], factorySlots'[j], now)
                 /\ agentIdentity' = agentIdentity
      <3>1. factorySlots[k] \in Slot(Candidates(k)) /\ factorySlots[k].current # NoAddr
        BY <1>1 DEF FactorySlotsOK
      <3> DEFINE slot == Proposed(factorySlots[k], a, now)
      <3>2. /\ slot \in Slot(Candidates(k)) /\ slot.current = factorySlots[k].current
            /\ PendingWaits(slot)
        BY <1>1, <3>1, ProposedTyped
      <3>3. factorySlots' = [factorySlots EXCEPT ![k] = slot] /\ agentIdentity' = agentIdentity
        BY <2>1 DEF ProposeFactorySlot
      <3> HIDE DEF slot
      <3>4. ChangesTimelocked(factorySlots[k], slot, now)
        BY <3>2 DEF ChangesTimelocked
      <3>5. QED
        BY <3>1, <3>2, <3>3, <3>4, FactorySlotStep
    <2>2. ASSUME NEW k \in FactorySlotNames, AcceptFactorySlot(k)
          PROVE  /\ FactorySlotsOK'
                 /\ \A j \in FactorySlotNames : ChangesTimelocked(factorySlots[j], factorySlots'[j], now)
                 /\ agentIdentity' = agentIdentity
      <3>1. factorySlots[k] \in Slot(Candidates(k)) /\ PendingWaits(factorySlots[k])
        BY <1>1 DEF FactorySlotsOK
      <3>2. MayAccept(factorySlots[k], now)
        BY <2>2 DEF AcceptFactorySlot
      <3> DEFINE slot == Accepted(factorySlots[k])
      <3>3. slot \in Slot(Candidates(k)) /\ slot.current # NoAddr /\ PendingWaits(slot)
        BY <3>1, <3>2, AcceptedTyped DEF MayAccept
      <3>4. ChangesTimelocked(factorySlots[k], slot, now)
        BY <1>1, <3>1, <3>2, AcceptanceTimelocked
      <3>5. factorySlots' = [factorySlots EXCEPT ![k] = slot] /\ agentIdentity' = agentIdentity
        BY <2>2 DEF AcceptFactorySlot
      <3> HIDE DEF slot
      <3>6. QED
        BY <3>3, <3>4, <3>5, FactorySlotStep
    <2>3. ASSUME NEW r \in Registries, SetAgentIdentity(r)
          PROVE  factorySlots' = factorySlots /\ agentIdentity' = r
      BY <2>3 DEF SetAgentIdentity
    <2>4. ASSUME factorySlots' = factorySlots
          PROVE  /\ FactorySlotsOK'
                 /\ \A j \in FactorySlotNames : ChangesTimelocked(factorySlots[j], factorySlots'[j], now)
      BY <1>1, <2>4 DEF FactorySlotsOK, ChangesTimelocked
    <2>5. agentIdentity \in Registries \cup {NoAddr}
      BY <1>1 DEF FactoryOK
    <2>6. QED
      BY <2>1, <2>2, <2>3, <2>4, <2>5 DEF FactoryStep
  <1>4. now' \in Nat /\ WalletSlotsOK' /\ OwnersOK'
    BY <1>1, <1>2 DEF walletVars, ownerVars, WalletSlotsOK, OwnersOK, NominationsOwned
  <1>5. RegistriesOK'
    BY <1>1, <1>2 DEF identityVars, RegistriesOK, IdentityTypeOK, IdentitiesMatchWallets,
                      IdentityFromBirth, Exists
  <1>6. FactoryOK'
    BY <1>1, <1>2, <1>3 DEF FactoryOK
  <1>7. IInv'
    BY <1>3, <1>4, <1>5, <1>6, IInvFromParts
  <1>8. Timelocked
    BY <1>2, <1>3 DEF Timelocked, ChangesTimelocked, walletVars
  <1>9. QED
    BY <1>7, <1>8

-----------------------------------------------------------------------------
(* The wallets' administration.                                            *)

LEMMA WalletSlotStep ==
    ASSUME IInv, NEW w \in Wallets, NEW k \in WalletSlotNames,
           NEW slot \in Slot(Candidates(k)),
           w \in agentWallets => slot.current # NoAddr, PendingWaits(slot),
           ChangesTimelocked(walletSlots[w][k], slot, now),
           walletSlots' = [walletSlots EXCEPT ![w][k] = slot],
           UNCHANGED agentWallets
    PROVE  /\ WalletSlotsOK'
           /\ \A v \in agentWallets, j \in WalletSlotNames :
                ChangesTimelocked(walletSlots[v][j], walletSlots'[v][j], now)
  <1>1. WalletSlotsOK /\ agentWallets \subseteq Wallets
    BY IInvParts DEF FactoryOK
  <1>2. slot \in AnySlot
    BY CandidatesAddresses DEF FactorySlotNames
  <1>3. walletSlots' \in [Wallets -> [WalletSlotNames -> AnySlot]]
    BY <1>1, <1>2 DEF WalletSlotsOK
  <1>4. /\ walletSlots'[w][k] = slot
        /\ \A v \in Wallets, j \in WalletSlotNames :
             v # w \/ j # k => walletSlots'[v][j] = walletSlots[v][j]
    BY <1>1 DEF WalletSlotsOK
  <1>5. WalletSlotsOK'
    BY <1>1, <1>3, <1>4 DEF WalletSlotsOK
  <1>6. ASSUME NEW v \in agentWallets, NEW j \in WalletSlotNames
        PROVE  ChangesTimelocked(walletSlots[v][j], walletSlots'[v][j], now)
    BY <1>1, <1>4 DEF ChangesTimelocked
  <1>7. QED
    BY <1>5, <1>6

LEMMA WalletStepIInv ==
    ASSUME IInv, WalletStep
    PROVE  IInv' /\ Timelocked
  <1>1. /\ now \in Nat /\ FactorySlotsOK /\ WalletSlotsOK /\ OwnersOK /\ RegistriesOK /\ FactoryOK
    BY IInvParts
  <1>2. UNCHANGED <<now, identityVars, factoryVars>>
    BY DEF WalletStep
  <1>3. PICK caller \in Accounts, w \in Wallets :
        \/ \E newOwner \in Accounts : ChangeOwner(caller, w, newOwner)
        \/ AcceptOwnership(caller, w)
        \/ \E k \in WalletSlotNames :
            \/ \E a \in Candidates(k) : ProposeWalletSlot(caller, w, k, a)
            \/ AcceptWalletSlot(caller, w, k)
    BY DEF WalletStep
  <1> DEFINE SlotsKept ==
                 /\ WalletSlotsOK'
                 /\ \A v \in agentWallets, j \in WalletSlotNames :
                      ChangesTimelocked(walletSlots[v][j], walletSlots'[v][j], now)
  <1>4. NoAddr \notin Accounts
    BY BlockAssumption, WalletAssumption
  <1>5. ASSUME UNCHANGED ownerVars PROVE OwnersOK'
    BY <1>1, <1>2, <1>5 DEF ownerVars, factoryVars, OwnersOK, NominationsOwned
  <1>6. ASSUME UNCHANGED walletSlots PROVE SlotsKept
    BY <1>1, <1>2, <1>6 DEF factoryVars, WalletSlotsOK, ChangesTimelocked
  <1>7. OwnersOK' /\ SlotsKept
    <2>1. ASSUME NEW newOwner \in Accounts, ChangeOwner(caller, w, newOwner)
          PROVE  OwnersOK' /\ SlotsKept
      <3>1. OwnersOK'
        BY <1>1, <1>2, <1>4, <2>1 DEF ChangeOwner, OwnersOK, NominationsOwned, factoryVars
      <3>2. QED
        BY <1>6, <2>1, <3>1 DEF ChangeOwner
    <2>2. CASE AcceptOwnership(caller, w)
      <3>1. walletOwner[w] # NoAddr
        BY <1>1, <1>4, <2>2 DEF AcceptOwnership, OwnersOK, NominationsOwned
      <3>2. /\ walletOwner' \in [Wallets -> Accounts \cup {NoAddr}]
            /\ pendingOwner' \in [Wallets -> Accounts \cup {NoAddr}]
            /\ walletOwner'[w] # NoAddr
            /\ \A v \in Wallets \ {w} : walletOwner'[v] = walletOwner[v]
            /\ \A v \in Wallets : pendingOwner'[v] # NoAddr => pendingOwner[v] # NoAddr
        BY <1>1, <1>4, <2>2 DEF AcceptOwnership, OwnersOK
      <3>3. OwnersOK'
        BY <1>1, <1>2, <3>1, <3>2 DEF OwnersOK, NominationsOwned, factoryVars
      <3>4. QED
        BY <1>6, <2>2, <3>3 DEF AcceptOwnership
    <2>3. ASSUME NEW k \in WalletSlotNames, NEW a \in Candidates(k),
                 ProposeWalletSlot(caller, w, k, a)
          PROVE  OwnersOK' /\ SlotsKept
      <3>1. /\ walletSlots[w][k] \in Slot(Candidates(k))
            /\ w \in agentWallets => walletSlots[w][k].current # NoAddr
        BY <1>1 DEF WalletSlotsOK
      <3> DEFINE slot == Proposed(walletSlots[w][k], a, now)
      <3>2. /\ slot \in Slot(Candidates(k)) /\ slot.current = walletSlots[w][k].current
            /\ PendingWaits(slot)
        BY <1>1, <3>1, ProposedTyped
      <3>3. walletSlots' = [walletSlots EXCEPT ![w][k] = slot] /\ UNCHANGED ownerVars
        BY <2>3 DEF ProposeWalletSlot
      <3> HIDE DEF slot
      <3>4. ChangesTimelocked(walletSlots[w][k], slot, now)
        BY <3>2 DEF ChangesTimelocked
      <3>5. SlotsKept
        BY <1>2, <3>1, <3>2, <3>3, <3>4, WalletSlotStep DEF factoryVars
      <3>6. QED
        BY <1>5, <3>3, <3>5
    <2>4. ASSUME NEW k \in WalletSlotNames, AcceptWalletSlot(caller, w, k)
          PROVE  OwnersOK' /\ SlotsKept
      <3>1. walletSlots[w][k] \in Slot(Candidates(k)) /\ PendingWaits(walletSlots[w][k])
        BY <1>1 DEF WalletSlotsOK
      <3>2. MayAccept(walletSlots[w][k], now)
        BY <2>4 DEF AcceptWalletSlot
      <3> DEFINE slot == Accepted(walletSlots[w][k])
      <3>3. slot \in Slot(Candidates(k)) /\ slot.current # NoAddr /\ PendingWaits(slot)
        BY <3>1, <3>2, AcceptedTyped DEF MayAccept
      <3>4. ChangesTimelocked(walletSlots[w][k], slot, now)
        BY <1>1, <3>1, <3>2, AcceptanceTimelocked
      <3>5. walletSlots' = [walletSlots EXCEPT ![w][k] = slot] /\ UNCHANGED ownerVars
        BY <2>4 DEF AcceptWalletSlot
      <3> HIDE DEF slot
      <3>6. SlotsKept
        BY <1>2, <3>3, <3>4, <3>5, WalletSlotStep DEF factoryVars
      <3>7. QED
        BY <1>5, <3>5, <3>6
    <2>5. QED
      BY <1>3, <2>1, <2>2, <2>3, <2>4
  <1>8. now' \in Nat /\ FactorySlotsOK' /\ FactoryOK'
    BY <1>1, <1>2 DEF factoryVars, FactorySlotsOK, FactoryOK
  <1>9. RegistriesOK'
    BY <1>1, <1>2 DEF identityVars, factoryVars, RegistriesOK, IdentityTypeOK,
                      IdentitiesMatchWallets, IdentityFromBirth, Exists
  <1>10. Timelocked
    BY <1>2, <1>7 DEF Timelocked, ChangesTimelocked, factoryVars
  <1>11. QED
    BY <1>7, <1>8, <1>9, <1>10, IInvFromParts

-----------------------------------------------------------------------------
(* The identities.                                                         *)

\* An edit keeps the wallet of an identity.
LEMMA EditKeepsRegistries ==
    ASSUME IInv, NEW caller \in Accounts, NEW r \in Registries, NEW id \in Ids,
           NEW changed \in Identity, changed.wallet = identities[r][id].wallet,
           Edit(caller, r, id, changed),
           UNCHANGED <<now, factoryVars>>
    PROVE  RegistriesOK'
  <1>1. now \in Nat /\ RegistriesOK
    BY IInvParts
  <1> DEFINE edited == [changed EXCEPT !.updatedAt = now]
  <1>2. edited \in Identity /\ edited.wallet = identities[r][id].wallet
    BY <1>1 DEF Identity
  <1>3. /\ identities' = [identities EXCEPT ![r][id] = edited]
        /\ UNCHANGED <<identityCount, walletToIdentity, identityPaused>>
    BY DEF Edit
  <1> HIDE DEF edited
  <1>4. IdentityTypeOK'
    BY <1>1, <1>2, <1>3 DEF RegistriesOK, IdentityTypeOK
  <1>5. \A q \in Registries, j \in Ids : identities'[q][j].wallet = identities[q][j].wallet
    BY <1>1, <1>2, <1>3 DEF RegistriesOK, IdentityTypeOK
  <1>6. \A q \in Registries : 1 .. identityCount[q] \subseteq Ids
    BY <1>1, IdentityAssumption DEF RegistriesOK, IdentityTypeOK, Ids
  <1>7. IdentitiesMatchWallets'
    BY <1>1, <1>3, <1>5, <1>6 DEF RegistriesOK, IdentitiesMatchWallets, Exists
  <1>8. IdentityFromBirth'
    BY <1>1, <1>3 DEF RegistriesOK, IdentityFromBirth, factoryVars
  <1>9. QED
    BY <1>4, <1>7, <1>8 DEF RegistriesOK

LEMMA IdentityStepIInv ==
    ASSUME IInv, IdentityStep
    PROVE  IInv' /\ Timelocked
  <1>1. /\ now \in Nat /\ FactorySlotsOK /\ WalletSlotsOK /\ OwnersOK /\ RegistriesOK /\ FactoryOK
    BY IInvParts
  <1>2. UNCHANGED <<now, walletVars, factoryVars>>
    BY DEF IdentityStep
  <1>3. PICK r \in Registries :
        \/ PauseIdentity(r)
        \/ UnpauseIdentity(r)
        \/ \E caller \in Accounts, id \in Ids :
            \/ \E c \in Credentials : LinkCredential(caller, r, id, c)
            \/ \E m \in MetadataRoots : UpdateMetadata(caller, r, id, m)
            \/ Deactivate(caller, r, id)
            \/ Reactivate(caller, r, id)
    BY DEF IdentityStep
  <1>4. RegistriesOK'
    <2>1. CASE PauseIdentity(r) \/ UnpauseIdentity(r)
      <3>1. /\ UNCHANGED <<identityCount, identities, walletToIdentity>>
            /\ identityPaused' \in [Registries -> BOOLEAN]
        BY <1>1, <2>1 DEF PauseIdentity, UnpauseIdentity, RegistriesOK, IdentityTypeOK
      <3>2. IdentityTypeOK'
        BY <1>1, <3>1 DEF RegistriesOK, IdentityTypeOK
      <3>3. IdentitiesMatchWallets' /\ IdentityFromBirth'
        BY <1>1, <1>2, <3>1
        DEF RegistriesOK, IdentitiesMatchWallets, IdentityFromBirth, Exists, factoryVars
      <3>4. QED
        BY <3>2, <3>3 DEF RegistriesOK
    <2>2. ASSUME NEW caller \in Accounts, NEW id \in Ids, NEW changed,
                 Edit(caller, r, id, changed),
                 identities[r][id] \in Identity =>
                     changed \in Identity /\ changed.wallet = identities[r][id].wallet
          PROVE  RegistriesOK'
      <3>1. identities[r][id] \in Identity
        BY <1>1, <2>2 DEF Edit, Exists, RegistriesOK, IdentityTypeOK, NoIdentity
      <3>2. QED
        BY <1>2, <2>2, <3>1, EditKeepsRegistries
    <2>3. ASSUME NEW caller \in Accounts, NEW id \in Ids, NEW c \in Credentials,
                 LinkCredential(caller, r, id, c)
          PROVE  RegistriesOK'
      BY <2>2, <2>3 DEF LinkCredential, Identity
    <2>4. ASSUME NEW caller \in Accounts, NEW id \in Ids, NEW m \in MetadataRoots,
                 UpdateMetadata(caller, r, id, m)
          PROVE  RegistriesOK'
      BY <2>2, <2>4 DEF UpdateMetadata, Identity
    <2>5. ASSUME NEW caller \in Accounts, NEW id \in Ids,
                 Deactivate(caller, r, id) \/ Reactivate(caller, r, id)
          PROVE  RegistriesOK'
      BY <2>2, <2>5 DEF Deactivate, Reactivate, Identity
    <2>6. QED
      BY <1>3, <2>1, <2>3, <2>4, <2>5
  <1>5. /\ now' \in Nat /\ FactorySlotsOK' /\ WalletSlotsOK' /\ OwnersOK' /\ FactoryOK'
    BY <1>1, <1>2 DEF walletVars, ownerVars, factoryVars, FactorySlotsOK, WalletSlotsOK,
                      OwnersOK, NominationsOwned, FactoryOK
  <1>6. Timelocked
    BY <1>2 DEF Timelocked, ChangesTimelocked, walletVars, factoryVars
  <1>7. QED
    BY <1>4, <1>5, <1>6, IInvFromParts

-----------------------------------------------------------------------------
(* Creation.                                                               *)

\* A registration of a wallet that no registry knows.
LEMMA RegistrationKeepsRegistries ==
    ASSUME RegistriesOK, now \in Nat, NEW r \in Registries, NEW w \in Wallets,
           w \notin agentWallets,
           RegisterIdentity(r, w),
           agentWallets' = agentWallets \cup {w},
           bornWith \in [Wallets -> Registries \cup {NoAddr}],
           bornWith' = [bornWith EXCEPT ![w] = r]
    PROVE  RegistriesOK'
  <1> DEFINE id == identityCount[r] + 1
             new == [NoIdentity EXCEPT !.wallet = w, !.createdAt = now, !.updatedAt = now,
                                       !.active = TRUE]
  <1>1. IdentityTypeOK /\ IdentitiesMatchWallets /\ IdentityFromBirth
    BY DEF RegistriesOK
  <1>2. /\ id \in Ids
        /\ identityCount' = [identityCount EXCEPT ![r] = id]
        /\ identities' = [identities EXCEPT ![r][id] = new]
        /\ walletToIdentity' = [walletToIdentity EXCEPT ![r][w] = id]
        /\ UNCHANGED identityPaused
    BY DEF RegisterIdentity
  <1>3. new \in Identity /\ new.wallet = w
    BY IdentityAssumption DEF NoIdentity, Identity
  <1>4. /\ identityCount[r] \in Nat /\ MaxWallets \in Nat
        /\ \A q \in Registries : identityCount[q] \in Nat /\ identityCount[q] <= MaxWallets
    BY <1>1, IdentityAssumption DEF IdentityTypeOK, Ids
  <1>5. id = identityCount[r] + 1 /\ id # 0 /\ id <= MaxWallets
    BY <1>2, <1>4 DEF Ids
  <1> HIDE DEF id, new
  <1>6. IdentityTypeOK'
    BY <1>1, <1>2, <1>3 DEF IdentityTypeOK
  <1>7. /\ identityCount'[r] = id /\ identities'[r][id] = new /\ walletToIdentity'[r][w] = id
        /\ \A j \in Ids \ {id} : identities'[r][j] = identities[r][j]
        /\ \A v \in Wallets \ {w} : walletToIdentity'[r][v] = walletToIdentity[r][v]
        /\ \A q \in Registries \ {r} : /\ identityCount'[q] = identityCount[q]
                                      /\ identities'[q] = identities[q]
                                      /\ walletToIdentity'[q] = walletToIdentity[q]
    BY <1>1, <1>2 DEF IdentityTypeOK
  <1>8. \A q \in Registries : walletToIdentity[q][w] = 0
    BY <1>1 DEF IdentityFromBirth
  <1>9. IdentitiesMatchWallets'
    <2> DEFINE Matches(q) ==
          /\ \A j \in Ids : Exists(q, j) <=> j \in 1 .. identityCount[q]
          /\ \A j \in 1 .. identityCount[q] : walletToIdentity[q][identities[q][j].wallet] = j
          /\ \A v \in Wallets : walletToIdentity[q][v] # 0 =>
                /\ walletToIdentity[q][v] \in 1 .. identityCount[q]
                /\ identities[q][walletToIdentity[q][v]].wallet = v
    <2>1. \A q \in Registries : Matches(q)
      BY <1>1 DEF IdentitiesMatchWallets
    <2>2. ASSUME NEW q \in Registries \ {r} PROVE Matches(q)'
      <3>1. Matches(q)
        BY <2>1
      <3>2. QED
        BY <1>7, <3>1 DEF Exists
    <2>3. \A j \in Ids : (Exists(r, j))' <=> j \in 1 .. id
      <3>1. \A j \in Ids : Exists(r, j) <=> j \in 1 .. identityCount[r]
        BY <2>1
      <3>2. \A j \in Ids \ {id} : (Exists(r, j))' <=> Exists(r, j)
        BY <1>7 DEF Exists
      <3>3. identities'[r][id].wallet # NoAddr
        BY <1>3, <1>7, BlockAssumption, WalletAssumption
      <3>4. \A j \in Ids \ {id} : j \in 1 .. identityCount[r] <=> j \in 1 .. id
        BY <1>4, <1>5 DEF Ids
      <3>5. ASSUME NEW j \in Ids PROVE (Exists(r, j))' <=> j \in 1 .. id
        <4>1. CASE j = id
          BY <1>4, <1>5, <3>3, <4>1 DEF Exists, Ids
        <4>2. CASE j # id
          BY <3>1, <3>2, <3>4, <4>2
        <4>3. QED
          BY <4>1, <4>2
      <3>6. QED
        BY <3>5
    <2>4. ASSUME NEW j \in 1 .. id PROVE walletToIdentity'[r][identities'[r][j].wallet] = j
      <3>1. CASE j = id
        BY <1>3, <1>7, <3>1
      <3>2. CASE j # id
        <4>1. j \in 1 .. identityCount[r] /\ j \in Ids
          BY <1>4, <1>5, <3>2 DEF Ids
        <4>2. walletToIdentity[r][identities[r][j].wallet] = j /\ Exists(r, j)
          BY <2>1, <4>1
        <4>3. identities[r][j].wallet \in Wallets
          BY <1>1, <4>1, <4>2 DEF IdentityTypeOK, Identity, NoIdentity, Exists
        <4>4. identities[r][j].wallet # w
          BY <1>8, <4>1, <4>2
        <4>5. QED
          BY <1>7, <3>2, <4>1, <4>2, <4>3, <4>4
      <3>3. QED
        BY <3>1, <3>2
    <2>5. ASSUME NEW v \in Wallets, walletToIdentity'[r][v] # 0
          PROVE  /\ walletToIdentity'[r][v] \in 1 .. id
                 /\ identities'[r][walletToIdentity'[r][v]].wallet = v
      <3>1. CASE v = w
        BY <1>3, <1>4, <1>5, <1>7, <3>1
      <3>2. CASE v # w
        <4> DEFINE j == walletToIdentity[r][v]
        <4>1. walletToIdentity'[r][v] = j /\ j # 0
          BY <1>7, <2>5, <3>2
        <4>2. j \in 1 .. identityCount[r] /\ identities[r][j].wallet = v
          BY <2>1, <4>1
        <4> HIDE DEF j
        <4>3. j \in 1 .. id /\ j # id /\ j \in Ids
          BY <1>4, <1>5, <4>2 DEF Ids
        <4>4. QED
          BY <1>7, <4>1, <4>2, <4>3
      <3>3. QED
        BY <3>1, <3>2
    <2>6. Matches(r)'
      BY <1>7, <2>3, <2>4, <2>5
    <2>7. QED
      BY <2>2, <2>6 DEF IdentitiesMatchWallets
  <1>10. IdentityFromBirth'
    BY <1>1, <1>5, <1>7, <1>8 DEF IdentityFromBirth
  <1>11. QED
    BY <1>6, <1>9, <1>10 DEF RegistriesOK

LEMMA CreateWalletIInv ==
    ASSUME IInv, NEW holder \in Accounts, NEW salt \in Salts, CreateWallet(holder, salt)
    PROVE  IInv' /\ Timelocked
  <1> DEFINE w == <<Current("implementation"), salt>>
  <1>1. /\ now \in Nat /\ FactorySlotsOK /\ WalletSlotsOK /\ OwnersOK /\ RegistriesOK /\ FactoryOK
    BY IInvParts
  <1>2. /\ Current("implementation") \in Implementations
        /\ Current("sessionManager") \in SessionManagers
        /\ Current("entryPoint") \in EntryPoints
    <2>1. \A k \in FactorySlotNames : Current(k) \in Candidates(k)
      BY <1>1 DEF FactorySlotsOK, Slot, Current
    <2>2. QED
      BY <2>1 DEF FactorySlotNames, WalletSlotNames, Candidates
  <1>3. w \in Wallets
    BY <1>2 DEF Wallets
  <1>4. /\ walletCount < MaxWallets
        /\ Initialize(w, holder, Current("sessionManager"), Current("entryPoint"))
        /\ agentWallets' = agentWallets \cup {w}
        /\ walletCount' = walletCount + 1
        /\ bornWith' = [bornWith EXCEPT ![w] = agentIdentity]
        /\ IF agentIdentity # NoAddr THEN RegisterIdentity(agentIdentity, w)
           ELSE UNCHANGED identityVars
        /\ UNCHANGED <<now, factorySlots, agentIdentity>>
    BY DEF CreateWallet
  <1> HIDE DEF w
  <1>5. w \notin agentWallets
    BY <1>1, <1>4 DEF Initialize, NoCode, OwnersOK
  <1>6. OwnersOK'
    <2>1. holder # NoAddr
      BY BlockAssumption, WalletAssumption
    <2>2. /\ walletOwner' \in [Wallets -> Accounts \cup {NoAddr}]
          /\ walletOwner'[w] = holder
          /\ \A v \in Wallets \ {w} : walletOwner'[v] = walletOwner[v]
          /\ pendingOwner' = pendingOwner
      BY <1>1, <1>3, <1>4 DEF Initialize, OwnersOK
    <2>3. QED
      BY <1>1, <1>3, <1>4, <2>1, <2>2 DEF OwnersOK, NominationsOwned
  <1>7. WalletSlotsOK' /\ \A v \in agentWallets : walletSlots'[v] = walletSlots[v]
    <2> DEFINE address(k) == IF k = "sessionManager" THEN Current("sessionManager")
                             ELSE Current("entryPoint")
               slots == [k \in WalletSlotNames |-> Holding(address(k))]
    <2>1. ASSUME NEW k \in WalletSlotNames
          PROVE  /\ Holding(address(k)) \in Slot(Candidates(k))
                 /\ Holding(address(k)) \in AnySlot
                 /\ Holding(address(k)).current # NoAddr
                 /\ PendingWaits(Holding(address(k)))
      <3>1. address(k) \in Candidates(k) /\ k \in FactorySlotNames
        BY <1>2 DEF WalletSlotNames, FactorySlotNames, Candidates
      <3> HIDE DEF address
      <3>2. NoAddr \notin Candidates(k) /\ Slot(Candidates(k)) \subseteq AnySlot
        BY <3>1, CandidatesAddresses
      <3>3. QED
        BY <3>1, <3>2, HoldingTyped
    <2>2. walletSlots' = [walletSlots EXCEPT ![w] = slots]
      BY <1>4 DEF Initialize
    <2>3. /\ slots \in [WalletSlotNames -> AnySlot]
          /\ \A k \in WalletSlotNames : slots[k] \in Slot(Candidates(k)) /\ slots[k].current # NoAddr
                                      /\ PendingWaits(slots[k])
      BY <2>1
    <2> HIDE DEF slots
    <2>4. /\ walletSlots' \in [Wallets -> [WalletSlotNames -> AnySlot]]
          /\ walletSlots'[w] = slots
          /\ \A v \in Wallets \ {w} : walletSlots'[v] = walletSlots[v]
      BY <1>1, <1>3, <2>2, <2>3 DEF WalletSlotsOK
    <2>5. WalletSlotsOK'
      BY <1>1, <1>4, <2>3, <2>4 DEF WalletSlotsOK
    <2>6. QED
      BY <1>1, <1>5, <2>4, <2>5 DEF FactoryOK
  <1>8. RegistriesOK'
    <2>1. CASE agentIdentity # NoAddr
      <3>1. agentIdentity \in Registries /\ bornWith \in [Wallets -> Registries \cup {NoAddr}]
        BY <1>1, <2>1 DEF FactoryOK
      <3>2. QED
        BY <1>1, <1>3, <1>4, <1>5, <2>1, <3>1, RegistrationKeepsRegistries
    <2>2. CASE agentIdentity = NoAddr
      <3>1. UNCHANGED <<identityCount, identities, walletToIdentity, identityPaused>>
        BY <1>4, <2>2 DEF identityVars
      <3>2. IdentityTypeOK' /\ IdentitiesMatchWallets'
        BY <1>1, <3>1 DEF RegistriesOK, IdentityTypeOK, IdentitiesMatchWallets, Exists
      <3>3. /\ bornWith'[w] = NoAddr
            /\ \A v \in Wallets \ {w} : bornWith'[v] = bornWith[v]
        BY <1>1, <1>3, <1>4, <2>2 DEF FactoryOK
      <3>4. IdentityFromBirth'
        BY <1>1, <1>4, <1>5, <3>1, <3>3, IdentityAssumption DEF RegistriesOK, IdentityFromBirth
      <3>5. QED
        BY <3>2, <3>4 DEF RegistriesOK
    <2>3. QED
      BY <2>1, <2>2
  <1>9. FactoryOK'
    <2>1. IsFiniteSet(agentWallets') /\ Cardinality(agentWallets') = Cardinality(agentWallets) + 1
      BY <1>1, <1>4, <1>5, FS_AddElement DEF FactoryOK
    <2>2. walletCount' \in 0 .. MaxWallets
      BY <1>1, <1>4, IdentityAssumption DEF FactoryOK
    <2>3. QED
      BY <1>1, <1>3, <1>4, <2>1, <2>2 DEF FactoryOK
  <1>10. FactorySlotsOK'
    BY <1>1, <1>4 DEF FactorySlotsOK
  <1>11. Timelocked
    BY <1>4, <1>7 DEF Timelocked, ChangesTimelocked
  <1>12. QED
    BY <1>1, <1>4, <1>6, <1>7, <1>8, <1>9, <1>10, <1>11, IInvFromParts

LEMMA CreateStepIInv ==
    ASSUME IInv, CreateStep
    PROVE  IInv' /\ Timelocked
  <1>1. PICK holder \in Accounts :
            CreateWalletAuto(holder) \/ \E salt \in Salts : CreateWallet(holder, salt)
    BY DEF CreateStep
  <1>2. CASE CreateWalletAuto(holder)
    <2>1. walletCount \in 0 .. (MaxWallets - 1)
      BY <1>2, IInvParts, IdentityAssumption DEF CreateWalletAuto, FactoryOK
    <2>2. AutoSalt[holder][walletCount] \in Salts
      BY <2>1, FactoryAssumption
    <2>3. QED
      BY <1>2, <2>2, CreateWalletIInv DEF CreateWalletAuto
  <1>3. QED
    BY <1>1, <1>2, CreateWalletIInv

-----------------------------------------------------------------------------
(* The theorems.                                                           *)

LEMMA NextIInv ==
    ASSUME IInv, [Next]_vars
    PROVE  IInv' /\ [Timelocked]_vars
  <1>1. ASSUME now' \in Nat, UNCHANGED <<walletVars, identityVars, factoryVars>>
        PROVE  IInv' /\ Timelocked
    <2>1. FactorySlotsOK' /\ WalletSlotsOK' /\ OwnersOK' /\ FactoryOK'
      BY <1>1, IInvParts DEF walletVars, ownerVars, factoryVars, FactorySlotsOK, WalletSlotsOK,
                             OwnersOK, NominationsOwned, FactoryOK
    <2>2. RegistriesOK'
      BY <1>1, IInvParts DEF identityVars, factoryVars, RegistriesOK, IdentityTypeOK,
                             IdentitiesMatchWallets, IdentityFromBirth, Exists
    <2>3. Timelocked
      BY <1>1 DEF Timelocked, ChangesTimelocked, walletVars, factoryVars
    <2>4. QED
      BY <1>1, <2>1, <2>2, <2>3, IInvFromParts
  <1>2. now \in Nat
    BY IInvParts
  <1>3. CASE Tick
    BY <1>1, <1>2, <1>3 DEF Tick, TimePasses
  <1>4. CASE UNCHANGED vars
    BY <1>1, <1>2, <1>4 DEF vars
  <1>5. QED
    BY <1>3, <1>4, FactoryStepIInv, CreateStepIInv, WalletStepIInv, IdentityStepIInv DEF Next

\* In every reachable state of the factory, its wallets and the registries the
\* inductive invariant holds.
THEOREM Invariance == Spec => []IInv
  BY InitIInv, NextIInv, PTL DEF Spec

\* Every variable keeps its type.
THEOREM TypeCorrect == Spec => []TypeOK
  <1>1. IInv => TypeOK
    BY DEF IInv
  <1>2. QED
    BY <1>1, Invariance, PTL

\* registerIdentity gives each wallet one identity, and identities are numbered
\* from 1 without gaps.
THEOREM IdentitiesMatch == Spec => []IdentitiesMatchWallets
  <1>1. IInv => IdentitiesMatchWallets
    BY DEF IInv
  <1>2. QED
    BY <1>1, Invariance, PTL

\* _createWallet registers a wallet in the registry of the moment or reverts:
\* a wallet has an identity there and nowhere else.
THEOREM IdentitiesFromBirth == Spec => []IdentityFromBirth
  <1>1. IInv => IdentityFromBirth
    BY DEF IInv
  <1>2. QED
    BY <1>1, Invariance, PTL

\* agentWallets lists the clones that exist, and walletCount counts them.
THEOREM WalletsAreCounted == Spec => []WalletsCounted
  <1>1. IInv => WalletsCounted
    BY DEF IInv
  <1>2. QED
    BY <1>1, Invariance, PTL

\* No implementation, session manager or entry point, of the factory or of a
\* wallet that exists, is replaced before the delay of its own proposal.
THEOREM SlotsTimelocked == Spec => SlotChangesTimelocked
  <1>1. Timelocked <=>
          /\ \A k \in FactorySlotNames : ChangesTimelocked(factorySlots[k], factorySlots'[k], now)
          /\ \A w \in agentWallets, k \in WalletSlotNames :
               ChangesTimelocked(walletSlots[w][k], walletSlots'[w][k], now)
    BY DEF Timelocked
  <1>2. QED
    BY <1>1, Invariance, NextIInv, PTL DEF Spec, SlotChangesTimelocked

-----------------------------------------------------------------------------
(* Organisations and their anchors.                                        *)

OrganizationInv == OrganizationTypeOK /\ AnchorsBelong

LEMMA ClonesDiffer ==
    ASSUME NEW a \in Organizations, NEW b \in Organizations, Clone(a) = Clone(b)
    PROVE  a = b
  BY DEF Clone

LEMMA AnchorsNotZero ==
    /\ NoAddr \notin Organizations /\ NoAddr \notin Anchors
    /\ \A id \in Organizations : Clone(id) \in Clones /\ Clone(id) \in Anchors
  BY OrganizationAssumption DEF Clones, Anchors

LEMMA NewAnchorTyped ==
    ASSUME NEW id \in Organizations \cup {NoAddr}, NEW holder \in Accounts \cup {NoAddr}
    PROVE  NewAnchor(id, holder) \in Anchor /\ NewAnchor(id, holder).organizationId = id
  BY DEF NewAnchor, Anchor

LEMMA OrganizationInitInv == OrganizationInit => OrganizationInv
  <1> SUFFICES ASSUME OrganizationInit PROVE OrganizationInv
    OBVIOUS
  <1>1. NewAnchor(NoAddr, NoAddr) \in Anchor /\ NewAnchor(NoAddr, NoAddr).organizationId = NoAddr
    BY NewAnchorTyped
  <1>2. Holding(NoAddr) \in Slot(Anchors) /\ Holding(NoAddr).current = NoAddr /\ PendingWaits(Holding(NoAddr))
    BY HoldingTyped
  <1>3. NoOrganization \in Organization /\ NoOrganization.owner = NoAddr /\ NoOrganization.anchor = Holding(NoAddr)
    BY <1>2 DEF NoOrganization, Organization
  <1>4. 0 \in 0 .. MaxNow
    BY BlockAssumption
  <1>5. OrganizationTypeOK
    BY <1>1, <1>3, <1>4, OrganizationAssumption DEF OrganizationInit, OrganizationTypeOK
  <1>6. AnchorsBelong
    BY <1>1, <1>2, <1>3, AnchorsNotZero DEF OrganizationInit, AnchorsBelong, OrganizationExists
  <1>7. QED
    BY <1>5, <1>6 DEF OrganizationInv

\* What a step does to the record of organisation id at the registry.
OrganizationStep(id, next) ==
    /\ OrganizationExists(id)
    /\ next \in Organization
    /\ next.owner = organizations[id].owner
    /\ next.anchor.current # NoAddr
    /\ PendingWaits(next.anchor)
    /\ organizations' = [organizations EXCEPT ![id] = next]
    /\ UNCHANGED <<now, registryVars, anchors>>

LEMMA OrganizationStepInv ==
    ASSUME OrganizationInv, NEW id \in Organizations, NEW next, OrganizationStep(id, next)
    PROVE  OrganizationInv'
  <1>1. OrganizationTypeOK'
    BY DEF OrganizationInv, OrganizationTypeOK, OrganizationStep, registryVars
  <1>2. /\ organizations'[id] = next
        /\ \A other \in Organizations \ {id} : organizations'[other] = organizations[other]
    BY DEF OrganizationInv, OrganizationTypeOK, OrganizationStep
  <1>3. AnchorsBelong'
    BY <1>2 DEF OrganizationInv, AnchorsBelong, OrganizationExists, OrganizationStep
  <1>4. QED
    BY <1>1, <1>3 DEF OrganizationInv

LEMMA SetActiveStep ==
    ASSUME OrganizationInv, NEW caller, NEW id \in Organizations, NEW value \in BOOLEAN,
           SetActive(caller, id, value)
    PROVE  \E next : OrganizationStep(id, next) /\ next.anchor = organizations[id].anchor
  <1> DEFINE next == [organizations[id] EXCEPT !.active = value]
  <1>1. organizations[id] \in Organization
    BY DEF OrganizationInv, OrganizationTypeOK
  <1>2. next \in Organization /\ next.owner = organizations[id].owner /\ next.anchor = organizations[id].anchor
    BY <1>1 DEF Organization
  <1>3. OrganizationStep(id, next)
    BY <1>2 DEF OrganizationInv, AnchorsBelong, SetActive, OrganizationStep
  <1>4. QED
    BY <1>2, <1>3

\* The next slot of organisation id, in a step of its own.
LEMMA AnchorSlotStep ==
    ASSUME OrganizationInv, NEW id \in Organizations, OrganizationExists(id),
           NEW slot \in Slot(Anchors), slot.current # NoAddr, PendingWaits(slot),
           organizations' = [organizations EXCEPT ![id].anchor = slot],
           UNCHANGED <<now, registryVars, anchors>>
    PROVE  \E next : OrganizationStep(id, next) /\ next.anchor = slot
  <1> DEFINE next == [organizations[id] EXCEPT !.anchor = slot]
  <1>1. organizations[id] \in Organization
    BY DEF OrganizationInv, OrganizationTypeOK
  <1>2. next \in Organization /\ next.owner = organizations[id].owner /\ next.anchor = slot
    BY <1>1 DEF Organization
  <1>3. organizations' = [organizations EXCEPT ![id] = next]
    OBVIOUS
  <1>4. OrganizationStep(id, next)
    BY <1>2, <1>3 DEF OrganizationStep
  <1>5. QED
    BY <1>2, <1>4

LEMMA SlotOfOrganization ==
    ASSUME OrganizationInv, NEW id \in Organizations
    PROVE  /\ organizations[id].anchor \in Slot(Anchors)
           /\ PendingWaits(organizations[id].anchor)
           /\ OrganizationExists(id) <=> organizations[id].anchor.current # NoAddr
           /\ now \in Nat
  BY BlockAssumption DEF OrganizationInv, OrganizationTypeOK, Organization, AnchorsBelong

\* A pending anchor belongs to an organisation that exists.
LEMMA ProposeStep ==
    ASSUME OrganizationInv, NEW caller, NEW id \in Organizations, NEW a \in Anchors,
           ProposeCredentialAnchor(caller, id, a)
    PROVE  \E next : OrganizationStep(id, next) /\ next.anchor.current = organizations[id].anchor.current
  <1> DEFINE slot == Proposed(organizations[id].anchor, a, now)
  <1>1. slot \in Slot(Anchors) /\ slot.current = organizations[id].anchor.current /\ PendingWaits(slot)
    BY SlotOfOrganization, ProposedTyped
  <1>2. organizations' = [organizations EXCEPT ![id].anchor = slot]
    BY DEF ProposeCredentialAnchor, OrganizationInv, OrganizationTypeOK
  <1> HIDE DEF slot
  <1>3. \E next : OrganizationStep(id, next) /\ next.anchor = slot
    BY <1>1, <1>2, SlotOfOrganization, AnchorSlotStep DEF ProposeCredentialAnchor
  <1>4. QED
    BY <1>1, <1>3

LEMMA AcceptStep ==
    ASSUME OrganizationInv, NEW caller, NEW id \in Organizations, AcceptCredentialAnchor(caller, id)
    PROVE  \E next : /\ OrganizationStep(id, next)
                     /\ ChangesTimelocked(organizations[id].anchor, next.anchor, now)
  <1> DEFINE old == organizations[id].anchor
             slot == Accepted(old)
  <1>1. /\ old \in Slot(Anchors) /\ now \in Nat /\ PendingWaits(old)
        /\ MayAccept(old, now) /\ OrganizationExists(id)
    BY SlotOfOrganization DEF AcceptCredentialAnchor
  <1>2. slot \in Slot(Anchors) /\ slot.current # NoAddr /\ PendingWaits(slot)
    BY <1>1, AcceptedTyped DEF MayAccept
  <1>3. ChangesTimelocked(old, slot, now)
    BY <1>1, AcceptanceTimelocked
  <1>4. organizations' = [organizations EXCEPT ![id].anchor = slot] /\ UNCHANGED <<now, registryVars, anchors>>
    BY DEF AcceptCredentialAnchor, OrganizationInv, OrganizationTypeOK
  <1> HIDE DEF slot
  <1>5. \E next : OrganizationStep(id, next) /\ next.anchor = slot
    BY <1>1, <1>2, <1>4, AnchorSlotStep
  <1>6. QED
    BY <1>3, <1>5

LEMMA RegisterStepInv ==
    ASSUME OrganizationInv, NEW caller, NEW id \in Organizations, NEW account \in Accounts,
           RegisterOrganization(caller, id, account)
    PROVE  OrganizationInv'
  <1> DEFINE slot == Holding(Clone(id))
             next == [owner |-> account, anchor |-> slot, active |-> TRUE]
             anchor == NewAnchor(id, account)
  <1>1. /\ Clone(id) \in Clones /\ Clone(id) \in Anchors /\ Clone(id) # NoAddr
        /\ account # NoAddr /\ id # NoAddr
    BY AnchorsNotZero, BlockAssumption
  <1>2. slot \in Slot(Anchors) /\ slot.current = Clone(id) /\ PendingWaits(slot)
    BY <1>1, HoldingTyped
  <1>3. anchor \in Anchor /\ anchor.organizationId = id
    BY NewAnchorTyped
  <1>4. next \in Organization /\ next.owner = account /\ next.anchor = slot
    BY <1>2 DEF Organization
  <1>5. /\ organizations' = [organizations EXCEPT ![id] = next]
        /\ anchors' = [anchors EXCEPT ![Clone(id)] = anchor]
        /\ UNCHANGED <<now, registryVars>>
    BY DEF RegisterOrganization
  <1> HIDE DEF slot, next, anchor
  <1>6. OrganizationTypeOK'
    BY <1>1, <1>3, <1>4, <1>5 DEF OrganizationInv, OrganizationTypeOK, registryVars
  <1>7. /\ organizations'[id] = next /\ anchors'[Clone(id)] = anchor
        /\ \A other \in Organizations \ {id} :
            /\ organizations'[other] = organizations[other]
            /\ anchors'[Clone(other)] = anchors[Clone(other)]
    BY <1>1, <1>5, ClonesDiffer, AnchorsNotZero DEF OrganizationInv, OrganizationTypeOK
  <1>8. AnchorsBelong'
    BY <1>1, <1>2, <1>3, <1>4, <1>7 DEF OrganizationInv, AnchorsBelong, OrganizationExists
  <1>9. QED
    BY <1>6, <1>8 DEF OrganizationInv

\* What the owner of an anchor does to it.
LEMMA EditInv ==
    ASSUME OrganizationInv, NEW caller \in Accounts, NEW a \in Clones,
           NEW next \in Anchor, next.organizationId = anchors[a].organizationId,
           EditAnchor(caller, a, next)
    PROVE  OrganizationInv'
  <1>1. OrganizationTypeOK'
    BY DEF OrganizationInv, OrganizationTypeOK, EditAnchor, registryVars
  <1>2. PICK id \in Organizations : a = Clone(id)
    BY DEF Clones
  <1>3. /\ anchors'[a] = next
        /\ \A other \in Organizations \ {id} : anchors'[Clone(other)] = anchors[Clone(other)]
    BY <1>2, ClonesDiffer, AnchorsNotZero DEF OrganizationInv, OrganizationTypeOK, EditAnchor
  <1>4. anchors[a].owner = caller /\ caller # NoAddr
    BY BlockAssumption DEF EditAnchor
  <1>5. OrganizationExists(id)
    <2>1. NewAnchor(NoAddr, NoAddr).owner = NoAddr
      BY DEF NewAnchor
    <2>2. QED
      BY <1>2, <1>4, <2>1 DEF OrganizationInv, AnchorsBelong
  <1>6. AnchorsBelong'
    BY <1>2, <1>3, <1>5 DEF OrganizationInv, AnchorsBelong, OrganizationExists, EditAnchor
  <1>7. QED
    BY <1>1, <1>6 DEF OrganizationInv

\* Every function of an anchor keeps its organisation, and its roots while paused.
LEMMA AnchorStepEdits ==
    ASSUME OrganizationInv, NEW caller \in Accounts, NEW a \in Clones, AnchorStep(caller, a)
    PROVE  \E next \in Anchor :
              /\ next.organizationId = anchors[a].organizationId
              /\ EditAnchor(caller, a, next)
              /\ anchors[a].paused => /\ next.currentRoot = anchors[a].currentRoot
                                      /\ next.revokedRoot = anchors[a].revokedRoot
  <1> DEFINE old == anchors[a]
             Kept(next) == /\ next \in Anchor
                           /\ next.organizationId = old.organizationId
                           /\ old.paused => next.currentRoot = old.currentRoot /\ next.revokedRoot = old.revokedRoot
  <1>0. old \in Anchor
    BY DEF OrganizationInv, OrganizationTypeOK
  <1> SUFFICES \E next : Kept(next) /\ EditAnchor(caller, a, next)
    OBVIOUS
  <1>1. ASSUME NEW value \in BOOLEAN, SetAnchorPaused(caller, a, value) PROVE \E next : Kept(next) /\ EditAnchor(caller, a, next)
    <2>1. Kept([old EXCEPT !.paused = value])
      BY <1>0 DEF Anchor
    <2>2. QED
      BY <1>1, <2>1 DEF SetAnchorPaused
  <1>2. ASSUME NEW value \in BOOLEAN, SetVisibility(caller, a, value) PROVE \E next : Kept(next) /\ EditAnchor(caller, a, next)
    <2>1. Kept([old EXCEPT !.public = value])
      BY <1>0 DEF Anchor
    <2>2. QED
      BY <1>2, <2>1 DEF SetVisibility
  <1>3. ASSUME NEW account \in Accounts \cup {NoAddr}, SetAnchorOwner(caller, a, account)
        PROVE  \E next : Kept(next) /\ EditAnchor(caller, a, next)
    <2>1. Kept([old EXCEPT !.owner = account])
      BY <1>0 DEF Anchor
    <2>2. QED
      BY <1>3, <2>1 DEF SetAnchorOwner
  <1>4. ASSUME NEW root \in RootHashes \cup {NoRoot}, UpdateRoot(caller, a, root)
        PROVE  \E next : Kept(next) /\ EditAnchor(caller, a, next)
    <2>1. Kept([old EXCEPT !.currentRoot = root])
      BY <1>0, <1>4 DEF Anchor, UpdateRoot
    <2>2. QED
      BY <1>4, <2>1 DEF UpdateRoot
  <1>5. ASSUME NEW root \in RootHashes \cup {NoRoot}, UpdateRevokedRoot(caller, a, root)
        PROVE  \E next : Kept(next) /\ EditAnchor(caller, a, next)
    <2>1. Kept([old EXCEPT !.revokedRoot = root])
      BY <1>0, <1>5 DEF Anchor, UpdateRevokedRoot
    <2>2. QED
      BY <1>5, <2>1 DEF UpdateRevokedRoot
  <1>6. ASSUME IncrementEpoch(caller, a) PROVE \E next : Kept(next) /\ EditAnchor(caller, a, next)
    <2>1. Kept([old EXCEPT !.currentEpoch = @ + 1])
      BY <1>0 DEF Anchor
    <2>2. QED
      BY <1>6, <2>1 DEF IncrementEpoch
  <1>7. ASSUME NEW hash \in Hashes, SetMetadataHash(caller, a, hash)
        PROVE  \E next : Kept(next) /\ EditAnchor(caller, a, next)
    <2>1. Kept([old EXCEPT !.metadataHash = hash])
      BY <1>0 DEF Anchor
    <2>2. QED
      BY <1>7, <2>1 DEF SetMetadataHash
  <1> HIDE DEF Kept
  <1>8. QED
    BY <1>1, <1>2, <1>3, <1>4, <1>5, <1>6, <1>7 DEF AnchorStep

LEMMA OrganizationStepsInv == OrganizationInv /\ [OrganizationNext]_organizationVars => OrganizationInv'
  <1> SUFFICES ASSUME OrganizationInv, [OrganizationNext]_organizationVars PROVE OrganizationInv'
    OBVIOUS
  <1>1. CASE UNCHANGED organizationVars
    BY <1>1 DEF organizationVars, registryVars, OrganizationInv, OrganizationTypeOK, AnchorsBelong, OrganizationExists
  <1>2. ASSUME NEW caller \in Accounts, NEW value \in BOOLEAN, SetRegistryPaused(caller, value)
        PROVE  OrganizationInv'
    BY <1>2 DEF SetRegistryPaused, OrganizationInv, OrganizationTypeOK, AnchorsBelong, OrganizationExists
  <1>3. ASSUME NEW caller \in Accounts, NEW account \in Accounts \cup {NoAddr}, SetRegistryOwner(caller, account)
        PROVE  OrganizationInv'
    BY <1>3 DEF SetRegistryOwner, OrganizationInv, OrganizationTypeOK, AnchorsBelong, OrganizationExists
  <1>4. ASSUME NEW caller \in Accounts, NEW r \in Registrations, RegisterOrganization(caller, r[1], r[2])
        PROVE  OrganizationInv'
    BY <1>4, RegisterStepInv, OrganizationAssumption
  <1>5. ASSUME NEW caller \in Accounts, NEW id \in Organizations, NEW value \in BOOLEAN, SetActive(caller, id, value)
        PROVE  OrganizationInv'
    BY <1>5, SetActiveStep, OrganizationStepInv
  <1>6. ASSUME NEW caller \in Accounts, NEW id \in Organizations, NEW a \in Anchors,
               ProposeCredentialAnchor(caller, id, a)
        PROVE  OrganizationInv'
    BY <1>6, ProposeStep, OrganizationStepInv
  <1>7. ASSUME NEW caller \in Accounts, NEW id \in Organizations, AcceptCredentialAnchor(caller, id)
        PROVE  OrganizationInv'
    BY <1>7, AcceptStep, OrganizationStepInv
  <1>8. ASSUME NEW caller \in Accounts, NEW a \in Clones, AnchorStep(caller, a) PROVE OrganizationInv'
    BY <1>8, AnchorStepEdits, EditInv
  <1>9. ASSUME OrganizationTick PROVE OrganizationInv'
    BY <1>9, BlockAssumption
    DEF OrganizationTick, TimePasses, registryVars, OrganizationInv, OrganizationTypeOK, AnchorsBelong, OrganizationExists
  <1>10. QED
    BY <1>1, <1>2, <1>3, <1>4, <1>5, <1>6, <1>7, <1>8, <1>9 DEF OrganizationNext

LEMMA OrganizationInvariant == OrganizationSpec => []OrganizationInv
  BY OrganizationInitInv, OrganizationStepsInv, PTL DEF OrganizationSpec

\* The types of the registry and its anchors; and an organisation that exists has an
\* anchor, and its clone was initialised for it.
THEOREM OrganizationsCorrect == OrganizationSpec => [](OrganizationTypeOK /\ AnchorsBelong)
  BY OrganizationInvariant, PTL DEF OrganizationInv

\* The body of RootsInForceGuarded.
Guarded(id) ==
    LET slot == organizations[id].anchor
        next == organizations'[id].anchor
    IN  IF OrganizationExists(id)
        THEN /\ ChangesTimelocked(slot, next, now)
             /\ \A a \in Clones : slot.current = a /\ next.current = a /\ Roots(a)' # Roots(a) => ~anchors[a].paused
        ELSE next.current # NoAddr => next.current = Clone(id) /\ Roots(Clone(id))' = <<NoRoot, NoRoot>>

LEMMA SameSlotGuarded ==
    ASSUME NEW id, organizations'[id].anchor.current = organizations[id].anchor.current,
           OrganizationInv, id \in Organizations,
           \A a \in Clones : Roots(a)' # Roots(a) => ~anchors[a].paused
    PROVE  Guarded(id)
  BY SlotOfOrganization DEF Guarded, ChangesTimelocked

LEMMA StepGuarded ==
    ASSUME OrganizationInv, NEW id \in Organizations, NEW next, OrganizationStep(id, next),
           ChangesTimelocked(organizations[id].anchor, next.anchor, now), NEW other \in Organizations
    PROVE  Guarded(other)
  <1>1. /\ organizations'[id] = next
        /\ other # id => organizations'[other] = organizations[other]
        /\ \A a \in Clones : Roots(a)' = Roots(a)
        /\ OrganizationExists(id)
    BY DEF OrganizationStep, OrganizationInv, OrganizationTypeOK, Roots
  <1>2. CASE other = id
    BY <1>1, <1>2 DEF Guarded
  <1>3. CASE other # id
    BY <1>1, <1>3, SameSlotGuarded
  <1>4. QED
    BY <1>2, <1>3

\* The roots in force for an organisation change by a replacement that waited or at
\* its unpaused anchor.
THEOREM RootsInForce == OrganizationSpec => RootsInForceGuarded
  <1>1. OrganizationInv /\ [OrganizationNext]_organizationVars
            => [\A id \in Organizations : Guarded(id)]_organizationVars
    <2> SUFFICES ASSUME OrganizationInv, OrganizationNext, NEW other \in Organizations PROVE Guarded(other)
      OBVIOUS
    <2>1. ASSUME UNCHANGED <<organizations, anchors>> PROVE Guarded(other)
      BY <2>1, SameSlotGuarded DEF Roots
    <2>2. ASSUME NEW caller \in Accounts, NEW value \in BOOLEAN, SetRegistryPaused(caller, value)
          PROVE  Guarded(other)
      BY <2>1, <2>2 DEF SetRegistryPaused
    <2>3. ASSUME NEW caller \in Accounts, NEW account \in Accounts \cup {NoAddr}, SetRegistryOwner(caller, account)
          PROVE  Guarded(other)
      BY <2>1, <2>3 DEF SetRegistryOwner
    <2>4. ASSUME NEW caller \in Accounts, NEW r \in Registrations, RegisterOrganization(caller, r[1], r[2])
          PROVE  Guarded(other)
      <3> DEFINE id == r[1]
                 anchor == NewAnchor(id, r[2])
      <3>1. id \in Organizations /\ Clone(id) \in Clones /\ ~OrganizationExists(id)
        BY <2>4, OrganizationAssumption, AnchorsNotZero DEF RegisterOrganization
      <3>2. /\ organizations'[id].anchor = Holding(Clone(id)) /\ anchors'[Clone(id)] = anchor
            /\ other # id => organizations'[other] = organizations[other]
            /\ \A a \in Clones \ {Clone(id)} : anchors'[a] = anchors[a]
        BY <2>4, <3>1 DEF RegisterOrganization, OrganizationInv, OrganizationTypeOK
      <3>3. anchors[Clone(id)] = NewAnchor(NoAddr, NoAddr)
        BY <3>1 DEF OrganizationInv, AnchorsBelong
      <3>4. \A a \in Clones : Roots(a)' = Roots(a)
        BY <3>2, <3>3 DEF Roots, NewAnchor
      <3>5. Roots(Clone(id))' = <<NoRoot, NoRoot>>
        BY <3>2 DEF Roots, NewAnchor
      <3>6. CASE other = id
        BY <3>1, <3>2, <3>5, <3>6 DEF Guarded, Holding
      <3>7. CASE other # id
        BY <3>2, <3>4, <3>7, SameSlotGuarded
      <3>8. QED
        BY <3>6, <3>7
    <2>5. ASSUME NEW caller \in Accounts, NEW id \in Organizations, NEW value \in BOOLEAN, SetActive(caller, id, value)
          PROVE  Guarded(other)
      <3>1. PICK next : OrganizationStep(id, next) /\ next.anchor = organizations[id].anchor
        BY <2>5, SetActiveStep
      <3>2. ChangesTimelocked(organizations[id].anchor, next.anchor, now)
        BY <3>1 DEF ChangesTimelocked
      <3>3. QED
        BY <3>1, <3>2, StepGuarded
    <2>6. ASSUME NEW caller \in Accounts, NEW id \in Organizations, NEW a \in Anchors,
                 ProposeCredentialAnchor(caller, id, a)
          PROVE  Guarded(other)
      <3>1. PICK next : OrganizationStep(id, next) /\ next.anchor.current = organizations[id].anchor.current
        BY <2>6, ProposeStep
      <3>2. ChangesTimelocked(organizations[id].anchor, next.anchor, now)
        BY <3>1 DEF ChangesTimelocked
      <3>3. QED
        BY <3>1, <3>2, StepGuarded
    <2>7. ASSUME NEW caller \in Accounts, NEW id \in Organizations, AcceptCredentialAnchor(caller, id)
          PROVE  Guarded(other)
      BY <2>7, AcceptStep, StepGuarded
    <2>8. ASSUME NEW caller \in Accounts, NEW a \in Clones, AnchorStep(caller, a) PROVE Guarded(other)
      <3>1. PICK next \in Anchor :
              /\ EditAnchor(caller, a, next)
              /\ anchors[a].paused => /\ next.currentRoot = anchors[a].currentRoot
                                      /\ next.revokedRoot = anchors[a].revokedRoot
        BY <2>8, AnchorStepEdits
      <3>2. /\ anchors'[a] = next
            /\ \A b \in Clones \ {a} : anchors'[b] = anchors[b]
            /\ organizations' = organizations
        BY <3>1 DEF EditAnchor, OrganizationInv, OrganizationTypeOK
      <3>3. \A b \in Clones : Roots(b)' # Roots(b) => ~anchors[b].paused
        BY <3>1, <3>2 DEF Roots
      <3>4. QED
        BY <3>2, <3>3, SameSlotGuarded
    <2>9. ASSUME OrganizationTick PROVE Guarded(other)
      BY <2>1, <2>9 DEF OrganizationTick
    <2>10. QED
      BY <2>2, <2>3, <2>4, <2>5, <2>6, <2>7, <2>8, <2>9 DEF OrganizationNext
  <1>2. [][\A id \in Organizations : Guarded(id)]_organizationVars => RootsInForceGuarded
    BY PTL DEF Guarded, RootsInForceGuarded
  <1>3. QED
    BY <1>1, <1>2, OrganizationInvariant, PTL DEF OrganizationSpec
=============================================================================
