--------------------------- MODULE MCVoucherPayments ---------------------------
(***************************************************************************)
(* Finite instances of VoucherPayments for TLC.  v1 and v2 are vouchers of *)
(* one session with one nonce or with two, v3 is another wallet's.         *)
(***************************************************************************)
EXTENDS VoucherPayments, TLC

CONSTANTS v1, v2, v3, n1, n2, n3, s1, s2, w1, w2

MCNoTime == -1

\* Requests and settlements the specification never distinguishes.
Symmetry == Permutations(Requests) \cup Permutations(Settlers)

\* v1 and v2 are two vouchers signed with one nonce.
MCSharedNonce == [v \in Vouchers |-> IF v = v3 THEN n2 ELSE n1]
MCOwnNonce == [v \in Vouchers |-> CASE v = v1 -> n1 [] v = v2 -> n2 [] OTHER -> n3]

MCSessionOf == [v \in Vouchers |-> IF v = v3 THEN s2 ELSE s1]
MCWalletOf == [s \in Sessions |-> IF s = s1 THEN w1 ELSE w2]

MCAmountOf == [v \in Vouchers |-> 1]
MCSoon == [v \in Vouchers |-> 2]
MCLate == [v \in Vouchers |-> MaxNow + 1]
MCSessionExpiry == [s \in Sessions |-> 2]
MCUnlimited == [s \in Sessions |-> 0]
MCLimitOne == [s \in Sessions |-> 1]

\* Three kinds of behaviour, each with all of the settlements: two requests at once,
\* faults and two settlements at once (one at a time once the server has restarted),
\* sessions that end by the clock or a revocation.
Ending == now > 0 \/ (\E s \in Sessions : revoked[s])
Apart ==
    /\ ~(Ending /\ disturbed)
    /\ Ending \/ disturbed => Cardinality({r \in Requests : request[r] # NoVoucher}) <= 1
    /\ crashes > 0 => ~Overlap

ScenarioSpec == Init /\ [][Next /\ Apart']_vars
=============================================================================
