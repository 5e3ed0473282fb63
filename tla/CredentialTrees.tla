---------------------------- MODULE CredentialTrees ----------------------------
(***************************************************************************)
(* Issuing and revoking the credentials of one organization:               *)
(* src/tools/credential.ts over the active tree and the revoked tree of    *)
(* src/trees.  A credential is a row of the database and a leaf of the     *)
(* active tree, or a key of the revoked one.  Each process holds both in   *)
(* memory, loaded from the rows when first asked for and cached.  Calls    *)
(* await between reading and writing rows, and while a tree is loaded or a *)
(* key inserted; a tree in the cache is had at once.                       *)
(***************************************************************************)
EXTENDS Naturals, Sequences, FiniteSets, Functions

CONSTANTS
    Processes,      \* the server, and the commands of the CLI
    Credentials,    \* bound: each is issued once
    Revocations,    \* bound: the calls of revokeCredential
    MaxLeaves,      \* 2 ^ TREE_DEPTH
    MaxCrashes,     \* bound
    Nil

Calls == Credentials \union Revocations

ASSUME TreesAssumption ==
    /\ MaxLeaves \in Nat \ {0} /\ MaxCrashes \in Nat
    /\ Nil \notin Calls \union Processes \union Nat
    /\ Credentials \intersect Revocations = {}

VARIABLES
    rows,       \* credentials; index: leaf_index, Nil for -1; status "none" before the INSERT
    issued,     \* the credentials with a row, by id
    calls,      \* the calls; seen: history, the credentials with a row when it began
    active,     \* treeCache: the active tree of each process, Nil until it is cached
    keys,       \* the cached revoked tree of each process: the credentials its root holds
    mixed,      \* history: revoked credentials whose revocation met another call at the trees
    early,      \* history: the credentials revoked while they were being issued
    crashes

vars == <<rows, issued, calls, active, keys, mixed, early, crashes>>

Live(table) == {c \in Credentials : table[c].status = "live"}
HasRow(c) == rows[c].status # "none"
Revoked == {c \in Credentials : rows[c].status = "revoked"}

NewCall == [phase |-> "new", at |-> Nil, agent |-> 0, leaf |-> Nil, base |-> {}, seen |-> {}]
Ended(call) == [NewCall EXCEPT !.phase = "done", !.seen = call.seen]

Init ==
    /\ rows = [c \in Credentials |-> [status |-> "none", agent |-> 0, index |-> Nil]]
    /\ issued = <<>>
    /\ calls = [k \in Calls |-> NewCall]
    /\ active = [p \in Processes |-> Nil]
    /\ keys = [p \in Processes |-> Nil]
    /\ mixed = {}
    /\ early = {}
    /\ crashes = 0

-----------------------------------------------------------------------------
\* The tree.

Assigned(table) == {c \in Live(table) : table[c].index # Nil}
NextIndex(table) ==
    LET used == {i \in 0 .. MaxLeaves - 1 : \E c \in Assigned(table) : table[c].index = i}
    IN  IF used = {} THEN 0 ELSE 1 + CHOOSE i \in used : \A j \in used : j <= i

\* The live rows without an index, and the place of one among them in order of id.
Unplaced(table) == {c \in Live(table) : table[c].index = Nil}
Position(c) == CHOOSE i \in DOMAIN issued : issued[i] = c
Place(table, c) == Cardinality({d \in Unplaced(table) : Position(d) < Position(c)})

\* Mutant: a row without an index gets the first index of all.
BackfilledFromZero(table) ==
    [c \in Credentials |->
        IF c \in Unplaced(table) THEN [table[c] EXCEPT !.index = Place(table, c)] ELSE table[c]]

\* The indices loadFromDb gives the live rows without one: the next ones, in order
\* of id; those that no longer fit all get the same.
Backfilled(table) ==
    LET index(c) == NextIndex(table) + Place(table, c)
    IN  [c \in Credentials |->
            IF c \in Unplaced(table)
            THEN [table[c] EXCEPT !.index = IF index(c) < MaxLeaves THEN index(c) ELSE MaxLeaves]
            ELSE table[c]]

Loaded(table) ==
    [indexOf |-> [c \in Credentials |->
        IF c \in Live(table) /\ table[c].index # Nil /\ table[c].index < MaxLeaves THEN table[c].index ELSE Nil],
     next |-> NextIndex(table)]

Full(tree, c) == tree.indexOf[c] = Nil /\ tree.next >= MaxLeaves

\* addLeaf and the UPDATE of leaf_index.  A full tree makes it throw.
AddLeaf(table, tree, c) ==
    IF tree.indexOf[c] # Nil
    THEN [rows |-> [table EXCEPT ![c].index = tree.indexOf[c]], tree |-> tree]
    ELSE IF Full(tree, c) THEN [rows |-> table, tree |-> tree]
    ELSE [rows |-> [table EXCEPT ![c].index = tree.next],
          tree |-> [indexOf |-> [tree.indexOf EXCEPT ![c] = tree.next], next |-> tree.next + 1]]

\* Mutant: the index is freed, and the map keeps the commitment.
RemoveLeafKept(table, tree, c) ==
    [rows |-> table, tree |-> [tree EXCEPT !.next = IF tree.indexOf[c] = @ - 1 THEN @ - 1 ELSE @]]

RemoveLeaf(table, tree, c) == [rows |-> table, tree |-> [tree EXCEPT !.indexOf[c] = Nil]]

\* What the call does with the tree once it has it.
Apply(k, call, table, tree) ==
    IF k \in Credentials THEN AddLeaf(table, tree, call.leaf) ELSE RemoveLeaf(table, tree, call.leaf)

AtTrees(p) == {k \in Calls : calls[k].at = p /\ calls[k].phase \in {"loading", "turning", "building", "inserting"}}

\* A revocation reaches the trees while another call is there, or is reached.
Mix(leaf, p) ==
    mixed' = mixed \union (IF AtTrees(p) = {} THEN {} ELSE {leaf} \union {calls[k].leaf : k \in AtTrees(p)})

\* After the active tree the call asks for the revoked one.  An issuance only has it
\* loaded, so it is over when that tree is cached, and when its leaf found no place.
Turned(k, call, tree) ==
    IF k \in Credentials /\ (keys[call.at] # Nil \/ Full(tree, call.leaf)) THEN Ended(call)
    ELSE [call EXCEPT !.phase = "turning"]

\* From the rows as the call has left them to the next await: getActiveTree.
WithTree(k, table, call) ==
    IF active[call.at] = Nil
    THEN /\ calls' = [calls EXCEPT ![k] = [call EXCEPT !.phase = "loading"]]
         /\ rows' = table
         /\ active' = active
    ELSE LET after == Apply(k, call, table, active[call.at]) IN
         /\ calls' = [calls EXCEPT ![k] = Turned(k, call, active[call.at])]
         /\ rows' = after.rows
         /\ active' = [active EXCEPT ![call.at] = after.tree]

\* The hash is ready: loadFromDb runs, with the UPDATEs of the rows it gives an
\* index, and the tree enters the cache, in place of one another call has put there.
Load(k) ==
    /\ calls[k].phase = "loading"
    /\ calls' = [calls EXCEPT ![k] = Turned(k, @, Loaded(Backfilled(rows)))]
    /\ LET after == Apply(k, calls[k], Backfilled(rows), Loaded(Backfilled(rows))) IN
        /\ rows' = after.rows
        /\ active' = [active EXCEPT ![calls[k].at] = after.tree]
    /\ UNCHANGED <<issued, keys, mixed, early, crashes>>

-----------------------------------------------------------------------------
\* The revoked tree: a sparse tree of the keys of the revoked credentials.

\* With the tree at hand an issuance is over; a revocation begins the insertion of
\* its key, from the root as it is.
Inserting(k, root) ==
    IF k \in Credentials THEN Ended(calls[k]) ELSE [calls[k] EXCEPT !.phase = "inserting", !.base = root]

\* getRevokedTree: the cached one, or the rows are read to build one.
AskRevoked(k) ==
    LET root == keys[calls[k].at] IN
    /\ calls[k].phase = "turning"
    /\ calls' = [calls EXCEPT ![k] =
        IF root = Nil THEN [@ EXCEPT !.phase = "building", !.base = Revoked] ELSE Inserting(k, root)]
    /\ UNCHANGED <<rows, issued, active, keys, mixed, early, crashes>>

\* The tree built from the rows that were read enters the cache.  A call at work on
\* one it replaces ends without a trace.
Built(k) ==
    LET p == calls[k].at IN
    /\ calls[k].phase = "building"
    /\ keys' = [keys EXCEPT ![p] = calls[k].base]
    /\ calls' = [o \in Calls |->
        IF o = k THEN Inserting(k, calls[k].base)
        ELSE IF calls[o].at = p /\ calls[o].phase = "inserting" THEN Ended(calls[o])
        ELSE calls[o]]
    /\ UNCHANGED <<rows, issued, active, mixed, early, crashes>>

\* Mutant: the key is not inserted.
InsertKeyLost(v) ==
    /\ calls[v].phase = "inserting"
    /\ keys' = [keys EXCEPT ![calls[v].at] = calls[v].base]
    /\ calls' = [calls EXCEPT ![v] = Ended(@)]
    /\ UNCHANGED <<rows, issued, active, mixed, early, crashes>>

\* The insertion ends: the new root is made from the one it began with.
InsertKey(v) ==
    /\ calls[v].phase = "inserting"
    /\ keys' = [keys EXCEPT ![calls[v].at] = calls[v].base \union {calls[v].leaf}]
    /\ calls' = [calls EXCEPT ![v] = Ended(@)]
    /\ UNCHANGED <<rows, issued, active, mixed, early, crashes>>

-----------------------------------------------------------------------------
\* Mutant: only the agents with a live credential are looked at.
NextAgentIdLive ==
    LET ids == {rows[c].agent : c \in Live(rows)}
    IN  IF ids = {} THEN 1 ELSE 1 + CHOOSE a \in ids : \A b \in ids : b <= a

NextAgentId ==
    LET ids == {rows[c].agent : c \in Range(issued)}
    IN  IF ids = {} THEN 1 ELSE 1 + CHOOSE a \in ids : \A b \in ids : b <= a

\* issueCredential up to its first await.
Issue(c, p) ==
    /\ calls[c].phase = "new"
    /\ calls' = [calls EXCEPT ![c] =
        [@ EXCEPT !.phase = "computing", !.at = p, !.agent = NextAgentId, !.leaf = c, !.seen = Range(issued)]]
    /\ UNCHANGED <<rows, issued, active, keys, mixed, early, crashes>>

\* The commitment is computed: the row is inserted and the tree asked for.
InsertRow(c) ==
    /\ calls[c].phase = "computing"
    /\ issued' = Append(issued, c)
    /\ WithTree(c, [rows EXCEPT ![c] = [status |-> "live", agent |-> calls[c].agent, index |-> Nil]], calls[c])
    /\ Mix(c, calls[c].at)
    /\ UNCHANGED <<keys, early, crashes>>

IssueFails(c) ==
    /\ calls[c].phase = "computing"
    /\ calls' = [calls EXCEPT ![c] = Ended(@)]
    /\ UNCHANGED <<rows, issued, active, keys, mixed, early, crashes>>

\* revokeCredential reads one live row of the agent and revokes all of them.
Revoke(v, p, leaf) ==
    LET ofAgent == {c \in Credentials : HasRow(c) /\ rows[c].agent = rows[leaf].agent} IN
    /\ calls[v].phase = "new"
    /\ rows[leaf].status = "live"
    /\ WithTree(v,
                [c \in Credentials |-> IF c \in ofAgent THEN [rows[c] EXCEPT !.status = "revoked"] ELSE rows[c]],
                [calls[v] EXCEPT !.at = p, !.leaf = leaf])
    /\ early' = early \union {c \in ofAgent : rows[c].status = "live" /\ calls[c].phase # "done"}
    /\ Mix(leaf, p)
    /\ UNCHANGED <<issued, keys, crashes>>

\* The tree tools rebuild the cached tree from the rows.
Rebuild(p) ==
    /\ active[p] # Nil
    /\ rows' = Backfilled(rows)
    /\ active' = [active EXCEPT ![p] = Loaded(rows')]
    /\ UNCHANGED <<issued, calls, keys, mixed, early, crashes>>

\* A process dies and starts anew.
Crash(p) ==
    /\ crashes < MaxCrashes
    /\ crashes' = crashes + 1
    /\ active' = [active EXCEPT ![p] = Nil]
    /\ keys' = [keys EXCEPT ![p] = Nil]
    /\ calls' = [k \in Calls |-> IF calls[k].at = p THEN Ended(calls[k]) ELSE calls[k]]
    /\ UNCHANGED <<rows, issued, mixed, early>>

Next ==
    \/ \E p \in Processes :
        \/ \E c \in Credentials : Issue(c, p) \/ \E v \in Revocations : Revoke(v, p, c)
        \/ Rebuild(p) \/ Crash(p)
    \/ \E c \in Credentials : InsertRow(c) \/ IssueFails(c)
    \/ \E k \in Calls : Load(k) \/ AskRevoked(k) \/ Built(k)
    \/ \E v \in Revocations : InsertKey(v)

Spec == Init /\ [][Next]_vars

-----------------------------------------------------------------------------
Fits(c) == rows[c].status = "live" /\ rows[c].index # Nil /\ rows[c].index < MaxLeaves

Shared(c) == \E d \in Credentials \ {c} : HasRow(d) /\ rows[d].agent = rows[c].agent

\* The cached tree of the process has every live credential that fits at the index of
\* its row, none beyond its depth, and no revoked one, except that revoking an agent
\* id two credentials share leaves the leaf of one, and that one revoked while it is
\* issued may be added after: crashes between the INSERT and the leaf, backfilled rows,
\* full trees and trees loaded twice notwithstanding (credential.ts:180, 271;
\* active-tree.ts:61, 109, 275).
LeavesMatchRows == \A p \in Processes : active[p] # Nil =>
    \A c \in Credentials : LET tree == active[p] IN
        /\ Fits(c) => tree.indexOf[c] = rows[c].index
        /\ tree.indexOf[c] # Nil => tree.indexOf[c] < MaxLeaves
        /\ tree.indexOf[c] # Nil /\ rows[c].status # "live" => Shared(c) \/ c \in early

\* While no call of a process is at the trees, its revoked tree has the key of every
\* revoked credential, except one that shares its agent id, and one whose revocation
\* met another call at the trees: two insertions that begin with one root lose a key
\* (revoked-tree.ts:100, 230).
KeysMatchRows == \A p \in Processes :
    keys[p] # Nil /\ AtTrees(p) = {} =>
        \A c \in Revoked \ keys[p] : Shared(c) \/ c \in mixed

\* No two live credentials have one leaf, also after indices were freed by
\* revocations and used again (active-tree.ts:18; credential.ts:201).
LiveIndicesDistinct == \A c, d \in Credentials :
    c # d /\ Fits(c) /\ Fits(d) => rows[c].index # rows[d].index

\* Two credentials have one agent id only when each was begun before the row of the
\* other was inserted (credential.ts:125, 180).
SharedIdNeedsOverlap == \A c, d \in Credentials :
    c # d /\ HasRow(c) /\ HasRow(d) /\ rows[c].agent = rows[d].agent =>
        c \notin calls[d].seen /\ d \notin calls[c].seen

-----------------------------------------------------------------------------
(* The inductive invariant.  Agent ids need no more than its first parts;  *)
(* the trees agree with the rows when one process has the calls.           *)

OneProcess == \A p, q \in Processes : p = q

CredentialRow == [status : {"none", "live", "revoked"}, agent : Nat, index : Nat \union {Nil}]
CallRow == [phase : {"new", "computing", "loading", "turning", "building", "inserting", "done"},
            at : Processes \union {Nil}, agent : Nat, leaf : Credentials \union {Nil},
            base : SUBSET Credentials, seen : SUBSET Credentials]
Tree == [indexOf : [Credentials -> Nat \union {Nil}], next : Nat]

TreesTypeOK ==
    /\ rows \in [Credentials -> CredentialRow]
    /\ issued \in Seq(Credentials)
    /\ calls \in [Calls -> CallRow]
    /\ active \in [Processes -> Tree \union {Nil}]
    /\ keys \in [Processes -> (SUBSET Credentials) \union {Nil}]
    /\ mixed \in SUBSET Credentials /\ early \in SUBSET Credentials

\* The rows are those issued, once each, and a call at the trees is about a row: an
\* issuance about its own, a revocation about one it has revoked.  One revoked while
\* its issuance is not over is early.
RowsInv ==
    /\ IsFiniteSet(Range(issued)) /\ IsInjective(issued)
    /\ \A c \in Credentials : c \in Range(issued) <=> HasRow(c)
    /\ \A c \in Credentials : calls[c].phase \in {"new", "computing"} => ~HasRow(c)
    /\ \A c \in Revoked : calls[c].phase = "done" \/ c \in early
    /\ \A k \in Calls : calls[k].phase \notin {"new", "done"} =>
        /\ calls[k].at \in Processes
        /\ k \in Credentials => calls[k].leaf = k /\ (HasRow(k) \/ calls[k].phase = "computing")
        /\ k \in Revocations =>
            calls[k].phase # "computing" /\ calls[k].leaf \in Credentials /\ rows[calls[k].leaf].status = "revoked"

\* An agent id is greater than those of the rows there were when it was taken, and
\* ids are no more than the rows can account for.
AgentsInv == \A c \in Credentials :
    /\ calls[c].seen \subseteq Range(issued)
    /\ HasRow(c) => rows[c].agent <= Len(issued)
    /\ calls[c].phase = "computing" => calls[c].agent <= Len(issued) + 1
    /\ \A d \in calls[c].seen :
        /\ HasRow(c) => rows[d].agent < rows[c].agent
        /\ calls[c].phase = "computing" => rows[d].agent < calls[c].agent

IndicesDistinct(table) == \A c, d \in Credentials :
    c # d /\ table[c].status = "live" /\ table[d].status = "live" /\ table[c].index = table[d].index
        => table[c].index = Nil \/ table[c].index >= MaxLeaves

\* A tree holds the rows that fit, where they fit, below the next index.
Agrees(tree, table) ==
    /\ tree.next <= MaxLeaves
    /\ \A c \in Credentials :
        /\ table[c].status = "live" /\ table[c].index # Nil /\ table[c].index < MaxLeaves =>
            tree.indexOf[c] = table[c].index
        /\ tree.indexOf[c] # Nil =>
            /\ tree.indexOf[c] < tree.next
            /\ table[c].status # "none"
            /\ table[c].status = "live" => table[c].index = tree.indexOf[c]

LeavesInv ==
    /\ IndicesDistinct(rows)
    /\ \A p \in Processes : active[p] # Nil =>
        /\ Agrees(active[p], rows)
        /\ \A c \in Credentials : active[p].indexOf[c] # Nil /\ rows[c].status # "live" => Shared(c) \/ c \in early

\* The credential's key is in the root, or on its way there.
Known(c, p) ==
    \/ \E v \in AtTrees(p) \intersect Revocations : calls[v].leaf = c
    \/ keys[p] = Nil \/ c \in keys[p]
\* What a call has built, or is about to, has the credential's key.
Carried(c, k) == calls[k].phase \in {"building", "inserting"} =>
    c \in calls[k].base \/ (calls[k].phase = "inserting" /\ calls[k].leaf = c)

\* Two calls at the trees have met.  The key of a revoked credential that has not met
\* another is known, and no call is about to write a root without it.
KeysInv == \A p \in Processes :
    /\ \A k, o \in AtTrees(p) : k # o => calls[k].leaf \in mixed
    /\ \A c \in Revoked :
        Shared(c) \/ c \in mixed \/ (Known(c, p) /\ \A k \in AtTrees(p) : Carried(c, k))

TreesInv == TreesTypeOK /\ RowsInv /\ AgentsInv /\ (OneProcess => LeavesInv /\ KeysInv)
=============================================================================
