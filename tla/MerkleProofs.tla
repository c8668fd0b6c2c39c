---------------------------- MODULE MerkleProofs ----------------------------
(***************************************************************************)
(* The history tree and the sparse map of the binding registry             *)
(* (infrastructure/crypto.py, binding_registry.py): the proofs that        *)
(* crypto.py builds and the verifiers of binding_registry.py, which replay *)
(* them without the leaves.                                                *)
(*                                                                         *)
(* A hash is a term, so that two are equal exactly when they hash the same *)
(* tree, as for a hash without collisions.  The entry at position i of a   *)
(* history is the number i.  A state is one call of a verifier.            *)
(***************************************************************************)
EXTENDS Naturals, Sequences

CONSTANTS
  MaxLeaves,  \* bound: leaves of a history
  MaxPath,    \* bound: length of an audit path
  Depth       \* levels of the sparse map, 256 in the code

MerkleAssumption == MaxLeaves \in Nat /\ MaxPath \in Nat /\ Depth \in Nat

VARIABLE call  \* the proof that is presented, and for what

Leaf(x)    == <<"leaf", x>>
Node(l, r) == <<"node", l, r>>
Failed     == <<"failed">>

\* The largest power of two below n, doubled up to; no history needs more turns
\* than it has leaves.
Split(n) ==
  LET split[i \in 0 .. MaxLeaves] ==
        IF i = 0 THEN 1
        ELSE LET s == split[i - 1] IN IF 2 * s < n THEN 2 * s ELSE s
  IN split[MaxLeaves]

\* Where a run of n leaves may begin.
Starts(n) == 1 .. MaxLeaves + 1 - n

\* The hash of the n leaves from lo on.
Root[n \in 1 .. MaxLeaves] ==
  [lo \in Starts(n) |->
     IF n = 1 THEN Leaf(lo)
     ELSE LET k == Split(n) IN Node(Root[k][lo], Root[n - k][lo + k])]

\* merkle_inclusion_proof: the siblings on the way from the i-th leaf to the root.
InclusionProof[n \in 1 .. MaxLeaves] ==
  [lo \in Starts(n) |-> [i \in 1 .. n |->
     IF n = 1 THEN <<>>
     ELSE LET k == Split(n)
          IN IF i <= k THEN Append(InclusionProof[k][lo][i], Root[n - k][lo + k])
             ELSE Append(InclusionProof[n - k][lo + k][i - k], Root[k][lo])]]

\* merkle_consistency_proof: the roots of the subtrees that make up the tree of
\* the first m leaves and of those that complete it to the new one.
ConsistencyProof[n \in 1 .. MaxLeaves] ==
  [lo \in Starts(n) |-> [m \in 1 .. n |->
     IF m = n THEN <<Root[n][lo]>>
     ELSE LET k == Split(n)
          IN IF m <= k THEN Append(ConsistencyProof[k][lo][m], Root[n - k][lo + k])
             ELSE Append(ConsistencyProof[n - k][lo + k][m - k], Root[k][lo])]]

\* The root that _verify_inclusion computes from a leaf and an audit path of
\* which every element must be used; the innermost sibling comes first, so an
\* inner call has all but the last of the j elements that are left.
ReplayInclusion(leaf, i, n, path) ==
  LET replay[k \in 1 .. MaxLeaves] ==
        [x \in 1 .. k |-> [j \in 0 .. Len(path) |->
           IF k = 1 THEN IF j = 0 THEN leaf ELSE Failed
           ELSE IF j = 0 THEN Failed
           ELSE LET s == Split(k)
                    inner == IF x <= s THEN replay[s][x][j - 1]
                             ELSE replay[k - s][x - s][j - 1]
                IN IF inner = Failed THEN Failed
                   ELSE IF x <= s THEN Node(inner, path[j]) ELSE Node(path[j], inner)]]
  IN replay[n][i][Len(path)]

VerifyInclusion(leaf, i, path, n, root) ==
  i \in 1 .. n /\ ReplayInclusion(leaf, i, n, path) = root

\* Mutant: the old root takes the new left subtree into account only.
Mut_ReplayOld(inner, last) == inner.old

\* The old root above a split that the old tree reaches beyond.
ReplayOld(inner, last) == Node(last, inner.old)

NoRoots == [new |-> Failed, old |-> Failed]

\* The pair of roots that _verify_consistency computes.
ReplayConsistency(m, n, path) ==
  LET replay[k \in 1 .. MaxLeaves] ==
        [x \in 1 .. k |-> [j \in 0 .. Len(path) |->
           IF j = 0 THEN NoRoots
           ELSE IF x = k
                THEN IF j = 1 THEN [new |-> path[1], old |-> path[1]] ELSE NoRoots
           ELSE LET s == Split(k)
                    inner == IF x <= s THEN replay[s][x][j - 1]
                             ELSE replay[k - s][x - s][j - 1]
                IN IF inner = NoRoots THEN NoRoots
                   ELSE IF x <= s
                        THEN [new |-> Node(inner.new, path[j]), old |-> inner.old]
                        ELSE [new |-> Node(path[j], inner.new),
                              old |-> ReplayOld(inner, path[j])]]]
  IN replay[n][m][Len(path)]

-----------------------------------------------------------------------------
(* the sparse map: a set of keys, each with the value of the same name.    *)
(* A key is its bits, the highest one at depth 0.                          *)

Keys == [0 .. Depth - 1 -> {0, 1}]

Bit(key, d) == key[d]

\* The hash of an empty subtree of a height.
Default[height \in 0 .. Depth] ==
  IF height = 0 THEN <<"empty">> ELSE Node(Default[height - 1], Default[height - 1])

\* smt_leaf binds the key as well as the value.
SmtLeaf(key, value) == <<"entry", key, value>>

\* The hash of the subtree of a height that holds the keys.
SmtNode[height \in 0 .. Depth] ==
  [keys \in SUBSET Keys |->
     IF keys = {} THEN Default[height]
     ELSE IF height = 0 THEN LET k == CHOOSE k \in keys : TRUE IN SmtLeaf(k, k)
     ELSE LET d == Depth - height
          IN Node(SmtNode[height - 1][{k \in keys : Bit(k, d) = 0}],
                  SmtNode[height - 1][{k \in keys : Bit(k, d) = 1}])]

\* The keys on the side of the tree that the first d bits of the key lead to.
Under(keys, key, d) == {k \in keys : \A e \in 0 .. d - 1 : Bit(k, e) = Bit(key, e)}

\* smt_proof: the sibling of the key's path at every depth.
SmtProof(keys, key) ==
  [d \in 0 .. Depth - 1 |->
     SmtNode[Depth - d - 1][{k \in Under(keys, key, d) : Bit(k, d) # Bit(key, d)}]]

\* _reconstruct_smt_root.
SmtUp(key, value, siblings) ==
  LET node[height \in 0 .. Depth] ==
        IF height = 0 THEN value
        ELSE LET d == Depth - height
             IN IF Bit(key, d) = 0 THEN Node(node[height - 1], siblings[d])
                ELSE Node(siblings[d], node[height - 1])
  IN node[Depth]

-----------------------------------------------------------------------------

\* Hashes a prover may put into an audit path: those of any run of leaves.
Hashes(n) == {Root[p[2]][p[1]] : p \in {q \in (1 .. n) \X (1 .. n) : q[1] + q[2] <= n + 1}}

Paths(n) == UNION {[1 .. l -> Hashes(n)] : l \in 0 .. MaxPath}

Init ==
  \/ \E n, m \in 1 .. MaxLeaves : \E p \in Paths(n) :
       \/ m < n /\ call = [kind |-> "consistency", n |-> n, m |-> m, path |-> p]
       \/ m <= n /\ call = [kind |-> "inclusion", n |-> n, m |-> m, path |-> p]
  \/ \E keys \in SUBSET Keys, key \in Keys :
       call = [kind |-> "sparse", keys |-> keys, key |-> key]

Next == UNCHANGED call

Spec == Init /\ [][Next]_call

-----------------------------------------------------------------------------

\* verify_proof_set may trust a consistency proof: the proof that crypto.py
\* builds is accepted, and whatever path is presented, one that reproduces the
\* new root gives the root of the first m leaves and of nothing else.
ConsistencyIsSound ==
  call.kind = "consistency" =>
    LET new == Root[call.n][1]
        old == Root[call.m][1]
    IN /\ ReplayConsistency(call.m, call.n, ConsistencyProof[call.n][1][call.m])
            = [new |-> new, old |-> old]
       /\ LET r == ReplayConsistency(call.m, call.n, call.path)
          IN r.new = new => r.old = old

\* It may trust an inclusion proof, which is accepted for the entry at its own
\* index and for no other entry, and the sparse proof of a key, from which the
\* root follows for exactly the value, or the absence, that the map has.
MembershipIsSound ==
  /\ call.kind = "inclusion" =>
       LET r == Root[call.n][1]
       IN /\ VerifyInclusion(Leaf(call.m), call.m, InclusionProof[call.n][1][call.m],
                             call.n, r)
          /\ \A x \in 1 .. call.n :
               VerifyInclusion(Leaf(x), call.m, call.path, call.n, r) => x = call.m
  /\ call.kind = "sparse" =>
       \A v \in {Default[0]} \cup {SmtLeaf(call.key, k) : k \in Keys} :
         SmtUp(call.key, v, SmtProof(call.keys, call.key)) = SmtNode[Depth][call.keys]
           <=> v = IF call.key \in call.keys THEN SmtLeaf(call.key, call.key)
                   ELSE Default[0]
=============================================================================
