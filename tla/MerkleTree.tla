----------------------------- MODULE MerkleTree -----------------------------
(***************************************************************************)
(* MerkleService: the root of a list of audit entries, inclusion proofs    *)
(* and their verification.  SHA-256 is taken to be injective, so a hash is *)
(* what was hashed; of a pair the two hashes are sorted first, so it is    *)
(* the set of them.  Nothing in the code tells the hash of an entry from   *)
(* that of a pair but that no entry is 128 hexadecimal digits: the entries *)
(* begin with a name and a colon (settlement/application/services.py:828). *)
(***************************************************************************)
EXTENDS Naturals, Sequences

CONSTANTS
    Leaves,      \* the entries there may be
    MaxLeaves    \* bounds the length of a trail

ASSUME MerkleAssumption == MaxLeaves \in Nat

VARIABLE trail   \* the entries of an escrow so far

LeafHash(e) == <<"entry", e>>
HashPair(a, b) == <<"pair", {a, b}>>

\* The last hash of an odd layer is there twice, unless it is the root.
Evened(layer) == IF Len(layer) % 2 = 1 THEN Append(layer, layer[Len(layer)]) ELSE layer

LayerAbove(layer) ==
    LET even == Evened(layer)
    IN  [i \in 1..Len(even) \div 2 |-> HashPair(even[2 * i - 1], even[2 * i])]

Bottom(entries) == [i \in 1..Len(entries) |-> LeafHash(entries[i])]

\* The root is repeated.
NextLayer(layer) == IF Len(layer) = 1 THEN layer ELSE LayerAbove(layer)

\* From the leaves to the root.
Layers(entries) ==
    LET L[k \in 0..Len(entries)] == IF k = 0 THEN Bottom(entries) ELSE NextLayer(L[k - 1])
    IN  L

ComputeRoot(entries) == Layers(entries)[Len(entries)][1]

RightHash(layer, pos) == Evened(layer)[2 * (pos \div 2) + 2]

\* The other hash of the pair, pos counted from 0.
Sibling(layer, pos) == Evened(layer)[(IF pos % 2 = 0 THEN pos + 1 ELSE pos - 1) + 1]

\* Where the way up from an entry crosses each layer.
Places(entries, index) ==
    LET At[k \in 0..Len(entries)] == IF k = 0 THEN index ELSE At[k - 1] \div 2
    IN  At

\* The siblings on the way up; whether one is to the left makes no difference to
\* a sorted pair.
GenerateProof(entries, index) ==
    LET L == Layers(entries)
        below == { k \in 0..Len(entries) : Len(L[k]) > 1 }
    IN  [k \in { j + 1 : j \in below } |-> Sibling(L[k - 1], Places(entries, index)[k - 1])]

\* The hashes on the way up from an entry, each of a pair with the next sibling.
Climb(e, proof) ==
    LET Current[k \in 0..Len(proof)] ==
          IF k = 0 THEN LeafHash(e) ELSE HashPair(Current[k - 1], proof[k])
    IN  Current

VerifyProof(root, e, proof) == root = Climb(e, proof)[Len(proof)]

MerkleInit == trail = <<>>

\* An event of the escrow is appended to its trail.
AddEntry ==
    /\ Len(trail) < MaxLeaves
    /\ \E e \in Leaves : trail' = Append(trail, e)

MerkleSpec == MerkleInit /\ [][AddEntry]_trail

-----------------------------------------------------------------------------

\* A proof made for a place of a trail of any length convinces the verifier of the
\* entry at that place, and of no other entry (merkle_service.py:64-120).
ProofsConvince ==
    \A index \in 0..Len(trail) - 1 : \A e \in Leaves :
       VerifyProof(ComputeRoot(trail), e, GenerateProof(trail, index)) <=> e = trail[index + 1]

\* Two trails with the same root have the same entries, although their order in a
\* pair and repeated ones at the end may differ (merkle_service.py:18-24, 53-60).
RootNamesEntries ==
    \A n \in 1..MaxLeaves : \A other \in [1..n -> Leaves] :
       trail # <<>> /\ ComputeRoot(other) = ComputeRoot(trail)
          => { other[i] : i \in 1..n } = { trail[i] : i \in DOMAIN trail }

\* Both: a root stands for the entries it was computed from.
RootCommits == ProofsConvince /\ RootNamesEntries
=============================================================================
