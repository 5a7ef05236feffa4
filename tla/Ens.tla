---------------------------------- MODULE Ens ----------------------------------
(***************************************************************************)
(* The ENS client (src/internal/contracts/ens/ens.go): DeployENS, which    *)
(* deploys the registry and a first-in-first-served registrar for the root *)
(* node and hands the root to it, and Register, which asks the owner of a  *)
(* name's parent node to register the name's label for the caller.  The   *)
(* lookups (Resolve, Addr, SetAddr, SetContentHash) all address the node   *)
(* EnsNode(name); they change no registry state here and appear only       *)
(* through EnsNode.                                                        *)
(*                                                                         *)
(* A name is the sequence of its labels, the pieces strings.Split(name,    *)
(* ".") yields (the empty name is one empty label); SplitN(name, ".", 2)   *)
(* is then <<Head, the rest>>.  Keccak256Hash is injective on what it is   *)
(* given, so a hash is the tuple of its inputs.  The contracts (ENS.sol,   *)
(* FIFSRegistrar.sol) and the binding layer are not in this tree: a       *)
(* deploy or a call either succeeds or returns an error, the registry is   *)
(* the owner of each node, and a transaction of Register returns once the  *)
(* binding has sent it; it executes later (Mine), when the registrar's     *)
(* register(label, owner) gives node keccak(rootNode, label) to owner if   *)
(* it has no owner or owner already holds it, and reverts otherwise.       *)
(***************************************************************************)
EXTENDS Naturals, Sequences, SequencesExt

CONSTANTS
    Labels,         \* label strings, "" among them
    MaxLabels,      \* labels of a name
    Accounts,       \* transactOpts.From of the callers
    Deployer,       \* the account that runs DeployENS
    MaxCalls        \* Register calls

Names == UNION {[1..k -> Labels] : k \in 1..MaxLabels}
ZeroNode == <<"zero">>       \* [32]byte{}
Registrar == "registrar"    \* the FIFS registrar's address
NoOwner == "none"           \* Owner of a node nobody holds: the zero address

Keccak(label) == <<"keccak", label>>
Keccak2(a, b) == <<"keccak", a, b>>

VARIABLES
    pc,             \* DeployENS step, "ready" once it returned nil, "failed"
    owner,          \* registry: node -> owner address (absent: NoOwner)
    regRoot,        \* rootNode the FIFS registrar was deployed with
    pending,        \* register transactions sent and not yet executed
    calls

vars == <<pc, owner, regRoot, pending, calls>>

-----------------------------------------------------------------------------
\* Mutant: the recursion hashes the parent's label before its node.
RECURSIVE ensParentNodeSwapped(_)
ensParentNodeSwapped(name) ==
    LET label == Keccak(Head(name))
    IN  IF Len(name) = 1 THEN <<ZeroNode, label>>
        ELSE LET p == ensParentNodeSwapped(Tail(name))
             IN  <<Keccak2(p[2], p[1]), label>>

\* ensParentNode(name): the parent's node and the hash of the first label.
RECURSIVE ensParentNode(_)
ensParentNode(name) ==
    LET label == Keccak(Head(name))
    IN  IF Len(name) = 1 THEN <<ZeroNode, label>>
        ELSE LET p == ensParentNode(Tail(name))
             IN  <<Keccak2(p[1], p[2]), label>>

\* EnsNode(name) = keccak(ensParentNode(name)).
EnsNode(name) == LET p == ensParentNode(name) IN Keccak2(p[1], p[2])

\* ens.Owner(node).
Owner(node) == IF node \in DOMAIN owner THEN owner[node] ELSE NoOwner

Init ==
    /\ pc = "deployENS"
    /\ owner = <<>>
    /\ regRoot = NoOwner
    /\ pending = {}
    /\ calls = 0

\* contract.DeployENS: the registry, with the root owned by the deployer.
DeployRegistry ==
    /\ pc = "deployENS"
    /\ \/ pc' = "deployRegistrar" /\ owner' = (ZeroNode :> Deployer)
       \/ pc' = "failed" /\ UNCHANGED owner
    /\ UNCHANGED <<regRoot, pending, calls>>

\* contract.DeployFIFSRegistrar(..., ensAddr, [32]byte{}).
DeployRegistrar ==
    /\ pc = "deployRegistrar"
    /\ \/ pc' = "setOwner" /\ regRoot' = ZeroNode
       \/ pc' = "failed" /\ UNCHANGED regRoot
    /\ UNCHANGED <<owner, pending, calls>>

\* ens.SetOwner([32]byte{}, regAddr): the root goes to the registrar.
SetRootOwner ==
    /\ pc = "setOwner"
    /\ \/ pc' = "ready" /\ owner' = [owner EXCEPT ![ZeroNode] = Registrar]
       \/ pc' = "failed" /\ UNCHANGED owner
    /\ UNCHANGED <<regRoot, pending, calls>>

\* Register(name) from account a: getRegistrar(parentNode) reads the owner
\* of the parent node as the registrar; registrar.Register(label, a) sends
\* the transaction and returns it with nil, or returns the send's error.
\* A parent not owned by the registrar has no register to call: an error.
Register(name, a) ==
    /\ pc = "ready" /\ calls < MaxCalls
    /\ calls' = calls + 1
    /\ LET p == ensParentNode(name) IN
       \/ /\ Owner(p[1]) = Registrar
          /\ pending' = pending \cup {[node |-> Keccak2(regRoot, p[2]), from |-> a]}
       \/ UNCHANGED pending
    /\ UNCHANGED <<pc, owner, regRoot>>

\* A sent register transaction executes: first in, first served.
Mine(tx) ==
    /\ pending' = pending \ {tx}
    /\ owner' = IF Owner(tx.node) \in {NoOwner, tx.from}
                THEN (tx.node :> tx.from) @@ owner ELSE owner
    /\ UNCHANGED <<pc, regRoot, calls>>

Next ==
    \/ DeployRegistry \/ DeployRegistrar \/ SetRootOwner
    \/ \E n \in Names, a \in Accounts : Register(n, a)
    \/ \E tx \in pending : Mine(tx)

Spec == Init /\ [][Next]_vars

-----------------------------------------------------------------------------
(* Properties.                                                             *)

\* EIP-137 namehash: namehash("") = 0, namehash(l.rest) =
\* keccak(namehash(rest), keccak(l)), a fold from the last label.
Namehash(name) == FoldRight(LAMBDA l, n : Keccak2(n, Keccak(l)), name, ZeroNode)

\* EnsNode, the node every lookup addresses, is the EIP-137 namehash of
\* every name without an empty label (ensParentNode's recursion through
\* SplitN builds the parent node from the right).
EnsNodeMatchesNamehash ==
    \A n \in Names : (\A j \in 1..Len(n) : n[j] # "") => EnsNode(n) = Namehash(n)
================================================================================
