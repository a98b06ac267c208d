------------------------------ MODULE ParentChain ------------------------------
(***************************************************************************)
(* A parent chain, as the deployments that send contracts to it see it:    *)
(* the transactions its node holds, the receipts it gives, and the row of  *)
(* the database that names the chain's RollupCreator.  The chain is        *)
(* external.  Where a contract is created depends on the signer and on the *)
(* nonce only.                                                             *)
(***************************************************************************)
EXTENDS Integers, FiniteSets

CONSTANTS
  Signers,   \* the deployments' accounts on the parent chain
  Parts,     \* how many contracts the RollupCreator refers to
  Prices,    \* gas prices, far enough apart for a higher one to replace a lower
  NoAddress,
  MaxNonce   \* bound: transactions of a signer

ASSUME ParentChainAssumption ==
  /\ Parts \in Nat \ {0} /\ Signers # {}
  /\ Prices \subseteq Nat /\ Prices # {}
  /\ MaxNonce \in Nat
  /\ NoAddress \notin Signers \X (0..MaxNonce)

VARIABLES
  registry,   \* nitro_infrastructure: the chain's RollupCreator
  pool, mined \* the node: transactions that wait, and those in a block with
              \* their receipt's status

chain == <<pool, mined>>

\* What transactions do: the parts in their order, the creator, createRollup, and
\* what a deployment can do without (batch posters, WETH).
Creator == Parts + 1
Rollup == Parts + 2
Extra == Parts + 3

Addresses == Signers \X (0..MaxNonce)
Known == [1..Creator -> Addresses \cup {NoAddress}]
Tx == [from : Signers, nonce : 0..MaxNonce, price : Prices, what : 1..Extra, uses : Known]

-----------------------------------------------------------------------------
(* The node. *)

Address(t) == <<t.from, t.nonce>>

\* Transactions of s that are in a block.
Count(s) == Cardinality({m \in mined : m.tx.from = s})

\* PendingNonceAt: n is the first nonce that neither a block nor the pool has used.
PendingNonce(s, n) ==
  /\ n >= Count(s)
  /\ \A t \in pool : t.from = s => t.nonce # n
  /\ \A k \in Count(s)..(n - 1) : \E t \in pool : t.from = s /\ t.nonce = k

Rivals(t) == {u \in pool : Address(u) = Address(t)}

\* Not with a used nonce, not twice the same, and only over a cheaper one.
Acceptable(t) == t.nonce >= Count(t.from) /\ \A u \in Rivals(t) : u.price < t.price

-----------------------------------------------------------------------------
(* The contracts. *)

\* The contract of step n is at a.
Deployed(a, n) == \E m \in mined : m.ok /\ m.tx.what = n /\ Address(m.tx) = a

\* A RollupCreator, with all it refers to, is at a.
Whole(a) ==
  \E m \in mined : /\ m.ok /\ m.tx.what = Creator /\ Address(m.tx) = a
                   /\ \A n \in 1..Parts : Deployed(m.tx.uses[n], n)

\* EnsureInfrastructure: what is registered for other deployments, and what any
\* deployment creates its rollup with, is a RollupCreator whose parts are all
\* there and are what it takes them for - although deployments that share a
\* signer take each other's nonces, replace each other's transactions, are cut
\* off anywhere, and register without looking again.
CreatorIsWhole ==
  /\ registry # NoAddress => Whole(registry)
  /\ \A t \in pool \cup {m.tx : m \in mined} : t.what = Rollup => Whole(t.uses[Creator])

\* The receipts that say ok, of what.
Receipts(what) == {m \in mined : m.ok /\ m.tx.what = what}

\* No address is that of two transactions in blocks.
OneContract == \A m, k \in mined : Address(m.tx) = Address(k.tx) => m = k

Reuse == INSTANCE Catalogue WITH
  Sites <- Addresses, Nowhere <- NoAddress, entry <- registry,
  built <- {a \in Addresses : Whole(a)},
  used <- {m.tx.uses[Creator] : m \in Receipts(Rollup)}

\* What NitroInfrastructureRepository and EnsureInfrastructure promise together:
\* the registered creator is one that was built as a whole, it may give way to
\* another such but is never unregistered, and no rollup is made with any other.
ReuseIsACatalogue == Reuse!Spec
=============================================================================
