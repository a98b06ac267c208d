----------------------------- MODULE Infrastructure -----------------------------
(***************************************************************************)
(* The shared contracts of the Nitro stack: the first deployment sends     *)
(* them to the parent chain, a row of the database remembers the           *)
(* RollupCreator, and later deployments create their rollups with it.      *)
(* Several deployments are at work at a time, in one process or in several *)
(* and often with the same signer, whose nonces they read from the node.   *)
(* The node mines, replaces, reverts and forgets transactions.             *)
(***************************************************************************)
EXTENDS ParentChain

CONSTANTS
  Workers,   \* deployments at work at a time
  MaxFaults  \* bound: reverted and forgotten transactions, lost answers

ASSUME InfrastructureAssumption == MaxFaults \in Nat

VARIABLES
  pc, step,   \* of each deployment: what it does next, and for which transaction
  from, nonce, price, \* the sender, nonce and gas price of that transaction
  got,        \* addresses it has from receipts, or the creator from the registry
  lost,       \* history: deployments that wait for a transaction that the node
              \* had accepted, and has replaced or forgotten
  faults      \* how much of the bound has been used

workVars == <<pc, step, from, nonce, price, got>>
vars == <<registry, chain, workVars, lost, faults>>

TypeOK ==
  /\ registry \in Addresses \cup {NoAddress}
  /\ pool \subseteq Tx
  /\ mined \subseteq [tx : Tx, ok : BOOLEAN]
  /\ pc \in [Workers -> {"idle", "ensure", "nonce", "send", "wait", "save"}]
  /\ step \in [Workers -> 1..Extra]
  /\ from \in [Workers -> Signers]
  /\ nonce \in [Workers -> 0..MaxNonce]
  /\ price \in [Workers -> Prices]
  /\ got \in [Workers -> Known]
  /\ lost \subseteq Workers
  /\ faults \in 0..MaxFaults

Nothing == [n \in 1..Creator |-> NoAddress]
SomeSigner == CHOOSE s \in Signers : TRUE
SomePrice == CHOOSE p \in Prices : TRUE

\* A chain without the contracts, or with an old, incompatible version of them.
Init ==
  /\ registry = NoAddress
  /\ pool = {} /\ mined = {}
  /\ pc = [w \in Workers |-> "idle"]
  /\ step = [w \in Workers |-> 1]
  /\ from = [w \in Workers |-> SomeSigner]
  /\ nonce = [w \in Workers |-> 0]
  /\ price = [w \in Workers |-> SomePrice]
  /\ got = [w \in Workers |-> Nothing]
  /\ lost = {} /\ faults = 0

Fault == faults < MaxFaults /\ faults' = faults + 1

-----------------------------------------------------------------------------
(* The node. *)

\* The next transaction of s gets into a block, and may be reverted there.
Mine(s) ==
  \E t \in pool :
    /\ t.from = s /\ t.nonce = Count(s)
    /\ pool' = pool \ {t}
    /\ \/ mined' = mined \cup {[tx |-> t, ok |-> TRUE]} /\ UNCHANGED faults
       \/ mined' = mined \cup {[tx |-> t, ok |-> FALSE]} /\ Fault
    /\ UNCHANGED <<registry, workVars, lost>>

-----------------------------------------------------------------------------
(* The deployments. *)

\* What the transaction of a step refers to.
Needed(n, what) == (what = Creator /\ n <= Parts) \/ (what = Rollup /\ n = Creator)

TxOf(w) ==
  [from |-> from[w], nonce |-> nonce[w], price |-> price[w], what |-> step[w],
   uses |-> [n \in 1..Creator |-> IF Needed(n, step[w]) THEN got[w][n] ELSE NoAddress]]

\* The transaction is none that a deployment still waits for.
Displace(T) == lost' = lost \cup {w \in Workers : pc[w] = "wait" /\ TxOf(w) \in T}

Forget(t) ==
  /\ t \in pool /\ Fault
  /\ pool' = pool \ {t}
  /\ Displace({t})
  /\ UNCHANGED <<registry, mined, workVars>>

Goto(w, l) == pc' = [pc EXCEPT ![w] = l]

\* On to the nonce of another transaction.
Continue(w, what) ==
  /\ Goto(w, "nonce")
  /\ step' = [step EXCEPT ![w] = what]
  /\ nonce' = [nonce EXCEPT ![w] = 0]
  /\ price' = IF what >= Rollup THEN [price EXCEPT ![w] = SomePrice] ELSE price
  /\ UNCHANGED from

\* The deployment ends, well or not; it starts from the beginning if it is resumed.
Return(w) ==
  /\ Goto(w, "idle")
  /\ step' = [step EXCEPT ![w] = 1]
  /\ got' = [got EXCEPT ![w] = Nothing]
  /\ lost' = lost \ {w}
  /\ from' = [from EXCEPT ![w] = SomeSigner]
  /\ nonce' = [nonce EXCEPT ![w] = 0]
  /\ price' = [price EXCEPT ![w] = SomePrice]

UseRegistered(w) ==
  /\ registry # NoAddress
  /\ got' = [got EXCEPT ![w][Creator] = registry]

\* deployWithGo looks for a registered creator; a look that fails finds none.
Look(w) ==
  /\ pc[w] = "idle"
  /\ \E s \in Signers : from' = [from EXCEPT ![w] = s]
  /\ \/ UseRegistered(w) /\ Goto(w, "nonce") /\ step' = [step EXCEPT ![w] = Rollup]
     \/ Goto(w, "ensure") /\ UNCHANGED <<step, got>>
  /\ UNCHANGED <<registry, chain, nonce, price, lost, faults>>

\* EnsureInfrastructure looks once more, and takes one gas price for all it sends.
Ensure(w) ==
  /\ pc[w] = "ensure"
  /\ \/ UseRegistered(w) /\ Continue(w, Rollup)
     \/ /\ Goto(w, "nonce")
        /\ \E p \in Prices : price' = [price EXCEPT ![w] = p]
        /\ UNCHANGED <<step, from, nonce, got>>
  /\ UNCHANGED <<registry, chain, lost, faults>>

ReadNonce(w) ==
  /\ pc[w] = "nonce"
  /\ \E n \in 0..MaxNonce : PendingNonce(from[w], n) /\ nonce' = [nonce EXCEPT ![w] = n]
  /\ IF step[w] >= Rollup THEN \E p \in Prices : price' = [price EXCEPT ![w] = p]
     ELSE UNCHANGED price
  /\ Goto(w, "send")
  /\ UNCHANGED <<registry, chain, step, from, got, lost, faults>>

\* Mutant: a refusal of the node ("already known", "nonce too low") is passed over.
SendRegardless(w) ==
  /\ pc[w] = "send"
  /\ IF Acceptable(TxOf(w))
     THEN /\ pool' = (pool \ Rivals(TxOf(w))) \cup {TxOf(w)}
          /\ Displace(Rivals(TxOf(w)))
     ELSE UNCHANGED <<pool, lost>>
  /\ Goto(w, "wait")
  /\ UNCHANGED <<registry, mined, step, from, nonce, price, got, faults>>

\* deployContract, Deploy and the rest: signed, and accepted by the node.
Send(w) ==
  /\ pc[w] = "send" /\ Acceptable(TxOf(w))
  /\ pool' = (pool \ Rivals(TxOf(w))) \cup {TxOf(w)}
  /\ Displace(Rivals(TxOf(w)))
  /\ Goto(w, "wait")
  /\ UNCHANGED <<registry, mined, step, from, nonce, price, got, faults>>

\* An error of the signer or the node, the end of the process or of the context.
\* It is only logged when the rollup is there.  What was sent stays sent.
GiveUp(w) ==
  /\ pc[w] # "idle"
  /\ Return(w)
  /\ UNCHANGED <<registry, chain, faults>>

\* The addresses so far with that of step n; with the creator's the parts are done with.
Keep(known, n, a) == [(IF n = Creator THEN Nothing ELSE known) EXCEPT ![n] = a]

\* Mutant: the receipt's status is not looked at.
ReceiveAnyStatus(w) ==
  /\ pc[w] = "wait"
  /\ \E m \in mined :
       /\ m.tx = TxOf(w)
       /\ IF step[w] <= Creator
          THEN /\ got' = [got EXCEPT ![w] = Keep(@, step[w], Address(m.tx))]
               /\ IF step[w] = Creator
                  THEN Goto(w, "save") /\ UNCHANGED <<step, from, nonce, price>>
                  ELSE Continue(w, step[w] + 1)
               /\ UNCHANGED lost
          ELSE \/ step[w] = Rollup /\ Continue(w, Extra) /\ UNCHANGED <<got, lost>>
               \/ Return(w)
  /\ UNCHANGED <<registry, chain, faults>>

\* WaitMined: the receipt of this very transaction, which says where a contract
\* is.  A revert ends the deployment.
Receive(w) ==
  /\ pc[w] = "wait"
  /\ \E m \in mined :
       /\ m.tx = TxOf(w)
       /\ IF m.ok /\ step[w] <= Creator
          THEN /\ got' = [got EXCEPT ![w] = Keep(@, step[w], Address(m.tx))]
               /\ IF step[w] = Creator
                  THEN Goto(w, "save") /\ UNCHANGED <<step, from, nonce, price>>
                  ELSE Continue(w, step[w] + 1)
               /\ UNCHANGED lost
          ELSE \/ m.ok /\ step[w] = Rollup /\ Continue(w, Extra) /\ UNCHANGED <<got, lost>>
               \/ Return(w)
  /\ UNCHANGED <<registry, chain, faults>>

\* Mutant: the row is deleted before the new one is inserted.
SaveAnew(w) ==
  /\ pc[w] = "save"
  /\ registry' \in {registry, NoAddress, got[w][Creator]}
  /\ Continue(w, Rollup)
  /\ UNCHANGED <<chain, got, lost, faults>>

\* Upsert, whose error is only logged.
Save(w) ==
  /\ pc[w] = "save"
  /\ registry' \in {registry, got[w][Creator]}
  /\ Continue(w, Rollup)
  /\ UNCHANGED <<chain, got, lost, faults>>

-----------------------------------------------------------------------------
Work(w) == Ensure(w) \/ ReadNonce(w) \/ Send(w) \/ Receive(w) \/ Save(w)

Next ==
  \/ \E w \in Workers : Look(w) \/ Work(w) \/ GiveUp(w)
  \/ \E s \in Signers : Mine(s)
  \/ \E t \in pool : Forget(t)

Spec == Init /\ [][Next]_vars

\* Deployments that have started go on, and the chain produces blocks.
FairSpec ==
  /\ Spec
  /\ \A w \in Workers : WF_vars(Work(w))
  /\ \A s \in Signers : WF_vars(Mine(s))

-----------------------------------------------------------------------------
(* Properties. *)

\* A transaction with a lower nonce that the chain needs first has been forgotten.
Blocked(t) ==
  \E n \in Count(t.from)..(t.nonce - 1) : \A u \in pool : u.from = t.from => u.nonce # n

\* WaitMined: no deployment waits for a transaction for ever, unless the node had
\* accepted it and lost it again - to one with the same nonce and a higher price,
\* which only deployments that share a signer send, or forgot it or one before it.
WaitEnds ==
  \A w \in Workers : pc[w] = "wait" ~> pc[w] # "wait" \/ w \in lost \/ Blocked(TxOf(w))
=============================================================================
