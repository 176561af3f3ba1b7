----------------------- MODULE ExplorerRegistryProofs -----------------------
(***************************************************************************)
(* Proofs about ExplorerRegistry, for any contracts, callers, metadata and *)
(* number of ABI versions: its types, that an ABI history is complete      *)
(* while its contract is registered and gone afterwards, that no published *)
(* version is rewritten, and that the deposits are backed.                 *)
(***************************************************************************)
EXTENDS ExplorerRegistry, FoldLemmas

USE AdminAssumption, RegistryAssumption, NoneAssumption

\* The three facts need one another: what update_contract adds is new because the
\* history is exact, and what register_contract adds is new because nothing remained.
IInv == RegistryTypeOK /\ NoRemnants /\ HistoryExact

\* The part of IInv about one contract's entry, history, owner and deposit.
Consistent(c) ==
    /\ entry[c] = None =>
         /\ owner[c] = None /\ deposit[c] = None
         /\ \A v \in Versions : versions[c][v] = None
    /\ entry[c] # None =>
         /\ \A v \in Versions :
              IF v <= entry[c].abi_version
              THEN versions[c][v] # None /\ versions[c][v].abi_version = v
              ELSE versions[c][v] = None
         /\ versions[c][entry[c].abi_version].abi = entry[c].abi

\* NoRemnants and HistoryExact, contract by contract.
LEMMA ContractByContract == NoRemnants /\ HistoryExact <=> \A c \in Contracts : Consistent(c)
  BY Zenon DEF NoRemnants, HistoryExact, Consistent

\* The same of the state after a step.
LEMMA ContractByContractNext ==
  ASSUME \A c \in Contracts : Consistent(c)' PROVE NoRemnants' /\ HistoryExact'
  BY Zenon DEF NoRemnants, HistoryExact, Consistent

\* A contract whose keys a step leaves alone stays consistent.
LEMMA Untouched ==
  ASSUME NEW c, Consistent(c), entry'[c] = entry[c], versions'[c] = versions[c],
         owner'[c] = owner[c], deposit'[c] = deposit[c]
  PROVE  Consistent(c)'
  BY DEF Consistent

\* A transfer keeps balances natural numbers.
LEMMA TransferType ==
  ASSUME balance \in [Tokens -> [Holders -> Nat]],
         NEW token \in Tokens, NEW from \in Holders, NEW to \in Holders, NEW amount \in Nat,
         Transfer(token, from, to, amount)
  PROVE  balance' \in [Tokens -> [Holders -> Nat]]
<1> DEFINE change == [h \in Holders |-> CASE h = from -> -amount [] h = to -> amount [] OTHER -> 0]
<1>1. /\ balance[token][from] >= amount
      /\ balance' = [balance EXCEPT ![token] = [h \in Holders |-> balance[token][h] + change[h]]]
  BY DEF Transfer
<1>2. ASSUME NEW h \in Holders PROVE balance[token][h] + change[h] \in Nat
  <2>1. balance[token][h] \in Nat /\ balance[token][from] \in Nat
    OBVIOUS
  <2>2. CASE h = from
    BY <1>1, <2>1, <2>2
  <2>3. CASE h # from
    BY <2>1, <2>3
  <2> QED BY <2>2, <2>3
<1>3. [h \in Holders |-> balance[token][h] + change[h]] \in [Holders -> Nat]
  BY <1>2
<1> QED BY <1>1, <1>3

\* Recorded deposits are of a known token and not negative.
LEMMA DepositFields == ASSUME NEW d \in Deposits PROVE d.token \in Tokens /\ d.amount \in Nat
<1>1. d.token \in Tokens /\ d.amount \in {a \in Amounts : a >= 0}
  BY Zenon DEF Deposits
<1>2. d.amount \in Int /\ d.amount >= 0
  BY <1>1
<1> QED BY <1>1, <1>2

\* What registration does to the money, and to the deposits of other contracts.
LEMMA CollectType ==
  ASSUME RegistryTypeOK, NEW caller \in Addresses, NEW c \in Contracts, CollectDeposit(caller, c)
  PROVE  /\ balance' \in [Tokens -> [Holders -> Nat]]
         /\ deposit' \in [Contracts -> Deposits \cup {None}]
         /\ \A d \in Contracts : d # c => deposit'[d] = deposit[d]
<1>1. CASE UNCHANGED <<deposit, balance>>
  BY <1>1 DEF RegistryTypeOK
<1>2. CASE /\ depositTerms # None
           /\ Transfer(depositTerms.token, caller, Self, depositTerms.amount)
           /\ deposit' = [deposit EXCEPT ![c] = depositTerms]
  <2>1. depositTerms \in Deposits
    BY <1>2 DEF RegistryTypeOK
  <2>2. depositTerms.token \in Tokens /\ depositTerms.amount \in Nat
    BY <2>1, DepositFields
  <2>3. balance' \in [Tokens -> [Holders -> Nat]]
    BY <1>2, <2>2, TransferType DEF RegistryTypeOK, Holders
  <2> QED BY <1>2, <2>1, <2>3 DEF RegistryTypeOK
<1> QED BY <1>1, <1>2 DEF CollectDeposit

\* What deregistration does to them.
LEMMA SettleType ==
  ASSUME RegistryTypeOK, NEW caller \in Addresses, NEW c \in Contracts, SettleDeposit(caller, c)
  PROVE  /\ balance' \in [Tokens -> [Holders -> Nat]]
         /\ deposit' \in [Contracts -> Deposits \cup {None}]
         /\ deposit'[c] = None
         /\ \A d \in Contracts : d # c => deposit'[d] = deposit[d]
<1>1. /\ deposit' \in [Contracts -> Deposits \cup {None}]
      /\ deposit'[c] = None
      /\ \A d \in Contracts : d # c => deposit'[d] = deposit[d]
  BY DEF SettleDeposit, RegistryTypeOK
<1>2. deposit[c] # None => deposit[c].token \in Tokens /\ deposit[c].amount \in Nat
  BY DepositFields DEF RegistryTypeOK
<1>3. balance' \in [Tokens -> [Holders -> Nat]]
  <2>1. CASE UNCHANGED balance
    BY <2>1 DEF RegistryTypeOK
  <2>2. CASE deposit[c] # None /\ Transfer(deposit[c].token, Self, caller, deposit[c].amount)
    BY <1>2, <2>2, TransferType DEF RegistryTypeOK, Holders
  <2>3. CASE /\ deposit[c] # None /\ treasury # None
             /\ Transfer(deposit[c].token, Self, treasury, deposit[c].amount)
    BY <1>2, <2>3, TransferType DEF RegistryTypeOK, Holders
  <2> QED BY <2>1, <2>2, <2>3 DEF SettleDeposit
<1> QED BY <1>1, <1>3

-----------------------------------------------------------------------------
\* At the start nothing is registered.
LEMMA InitIInv == RegistryInit => IInv
<1> SUFFICES ASSUME RegistryInit PROVE IInv
  OBVIOUS
<1>1. RegistryTypeOK
  <2>1. balance \in [Tokens -> [Holders -> Nat]]
    BY DEF RegistryInit, Holders
  <2> QED BY <2>1 DEF RegistryInit, RegistryTypeOK, AdminInit, AdminTypeOK
<1>2. NoRemnants /\ HistoryExact
  BY DEF RegistryInit, NoRemnants, HistoryExact
<1> QED BY <1>1, <1>2 DEF IInv

\* register_contract starts a history with version 0.
LEMMA RegisterIInv ==
  ASSUME IInv, NEW caller \in Addresses, NEW c \in Contracts, NEW abi \in Abis,
         NEW registrant \in Addresses, register_contract(caller, c, abi, registrant)
  PROVE  IInv'
<1> DEFINE stored == [abi |-> abi, abi_version |-> 0, registered_by |-> registrant]
<1>1. stored \in Meta /\ stored # None /\ 0 \in Versions
  BY DEF Meta, Versions
<1>2. CollectDeposit(caller, c) /\ RegistryTypeOK
  BY DEF register_contract, IInv
<1>3. /\ balance' \in [Tokens -> [Holders -> Nat]]
      /\ deposit' \in [Contracts -> Deposits \cup {None}]
      /\ \A d \in Contracts : d # c => deposit'[d] = deposit[d]
  BY <1>2, CollectType
<1>4. /\ entry' = [entry EXCEPT ![c] = stored]
      /\ versions' = [versions EXCEPT ![c][0] = stored]
      /\ UNCHANGED <<admin, paused, owner, deployer, depositTerms, treasury>>
      /\ entry[c] = None
  BY DEF register_contract
<1> HIDE DEF stored
<1>5. RegistryTypeOK'
  <2>1. entry' \in [Contracts -> Meta \cup {None}]
    BY <1>1, <1>2, <1>4 DEF RegistryTypeOK
  <2>2. versions' \in [Contracts -> [Versions -> Meta \cup {None}]]
    <3>1. [versions[c] EXCEPT ![0] = stored] \in [Versions -> Meta \cup {None}]
      BY <1>1, <1>2 DEF RegistryTypeOK
    <3> QED BY <3>1, <1>2, <1>4 DEF RegistryTypeOK
  <2> QED BY <2>1, <2>2, <1>2, <1>3, <1>4 DEF RegistryTypeOK, AdminTypeOK
<1>6. ASSUME NEW d \in Contracts PROVE Consistent(d)'
  <2>1. Consistent(d)
    BY ContractByContract DEF IInv
  <2>2. CASE d # c
    <3>1. entry'[d] = entry[d] /\ versions'[d] = versions[d] /\ owner'[d] = owner[d] /\ deposit'[d] = deposit[d]
      BY <2>2, <1>2, <1>3, <1>4 DEF RegistryTypeOK
    <3> QED BY <2>1, <3>1, Untouched
  <2>3. CASE d = c
    <3>1. entry'[c] = stored /\ versions'[c] = [versions[c] EXCEPT ![0] = stored]
      BY <1>2, <1>4 DEF RegistryTypeOK
    <3>2. versions[c] \in [Versions -> Meta \cup {None}] /\ \A v \in Versions : versions[c][v] = None
      BY <2>1, <2>3, <1>2, <1>4 DEF Consistent, RegistryTypeOK
    <3>3. stored.abi_version = 0 /\ stored.abi = abi
      BY DEF stored
    <3>4. versions'[c][0] = stored /\ \A v \in Versions : v # 0 => versions'[c][v] = None
      BY <3>1, <3>2, <1>1
    <3>5. \A v \in Versions : v <= 0 <=> v = 0
      BY DEF Versions
    <3> QED BY <2>3, <1>1, <3>1, <3>3, <3>4, <3>5 DEF Consistent
  <2> QED BY <2>2, <2>3
<1>7. NoRemnants' /\ HistoryExact'
  BY <1>6, ContractByContractNext
<1> QED BY <1>5, <1>7 DEF IInv

\* update_contract adds the one version that was missing.
LEMMA UpdateIInv ==
  ASSUME IInv, NEW caller \in Addresses, NEW c \in Contracts, NEW meta \in Meta,
         update_contract(caller, c, meta)
  PROVE  IInv'
<1>1. /\ entry[c] # None /\ meta.abi_version = entry[c].abi_version + 1
      /\ entry' = [entry EXCEPT ![c] = meta]
      /\ versions' = [versions EXCEPT ![c][meta.abi_version] = meta]
      /\ UNCHANGED <<admin, paused, owner, deployer, deposit, depositTerms, treasury, balance>>
  BY DEF update_contract, next_abi_version, money
<1>2. RegistryTypeOK /\ meta # None /\ meta.abi_version \in Versions
  BY DEF IInv, Meta
<1>3. entry[c] \in Meta /\ entry[c].abi_version \in Versions
  BY <1>1, <1>2 DEF RegistryTypeOK, Meta
<1>4. RegistryTypeOK'
  <2>1. entry' \in [Contracts -> Meta \cup {None}]
    BY <1>1, <1>2 DEF RegistryTypeOK
  <2>2. versions' \in [Contracts -> [Versions -> Meta \cup {None}]]
    BY <1>1, <1>2 DEF RegistryTypeOK
  <2> QED BY <2>1, <2>2, <1>1, <1>2 DEF RegistryTypeOK, AdminTypeOK
<1>5. ASSUME NEW d \in Contracts PROVE Consistent(d)'
  <2>1. Consistent(d)
    BY ContractByContract DEF IInv
  <2>2. CASE d # c
    <3>1. entry'[d] = entry[d] /\ versions'[d] = versions[d] /\ owner'[d] = owner[d] /\ deposit'[d] = deposit[d]
      BY <2>2, <1>1, <1>2 DEF RegistryTypeOK
    <3> QED BY <2>1, <3>1, Untouched
  <2>3. CASE d = c
    <3>1. entry'[c] = meta /\ versions'[c] = [versions[c] EXCEPT ![meta.abi_version] = meta]
      BY <1>1, <1>2 DEF RegistryTypeOK
    <3>2. versions'[c][meta.abi_version] = meta
      BY <3>1, <1>2 DEF RegistryTypeOK
    <3>3. ASSUME NEW v \in Versions
          PROVE  IF v <= meta.abi_version
                 THEN versions'[c][v] # None /\ versions'[c][v].abi_version = v
                 ELSE versions'[c][v] = None
      <4>1. v # meta.abi_version => versions'[c][v] = versions[c][v]
        BY <3>1, <1>2 DEF RegistryTypeOK
      <4>2. IF v <= entry[c].abi_version
            THEN versions[c][v] # None /\ versions[c][v].abi_version = v
            ELSE versions[c][v] = None
        BY <2>1, <2>3, <1>1 DEF Consistent
      <4>3. v \in Nat /\ meta.abi_version \in Nat /\ entry[c].abi_version \in Nat
        BY <1>2, <1>3 DEF Versions
      <4>4. CASE v = meta.abi_version
        BY <4>4, <3>2, <1>2, <4>3
      <4>5. CASE v < meta.abi_version
        <5>1. v <= entry[c].abi_version
          BY <4>3, <4>5, <1>1
        <5> QED BY <5>1, <4>1, <4>2, <4>3, <4>5
      <4>6. CASE v > meta.abi_version
        <5>1. ~(v <= entry[c].abi_version)
          BY <4>3, <4>6, <1>1
        <5> QED BY <5>1, <4>1, <4>2, <4>3, <4>6
      <4> QED BY <4>3, <4>4, <4>5, <4>6
    <3> QED BY <2>3, <3>1, <3>2, <3>3, <1>2 DEF Consistent
  <2> QED BY <2>2, <2>3
<1>6. NoRemnants' /\ HistoryExact'
  BY <1>5, ContractByContractNext
<1> QED BY <1>4, <1>6 DEF IInv

\* deregister_contract removes the whole history: it is no longer than the range removed.
LEMMA DeregisterIInv ==
  ASSUME IInv, NEW caller \in Addresses, NEW c \in Contracts, deregister_contract(caller, c)
  PROVE  IInv'
<1>1. /\ entry[c] # None /\ SettleDeposit(caller, c)
      /\ entry' = [entry EXCEPT ![c] = None]
      /\ owner' = [owner EXCEPT ![c] = None]
      /\ deployer' = [deployer EXCEPT ![c] = None]
      /\ versions' = [versions EXCEPT ![c] =
                        [v \in Versions |->
                           IF v \in 0..entry[c].abi_version THEN None ELSE versions[c][v]]]
      /\ UNCHANGED <<admin, paused, depositTerms, treasury>>
  BY DEF deregister_contract, versions_to_remove
<1>2. RegistryTypeOK
  BY DEF IInv
<1>3. /\ balance' \in [Tokens -> [Holders -> Nat]]
      /\ deposit' \in [Contracts -> Deposits \cup {None}]
      /\ deposit'[c] = None
      /\ \A d \in Contracts : d # c => deposit'[d] = deposit[d]
  BY <1>1, <1>2, SettleType
<1>4. RegistryTypeOK'
  <2>1. /\ entry' \in [Contracts -> Meta \cup {None}]
        /\ owner' \in [Contracts -> Addresses \cup {None}]
        /\ deployer' \in [Contracts -> Addresses \cup {None}]
    BY <1>1, <1>2 DEF RegistryTypeOK
  <2>2. versions' \in [Contracts -> [Versions -> Meta \cup {None}]]
    BY <1>1, <1>2 DEF RegistryTypeOK
  <2> QED BY <2>1, <2>2, <1>1, <1>2, <1>3 DEF RegistryTypeOK, AdminTypeOK
<1>5. ASSUME NEW d \in Contracts PROVE Consistent(d)'
  <2>1. Consistent(d)
    BY ContractByContract DEF IInv
  <2>2. CASE d # c
    <3>1. entry'[d] = entry[d] /\ versions'[d] = versions[d] /\ owner'[d] = owner[d] /\ deposit'[d] = deposit[d]
      BY <2>2, <1>1, <1>2, <1>3 DEF RegistryTypeOK
    <3> QED BY <2>1, <3>1, Untouched
  <2>3. CASE d = c
    <3>1. entry'[c] = None /\ owner'[c] = None
      BY <1>1, <1>2 DEF RegistryTypeOK
    <3>2. ASSUME NEW v \in Versions PROVE versions'[c][v] = None
      <4>1. versions'[c][v] = IF v \in 0..entry[c].abi_version THEN None ELSE versions[c][v]
        BY <1>1, <1>2 DEF RegistryTypeOK
      <4>2. v <= entry[c].abi_version => v \in 0..entry[c].abi_version
        <5>1. entry[c].abi_version \in Versions
          BY <1>1, <1>2 DEF RegistryTypeOK, Meta
        <5> QED BY <5>1 DEF Versions
      <4>3. ~(v <= entry[c].abi_version) => versions[c][v] = None
        BY <2>1, <2>3, <1>1 DEF Consistent
      <4> QED BY <4>1, <4>2, <4>3
    <3> QED BY <2>3, <3>1, <3>2, <1>3 DEF Consistent
  <2> QED BY <2>2, <2>3
<1>6. NoRemnants' /\ HistoryExact'
  BY <1>5, ContractByContractNext
<1> QED BY <1>4, <1>6 DEF IInv

\* claim_contract replaces the registrant, which no version is compared by.
LEMMA ClaimIInv ==
  ASSUME IInv, NEW c \in Contracts, NEW claimant \in Addresses, claim_contract(c, claimant)
  PROVE  IInv'
<1>1. /\ entry[c] # None
      /\ entry' = [entry EXCEPT ![c].registered_by = claimant]
      /\ owner' = [owner EXCEPT ![c] = claimant]
      /\ UNCHANGED <<admin, paused, versions, deployer, deposit, depositTerms, treasury, balance>>
  BY DEF claim_contract, money
<1>2. RegistryTypeOK
  BY DEF IInv
<1> DEFINE claimed == [entry[c] EXCEPT !.registered_by = claimant]
<1>3. entry[c] \in Meta
  BY <1>1, <1>2 DEF RegistryTypeOK
<1>4. /\ claimed \in Meta /\ claimed # None
      /\ claimed.abi_version = entry[c].abi_version /\ claimed.abi = entry[c].abi
  BY <1>3 DEF Meta
<1>5. entry' = [entry EXCEPT ![c] = claimed]
  BY <1>1
<1> HIDE DEF claimed
<1>6. RegistryTypeOK'
  <2>1. entry' \in [Contracts -> Meta \cup {None}]
    BY <1>2, <1>4, <1>5 DEF RegistryTypeOK
  <2> QED BY <2>1, <1>1, <1>2 DEF RegistryTypeOK, AdminTypeOK
<1>7. ASSUME NEW d \in Contracts PROVE Consistent(d)'
  <2>1. Consistent(d)
    BY ContractByContract DEF IInv
  <2>2. CASE d # c
    <3>1. entry'[d] = entry[d] /\ owner'[d] = owner[d]
      BY <2>2, <1>1, <1>2, <1>5 DEF RegistryTypeOK
    <3> QED BY <2>1, <3>1, <1>1, Untouched
  <2>3. CASE d = c
    <3>1. entry'[c] = claimed
      BY <1>2, <1>5 DEF RegistryTypeOK
    <3> QED BY <2>1, <2>3, <3>1, <1>1, <1>4 DEF Consistent
  <2> QED BY <2>2, <2>3
<1>8. NoRemnants' /\ HistoryExact'
  BY <1>7, ContractByContractNext
<1> QED BY <1>6, <1>8 DEF IInv

\* The calls that write neither entries, versions, owners nor deposits.
LEMMA QuietIInv ==
  ASSUME IInv, RegistryTypeOK', UNCHANGED <<entry, versions, owner, deposit>>
  PROVE  IInv'
<1>1. ASSUME NEW c \in Contracts PROVE Consistent(c)'
  BY ContractByContract, Untouched DEF IInv
<1> QED BY <1>1, ContractByContractNext DEF IInv

\* init, the administrator's switches, the deposit's terms.
LEMMA AdminIInv ==
  ASSUME IInv,
         \/ \E a \in Addresses : init_registry(a)
         \/ \E caller \in Addresses : AdminStep(caller)
  PROVE  IInv'
<1>1. CASE \E a \in Addresses : init_registry(a)
  <2>1. RegistryTypeOK' /\ UNCHANGED <<entry, versions, owner, deposit>>
    BY <1>1 DEF IInv, RegistryTypeOK, AdminTypeOK, init_registry, InitAdmin, contractKeys, money
  <2> QED BY <2>1, QuietIInv
<1>2. ASSUME NEW caller \in Addresses, AdminStep(caller) PROVE IInv'
  <2> USE DEF IInv, RegistryTypeOK, AdminTypeOK, contractKeys, money
  <2>1. ASSUME NEW a \in Addresses, transfer_admin(caller, a), UNCHANGED <<contractKeys, money>> PROVE IInv'
    BY <2>1, QuietIInv DEF transfer_admin
  <2>2. CASE pause(caller) /\ UNCHANGED <<contractKeys, money>>
    BY <2>2, QuietIInv DEF pause
  <2>3. CASE unpause(caller) /\ UNCHANGED <<contractKeys, money>>
    BY <2>3, QuietIInv DEF unpause
  <2>4. ASSUME NEW amount \in Amounts, NEW token \in Tokens, set_registration_deposit(caller, amount, token)
        PROVE  IInv'
    <3>1. depositTerms' \in Deposits /\ UNCHANGED <<admin, paused, contractKeys, treasury, balance>>
      BY <2>4 DEF set_registration_deposit, Deposits
    <3> QED BY <3>1, QuietIInv
  <2>5. ASSUME NEW a \in Addresses, set_registration_treasury(caller, a) PROVE IInv'
    BY <2>5, QuietIInv DEF set_registration_treasury
  <2> QED BY <1>2, <2>1, <2>2, <2>3, <2>4, <2>5 DEF AdminStep
<1> QED BY <1>1, <1>2

\* Calls about one contract.
LEMMA ContractIInv ==
  ASSUME IInv, NEW caller \in Addresses, NEW c \in Contracts, ContractStep(caller, c)
  PROVE  IInv'
<1>1. ASSUME NEW a \in Addresses, attest_deployer(caller, c, a) PROVE IInv'
  <2>1. RegistryTypeOK' /\ UNCHANGED <<entry, versions, owner, deposit>>
    BY <1>1 DEF IInv, RegistryTypeOK, AdminTypeOK, attest_deployer, money
  <2> QED BY <2>1, QuietIInv
<1> QED BY <1>1, RegisterIInv, UpdateIInv, DeregisterIInv, ClaimIInv DEF ContractStep

LEMMA NextIInv == IInv /\ [RegistryNext]_registryVars => IInv'
<1> SUFFICES ASSUME IInv, [RegistryNext]_registryVars PROVE IInv'
  OBVIOUS
<1>1. CASE RegistryNext
  BY <1>1, AdminIInv, ContractIInv DEF RegistryNext
<1>2. CASE UNCHANGED registryVars
  <2>1. RegistryTypeOK' /\ UNCHANGED <<entry, versions, owner, deposit>>
    BY <1>2 DEF IInv, RegistryTypeOK, AdminTypeOK, registryVars, contractKeys, money
  <2> QED BY <2>1, QuietIInv
<1> QED BY <1>1, <1>2

-----------------------------------------------------------------------------
\* The inductive invariant holds in every reachable state.
THEOREM Invariance == RegistrySpec => []IInv
  BY InitIInv, NextIInv, PTL DEF RegistrySpec

\* Storage keys hold values of their types; no deposit is negative, no transfer
\* overdraws an account and no abi_version passes the counter's range.
THEOREM TypeCorrect == RegistrySpec => []RegistryTypeOK
<1>1. IInv => RegistryTypeOK
  BY DEF IInv
<1> QED BY <1>1, Invariance, PTL

\* Deregistration leaves nothing of an entry for the next registration of its id.
THEOREM NothingRemains == RegistrySpec => []NoRemnants
<1>1. IInv => NoRemnants
  BY DEF IInv
<1> QED BY <1>1, Invariance, PTL

\* The version history of a registered contract is complete, and holds nothing else.
THEOREM HistoryIsExact == RegistrySpec => []HistoryExact
<1>1. IInv => HistoryExact
  BY DEF IInv
<1> QED BY <1>1, Invariance, PTL

\* A step that changes a stored version removes it with its contract.
LEMMA StepKeepsVersions ==
  ASSUME IInv, [RegistryNext]_registryVars, NEW c \in Contracts, NEW v \in Versions, versions[c][v] # None
  PROVE  versions'[c][v] = versions[c][v] \/ entry'[c] = None
<1>1. RegistryTypeOK /\ Consistent(c)
  BY ContractByContract DEF IInv
<1>2. entry[c] # None
  BY <1>1 DEF Consistent
<1>3. CASE UNCHANGED versions
  BY <1>3
<1>4. ASSUME NEW caller \in Addresses, NEW d \in Contracts, NEW abi \in Abis, NEW a \in Addresses,
             register_contract(caller, d, abi, a)
      PROVE  versions'[c][v] = versions[c][v]
  <2>1. d # c
    BY <1>2, <1>4 DEF register_contract
  <2> QED BY <2>1, <1>1, <1>4 DEF register_contract, RegistryTypeOK
<1>5. ASSUME NEW caller \in Addresses, NEW d \in Contracts, NEW meta \in Meta,
             update_contract(caller, d, meta)
      PROVE  versions'[c][v] = versions[c][v]
  <2>1. versions' = [versions EXCEPT ![d][meta.abi_version] = meta]
    BY <1>5 DEF update_contract
  <2>2. CASE d # c
    BY <2>1, <2>2, <1>1 DEF RegistryTypeOK
  <2>3. CASE d = c
    <3>1. entry[c] \in Meta
      BY <1>1, <1>2 DEF RegistryTypeOK
    <3>2. meta.abi_version = entry[c].abi_version + 1 /\ entry[c].abi_version \in Nat /\ v \in Nat
      BY <2>3, <3>1, <1>5 DEF update_contract, next_abi_version, Meta, Versions
    <3>3. v <= entry[c].abi_version
      BY <1>1, <1>2 DEF Consistent
    <3>4. v # meta.abi_version
      BY <3>2, <3>3
    <3> QED BY <2>1, <2>3, <3>4, <1>1 DEF RegistryTypeOK
  <2> QED BY <2>2, <2>3
<1>6. ASSUME NEW caller \in Addresses, NEW d \in Contracts, deregister_contract(caller, d)
      PROVE  versions'[c][v] = versions[c][v] \/ entry'[c] = None
  <2>1. CASE d = c
    BY <2>1, <1>1, <1>6 DEF deregister_contract, RegistryTypeOK
  <2>2. CASE d # c
    BY <2>2, <1>1, <1>6 DEF deregister_contract, RegistryTypeOK
  <2> QED BY <2>1, <2>2
<1>7. CASE \E a \in Addresses : init_registry(a)
  BY <1>3, <1>7 DEF init_registry, contractKeys
<1>8. ASSUME NEW caller \in Addresses, AdminStep(caller) PROVE UNCHANGED versions
  BY <1>8 DEF AdminStep, set_registration_deposit, set_registration_treasury, contractKeys
<1>9. ASSUME NEW caller \in Addresses, NEW d \in Contracts, ContractStep(caller, d)
      PROVE  versions'[c][v] = versions[c][v] \/ entry'[c] = None
  <2>1. ASSUME NEW a \in Addresses, attest_deployer(caller, d, a) PROVE UNCHANGED versions
    BY <2>1 DEF attest_deployer
  <2>2. CASE claim_contract(d, caller)
    BY <2>2 DEF claim_contract
  <2> QED BY <1>4, <1>5, <1>6, <1>9, <2>1, <2>2 DEF ContractStep
<1> QED BY <1>3, <1>7, <1>8, <1>9 DEF RegistryNext, registryVars, contractKeys

\* Published ABI versions are never rewritten, whoever calls what in which order.
THEOREM HistoryIsImmutable == RegistrySpec => HistoryImmutable
<1>1. IInv /\ [RegistryNext]_registryVars =>
        [\A c \in Contracts, v \in Versions :
           versions[c][v] # None => versions'[c][v] = versions[c][v] \/ entry'[c] = None]_registryVars
  BY StepKeepsVersions
<1> QED BY <1>1, Invariance, PTL DEF RegistrySpec, HistoryImmutable
-----------------------------------------------------------------------------
(* The deposits. *)

\* What the record of c promises in token t.
Owed(t, c) == IF deposit[c] # None /\ deposit[c].token = t THEN deposit[c].amount ELSE 0

Promises(t) == [c \in Contracts |-> Owed(t, c)]

\* DepositsBacked, by token.
LEMMA BackedByToken ==
  DepositsBacked <=> \A t \in Tokens : SumFunction(Promises(t)) <= balance[t][Self]
BY Zenon DEF DepositsBacked, Promises, Owed

\* The same of the state after a step.
LEMMA BackedByTokenNext ==
  ASSUME \A t \in Tokens : SumFunction(Promises(t)') <= balance'[t][Self] PROVE DepositsBacked'
BY Zenon DEF DepositsBacked, Promises, Owed

\* A record promises an amount that is not negative.
LEMMA OwedType ==
  ASSUME deposit \in [Contracts -> Deposits \cup {None}], NEW t, NEW c \in Contracts
  PROVE  Owed(t, c) \in Nat
<1>1. CASE deposit[c] = None
  BY <1>1 DEF Owed
<1>2. CASE deposit[c] # None
  <2>1. deposit[c] \in Deposits
    BY <1>2
  <2> QED BY <2>1, DepositFields DEF Owed
<1> QED BY <1>1, <1>2

\* The same of the state after a step.
LEMMA OwedTypeNext ==
  ASSUME deposit' \in [Contracts -> Deposits \cup {None}], NEW t, NEW c \in Contracts
  PROVE  Owed(t, c)' \in Nat
<1>1. CASE deposit'[c] = None
  BY <1>1 DEF Owed
<1>2. CASE deposit'[c] # None
  <2>1. deposit'[c] \in Deposits
    BY <1>2
  <2> QED BY <2>1, DepositFields DEF Owed
<1> QED BY <1>1, <1>2

\* A step that touches the record of c alone changes what is promised by the
\* difference it makes there.
LEMMA PromisesChange ==
  ASSUME deposit \in [Contracts -> Deposits \cup {None}], deposit' \in [Contracts -> Deposits \cup {None}],
         NEW c \in Contracts, \A d \in Contracts : d # c => deposit'[d] = deposit[d], NEW t
  PROVE  /\ SumFunction(Promises(t)) \in Int
         /\ SumFunction(Promises(t)') = SumFunction(Promises(t)) + Owed(t, c)' - Owed(t, c)
<1>1. Promises(t) \in [Contracts -> Int] /\ Promises(t)[c] = Owed(t, c)
  BY OwedType DEF Promises
<1>2. Promises(t)' \in [Contracts -> Int] /\ Promises(t)'[c] = Owed(t, c)'
  BY OwedTypeNext DEF Promises
<1>3. \A d \in Contracts : d # c => Promises(t)'[d] = Promises(t)[d]
  BY DEF Promises, Owed
<1>4. IsFiniteSet(Contracts)
  OBVIOUS
<1> QED BY <1>1, <1>2, <1>3, <1>4, SumChange

\* What a transfer does to the explorer's own account of each token.
LEMMA TransferSelf ==
  ASSUME balance \in [Tokens -> [Holders -> Nat]],
         NEW token \in Tokens, NEW from \in Holders, NEW to \in Holders, NEW amount \in Nat,
         Transfer(token, from, to, amount), from # to, NEW t \in Tokens
  PROVE  balance'[t][Self] =
           balance[t][Self] + (IF t # token THEN 0 ELSE IF from = Self THEN -amount
                               ELSE IF to = Self THEN amount ELSE 0)
<1> DEFINE change == [h \in Holders |-> CASE h = from -> -amount [] h = to -> amount [] OTHER -> 0]
<1>1. balance' = [balance EXCEPT ![token] = [h \in Holders |-> balance[token][h] + change[h]]]
  BY DEF Transfer
<1>2. Self \in Holders /\ balance[t][Self] \in Nat
  BY DEF Holders
<1>3. CASE t # token
  BY <1>1, <1>2, <1>3
<1>4. CASE t = token
  <2>1. balance'[t][Self] = balance[t][Self] + change[Self]
    BY <1>1, <1>2, <1>4
  <2>2. change[Self] = IF from = Self THEN -amount ELSE IF to = Self THEN amount ELSE 0
    BY <1>2
  <2> QED BY <1>4, <2>1, <2>2
<1> QED BY <1>3, <1>4

\* A registration's deposit is taken in as it is recorded.
LEMMA CollectBacked ==
  ASSUME RegistryTypeOK, NEW caller \in Addresses, NEW c \in Contracts, deposit[c] = None,
         CollectDeposit(caller, c), NEW t \in Tokens,
         SumFunction(Promises(t)) <= balance[t][Self]
  PROVE  SumFunction(Promises(t)') <= balance'[t][Self]
<1>1. CASE UNCHANGED <<deposit, balance>>
  BY <1>1 DEF Promises, Owed
<1>2. CASE /\ depositTerms # None
           /\ Transfer(depositTerms.token, caller, Self, depositTerms.amount)
           /\ deposit' = [deposit EXCEPT ![c] = depositTerms]
  <2>1. depositTerms \in Deposits /\ depositTerms.token \in Tokens /\ depositTerms.amount \in Nat
    BY <1>2, DepositFields DEF RegistryTypeOK
  <2>2. balance'[t][Self] = balance[t][Self] + IF t # depositTerms.token THEN 0 ELSE depositTerms.amount
    <3>1. caller \in Holders /\ Self \in Holders /\ caller # Self /\ balance \in [Tokens -> [Holders -> Nat]]
      BY DEF Holders, RegistryTypeOK
    <3> QED BY <1>2, <2>1, <3>1, TransferSelf
  <2>3. Owed(t, c)' = (IF t # depositTerms.token THEN 0 ELSE depositTerms.amount) /\ Owed(t, c) = 0
    BY <1>2, <2>1 DEF Owed, RegistryTypeOK
  <2>4. /\ SumFunction(Promises(t)) \in Int
        /\ SumFunction(Promises(t)') = SumFunction(Promises(t)) + Owed(t, c)' - Owed(t, c)
    BY CollectType, PromisesChange DEF RegistryTypeOK
  <2>5. balance[t][Self] \in Nat
    BY DEF RegistryTypeOK, Holders
  <2> QED BY <2>1, <2>2, <2>3, <2>4, <2>5
<1> QED BY <1>1, <1>2 DEF CollectDeposit

\* Deregistration pays out no more than the record it deletes.
LEMMA SettleBacked ==
  ASSUME RegistryTypeOK, NEW caller \in Addresses, NEW c \in Contracts, SettleDeposit(caller, c),
         NEW t \in Tokens, SumFunction(Promises(t)) <= balance[t][Self]
  PROVE  SumFunction(Promises(t)') <= balance'[t][Self]
<1>1. Owed(t, c)' = 0
  BY SettleType DEF Owed
<1>2. Owed(t, c) \in Nat
  BY OwedType DEF RegistryTypeOK
<1>3. /\ SumFunction(Promises(t)) \in Int
      /\ SumFunction(Promises(t)') = SumFunction(Promises(t)) + Owed(t, c)' - Owed(t, c)
  BY SettleType, PromisesChange DEF RegistryTypeOK
<1>4. balance[t][Self] \in Nat /\ Self \in Holders
  BY DEF RegistryTypeOK, Holders
<1>5. CASE UNCHANGED balance
  BY <1>1, <1>2, <1>3, <1>4, <1>5
<1>6. ASSUME NEW to \in Addresses, deposit[c] # None, Transfer(deposit[c].token, Self, to, deposit[c].amount)
      PROVE  balance'[t][Self] >= balance[t][Self] - Owed(t, c)
  <2>1. deposit[c].token \in Tokens /\ deposit[c].amount \in Nat
    BY <1>6, DepositFields DEF RegistryTypeOK
  <2>2. to \in Holders /\ to # Self /\ balance \in [Tokens -> [Holders -> Nat]]
    BY DEF Holders, RegistryTypeOK
  <2>3. balance'[t][Self] = balance[t][Self] + IF t # deposit[c].token THEN 0 ELSE -deposit[c].amount
    BY <1>4, <1>6, <2>1, <2>2, TransferSelf
  <2>4. Owed(t, c) = IF t # deposit[c].token THEN 0 ELSE deposit[c].amount
    BY <1>6 DEF Owed
  <2> QED BY <1>4, <2>1, <2>3, <2>4
<1>7. CASE \E to \in Addresses : deposit[c] # None /\ Transfer(deposit[c].token, Self, to, deposit[c].amount)
  <2>1. balance'[t][Self] >= balance[t][Self] - Owed(t, c)
    BY <1>6, <1>7
  <2>2. balance'[t][Self] \in Nat
    BY SettleType, <1>4
  <2> QED BY <1>1, <1>2, <1>3, <1>4, <2>1, <2>2
<1>8. treasury # None => treasury \in Addresses
  BY DEF RegistryTypeOK
<1> QED BY <1>5, <1>7, <1>8 DEF SettleDeposit

\* No call touches the deposits or the books but by those two.
LEMMA StepBacked ==
  ASSUME IInv, DepositsBacked, [RegistryNext]_registryVars PROVE DepositsBacked'
<1>1. RegistryTypeOK /\ NoRemnants
  BY DEF IInv
<1>2. \A t \in Tokens : SumFunction(Promises(t)) <= balance[t][Self]
  BY BackedByToken
<1>3. CASE UNCHANGED <<deposit, balance>>
  BY <1>2, <1>3, BackedByTokenNext DEF Promises, Owed
<1>4. ASSUME NEW caller \in Addresses, NEW c \in Contracts, NEW abi \in Abis, NEW a \in Addresses,
             register_contract(caller, c, abi, a)
      PROVE  DepositsBacked'
  <2>1. CollectDeposit(caller, c) /\ deposit[c] = None
    BY <1>1, <1>4 DEF register_contract, NoRemnants
  <2>2. \A t \in Tokens : SumFunction(Promises(t)') <= balance'[t][Self]
    BY <1>1, <1>2, <2>1, CollectBacked
  <2> QED BY <2>2, BackedByTokenNext
<1>5. ASSUME NEW caller \in Addresses, NEW c \in Contracts, deregister_contract(caller, c)
      PROVE  DepositsBacked'
  <2>1. SettleDeposit(caller, c)
    BY <1>5 DEF deregister_contract
  <2>2. \A t \in Tokens : SumFunction(Promises(t)') <= balance'[t][Self]
    BY <1>1, <1>2, <2>1, SettleBacked
  <2> QED BY <2>2, BackedByTokenNext
<1>6. CASE \E a \in Addresses : init_registry(a)
  BY <1>3, <1>6 DEF init_registry, contractKeys, money
<1>7. ASSUME NEW caller \in Addresses, AdminStep(caller) PROVE UNCHANGED <<deposit, balance>>
  BY <1>7 DEF AdminStep, set_registration_deposit, set_registration_treasury, contractKeys, money
<1>8. ASSUME NEW caller \in Addresses, NEW c \in Contracts, ContractStep(caller, c)
      PROVE  DepositsBacked'
  <2>1. ASSUME NEW meta \in Meta, update_contract(caller, c, meta) PROVE UNCHANGED <<deposit, balance>>
    BY <2>1 DEF update_contract, money
  <2>2. ASSUME NEW a \in Addresses, attest_deployer(caller, c, a) PROVE UNCHANGED <<deposit, balance>>
    BY <2>2 DEF attest_deployer, money
  <2>3. ASSUME claim_contract(c, caller) PROVE UNCHANGED <<deposit, balance>>
    BY <2>3 DEF claim_contract, money
  <2> QED BY <1>3, <1>4, <1>5, <1>8, <2>1, <2>2, <2>3 DEF ContractStep
<1> QED BY <1>3, <1>6, <1>7, <1>8 DEF RegistryNext, registryVars, contractKeys, money

\* Every recorded deposit can be paid out, in any token, whatever the terms and the
\* treasury become after it was taken and in whichever order entries go.
THEOREM DepositsAreBacked == RegistrySpec => []DepositsBacked
<1>1. RegistryInit => DepositsBacked
  <2> SUFFICES ASSUME RegistryInit, NEW t \in Tokens PROVE SumFunction(Promises(t)) <= balance[t][Self]
    BY BackedByToken
  <2>1. Promises(t) \in [Contracts -> Int] /\ \A c \in Contracts : Promises(t)[c] = 0
    BY DEF RegistryInit, Promises, Owed
  <2>2. balance[t][Self] = 0
    BY DEF RegistryInit, Holders
  <2>3. SumFunction(Promises(t)) = 0
    BY <2>1, SumZero
  <2> QED BY <2>2, <2>3
<1>2. IInv /\ DepositsBacked /\ [RegistryNext]_registryVars => DepositsBacked'
  BY StepBacked
<1> QED BY <1>1, <1>2, Invariance, PTL DEF RegistrySpec
=============================================================================
