-------------------------- MODULE ExplorerRegistry --------------------------
(***************************************************************************)
(* The on-chain contract registry of the explorer contract: metadata of    *)
(* Soroban contracts with a history of ABI versions, verified ownership,   *)
(* and a refundable registration deposit (contracts/explorer/src/lib.rs:   *)
(* register_contract, update_contract, deregister_contract,                *)
(* attest_deployer, claim_contract, set_registration_*; the decisions are  *)
(* state.rs).  Calls are transactions, as in ExplorerAdmin: a failed       *)
(* require, transfer or lookup leaves everything as it was.                *)
(***************************************************************************)
EXTENDS ExplorerAdmin, Integers, Functions, FiniteSets

CONSTANTS
    Contracts,      \* contract ids
    Abis,           \* what a ContractMeta says, but for the fields below
    InvalidAbis,    \* those validate_meta rejects
    Tokens,         \* deposit tokens
    ViewAnswers,    \* per contract: whom its admin() or owner() view may name
    None,           \* an absent storage key
    Self,           \* the explorer contract's own address
    MaxVersion,     \* bound: the largest abi_version (u32::MAX)
    Amounts,        \* bound: the deposits the admin may ask for (i128)
    Funds           \* bound: what an account holds of each token at first

ASSUME RegistryAssumption ==
    /\ None \notin Addresses /\ Self \notin Addresses /\ None # Self
    /\ IsFiniteSet(Contracts) /\ InvalidAbis \subseteq Abis
    /\ ViewAnswers \in [Contracts -> SUBSET Addresses]
    /\ MaxVersion \in Nat /\ Funds \in Nat
    /\ Amounts \subseteq Int

Versions == 0..MaxVersion
Holders  == Addresses \cup {Self}
Meta     == [abi : Abis, abi_version : Versions, registered_by : Addresses]
Deposits == [amount : {a \in Amounts : a >= 0}, token : Tokens]

ASSUME NoneAssumption == None \notin Meta /\ None \notin Deposits

VARIABLES
    entry,          \* Contract(id): the latest metadata
    versions,       \* ContractVersion(id, v)
    owner,          \* Ownership(id).owner
    deployer,       \* Deployer(id)
    deposit,        \* ContractDeposit(id)
    depositTerms,   \* RegistrationDepositAmount and RegistrationDepositToken
    treasury,       \* RegistrationTreasury
    balance         \* the tokens' own books

contractKeys == <<entry, versions, owner, deployer, deposit>>
money == <<depositTerms, treasury, balance>>
registryVars == <<admin, paused, contractKeys, money>>

-----------------------------------------------------------------------------
(* state.rs *)

can_modify_entry(c, caller) == require_admin(caller) \/ caller = entry[c].registered_by

\* Once claimed, only the verified owner's word counts.
can_update_entry(c, caller) ==
    IF owner[c] = None THEN can_modify_entry(c, caller) ELSE owner[c] = caller

\* Mutant: no check of the submitted version.
next_abi_version_any(current, submitted) == submitted \in Versions

next_abi_version(current, submitted) ==
    submitted = current + 1 /\ submitted <= MaxVersion

\* Mutant: an exclusive range.
versions_to_remove_exclusive(v) == 0..(v - 1)

versions_to_remove(v) == 0..v

validate_meta(abi) == abi \notin InvalidAbis

-----------------------------------------------------------------------------
\* token::Client::transfer between two accounts; it traps if the payer has too little.
Transfer(token, from, to, amount) ==
    /\ balance[token][from] >= amount
    /\ LET change == [h \in Holders |-> CASE h = from -> -amount [] h = to -> amount [] OTHER -> 0]
       IN  balance' = [balance EXCEPT ![token] = [h \in Holders |-> @[h] + change[h]]]

CollectDeposit(caller, c) ==
    \/ depositTerms = None /\ UNCHANGED <<deposit, balance>>
    \/ depositTerms # None /\ depositTerms.amount <= 0 /\ UNCHANGED <<deposit, balance>>
    \/ /\ depositTerms # None /\ depositTerms.amount > 0
       /\ Transfer(depositTerms.token, caller, Self, depositTerms.amount)
       /\ deposit' = [deposit EXCEPT ![c] = depositTerms]

\* Mutant: the record outlives the refund.
SettleDepositKeepsRecord(caller, c) ==
    /\ UNCHANGED deposit
    /\ IF deposit[c] # None /\ caller = entry[c].registered_by
       THEN Transfer(deposit[c].token, Self, caller, deposit[c].amount)
       ELSE UNCHANGED balance

\* The registrant gets it back; when the admin evicts somebody else's entry it
\* goes to the treasury, or stays in the contract for want of one.
SettleDeposit(caller, c) ==
    /\ deposit' = [deposit EXCEPT ![c] = None]
    /\ \/ deposit[c] = None /\ UNCHANGED balance
       \/ /\ deposit[c] # None /\ caller = entry[c].registered_by
          /\ Transfer(deposit[c].token, Self, caller, deposit[c].amount)
       \/ /\ deposit[c] # None /\ caller # entry[c].registered_by
          /\ IF treasury = None THEN UNCHANGED balance
             ELSE Transfer(deposit[c].token, Self, treasury, deposit[c].amount)

-----------------------------------------------------------------------------
RegistryInit ==
    /\ AdminInit
    /\ entry = [c \in Contracts |-> None]
    /\ versions = [c \in Contracts |-> [v \in Versions |-> None]]
    /\ owner = [c \in Contracts |-> None]
    /\ deployer = [c \in Contracts |-> None]
    /\ deposit = [c \in Contracts |-> None]
    /\ depositTerms = None /\ treasury = None
    /\ balance = [t \in Tokens |-> [h \in Holders |-> IF h = Self THEN 0 ELSE Funds]]

init_registry(newAdmin) == InitAdmin(newAdmin) /\ UNCHANGED <<contractKeys, money>>

set_registration_deposit(caller, amount, token) ==
    /\ require_admin(caller)
    /\ amount >= 0
    /\ depositTerms' = [amount |-> amount, token |-> token]
    /\ UNCHANGED <<admin, paused, contractKeys, treasury, balance>>

set_registration_treasury(caller, account) ==
    /\ require_admin(caller)
    /\ treasury' = account
    /\ UNCHANGED <<admin, paused, contractKeys, depositTerms, balance>>

\* The registrant named in the metadata need not be the caller, who is the admin
\* and pays.
register_contract(caller, c, abi, registrant) ==
    /\ ensure_writable
    /\ require_admin(caller)
    /\ entry[c] = None
    /\ validate_meta(abi)
    /\ LET stored == [abi |-> abi, abi_version |-> 0, registered_by |-> registrant]
       IN  /\ entry' = [entry EXCEPT ![c] = stored]
           /\ versions' = [versions EXCEPT ![c][0] = stored]
    /\ CollectDeposit(caller, c)
    /\ UNCHANGED <<admin, paused, owner, deployer, depositTerms, treasury>>

\* The submitted metadata replaces the entry whole, its registrant included.
update_contract(caller, c, meta) ==
    /\ ensure_writable
    /\ entry[c] # None
    /\ can_update_entry(c, caller)
    /\ next_abi_version(entry[c].abi_version, meta.abi_version)
    /\ validate_meta(meta.abi)
    /\ entry' = [entry EXCEPT ![c] = meta]
    /\ versions' = [versions EXCEPT ![c][meta.abi_version] = meta]
    /\ UNCHANGED <<admin, paused, owner, deployer, deposit, money>>

deregister_contract(caller, c) ==
    /\ ensure_writable
    /\ entry[c] # None
    /\ can_modify_entry(c, caller)
    /\ SettleDeposit(caller, c)
    /\ entry' = [entry EXCEPT ![c] = None]
    /\ owner' = [owner EXCEPT ![c] = None]
    /\ deployer' = [deployer EXCEPT ![c] = None]
    /\ versions' = [versions EXCEPT ![c] =
                      [v \in Versions |->
                         IF v \in versions_to_remove(entry[c].abi_version) THEN None ELSE versions[c][v]]]
    /\ UNCHANGED <<admin, paused, depositTerms, treasury>>

\* Also for a contract that is not registered.
attest_deployer(caller, c, account) ==
    /\ ensure_writable
    /\ require_admin(caller)
    /\ deployer' = [deployer EXCEPT ![c] = account]
    /\ UNCHANGED <<admin, paused, entry, versions, owner, deposit, money>>

\* try_view_address: the target's views may name the claimant, or fail.
ViewNames(c, claimant) == claimant \in ViewAnswers[c]

\* Mutant: the new registrant goes into the version history too, under version 0.
claim_contract_rewrites(c, claimant) ==
    /\ ensure_writable
    /\ entry[c] # None /\ owner[c] = None
    /\ ViewNames(c, claimant) \/ deployer[c] = claimant
    /\ entry' = [entry EXCEPT ![c].registered_by = claimant]
    /\ versions' = [versions EXCEPT ![c][0] = entry'[c]]
    /\ owner' = [owner EXCEPT ![c] = claimant]
    /\ UNCHANGED <<admin, paused, deployer, deposit, money>>

\* The version history keeps the registrant it was written with.
claim_contract(c, claimant) ==
    /\ ensure_writable
    /\ entry[c] # None /\ owner[c] = None
    /\ ViewNames(c, claimant) \/ deployer[c] = claimant
    /\ entry' = [entry EXCEPT ![c].registered_by = claimant]
    /\ owner' = [owner EXCEPT ![c] = claimant]
    /\ UNCHANGED <<admin, paused, versions, deployer, deposit, money>>

-----------------------------------------------------------------------------
AdminStep(caller) ==
    \/ \E a \in Addresses : transfer_admin(caller, a) /\ UNCHANGED <<contractKeys, money>>
    \/ pause(caller) /\ UNCHANGED <<contractKeys, money>>
    \/ unpause(caller) /\ UNCHANGED <<contractKeys, money>>
    \/ \E amount \in Amounts, token \in Tokens : set_registration_deposit(caller, amount, token)
    \/ \E a \in Addresses : set_registration_treasury(caller, a)

ContractStep(caller, c) ==
    \/ \E abi \in Abis, a \in Addresses : register_contract(caller, c, abi, a)
    \/ \E meta \in Meta : update_contract(caller, c, meta)
    \/ deregister_contract(caller, c)
    \/ \E a \in Addresses : attest_deployer(caller, c, a)
    \/ claim_contract(c, caller)

RegistryNext ==
    \/ \E a \in Addresses : init_registry(a)
    \/ \E caller \in Addresses :
         AdminStep(caller) \/ \E c \in Contracts : ContractStep(caller, c)

RegistrySpec == RegistryInit /\ [][RegistryNext]_registryVars
-----------------------------------------------------------------------------
(* Properties. *)

RegistryTypeOK ==
    /\ AdminTypeOK
    /\ entry \in [Contracts -> Meta \cup {None}]
    /\ versions \in [Contracts -> [Versions -> Meta \cup {None}]]
    /\ owner \in [Contracts -> Addresses \cup {None}]
    /\ deployer \in [Contracts -> Addresses \cup {None}]
    /\ deposit \in [Contracts -> Deposits \cup {None}]
    /\ depositTerms \in Deposits \cup {None}
    /\ treasury \in Addresses \cup {None}
    /\ balance \in [Tokens -> [Holders -> Nat]]

\* I6 and more: a contract that is not registered has no version, verified owner
\* or deposit left over from an earlier registration, so that the next one starts
\* afresh.
NoRemnants ==
    \A c \in Contracts : entry[c] = None =>
        /\ owner[c] = None /\ deposit[c] = None
        /\ \A v \in Versions : versions[c][v] = None

\* get_contract_version answers for exactly 0..abi_version, each time with that
\* version, and its newest answer says what get_contract says (claim_contract
\* changes the registrant of the entry only).
HistoryExact ==
    \A c \in Contracts : entry[c] # None =>
        /\ \A v \in Versions :
             IF v <= entry[c].abi_version
             THEN versions[c][v] # None /\ versions[c][v].abi_version = v
             ELSE versions[c][v] = None
        /\ versions[c][entry[c].abi_version].abi = entry[c].abi

\* A published ABI version is never rewritten: whatever is called, by whomever, a
\* stored version stays as it is until its contract is deregistered.
HistoryImmutable ==
    [][\A c \in Contracts, v \in Versions :
         versions[c][v] # None => versions'[c][v] = versions[c][v] \/ entry'[c] = None]_registryVars

\* Every recorded deposit can be paid out: the explorer holds of each token at
\* least what its deposit records promise, though the terms, the token and the
\* treasury change under them and any deregistration may come first.
DepositsBacked ==
    \A t \in Tokens :
        SumFunction([c \in Contracts |->
                       IF deposit[c] # None /\ deposit[c].token = t THEN deposit[c].amount ELSE 0])
          <= balance[t][Self]
=============================================================================
