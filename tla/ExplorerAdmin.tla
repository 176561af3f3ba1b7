---------------------------- MODULE ExplorerAdmin ----------------------------
(***************************************************************************)
(* The administrator and the pause switch of the on-chain explorer         *)
(* contract (contracts/explorer/src/lib.rs), shared by its two halves, the *)
(* event log and the contract registry.  A contract call is one ledger     *)
(* transaction: an action is a whole call that succeeds, and a call that   *)
(* panics changes nothing.                                                 *)
(***************************************************************************)
CONSTANTS
    Addresses,   \* accounts and contracts that may call
    NoAdmin      \* the admin key before init

ASSUME AdminAssumption == NoAdmin \notin Addresses

VARIABLES admin, paused

AdminInit == admin = NoAdmin /\ paused = FALSE

\* init's part here: anyone may call it, once.
InitAdmin(newAdmin) == admin = NoAdmin /\ admin' = newAdmin /\ UNCHANGED paused

require_admin(caller) == caller = admin

ensure_writable == ~paused

transfer_admin(caller, newAdmin) ==
    require_admin(caller) /\ admin' = newAdmin /\ UNCHANGED paused

pause(caller) == require_admin(caller) /\ paused' = TRUE /\ UNCHANGED admin

unpause(caller) == require_admin(caller) /\ paused' = FALSE /\ UNCHANGED admin

AdminTypeOK == admin \in Addresses \cup {NoAdmin} /\ paused \in BOOLEAN
=============================================================================
