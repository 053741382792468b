------------------------------- MODULE Access -------------------------------
(***************************************************************************)
(* Paired clients of Core: PairingService (nivelle_core/auth.py),          *)
(* CoreAdminControl (nivelle_core/admin_control.py), and the sockets that  *)
(* Services keeps per client (nivelle_core/app.py).                        *)
(*                                                                         *)
(* A client is named after the pairing request that created it.  One       *)
(* action is the code between two awaits; the administration changes the   *)
(* clients table in one transaction (BEGIN IMMEDIATE).                     *)
(***************************************************************************)
EXTENDS Naturals, FiniteSets

CONSTANTS
  Devices,      \* pairing requests, and the clients they create
  Links,        \* chat and Agent sockets of the clients
  DeviceOf,     \* the client whose token a socket presents
  MaxCodes      \* bound: pairing codes issued

ASSUME AccessAssumption ==
  /\ DeviceOf \in [Links -> Devices]
  /\ MaxCodes \in Nat

VARIABLES
  code,        \* the code in force, 0 when there is none
  issued,      \* codes issued so far; the last one has this number
  pairing,     \* where each pairing request stands
  paired,      \* rows of the clients table
  admins,      \* rows with is_admin
  revoked,     \* rows with revoked_at
  link,        \* where each socket stands
  registered,  \* client_websockets
  disconnect,  \* where disconnect_client of a revoked client stands
  popped,      \* the sockets it took out of client_websockets
  late         \* sockets that were verified and not registered at that time

clientVars == <<paired, admins, revoked>>
pairingVars == <<code, issued, pairing>>
linkVars == <<link, registered, late>>
disconnectVars == <<disconnect, popped>>
accessVars == <<pairingVars, clientVars, linkVars, disconnectVars>>

AccessTypeOK ==
  /\ code \in {0, issued} /\ issued \in 0 .. MaxCodes
  /\ pairing \in [Devices -> {"none", "redeemed", "first", "further", "done"}]
  /\ admins \cup revoked \subseteq paired /\ paired \subseteq Devices
  /\ link \in [Links -> {"none", "verified", "open", "closed"}]
  /\ registered \subseteq {l \in Links : link[l] = "open"}
  /\ disconnect \in [Devices -> {"none", "pending", "closing", "done"}]
  /\ popped \in [Devices -> SUBSET Links]
  /\ late \subseteq Links

AccessInit ==
  /\ code = 0 /\ issued = 0
  /\ pairing = [d \in Devices |-> "none"]
  /\ paired = {} /\ admins = {} /\ revoked = {}
  /\ link = [l \in Links |-> "none"]
  /\ registered = {} /\ late = {}
  /\ disconnect = [d \in Devices |-> "none"]
  /\ popped = [d \in Devices |-> {}]

Active == paired \ revoked
ActiveAdmins == admins \ revoked

-----------------------------------------------------------------------------
(* Pairing.                                                                *)

\* An administrator or the Core window may replace the code at any time; the
\* local route and the start of Core make one if there is none.
GenerateCode ==
  /\ issued < MaxCodes
  /\ code' = issued + 1 /\ issued' = issued + 1
  /\ UNCHANGED <<pairing, clientVars, linkVars, disconnectVars>>

\* Ten minutes passed, or Core restarted: the code is only in memory.
CodeExpires ==
  /\ code # 0
  /\ code' = 0
  /\ UNCHANGED <<issued, pairing, clientVars, linkVars, disconnectVars>>

\* complete() up to its first await: the right code is used up.  A wrong or
\* missing one changes nothing.
Redeem(d) ==
  /\ pairing[d] = "none" /\ code # 0
  /\ code' = 0
  /\ pairing' = [pairing EXCEPT ![d] = "redeemed"]
  /\ UNCHANGED <<issued, clientVars, linkVars, disconnectVars>>

\* pairing_required(): the client is an administrator if there is none now.
ReadRequired(d) ==
  /\ pairing[d] = "redeemed"
  /\ pairing' = [pairing EXCEPT ![d] = IF ActiveAdmins = {} THEN "first" ELSE "further"]
  /\ UNCHANGED <<code, issued, clientVars, linkVars, disconnectVars>>

\* The row is inserted, or that fails and the code is lost.
InsertClient(d) ==
  /\ pairing[d] \in {"first", "further"}
  /\ pairing' = [pairing EXCEPT ![d] = "done"]
  /\ \/ /\ paired' = paired \cup {d}
        /\ admins' = IF pairing[d] = "first" THEN admins \cup {d} ELSE admins
     \/ UNCHANGED <<paired, admins>>
  /\ UNCHANGED <<code, issued, revoked, linkVars, disconnectVars>>

-----------------------------------------------------------------------------
(* Administration.                                                         *)

\* Variant: a revoked administrator counts.
AnotherAdminEver(d) == admins \ {d} # {}

\* _require_another_admin, inside the transaction.
AnotherAdmin(d) == ActiveAdmins \ {d} # {}

GrantAdmin(d) ==
  /\ d \in Active \ admins
  /\ admins' = admins \cup {d}
  /\ UNCHANGED <<pairingVars, paired, revoked, linkVars, disconnectVars>>

WithdrawAdmin(d) ==
  /\ d \in ActiveAdmins /\ AnotherAdmin(d)
  /\ admins' = admins \ {d}
  /\ UNCHANGED <<pairingVars, paired, revoked, linkVars, disconnectVars>>

RevokeClient(d) ==
  /\ d \in Active
  /\ d \in admins => AnotherAdmin(d)
  /\ revoked' = revoked \cup {d}
  /\ disconnect' = [disconnect EXCEPT ![d] = "pending"]
  /\ UNCHANGED <<pairingVars, paired, admins, linkVars, popped>>

\* Variant: the sockets are forgotten, not closed.
PopSocketsOnly(d) ==
  /\ disconnect[d] = "pending"
  /\ disconnect' = [disconnect EXCEPT ![d] = "closing"]
  /\ registered' = {l \in registered : DeviceOf[l] # d}
  /\ late' = late \cup {l \in Links : DeviceOf[l] = d /\ link[l] = "verified"}
  /\ UNCHANGED <<pairingVars, clientVars, link, popped>>

\* disconnect_client: the sockets known now are taken out at once, then the
\* Agent session is ended and each of them closed.
PopSockets(d) ==
  /\ disconnect[d] = "pending"
  /\ disconnect' = [disconnect EXCEPT ![d] = "closing"]
  /\ popped' = [popped EXCEPT ![d] = {l \in registered : DeviceOf[l] = d}]
  /\ registered' = {l \in registered : DeviceOf[l] # d}
  /\ late' = late \cup {l \in Links : DeviceOf[l] = d /\ link[l] = "verified"}
  /\ UNCHANGED <<pairingVars, clientVars, link>>

CloseSockets(d) ==
  /\ disconnect[d] = "closing"
  /\ disconnect' = [disconnect EXCEPT ![d] = "done"]
  /\ link' = [l \in Links |-> IF l \in popped[d] THEN "closed" ELSE link[l]]
  /\ UNCHANGED <<pairingVars, clientVars, registered, late, popped>>

-----------------------------------------------------------------------------
(* Sockets.                                                                *)

\* _verify reads the rows that are not revoked; what follows is asynchronous.
Verify(l) ==
  /\ link[l] = "none" /\ DeviceOf[l] \in Active
  /\ link' = [link EXCEPT ![l] = "verified"]
  /\ UNCHANGED <<pairingVars, clientVars, registered, late, disconnectVars>>

\* accept() and register_client_websocket.
RegisterSocket(l) ==
  /\ link[l] = "verified"
  /\ link' = [link EXCEPT ![l] = "open"]
  /\ registered' = registered \cup {l}
  /\ UNCHANGED <<pairingVars, clientVars, late, disconnectVars>>

\* Variant: the socket stays registered.
LeaveSocketRegistered(l) ==
  /\ link[l] = "open"
  /\ link' = [link EXCEPT ![l] = "closed"]
  /\ UNCHANGED <<pairingVars, clientVars, registered, late, disconnectVars>>

\* The client leaves: unregister_client_websocket.
UnregisterSocket(l) ==
  /\ link[l] = "open"
  /\ link' = [link EXCEPT ![l] = "closed"]
  /\ registered' = registered \ {l}
  /\ UNCHANGED <<pairingVars, clientVars, late, disconnectVars>>

-----------------------------------------------------------------------------
AccessNext ==
  \/ GenerateCode \/ CodeExpires
  \/ \E d \in Devices :
       \/ Redeem(d) \/ ReadRequired(d) \/ InsertClient(d)
       \/ GrantAdmin(d) \/ WithdrawAdmin(d)
       \/ RevokeClient(d) \/ PopSockets(d) \/ CloseSockets(d)
  \/ \E l \in Links : Verify(l) \/ RegisterSocket(l) \/ UnregisterSocket(l)

AccessSpec == AccessInit /\ [][AccessNext]_accessVars

-----------------------------------------------------------------------------
(* Properties.                                                             *)

\* admin_control.py:103-160: whatever requests and administrators do at the
\* same time, an installation that has an administrator keeps one.
AnAdminRemains == [][ActiveAdmins # {} => ActiveAdmins' # {}]_accessVars

\* admin_control.py:132-163 and app.py:193-205: once a revocation is over, the
\* client has no socket that was open or registered before it; only one whose
\* handshake was under way can be left.
RevocationEndsSockets ==
  \A l \in Links :
    link[l] \in {"verified", "open"} /\ disconnect[DeviceOf[l]] = "done" => l \in late
=============================================================================
