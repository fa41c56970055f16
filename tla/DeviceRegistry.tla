--------------------------- MODULE DeviceRegistry ---------------------------
(***************************************************************************)
(* The fleet's device registry (app/fleet/device_registry.py): single-use  *)
(* pairing codes and the devices enrolled with them, in one SQLite file.   *)
(* Every transaction below runs under the registry's lock, so each is one  *)
(* step; assert_authorized and heartbeat are several transactions, and     *)
(* FleetSync interleaves those of different requests.                      *)
(*                                                                         *)
(* A device is enrolled at most once (device_id is the primary key), so    *)
(* the secret token of an enrolment is named by its device.                *)
(***************************************************************************)
EXTENDS FiniteSets

CONSTANTS
    Code,       \* pairing codes create_pairing_token may draw
    Device,     \* device ids
    Key,        \* X25519 public keys
    None        \* neither a code nor a key

ASSUME RegistryAssumption == None \notin Code /\ None \notin Key

VARIABLES
    code,       \* row of each code: "unmade", "open", "lapsed" or "used"
    status,     \* row of each device: "unpaired" or its status column
    keyOf,      \* public_key of each device
    quiet,      \* active devices not heard from for heartbeat_ttl_seconds
    paidBy      \* history: the code each device was enrolled with

registry == <<code, status, keyOf, quiet, paidBy>>

Status == {"unpaired", "active", "expired", "revoked"}
Paired == {d \in Device : status[d] # "unpaired"}

RegistryTypeOK ==
    /\ code \in [Code -> {"unmade", "open", "lapsed", "used"}]
    /\ status \in [Device -> Status]
    /\ keyOf \in [Device -> Key \cup {None}]
    /\ quiet \subseteq Device
    /\ paidBy \in [Device -> Code \cup {None}]

RegistryInit ==
    /\ code = [c \in Code |-> "unmade"]
    /\ status = [d \in Device |-> "unpaired"]
    /\ keyOf = [d \in Device |-> None]
    /\ quiet = {}
    /\ paidBy = [d \in Device |-> None]

-----------------------------------------------------------------------------
CreatePairingToken(c) ==
    /\ code[c] = "unmade"
    /\ code' = [code EXCEPT ![c] = "open"]
    /\ UNCHANGED <<status, keyOf, quiet, paidBy>>

\* The clock passes the code's expires_at.
Lapse(c) ==
    /\ code[c] = "open"
    /\ code' = [code EXCEPT ![c] = "lapsed"]
    /\ UNCHANGED <<status, keyOf, quiet, paidBy>>

\* device_id is PRIMARY KEY, public_key is UNIQUE.
Insertable(d, k) ==
    /\ status[d] = "unpaired"
    /\ \A e \in Paired : keyOf[e] # k

\* MUTANT: the code is committed as consumed before the device is inserted.
CommittedEarly(c) == [code EXCEPT ![c] = "used"]

\* The insert failed: the connection goes without a commit and takes the
\* UPDATE of the code with it.
AfterFailure(c) == code

Enroll(c, d, k) ==
    /\ code[c] = "open"
    /\ \/ /\ Insertable(d, k)
          /\ code' = [code EXCEPT ![c] = "used"]
          /\ status' = [status EXCEPT ![d] = "active"]
          /\ keyOf' = [keyOf EXCEPT ![d] = k]
          /\ paidBy' = [paidBy EXCEPT ![d] = c]
       \/ /\ ~Insertable(d, k)
          /\ code' = AfterFailure(c)
          /\ UNCHANGED <<status, keyOf, paidBy>>
    /\ UNCHANGED quiet

\* The last heartbeat of a device falls behind the cutoff.
FallQuiet(d) ==
    /\ status[d] = "active" /\ d \notin quiet
    /\ quiet' = quiet \cup {d}
    /\ UNCHANGED <<code, status, keyOf, paidBy>>

ExpireStaleDevices ==
    /\ status' = [d \in Device |->
                    IF status[d] = "active" /\ d \in quiet THEN "expired"
                                                           ELSE status[d]]
    /\ UNCHANGED <<code, keyOf, quiet, paidBy>>

\* assert_authorized after the expiry: the row, its key and its token.
Authorized(d, key, token, requireToken) ==
    /\ status[d] = "active"
    /\ key \in {None, keyOf[d]}
    /\ requireToken => token = d

\* MUTANT: as in fleet_heartbeat, a heartbeat also makes the device active.
Reviving(d) == [status EXCEPT ![d] = "active"]

\* Heartbeat's UPDATE names no column but last_heartbeat ...
Beaten(d) == status

\* ... and has no condition on the status.
WriteHeartbeat(d) ==
    /\ status[d] # "unpaired"
    /\ status' = Beaten(d)
    /\ quiet' = quiet \ {d}
    /\ UNCHANGED <<code, keyOf, paidBy>>

Revoke(d) ==
    /\ status[d] # "unpaired"
    /\ status' = [status EXCEPT ![d] = "revoked"]
    /\ UNCHANGED <<code, keyOf, quiet, paidBy>>

\* list_active and create/enroll/revoke come from the administrator's RPCs.
Administer ==
    \/ \E c \in Code : CreatePairingToken(c) \/ Lapse(c)
    \/ \E c \in Code, d \in Device, k \in Key : Enroll(c, d, k)
    \/ \E d \in Device : Revoke(d) \/ FallQuiet(d)
    \/ ExpireStaleDevices

RegistryNext == Administer \/ \E d \in Device : WriteHeartbeat(d)

RegistrySpec == RegistryInit /\ [][RegistryNext]_registry

-----------------------------------------------------------------------------
(* A pairing code is used up exactly when it paid for a device, and it     *)
(* never pays for two: an enrolment that fails half way, after the code    *)
(* was marked as consumed, leaves the code for the retry.                  *)
CodePaysForOne ==
    /\ \A c \in Code : code[c] = "used" <=> \E d \in Paired : paidBy[d] = c
    /\ \A d, e \in Paired : paidBy[d] = paidBy[e] => d = e

(* Two devices never share a key, so a key names the device it is checked  *)
(* against, also for devices that were revoked or have expired.            *)
KeysApart == \A d, e \in Paired : keyOf[d] = keyOf[e] => d = e

(* A device that was revoked or has expired is never authorised again:     *)
(* not by a heartbeat that was on its way, not by a second enrolment.      *)
GoneIsFinal ==
    [][\A d \in Device :
         /\ status[d] = "revoked" => status'[d] = "revoked"
         /\ status[d] = "expired" => status'[d] \in {"expired", "revoked"}]_registry
=============================================================================
