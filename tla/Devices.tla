------------------------------ MODULE Devices ------------------------------
(***************************************************************************)
(* Paired devices: auth.Service with its tables in the database, the API's *)
(* handlers for pairing, refresh and push registration, authorize and the  *)
(* event stream, and device-revoke of cellbridge-admin, which is a process *)
(* of its own on the same database.  Every statement of the database is a  *)
(* step (one connection, so statements do not overlap); between two of     *)
(* them any other request runs, a statement may fail, and the gateway may  *)
(* crash and forget what it has in memory.                                 *)
(*                                                                         *)
(* A device is named after the completion that created it, a token after   *)
(* the request that issued it.                                             *)
(***************************************************************************)
EXTENDS Integers, FiniteSets

CONSTANTS
    Pairings,     \* pairing records
    Completions,  \* requests pairing/complete
    Refreshes,    \* requests auth/refresh
    Others,       \* other authorized requests: push registrations and event streams
    None,
    MaxFaults     \* bound: failures of a statement, lost responses and crashes

Issuers == Completions \union Refreshes
Requests == Issuers \union Others
Kinds == {"access", "refresh"}
Tokens == Issuers \X Kinds

ASSUME DeviceConstants ==
    /\ Completions \intersect Refreshes = {} /\ Issuers \intersect Others = {}
    /\ None \notin Requests \union Pairings /\ MaxFaults \in Nat

VARIABLES
    open,      \* Service.pairings: records nobody has completed
    expired,   \* pairings and tokens whose time has passed
    device,    \* rows of devices
    token,     \* rows of device_tokens: the device, and whether revoked_at is set
    push,      \* devices whose row has push tokens
    at,        \* where the goroutine of a request is
    who,       \* the device a request found its token to belong to
    using,     \* the pairing or token a request presented
    holds,     \* tokens a device was given in a response
    redeemed,  \* redeemed[p]: completions that created a device from p
    faults     \* failures so far

disk == <<device, token, push>>
vars == <<open, expired, disk, at, who, using, holds, redeemed, faults>>

States == {"idle", "create", "revoke", "access", "refresh", "answer", "register", "stream", "done"}
NoRow == [of |-> None, revoked |-> FALSE]

TypeOK ==
    /\ open \subseteq Pairings /\ expired \subseteq Pairings \union Tokens
    /\ device \in [Completions -> {"none", "active", "revoked"}]
    /\ token \in [Tokens -> [of : Completions \union {None}, revoked : BOOLEAN]]
    /\ push \subseteq Completions
    /\ at \in [Requests -> States] /\ who \in [Requests -> Completions \union {None}]
    /\ using \in [Requests -> Pairings \union Tokens \union {None}]
    /\ holds \subseteq Tokens /\ redeemed \in [Pairings -> SUBSET Completions]
    /\ faults \in 0..MaxFaults

Init ==
    /\ open = {} /\ expired = {} /\ push = {} /\ holds = {} /\ faults = 0
    /\ device = [c \in Completions |-> "none"] /\ token = [t \in Tokens |-> NoRow]
    /\ at = [r \in Requests |-> "idle"] /\ who = [r \in Requests |-> None]
    /\ using = [r \in Requests |-> None] /\ redeemed = [p \in Pairings |-> {}]

Goes(r, to) == at' = [at EXCEPT ![r] = to]
Fails(r) == faults < MaxFaults /\ faults' = faults + 1 /\ Goes(r, "done")

\* Mutant: the row of the token alone.
UsableByItself(t) == token[t].of # None /\ ~token[t].revoked

\* LookupToken: the row joined with the row of its device.
Usable(t) == token[t].of # None /\ ~token[t].revoked /\ device[token[t].of] = "active"

Lookup(t) == t \notin expired /\ Usable(t)

-----------------------------------------------------------------------------
(* Pairing.                                                                *)

\* StartPairing and StartPairingFromTailnet, for an address they accept.
StartPairing(p) ==
    /\ p \notin open \union expired /\ redeemed[p] = {}
    /\ \A c \in Completions : using[c] # p
    /\ open' = open \union {p}
    /\ UNCHANGED <<expired, disk, at, who, using, holds, redeemed, faults>>

\* Mutant: the record is left for the next one that completes it.
CompleteKeeps(c, p) ==
    /\ at[c] = "idle" /\ p \in Pairings
    /\ using' = [using EXCEPT ![c] = p]
    /\ \/ p \in open \ expired /\ Goes(c, "create")
       \/ Goes(c, "done")
    /\ UNCHANGED <<open, expired, disk, who, holds, redeemed, faults>>

\* Complete: the record is consumed under Service.mu, then it and the proof are verified.
Complete(c, p) ==
    /\ at[c] = "idle" /\ p \in Pairings
    /\ using' = [using EXCEPT ![c] = p]
    /\ open' = open \ {p}
    /\ \/ p \in open \ expired /\ Goes(c, "create")
       \/ Goes(c, "done")
    /\ UNCHANGED <<expired, disk, who, holds, redeemed, faults>>

CreateDevice(c) ==
    /\ at[c] = "create"
    /\ \/ /\ device' = [device EXCEPT ![c] = "active"] /\ who' = [who EXCEPT ![c] = c]
          /\ redeemed' = [redeemed EXCEPT ![using[c]] = @ \union {c}]
          /\ Goes(c, "access") /\ UNCHANGED faults
       \/ Fails(c) /\ UNCHANGED <<device, who, redeemed>>
    /\ UNCHANGED <<open, expired, token, push, using, holds>>

-----------------------------------------------------------------------------
(* Tokens.                                                                 *)

\* issueTokens: one INSERT after the other.
StoreToken(r, kind, next) ==
    /\ at[r] = kind
    /\ \/ /\ token' = [token EXCEPT ![<<r, kind>>] = [of |-> who[r], revoked |-> FALSE]]
          /\ Goes(r, next) /\ UNCHANGED faults
       \/ Fails(r) /\ UNCHANGED token
    /\ UNCHANGED <<open, expired, device, push, who, using, holds, redeemed>>

IssueTokens(r) == StoreToken(r, "access", "refresh") \/ StoreToken(r, "refresh", "answer")

\* The response reaches the device, or it does not.
Respond(r) ==
    /\ at[r] = "answer"
    /\ \/ holds' = holds \union {<<r, k>> : k \in Kinds} /\ Goes(r, "done") /\ UNCHANGED faults
       \/ Fails(r) /\ UNCHANGED holds
    /\ UNCHANGED <<open, expired, disk, who, using, redeemed>>

\* Refresh, with a refresh token that the device has.
Refresh(r, t) ==
    /\ at[r] = "idle" /\ r \in Refreshes /\ t \in holds /\ t[2] = "refresh"
    /\ using' = [using EXCEPT ![r] = t]
    /\ \/ /\ Lookup(t) /\ who' = [who EXCEPT ![r] = token[t].of] /\ Goes(r, "revoke")
       \/ /\ ~Lookup(t) /\ Goes(r, "done") /\ UNCHANGED who
    /\ UNCHANGED <<open, expired, disk, holds, redeemed, faults>>

\* Mutant: without asking how many rows changed.
RevokeAnyway(r) ==
    /\ at[r] = "revoke"
    /\ token' = [token EXCEPT ![using[r]].revoked = TRUE] /\ Goes(r, "access")
    /\ UNCHANGED <<open, expired, device, push, who, using, holds, redeemed, faults>>

\* Mutant: a token that is presented again revokes every token of its device.
RevokeFamily(r) ==
    /\ at[r] = "revoke"
    /\ \/ /\ ~token[using[r]].revoked /\ Goes(r, "access")
          /\ token' = [token EXCEPT ![using[r]].revoked = TRUE]
       \/ /\ token[using[r]].revoked /\ Goes(r, "done")
          /\ token' = [t \in Tokens |-> [token[t] EXCEPT !.revoked = @ \/ token[t].of = who[r]]]
    /\ UNCHANGED <<open, expired, device, push, who, using, holds, redeemed, faults>>

\* RevokeToken: UPDATE ... WHERE revoked_at IS NULL, which must change a row.
RevokeToken(r) ==
    /\ at[r] = "revoke"
    /\ \/ /\ ~token[using[r]].revoked
          /\ token' = [token EXCEPT ![using[r]].revoked = TRUE]
          /\ Goes(r, "access") /\ UNCHANGED faults
       \/ token[using[r]].revoked /\ Goes(r, "done") /\ UNCHANGED <<token, faults>>
       \/ Fails(r) /\ UNCHANGED token
    /\ UNCHANGED <<open, expired, device, push, who, using, holds, redeemed>>

\* device-revoke: one transaction, refused for a device that is revoked already.
RevokeDevice(c) ==
    /\ device[c] = "active"
    /\ device' = [device EXCEPT ![c] = "revoked"]
    /\ token' = [t \in Tokens |-> IF token[t].of = c THEN [token[t] EXCEPT !.revoked = TRUE]
                                                     ELSE token[t]]
    /\ UNCHANGED <<open, expired, push, at, who, using, holds, redeemed, faults>>

-----------------------------------------------------------------------------
(* Authorized requests.                                                    *)

\* authorize: the handler that follows asks no more.
Authorize(r, t, handler) ==
    /\ at[r] = "idle" /\ r \in Others /\ t \in holds /\ t[2] = "access"
    /\ using' = [using EXCEPT ![r] = t]
    /\ \/ /\ Lookup(t) /\ who' = [who EXCEPT ![r] = token[t].of] /\ Goes(r, handler)
       \/ /\ ~Lookup(t) /\ Goes(r, "done") /\ UNCHANGED who
    /\ UNCHANGED <<open, expired, disk, holds, redeemed, faults>>

\* RegisterPush: UPDATE devices ... WHERE revoked_at IS NULL.
RegisterPush(r) ==
    /\ at[r] = "register"
    /\ push' = IF device[who[r]] = "active" THEN push \union {who[r]} ELSE push
    /\ Goes(r, "done")
    /\ UNCHANGED <<open, expired, device, token, who, using, holds, redeemed, faults>>

\* The loop of the event stream: it ends when the connection does.
StreamEnds(r) ==
    /\ at[r] = "stream" /\ Goes(r, "done")
    /\ UNCHANGED <<open, expired, disk, who, using, holds, redeemed, faults>>

-----------------------------------------------------------------------------
(* Time and crashes.                                                       *)

\* PairingLifetime, AccessLifetime and RefreshLifetime, in any order.
Expire(x) ==
    /\ x \in open \/ x \in {t \in Tokens : token[t].of # None}
    /\ x \notin expired /\ expired' = expired \union {x}
    /\ UNCHANGED <<open, disk, at, who, using, holds, redeemed, faults>>

Crash ==
    /\ faults < MaxFaults /\ faults' = faults + 1
    /\ open' = {} /\ at' = [r \in Requests |-> IF at[r] = "idle" THEN "idle" ELSE "done"]
    /\ UNCHANGED <<expired, disk, who, using, holds, redeemed>>

-----------------------------------------------------------------------------
(* The handlers of the API.                                                *)

PairingComplete(c) ==
    (\E p \in Pairings : Complete(c, p)) \/ CreateDevice(c) \/ IssueTokens(c) \/ Respond(c)

RefreshTokens(r) ==
    (\E t \in Tokens : Refresh(r, t)) \/ RevokeToken(r) \/ IssueTokens(r) \/ Respond(r)

DeviceAction(r) == (\E t \in Tokens : Authorize(r, t, "register")) \/ RegisterPush(r)

EventStream(r) == (\E t \in Tokens : Authorize(r, t, "stream")) \/ StreamEnds(r)

Next ==
    \/ \E p \in Pairings : StartPairing(p)
    \/ \E c \in Completions : PairingComplete(c) \/ RevokeDevice(c)
    \/ \E r \in Refreshes : RefreshTokens(r)
    \/ \E r \in Others : DeviceAction(r) \/ EventStream(r)
    \/ \E x \in Pairings \union Tokens : Expire(x)
    \/ Crash

Spec == Init /\ [][Next]_vars

-----------------------------------------------------------------------------
(* Properties                                                              *)

\* A pairing creates one device at most, whichever requests race to complete it and
\* whenever it expires: Complete "consumes the pairing record before issuing credentials".
PairsOnce == \A p \in Pairings : Cardinality(redeemed[p]) <= 1

\* Rotation: a device never has two refresh tokens that both work, however its refreshes
\* overlap: of two that present one token the second issues nothing.
OneRefreshToken ==
    \A t, u \in Issuers \X {"refresh"} :
        Usable(t) /\ Usable(u) /\ token[t].of = token[u].of => t = u

\* A revoked device stays out: no request is taken for it any more, also not with a token
\* that a request under way stored after the revocation, and no push is registered for it.
RevokedStaysOut ==
    [][\A c \in Completions :
          device[c] = "revoked" =>
              /\ device'[c] = "revoked"
              /\ \A r \in Requests : who'[r] = c => who[r] = c
              /\ c \in push' => c \in push]_vars

\* A device is signed out only by a revocation, a refresh token that nobody used in time,
\* a failed statement, a lost response or a crash: never because its refreshes overlapped.
Refreshing(c) == \E r \in Issuers : who[r] = c /\ at[r] \in {"access", "refresh", "answer"}
NeverSignedOut ==
    faults = 0 =>
        \A c \in Completions :
            device[c] = "active" =>
                \/ Refreshing(c)
                \/ \E t \in holds : t[2] = "refresh" /\ token[t].of = c /\ Usable(t)
=============================================================================
