---------------------------- MODULE DevicesProofs ----------------------------
(***************************************************************************)
(* Theorems about Devices, for any pairings, requests and faults.  The     *)
(* argument: the right to the refresh token of a device is carried by one  *)
(* request at a time.  It has stored the token that works, or will; who    *)
(* revokes that token takes the right over.                                *)
(***************************************************************************)
EXTENDS Devices, FiniteSetTheorems, TLAPS

RefreshToken(r) == <<r, "refresh">>

\* r will store a refresh token of c, or has stored one that is not revoked.
Carries(r, c) ==
    \/ who[r] = c /\ at[r] \in {"access", "refresh"}
    \/ token[RefreshToken(r)].of = c /\ ~token[RefreshToken(r)].revoked

\* A pairing under completion is out of the map, and its device is not there yet.
PairingOK ==
    /\ \A c \in Completions :
          /\ at[c] \in {"idle", "create"} => device[c] = "none"
          /\ at[c] = "create" =>
                /\ using[c] \in Pairings \ open /\ redeemed[using[c]] = {}
                /\ \A d \in Completions \ {c} : at[d] = "create" => using[d] # using[c]
    /\ \A p \in Pairings : /\ p \in open => redeemed[p] = {}
                           /\ \A c, d \in redeemed[p] : c = d

\* What a request knows at each of its steps.
StepOK ==
    \A r \in Requests :
        /\ at[r] = "create" => r \in Completions
        /\ at[r] = "register" => who[r] \in Completions
        /\ at[r] \in {"access", "refresh", "answer"} =>
              r \in Issuers /\ who[r] \in Completions /\ device[who[r]] # "none"
        /\ at[r] = "revoke" => /\ r \in Refreshes /\ who[r] \in Completions
                               /\ \E q \in Issuers : using[r] = RefreshToken(q)
                               /\ using[r] \in holds /\ token[using[r]].of = who[r]

\* What is stored of a request's refresh token at each of its steps.
TokensOK ==
    \A r \in Issuers :
        /\ at[r] \notin {"answer", "done"} => token[RefreshToken(r)] = NoRow
        /\ at[r] = "answer" => /\ token[RefreshToken(r)].of = who[r]
                               /\ device[who[r]] = "active" => ~token[RefreshToken(r)].revoked
        /\ RefreshToken(r) \in holds => at[r] = "done" /\ token[RefreshToken(r)].of # None
        /\ token[RefreshToken(r)].of # None => device[token[RefreshToken(r)].of] # "none"

OneCarrier ==
    \A c \in Completions : \A r, s \in Issuers : Carries(r, c) /\ Carries(s, c) => r = s

\* The inductive invariant.
IInv == TypeOK /\ PairingOK /\ StepOK /\ TokensOK /\ OneCarrier /\ NeverSignedOut

-----------------------------------------------------------------------------
(* Types.                                                                  *)

LEMMA TokenNames ==
    /\ \A r \in Issuers : RefreshToken(r) \in Tokens
    /\ \A r, s \in Issuers : RefreshToken(r) = RefreshToken(s) => r = s
    /\ \A t \in Tokens : t[2] = "refresh" => \E r \in Issuers : t = RefreshToken(r)
    /\ \A r \in Issuers : <<r, "access">> \in Tokens
    /\ \A r, s \in Issuers : <<r, "access">> # RefreshToken(s)
BY DEF RefreshToken, Tokens, Kinds

LEMMA InitHolds == Init => IInv
<1> SUFFICES ASSUME Init PROVE IInv
  OBVIOUS
<1>1. TypeOK
  BY DeviceConstants DEF Init, TypeOK, States, NoRow
<1>2. PairingOK /\ StepOK
  BY DEF Init, PairingOK, StepOK, Requests, Issuers
<1>3. TokensOK /\ OneCarrier
  BY TokenNames, DeviceConstants
  DEF Init, TokensOK, OneCarrier, Carries, NoRow, Requests, Issuers
<1>4. NeverSignedOut
  BY DEF Init, NeverSignedOut
<1> QED BY <1>1, <1>2, <1>3, <1>4 DEF IInv

TokenRows == [of : Completions \union {None}, revoked : BOOLEAN]

LEMMA RowsType ==
    /\ TypeOK => token \in [Tokens -> TokenRows]
    /\ \A row \in TokenRows : [row EXCEPT !.revoked = TRUE] \in TokenRows
    /\ \A c \in Completions \union {None} : [of |-> c, revoked |-> FALSE] \in TokenRows
BY DEF TypeOK, TokenRows

LEMMA TypeKeeps == IInv /\ [Next]_vars => TypeOK'
<1> SUFFICES ASSUME TypeOK, StepOK, [Next]_vars PROVE TypeOK'
  BY DEF IInv
<1> USE DeviceConstants DEF TypeOK, disk, States, Requests, Issuers
<1>1. ASSUME NEW p \in Pairings, StartPairing(p) PROVE TypeOK'
  BY <1>1 DEF StartPairing
<1>2. ASSUME NEW c \in Completions, NEW p \in Pairings, Complete(c, p) PROVE TypeOK'
  BY <1>2 DEF Complete, Goes
<1>3. ASSUME NEW c \in Completions, CreateDevice(c) PROVE TypeOK'
  BY <1>3 DEF CreateDevice, Goes, Fails
<1>4. ASSUME NEW r \in Issuers, IssueTokens(r) PROVE TypeOK'
  <2> SUFFICES ASSUME NEW kind \in Kinds, NEW next \in {"refresh", "answer"},
                      StoreToken(r, kind, next)
               PROVE  TypeOK'
    BY <1>4 DEF IssueTokens, Kinds
  <2>1. <<r, kind>> \in Tokens /\ who[r] \in Completions \union {None}
    BY DEF Tokens
  <2>2. token' \in [Tokens -> TokenRows]
    BY <2>1, RowsType DEF StoreToken
  <2>3. at' \in [Requests -> States] /\ faults' \in 0..MaxFaults
    BY DEF StoreToken, Goes, Fails
  <2> QED BY <2>2, <2>3 DEF StoreToken, TokenRows
<1>5. ASSUME NEW r \in Issuers, Respond(r) PROVE TypeOK'
  BY <1>5 DEF Respond, Goes, Fails, Tokens
<1>6. ASSUME NEW r \in Refreshes, NEW t \in Tokens, Refresh(r, t) PROVE TypeOK'
  BY <1>6 DEF Refresh, Goes
<1>7. ASSUME NEW r \in Refreshes, RevokeToken(r) PROVE TypeOK'
  <2>1. token' \in [Tokens -> TokenRows]
    BY <1>7, RowsType DEF RevokeToken
  <2>2. at' \in [Requests -> States] /\ faults' \in 0..MaxFaults
    BY <1>7 DEF RevokeToken, Goes, Fails
  <2> QED BY <1>7, <2>1, <2>2 DEF RevokeToken, TokenRows
<1>8. ASSUME NEW c \in Completions, RevokeDevice(c) PROVE TypeOK'
  <2>1. token' \in [Tokens -> TokenRows]
    BY <1>8, RowsType DEF RevokeDevice
  <2> QED BY <1>8, <2>1 DEF RevokeDevice, TokenRows
<1>9. ASSUME NEW r \in Others, DeviceAction(r) \/ EventStream(r) PROVE TypeOK'
  <2>1. ASSUME NEW t \in Tokens, NEW next \in {"register", "stream"}, Authorize(r, t, next)
        PROVE  TypeOK'
    BY <2>1 DEF Authorize, Goes
  <2>2. CASE RegisterPush(r) \/ StreamEnds(r)
    BY <2>2 DEF RegisterPush, StreamEnds, Goes, StepOK
  <2> QED BY <1>9, <2>1, <2>2 DEF DeviceAction, EventStream
<1>10. ASSUME NEW x \in Pairings \union Tokens, Expire(x) PROVE TypeOK'
  BY <1>10 DEF Expire
<1>11. CASE Crash
  BY <1>11 DEF Crash
<1>12. CASE UNCHANGED vars
  BY <1>12 DEF vars
<1> QED
  BY <1>1, <1>2, <1>3, <1>4, <1>5, <1>6, <1>7, <1>8, <1>9, <1>10, <1>11, <1>12
  DEF Next, PairingComplete, RefreshTokens

-----------------------------------------------------------------------------
(* Every step keeps the rest.                                              *)

LEMMA StartPairingKeeps ==
    ASSUME IInv, NEW p \in Pairings, StartPairing(p)
    PROVE  PairingOK' /\ StepOK' /\ TokensOK' /\ OneCarrier' /\ NeverSignedOut'
<1> USE DEF IInv, StartPairing, disk
<1>1. PairingOK' /\ StepOK'
  BY DEF PairingOK, StepOK
<1>2. TokensOK' /\ OneCarrier'
  BY DEF TokensOK, OneCarrier, Carries
<1>3. NeverSignedOut'
  BY DEF NeverSignedOut, Refreshing, Usable
<1> QED BY <1>1, <1>2, <1>3

LEMMA CompletionKeeps ==
    ASSUME IInv, NEW c \in Completions, NEW p \in Pairings, Complete(c, p)
    PROVE  PairingOK' /\ StepOK' /\ TokensOK' /\ OneCarrier' /\ NeverSignedOut'
<1> USE DEF IInv, Complete, disk, Goes, Requests, Issuers, TypeOK
<1>1. PairingOK'
  <2>1. at' \in [Requests -> {"create", "done"} \union {at[r] : r \in Requests}]
        /\ using'[c] = p /\ at'[c] \in {"create", "done"}
        /\ \A d \in Completions \ {c} : at'[d] = at[d] /\ using'[d] = using[d]
    OBVIOUS
  <2>2. ASSUME NEW d \in Completions, at'[d] = "create"
        PROVE  /\ using'[d] \in Pairings \ open' /\ redeemed[using'[d]] = {}
               /\ \A e \in Completions \ {d} : at'[e] = "create" => using'[e] # using'[d]
    <3>1. CASE d = c
      <4>1. p \in open /\ redeemed[p] = {}
        BY <2>2, <3>1 DEF PairingOK
      <4> QED BY <2>1, <3>1, <4>1 DEF PairingOK
    <3>2. CASE d # c
      <4>1. at[d] = "create" /\ using'[d] = using[d]
        BY <2>1, <2>2, <3>2
      <4>2. using[d] \notin open /\ using[d] \in Pairings
        BY <4>1 DEF PairingOK
      <4>3. at'[c] = "create" => p \in open
        OBVIOUS
      <4> QED BY <2>1, <4>1, <4>2, <4>3 DEF PairingOK
    <3> QED BY <3>1, <3>2
  <2>3. \A q \in Pairings : /\ q \in open' => redeemed'[q] = {}
                            /\ \A d, e \in redeemed'[q] : d = e
    BY DEF PairingOK
  <2> QED BY <2>2, <2>3 DEF PairingOK
<1>2. StepOK'
  BY DEF StepOK
<1>3. TokensOK' /\ OneCarrier'
  BY DEF TokensOK, OneCarrier, Carries
<1>4. NeverSignedOut'
  BY DEF NeverSignedOut, Refreshing, Usable
<1> QED BY <1>1, <1>2, <1>3, <1>4

LEMMA CreateDeviceKeeps ==
    ASSUME IInv, NEW c \in Completions, CreateDevice(c)
    PROVE  PairingOK' /\ StepOK' /\ TokensOK' /\ OneCarrier' /\ NeverSignedOut'
<1>1. CASE Fails(c) /\ UNCHANGED <<device, who, redeemed>>
  <2> USE <1>1 DEF IInv, CreateDevice, disk, Goes, Fails, Requests, Issuers, TypeOK
  <2>1. PairingOK'
    BY DEF PairingOK
  <2>2. StepOK'
    BY DEF StepOK
  <2>3. TokensOK' /\ OneCarrier'
    BY DEF TokensOK, OneCarrier, Carries
  <2>4. NeverSignedOut'
    BY DEF NeverSignedOut
  <2> QED BY <2>1, <2>2, <2>3, <2>4
<1>2. CASE /\ device' = [device EXCEPT ![c] = "active"] /\ who' = [who EXCEPT ![c] = c]
           /\ redeemed' = [redeemed EXCEPT ![using[c]] = @ \union {c}]
           /\ Goes(c, "access") /\ UNCHANGED faults
  <2> USE DeviceConstants, <1>2
      DEF IInv, CreateDevice, disk, Goes, Requests, Issuers, TypeOK
  <2>1. at[c] = "create" /\ at'[c] = "access" /\ who'[c] = c /\ device[c] = "none"
        /\ device'[c] = "active" /\ redeemed'[using[c]] = {c} /\ faults' = faults
        /\ using[c] \in Pairings
    BY DEF PairingOK
  <2>2. \A r \in Requests \ {c} : at'[r] = at[r] /\ who'[r] = who[r]
    OBVIOUS
  <2>3. \A d \in Completions \ {c} : device'[d] = device[d]
    OBVIOUS
  <2>4. \A p \in Pairings \ {using[c]} : redeemed'[p] = redeemed[p]
    OBVIOUS
  <2>5. PairingOK'
    BY <2>1, <2>2, <2>3, <2>4 DEF PairingOK
  <2>6. StepOK'
    BY <2>1, <2>2, <2>3 DEF StepOK
  <2>7. \A r \in Issuers : token[RefreshToken(r)].of # c
    BY <2>1, DeviceConstants DEF TokensOK
  <2>8. \A r \in Requests : at[r] \in {"access", "refresh", "answer"} => who[r] # c
    BY <2>1 DEF StepOK
  <2>9. TokensOK'
    BY <2>1, <2>2, <2>3, <2>7, <2>8, TokenNames DEF TokensOK
  <2>10. OneCarrier'
    BY <2>1, <2>2, <2>7, <2>8 DEF OneCarrier, Carries
  <2>11. NeverSignedOut'
    <3> SUFFICES ASSUME faults = 0, NEW d \in Completions, device'[d] = "active"
                 PROVE  \/ Refreshing(d)'
                        \/ \E t \in holds : /\ t[2] = "refresh" /\ token[t].of = d
                                            /\ Usable(t)'
      BY <2>1 DEF NeverSignedOut
    <3>1. CASE d = c
      BY <2>1, <3>1 DEF Refreshing
    <3>2. CASE d # c
      BY <2>1, <2>2, <2>3, <3>2 DEF NeverSignedOut, Refreshing, Usable
    <3> QED BY <3>1, <3>2
  <2> QED BY <2>5, <2>6, <2>9, <2>10, <2>11
<1> QED BY <1>1, <1>2 DEF CreateDevice

\* Storing the access token.
LEMMA StoreAccessKeeps ==
    ASSUME IInv, NEW r \in Issuers, StoreToken(r, "access", "refresh")
    PROVE  PairingOK' /\ StepOK' /\ TokensOK' /\ OneCarrier' /\ NeverSignedOut'
<1> USE TokenNames DEF IInv, StoreToken, disk, Goes, Fails, Requests, Issuers, TypeOK
<1>1. /\ at'[r] \in {"refresh", "done"} /\ at[r] = "access"
      /\ \A s \in Requests \ {r} : at'[s] = at[s]
      /\ faults' = 0 => faults = 0 /\ at'[r] = "refresh"
      /\ \A s \in Issuers : token'[RefreshToken(s)] = token[RefreshToken(s)]
  OBVIOUS
<1>2. PairingOK'
  BY <1>1 DEF PairingOK
<1>3. StepOK'
  BY <1>1 DEF StepOK
<1>4. TokensOK'
  BY <1>1 DEF TokensOK
<1>5. OneCarrier'
  BY <1>1 DEF OneCarrier, Carries
<1>6. NeverSignedOut'
  BY <1>1 DEF NeverSignedOut, Refreshing, Usable
<1> QED BY <1>2, <1>3, <1>4, <1>5, <1>6

\* Storing the refresh token: r keeps the right that it carried.
LEMMA StoreRefreshKeeps ==
    ASSUME IInv, NEW r \in Issuers, StoreToken(r, "refresh", "answer")
    PROVE  PairingOK' /\ StepOK' /\ TokensOK' /\ OneCarrier' /\ NeverSignedOut'
<1> USE TokenNames DEF IInv, StoreToken, disk, Goes, Fails, Requests, Issuers, TypeOK
<1> DEFINE mine == RefreshToken(r)
<1>1. /\ at'[r] \in {"answer", "done"} /\ at[r] = "refresh"
      /\ at'[r] = "answer" => token'[mine] = [of |-> who[r], revoked |-> FALSE]
      /\ at'[r] = "done" => token'[mine] = token[mine]
      /\ \A s \in Requests \ {r} : at'[s] = at[s]
      /\ faults' = 0 => faults = 0 /\ at'[r] = "answer"
      /\ \A s \in Issuers \ {r} : token'[RefreshToken(s)] = token[RefreshToken(s)]
      /\ who[r] \in Completions /\ device[who[r]] # "none"
  BY DEF RefreshToken, StepOK
<1>2. PairingOK'
  BY <1>1 DEF PairingOK
<1>3. mine \notin holds /\ token[mine] = NoRow
  BY <1>1 DEF TokensOK
<1>4. StepOK'
  <2>1. \A s \in Requests : at[s] = "revoke" => using[s] # mine
    BY <1>3 DEF StepOK
  <2>2. \A s \in Requests : at[s] = "revoke" => token'[using[s]] = token[using[s]]
    <3> SUFFICES ASSUME NEW s \in Requests, at[s] = "revoke"
                 PROVE  token'[using[s]] = token[using[s]]
      OBVIOUS
    <3>1. PICK q \in Issuers : using[s] = RefreshToken(q)
      BY DEF StepOK
    <3> QED BY <1>1, <2>1, <3>1
  <2> QED BY <1>1, <2>2 DEF StepOK
<1>5. TokensOK'
  BY <1>1, <1>3, DeviceConstants DEF TokensOK
<1>6. OneCarrier'
  <2>1. \A s \in Issuers, c \in Completions : Carries(s, c)' => Carries(s, c)
    BY <1>1 DEF Carries
  <2> QED BY <2>1 DEF OneCarrier
<1>7. NeverSignedOut'
  <2>1. \A t \in holds : t[2] = "refresh" => token'[t] = token[t]
    BY <1>1, <1>3
  <2> SUFFICES ASSUME faults' = 0, NEW c \in Completions, device[c] = "active"
               PROVE  (\/ Refreshing(c)
                       \/ \E t \in holds : t[2] = "refresh" /\ token[t].of = c /\ Usable(t))'
    BY DEF NeverSignedOut
  <2>2. CASE Refreshing(c)
    BY <1>1, <2>2 DEF Refreshing
  <2>3. CASE ~Refreshing(c)
    <3>1. PICK t \in holds : t[2] = "refresh" /\ token[t].of = c /\ Usable(t)
      BY <1>1, <2>3 DEF NeverSignedOut
    <3>2. token'[t] = token[t]
      BY <2>1, <3>1
    <3> QED BY <3>1, <3>2 DEF Usable
  <2> QED BY <2>2, <2>3
<1> QED BY <1>2, <1>4, <1>5, <1>6, <1>7

LEMMA RespondKeeps ==
    ASSUME IInv, NEW r \in Issuers, Respond(r)
    PROVE  PairingOK' /\ StepOK' /\ TokensOK' /\ OneCarrier' /\ NeverSignedOut'
<1> USE TokenNames DEF IInv, Respond, disk, Goes, Fails, Requests, Issuers, TypeOK
<1>1. /\ at'[r] = "done" /\ at[r] = "answer" /\ holds \subseteq holds'
      /\ \A s \in Requests \ {r} : at'[s] = at[s]
      /\ \A s \in Issuers : RefreshToken(s) \in holds' => s = r \/ RefreshToken(s) \in holds
      /\ faults' = 0 => faults = 0 /\ RefreshToken(r) \in holds'
      /\ who[r] \in Completions /\ device[who[r]] # "none"
  BY DEF RefreshToken, StepOK, Kinds
<1>2. PairingOK'
  BY <1>1 DEF PairingOK
<1>3. StepOK'
  BY <1>1 DEF StepOK
<1>4. TokensOK'
  BY <1>1, DeviceConstants DEF TokensOK
<1>5. OneCarrier'
  BY <1>1 DEF OneCarrier, Carries
<1>6. NeverSignedOut'
  <2> SUFFICES ASSUME faults' = 0, NEW c \in Completions, device[c] = "active"
               PROVE  (\/ Refreshing(c)
                       \/ \E t \in holds : t[2] = "refresh" /\ token[t].of = c /\ Usable(t))'
    BY DEF NeverSignedOut
  <2>1. CASE who[r] = c
    <3>1. token[RefreshToken(r)].of = c /\ ~token[RefreshToken(r)].revoked
      BY <1>1, <2>1 DEF TokensOK
    <3>2. Usable(RefreshToken(r))' /\ RefreshToken(r)[2] = "refresh"
      BY <3>1, DeviceConstants DEF Usable, RefreshToken
    <3> QED BY <1>1, <3>1, <3>2
  <2>2. CASE who[r] # c
    BY <1>1, <2>2 DEF NeverSignedOut, Refreshing, Usable
  <2> QED BY <2>1, <2>2
<1> QED BY <1>2, <1>3, <1>4, <1>5, <1>6

LEMMA RefreshKeeps ==
    ASSUME IInv, NEW r \in Refreshes, NEW t \in Tokens, Refresh(r, t)
    PROVE  PairingOK' /\ StepOK' /\ TokensOK' /\ OneCarrier' /\ NeverSignedOut'
<1> USE TokenNames, DeviceConstants
    DEF IInv, Refresh, disk, Goes, Requests, Issuers, TypeOK
<1>1. /\ at[r] = "idle" /\ at'[r] \in {"revoke", "done"} /\ using'[r] = t /\ t \in holds
      /\ at'[r] = "revoke" => who'[r] = token[t].of /\ who'[r] \in Completions
      /\ \A s \in Requests \ {r} : at'[s] = at[s] /\ who'[s] = who[s] /\ using'[s] = using[s]
      /\ \E q \in Issuers : t = RefreshToken(q)
  BY DEF Lookup, Usable
<1>2. PairingOK'
  BY <1>1 DEF PairingOK
<1>3. StepOK'
  BY <1>1 DEF StepOK
<1>4. TokensOK'
  BY <1>1 DEF TokensOK
<1>5. OneCarrier'
  BY <1>1 DEF OneCarrier, Carries
<1>6. NeverSignedOut'
  BY <1>1 DEF NeverSignedOut, Refreshing, Usable
<1> QED BY <1>2, <1>3, <1>4, <1>5, <1>6

\* The UPDATE of a revocation: who makes it carries what the owner of the token carried.
LEMMA RevocationKeeps ==
    ASSUME IInv, NEW r \in Refreshes, at[r] = "revoke", ~token[using[r]].revoked,
           token' = [token EXCEPT ![using[r]].revoked = TRUE], Goes(r, "access"),
           UNCHANGED faults,
           UNCHANGED <<open, expired, device, push, who, using, holds, redeemed>>
    PROVE  PairingOK' /\ StepOK' /\ TokensOK' /\ OneCarrier' /\ NeverSignedOut'
<1> USE TokenNames, DeviceConstants DEF IInv, Goes, Requests, Issuers, TypeOK
<1>1. PICK q \in Issuers : using[r] = RefreshToken(q)
  BY DEF StepOK
<1>2. /\ at[q] = "done" /\ token[RefreshToken(q)].of = who[r] /\ who[r] \in Completions
      /\ RefreshToken(q) \in holds /\ q # r /\ device[who[r]] # "none"
  BY <1>1 DEF StepOK, TokensOK
<1>3. /\ at'[r] = "access" /\ \A s \in Requests \ {r} : at'[s] = at[s]
      /\ token'[RefreshToken(q)].revoked /\ token'[RefreshToken(q)].of = who[r]
      /\ \A t \in Tokens : t # RefreshToken(q) => token'[t] = token[t]
      /\ \A t \in Tokens : token'[t].of = token[t].of
  <2>1. token[RefreshToken(q)] \in TokenRows
    BY RowsType
  <2>2. token'[RefreshToken(q)] = [token[RefreshToken(q)] EXCEPT !.revoked = TRUE]
        /\ \A t \in Tokens : t # RefreshToken(q) => token'[t] = token[t]
    BY <1>1
  <2>3. token'[RefreshToken(q)].revoked /\ token'[RefreshToken(q)].of = who[r]
    BY <1>2, <2>1, <2>2 DEF TokenRows
  <2> QED BY <1>2, <2>2, <2>3
<1>4. PairingOK'
  BY <1>3 DEF PairingOK
<1>5. StepOK'
  BY <1>2, <1>3 DEF StepOK
<1>6. TokensOK'
  BY <1>2, <1>3 DEF TokensOK
<1>7. OneCarrier'
  <2>1. \A s \in Issuers, c \in Completions :
           Carries(s, c)' => Carries(s, c) \/ (s = r /\ c = who[r])
    BY <1>2, <1>3 DEF Carries
  <2>2. Carries(q, who[r]) /\ ~Carries(q, who[r])'
    BY <1>1, <1>2, <1>3 DEF Carries
  <2> QED BY <1>2, <2>1, <2>2 DEF OneCarrier
<1>8. NeverSignedOut'
  <2> SUFFICES ASSUME faults' = 0, NEW c \in Completions, device[c] = "active"
               PROVE  (\/ Refreshing(c)
                       \/ \E t \in holds : t[2] = "refresh" /\ token[t].of = c /\ Usable(t))'
    BY DEF NeverSignedOut
  <2>1. CASE c = who[r]
    BY <1>3, <2>1 DEF Refreshing
  <2>2. CASE c # who[r] /\ Refreshing(c)
    BY <1>3, <2>2 DEF Refreshing
  <2>3. CASE c # who[r] /\ ~Refreshing(c)
    <3>1. PICK t \in holds : t[2] = "refresh" /\ token[t].of = c /\ Usable(t)
      BY <2>3 DEF NeverSignedOut
    <3>2. token'[t] = token[t]
      BY <1>2, <1>3, <2>3, <3>1
    <3> QED BY <3>1, <3>2 DEF Usable
  <2> QED BY <2>1, <2>2, <2>3
<1> QED BY <1>4, <1>5, <1>6, <1>7, <1>8

\* A request of the API that ends without changing a row.
LEMMA EndKeeps ==
    ASSUME IInv, NEW r \in Requests, at[r] # "idle", at[r] # "create",
           at' = [at EXCEPT ![r] = "done"],
           \/ faults' = faults /\ at[r] \notin {"access", "refresh", "answer"}
           \/ faults' = faults + 1,
           UNCHANGED <<open, disk, who, using, holds, redeemed>>
    PROVE  StepOK' /\ TokensOK' /\ OneCarrier' /\ NeverSignedOut'
<1> USE DEF IInv, disk, Requests, Issuers, TypeOK
<1>1. StepOK'
  BY DEF StepOK
<1>2. TokensOK'
  BY DEF TokensOK
<1>3. OneCarrier'
  BY DEF OneCarrier, Carries
<1>4. NeverSignedOut'
  BY DEF NeverSignedOut, Refreshing, Usable
<1> QED BY <1>1, <1>2, <1>3, <1>4

LEMMA RevokeTokenKeeps ==
    ASSUME IInv, NEW r \in Refreshes, RevokeToken(r)
    PROVE  PairingOK' /\ StepOK' /\ TokensOK' /\ OneCarrier' /\ NeverSignedOut'
<1>1. CASE /\ ~token[using[r]].revoked /\ token' = [token EXCEPT ![using[r]].revoked = TRUE]
           /\ Goes(r, "access") /\ UNCHANGED faults
  BY <1>1, RevocationKeeps DEF RevokeToken
<1>2. CASE UNCHANGED token /\ Goes(r, "done") /\ faults' \in {faults, faults + 1}
  <2>1. PairingOK'
    BY <1>2 DEF IInv, RevokeToken, PairingOK, Goes, TypeOK, Requests, Issuers
  <2> QED BY <1>2, <2>1, EndKeeps DEF RevokeToken, Goes, disk, Requests, Issuers
<1> QED BY <1>1, <1>2 DEF RevokeToken, Fails

\* device-revoke: nothing of the device works any more, and nobody else loses anything.
LEMMA RevokeDeviceKeeps ==
    ASSUME IInv, NEW c \in Completions, RevokeDevice(c)
    PROVE  PairingOK' /\ StepOK' /\ TokensOK' /\ OneCarrier' /\ NeverSignedOut'
<1> USE TokenNames, DeviceConstants DEF IInv, TypeOK
<1>1. /\ device[c] = "active" /\ device'[c] = "revoked"
      /\ \A d \in Completions \ {c} : device'[d] = device[d]
      /\ UNCHANGED <<open, expired, push, at, who, using, holds, redeemed, faults>>
  BY DEF RevokeDevice
<1>2. \A t \in Tokens : /\ token'[t].of = token[t].of
                        /\ token[t].of # c => token'[t] = token[t]
                        /\ token[t].revoked => token'[t].revoked
  <2> SUFFICES ASSUME NEW t \in Tokens
               PROVE  /\ token'[t].of = token[t].of
                      /\ token[t].of # c => token'[t] = token[t]
                      /\ token[t].revoked => token'[t].revoked
    OBVIOUS
  <2>1. token[t] \in TokenRows
    BY RowsType
  <2>2. token'[t] = IF token[t].of = c THEN [token[t] EXCEPT !.revoked = TRUE] ELSE token[t]
    BY DEF RevokeDevice
  <2> QED BY <2>1, <2>2 DEF TokenRows
<1> USE DEF Requests, Issuers
<1>3. PairingOK'
  BY <1>1 DEF PairingOK
<1>4. StepOK'
  BY <1>1, <1>2 DEF StepOK
<1>5. TokensOK'
  <2>1. c # None
    BY DeviceConstants
  <2> SUFFICES ASSUME NEW r \in Issuers
               PROVE  /\ at[r] \notin {"answer", "done"} => token'[RefreshToken(r)] = NoRow
                      /\ at[r] = "answer" =>
                            /\ token'[RefreshToken(r)].of = who[r]
                            /\ device'[who[r]] = "active" => ~token'[RefreshToken(r)].revoked
                      /\ RefreshToken(r) \in holds =>
                            at[r] = "done" /\ token'[RefreshToken(r)].of # None
                      /\ token'[RefreshToken(r)].of # None =>
                            device'[token'[RefreshToken(r)].of] # "none"
    BY <1>1 DEF TokensOK
  <2>2. at[r] \notin {"answer", "done"} => token'[RefreshToken(r)] = NoRow
    <3>1. token[RefreshToken(r)] = NoRow => token[RefreshToken(r)].of # c
      BY <2>1 DEF NoRow
    <3> QED BY <1>2, <3>1 DEF TokensOK
  <2>3. ASSUME at[r] = "answer"
        PROVE  /\ token'[RefreshToken(r)].of = who[r]
               /\ device'[who[r]] = "active" => ~token'[RefreshToken(r)].revoked
    <3>1. token[RefreshToken(r)].of = who[r] /\ who[r] \in Completions
      BY <2>3 DEF TokensOK, StepOK
    <3> QED BY <1>1, <1>2, <2>3, <3>1 DEF TokensOK
  <2>4. RefreshToken(r) \in holds => at[r] = "done" /\ token'[RefreshToken(r)].of # None
    BY <1>1, <1>2 DEF TokensOK
  <2>5. token'[RefreshToken(r)].of # None => device'[token'[RefreshToken(r)].of] # "none"
    BY <1>1, <1>2 DEF TokensOK
  <2> QED BY <2>2, <2>3, <2>4, <2>5
<1>6. OneCarrier'
  <2>1. \A s \in Issuers, d \in Completions : Carries(s, d)' => Carries(s, d)
    BY <1>1, <1>2 DEF Carries
  <2> QED BY <2>1 DEF OneCarrier
<1>7. NeverSignedOut'
  <2> SUFFICES ASSUME faults = 0, NEW d \in Completions, device'[d] = "active"
               PROVE  (\/ Refreshing(d)
                       \/ \E t \in holds : t[2] = "refresh" /\ token[t].of = d /\ Usable(t))'
    BY <1>1 DEF NeverSignedOut
  <2>1. d # c /\ device[d] = "active"
    BY <1>1
  <2>2. CASE Refreshing(d)
    BY <1>1, <2>2 DEF Refreshing
  <2>3. CASE ~Refreshing(d)
    <3>1. PICK t \in holds : t[2] = "refresh" /\ token[t].of = d /\ Usable(t)
      BY <2>1, <2>3 DEF NeverSignedOut
    <3>2. token'[t] = token[t] /\ device'[d] = device[d]
      BY <1>1, <1>2, <2>1, <3>1
    <3> QED BY <1>1, <3>1, <3>2 DEF Usable
  <2> QED BY <2>2, <2>3
<1> QED BY <1>3, <1>4, <1>5, <1>6, <1>7

LEMMA OthersKeep ==
    ASSUME IInv, NEW r \in Others, DeviceAction(r) \/ EventStream(r)
    PROVE  PairingOK' /\ StepOK' /\ TokensOK' /\ OneCarrier' /\ NeverSignedOut'
<1> USE DeviceConstants DEF IInv, disk, Goes, Requests, Issuers, TypeOK
<1>1. /\ \A s \in Issuers : at'[s] = at[s] /\ who'[s] = who[s] /\ using'[s] = using[s]
      /\ UNCHANGED <<open, device, token, holds, redeemed, faults>>
      /\ at'[r] \in {"register", "stream", "done"}
      /\ \A s \in Others \ {r} : at'[s] = at[s] /\ who'[s] = who[s] /\ using'[s] = using[s]
      /\ at'[r] = "register" => who'[r] \in Completions
  BY DEF DeviceAction, EventStream, Authorize, RegisterPush, StreamEnds, Lookup, Usable
<1>2. PairingOK'
  BY <1>1 DEF PairingOK
<1>3. StepOK'
  BY <1>1 DEF StepOK
<1>4. TokensOK'
  BY <1>1 DEF TokensOK
<1>5. OneCarrier'
  BY <1>1 DEF OneCarrier, Carries
<1>6. NeverSignedOut'
  BY <1>1 DEF NeverSignedOut, Refreshing, Usable
<1> QED BY <1>2, <1>3, <1>4, <1>5, <1>6

LEMMA ExpireKeeps ==
    ASSUME IInv, NEW x \in Pairings \union Tokens, Expire(x)
    PROVE  PairingOK' /\ StepOK' /\ TokensOK' /\ OneCarrier' /\ NeverSignedOut'
<1> USE DEF IInv, Expire, disk
<1>1. PairingOK' /\ StepOK'
  BY DEF PairingOK, StepOK
<1>2. TokensOK' /\ OneCarrier'
  BY DEF TokensOK, OneCarrier, Carries
<1>3. NeverSignedOut'
  BY DEF NeverSignedOut, Refreshing, Usable
<1> QED BY <1>1, <1>2, <1>3

LEMMA CrashKeeps ==
    ASSUME IInv, Crash
    PROVE  PairingOK' /\ StepOK' /\ TokensOK' /\ OneCarrier' /\ NeverSignedOut'
<1>1. \A r \in Requests : \/ at'[r] = at[r] /\ at[r] = "idle"
                          \/ at'[r] = "done" /\ at[r] # "idle"
  BY DEF Crash
<1> USE DeviceConstants DEF IInv, Crash, disk, Requests, Issuers, TypeOK
<1>2. PairingOK' /\ StepOK'
  BY <1>1 DEF PairingOK, StepOK
<1>3. TokensOK'
  BY <1>1 DEF TokensOK
<1>4. OneCarrier'
  BY <1>1 DEF OneCarrier, Carries
<1>5. NeverSignedOut'
  BY DEF NeverSignedOut
<1> QED BY <1>2, <1>3, <1>4, <1>5

LEMMA NextKeeps == IInv /\ [Next]_vars => IInv'
<1> SUFFICES ASSUME IInv, [Next]_vars
             PROVE  PairingOK' /\ StepOK' /\ TokensOK' /\ OneCarrier' /\ NeverSignedOut'
  BY TypeKeeps DEF IInv
<1>1. ASSUME NEW p \in Pairings, StartPairing(p)
      PROVE  PairingOK' /\ StepOK' /\ TokensOK' /\ OneCarrier' /\ NeverSignedOut'
  BY <1>1, StartPairingKeeps
<1>2. ASSUME NEW r \in Issuers, IssueTokens(r) \/ Respond(r)
      PROVE  PairingOK' /\ StepOK' /\ TokensOK' /\ OneCarrier' /\ NeverSignedOut'
  BY <1>2, StoreAccessKeeps, StoreRefreshKeeps, RespondKeeps DEF IssueTokens
<1>3. ASSUME NEW c \in Completions, PairingComplete(c) \/ RevokeDevice(c)
      PROVE  PairingOK' /\ StepOK' /\ TokensOK' /\ OneCarrier' /\ NeverSignedOut'
  BY <1>2, <1>3, CompletionKeeps, CreateDeviceKeeps, RevokeDeviceKeeps
  DEF PairingComplete, Issuers
<1>4. ASSUME NEW r \in Refreshes, RefreshTokens(r)
      PROVE  PairingOK' /\ StepOK' /\ TokensOK' /\ OneCarrier' /\ NeverSignedOut'
  BY <1>2, <1>4, RefreshKeeps, RevokeTokenKeeps DEF RefreshTokens, Issuers
<1>5. ASSUME NEW r \in Others, DeviceAction(r) \/ EventStream(r)
      PROVE  PairingOK' /\ StepOK' /\ TokensOK' /\ OneCarrier' /\ NeverSignedOut'
  BY <1>5, OthersKeep
<1>6. ASSUME NEW x \in Pairings \union Tokens, Expire(x)
      PROVE  PairingOK' /\ StepOK' /\ TokensOK' /\ OneCarrier' /\ NeverSignedOut'
  BY <1>6, ExpireKeeps
<1>7. CASE Crash
  BY <1>7, CrashKeeps
<1>8. CASE UNCHANGED vars
  <2> USE <1>8 DEF vars, disk, IInv
  <2>1. PairingOK' /\ StepOK'
    BY DEF PairingOK, StepOK
  <2>2. TokensOK' /\ OneCarrier'
    BY DEF TokensOK, OneCarrier, Carries
  <2>3. NeverSignedOut'
    BY DEF NeverSignedOut, Refreshing, Usable
  <2> QED BY <2>1, <2>2, <2>3
<1> QED BY <1>1, <1>3, <1>4, <1>5, <1>6, <1>7, <1>8 DEF Next

THEOREM Invariance == Spec => []IInv
<1>1. Init => IInv
  BY InitHolds
<1>2. IInv /\ [Next]_vars => IInv'
  BY NextKeeps
<1> QED BY <1>1, <1>2, PTL DEF Spec

-----------------------------------------------------------------------------
(* What follows from it.                                                   *)

\* Every variable keeps its type.
THEOREM TypeCorrect == Spec => []TypeOK
<1>1. IInv => TypeOK
  BY DEF IInv
<1> QED BY <1>1, Invariance, PTL

\* A pairing creates one device at most, however many requests race to complete it:
\* auth.Complete consumes the record before it creates the device.
THEOREM OnePairing == Spec => []PairsOnce
<1>1. IInv => PairsOnce
  <2> SUFFICES ASSUME IInv, NEW p \in Pairings PROVE Cardinality(redeemed[p]) <= 1
    BY DEF PairsOnce
  <2>1. CASE redeemed[p] = {}
    BY <2>1, FS_EmptySet
  <2>2. CASE redeemed[p] # {}
    <3>1. PICK c \in redeemed[p] : redeemed[p] = {c}
      BY <2>2 DEF IInv, PairingOK
    <3>2. Cardinality({c}) = 1
      BY FS_Singleton
    <3>3. Cardinality(redeemed[p]) = Cardinality({c})
      BY <3>1
    <3> QED BY <3>2, <3>3
  <2> QED BY <2>1, <2>2
<1> QED BY <1>1, Invariance, PTL

\* A device never has two refresh tokens that both work, however its refreshes overlap:
\* RevokeToken must change a row before Refresh issues the next pair.
THEOREM OneRefresh == Spec => []OneRefreshToken
<1>1. IInv => OneRefreshToken
  <2> SUFFICES ASSUME IInv, NEW t \in Issuers \X {"refresh"}, NEW u \in Issuers \X {"refresh"},
                      Usable(t), Usable(u), token[t].of = token[u].of
               PROVE  t = u
    BY DEF OneRefreshToken
  <2>1. PICK r \in Issuers, s \in Issuers : t = RefreshToken(r) /\ u = RefreshToken(s)
    BY DEF RefreshToken
  <2>2. token[t].of \in Completions
    <3>1. t \in Tokens
      BY DEF Tokens, Kinds
    <3> QED BY <3>1 DEF IInv, TypeOK, Usable
  <2>3. Carries(r, token[t].of) /\ Carries(s, token[t].of)
    BY <2>1 DEF Carries, Usable
  <2> QED BY <2>1, <2>2, <2>3 DEF IInv, OneCarrier
<1> QED BY <1>1, Invariance, PTL

\* Without failures an active device is being refreshed or holds a refresh token that is not
\* revoked: overlapping requests to auth/refresh never leave it without one.
THEOREM StaysSignedIn == Spec => []NeverSignedOut
<1>1. IInv => NeverSignedOut
  BY DEF IInv
<1> QED BY <1>1, Invariance, PTL

\* A revoked device stays out: LookupToken joins the row of the device, so that a token stored
\* after the revocation is of no use, and RegisterPush changes no row.
THEOREM StaysOut == Spec => RevokedStaysOut
<1> DEFINE Out(c) == /\ device'[c] = "revoked"
                     /\ \A r \in Requests : who'[r] = c => who[r] = c
                     /\ c \in push' => c \in push
<1>1. ASSUME IInv, [Next]_vars, NEW c \in Completions, device[c] = "revoked" PROVE Out(c)
  <2> USE <1>1 DEF IInv, TypeOK, Requests, Issuers
  <2>1. ASSUME NEW d \in Completions, CreateDevice(d) PROVE Out(c)
    BY <2>1 DEF CreateDevice, PairingOK
  <2>2. ASSUME NEW d \in Completions, RevokeDevice(d) PROVE Out(c)
    BY <2>2 DEF RevokeDevice
  <2>3. ASSUME NEW r \in Refreshes, NEW t \in Tokens, Refresh(r, t) PROVE Out(c)
    BY <2>3 DEF Refresh, Lookup, Usable, disk
  <2>4. ASSUME NEW r \in Others, NEW t \in Tokens, NEW h \in {"register", "stream"},
               Authorize(r, t, h)
        PROVE  Out(c)
    BY <2>4 DEF Authorize, Lookup, Usable, disk
  <2>5. ASSUME NEW r \in Others, RegisterPush(r) PROVE Out(c)
    BY <2>5 DEF RegisterPush
  <2>6. CASE UNCHANGED <<device, push, who>>
    BY <2>6
  <2>7. ASSUME NEW d \in Completions, PairingComplete(d) PROVE Out(c)
    BY <2>1, <2>6, <2>7 DEF PairingComplete, Complete, IssueTokens, StoreToken, Respond, disk
  <2>8. ASSUME NEW r \in Refreshes, RefreshTokens(r) PROVE Out(c)
    BY <2>3, <2>6, <2>8
    DEF RefreshTokens, RevokeToken, IssueTokens, StoreToken, Respond, disk
  <2>9. ASSUME NEW r \in Others, DeviceAction(r) \/ EventStream(r) PROVE Out(c)
    BY <2>4, <2>5, <2>6, <2>9 DEF DeviceAction, EventStream, StreamEnds, disk
  <2> QED BY <2>2, <2>6, <2>7, <2>8, <2>9
          DEF Next, StartPairing, Expire, Crash, disk, vars
<1>2. IInv /\ [Next]_vars =>
        [\A c \in Completions : device[c] = "revoked" => Out(c)]_vars
  BY <1>1
<1> QED BY <1>2, Invariance, PTL DEF Spec, RevokedStaysOut
=============================================================================
