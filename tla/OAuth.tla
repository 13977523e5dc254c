------------------------------- MODULE OAuth ---------------------------------
(* The OAuth server for MCP clients (mcp_oauth.rs): registration,          *)
(* authorization and consent, the exchange of a code, the rotation of a    *)
(* refresh token, its revocation, and the user's disconnecting of a client.*)
(*                                                                         *)
(* A record is one hash field holding JSON: it is read whole, changed and  *)
(* written back whole, and nothing ties the write to the read. A request   *)
(* is a thread that does one storage command per step.                     *)
EXTENDS Integers, FiniteSets

CONSTANTS
  Thread, User, Client, Uri, Verifier,
  Registers,   \* Registers[c]: the redirect URIs that c registers
  Loopback,    \* Loopback[u]: a loopback URI without its port, or NotLoopback
  NotLoopback,
  MaxNonces, MaxCodes, MaxRefresh,   \* bounds
  MaxFaults                          \* bound: expiries and crashes

ASSUME OAuthAssumption ==
  /\ Registers \in [Client -> SUBSET Uri]
  /\ DOMAIN Loopback = Uri
  /\ {MaxNonces, MaxCodes, MaxRefresh, MaxFaults} \subseteq Nat

Nonce == 1 .. MaxNonces
Code == 1 .. MaxCodes
Token == 1 .. MaxRefresh
Gone == [is |-> "gone"]

VARIABLES
  registered, \* the clients with a record
  pending,    \* oauth:pending:{nonce}
  code,       \* oauth:code:{code}
  refresh,    \* oauth:refresh:{hash}
  access,     \* oauth:access:{hash}, without the hash
  index,      \* oauth:refresh:by-user:{user}
  thread,     \* the requests that are being served
  approved,   \* who approved what: the consents behind the codes
  known,      \* the refresh tokens that reached their client
  children,   \* children[x]: the token pairs minted for x
  raced,      \* the codes and tokens that two requests held at once
  cut,        \* the grants that the user's disconnecting ended
  faults      \* bound

store == <<registered, pending, code, refresh, access, index>>
ghosts == <<approved, known, children, raced, cut>>
vars == <<store, thread, ghosts, faults>>

Idle == [pc |-> "idle"]

Init ==
  /\ registered = {}
  /\ pending = [n \in Nonce |-> Gone]
  /\ code = [k \in Code |-> Gone]
  /\ refresh = [k \in Token |-> Gone]
  /\ access = {}
  /\ index = [u \in User |-> {}]
  /\ thread = [t \in Thread |-> Idle]
  /\ approved = [k \in Code |-> Gone]
  /\ known = {}
  /\ children = [x \in ({"code"} \X Code) \cup ({"refresh"} \X Token) |-> 0]
  /\ raced = {}
  /\ cut = {}
  /\ faults = 0

Is(t, pc) == thread[t].pc = pc
Go(t, record) == thread' = [thread EXCEPT ![t] = record]

\* The first id that was never handed out. Ids are random in the code.
Fresh(n, used) == {k \in 1 .. n : k \notin used /\ 1 .. (k - 1) \subseteq used}

-----------------------------------------------------------------------------
(* Registration.                                                           *)

Register(c) ==
  /\ c \notin registered /\ Registers[c] # {}
  /\ registered' = registered \cup {c}
  /\ UNCHANGED <<pending, code, refresh, access, index, thread, ghosts, faults>>

-----------------------------------------------------------------------------
(* Authorization and consent.                                              *)

\* An exact match, but for the port of a loopback address.
RedirectUriMatches(c, uri) ==
  \E r \in Registers[c] : r = uri \/ (Loopback[r] # NotLoopback /\ Loopback[r] = Loopback[uri])

\* Any session will do here; whose it is, is asked at the consent.
Authorize(c, n, uri, challenge) ==
  /\ c \in registered /\ RedirectUriMatches(c, uri)
  /\ n \in Fresh(MaxNonces, {m \in Nonce : pending[m] # Gone})
  /\ pending' = [pending EXCEPT ![n] =
       [is |-> "kept", client |-> c, uri |-> uri, challenge |-> challenge]]
  /\ UNCHANGED <<registered, code, refresh, access, index, thread, ghosts, faults>>

\* consume_pending is GET and then DEL. The nonce names no user: whoever is
\* signed in and has it decides.
ConsentRead(t, u, n) ==
  /\ Is(t, "idle") /\ pending[n].is = "kept"
  /\ Go(t, [pc |-> "consent", user |-> u, nonce |-> n, rec |-> pending[n]])
  /\ UNCHANGED <<store, ghosts, faults>>

ConsentDrop(t, approve) ==
  /\ Is(t, "consent")
  /\ pending' = [pending EXCEPT ![thread[t].nonce] = [is |-> "taken"]]
  /\ Go(t, IF approve THEN [thread[t] EXCEPT !.pc = "approve"] ELSE Idle)
  /\ UNCHANGED <<registered, code, refresh, access, index, ghosts, faults>>

\* The code is saved, with its TTL, and carries the consenting user.
ConsentMint(t, k) ==
  /\ Is(t, "approve")
  /\ k \in Fresh(MaxCodes, {m \in Code : code[m] # Gone})
  /\ LET p == thread[t].rec IN
     /\ code' = [code EXCEPT ![k] = [is |-> "kept", client |-> p.client, user |-> thread[t].user,
          uri |-> p.uri, challenge |-> p.challenge, used |-> FALSE]]
     /\ approved' = [approved EXCEPT ![k] =
          [is |-> "consent", user |-> thread[t].user, client |-> p.client]]
  /\ Go(t, Idle)
  /\ UNCHANGED <<registered, pending, refresh, access, index, known, children, raced, cut, faults>>

-----------------------------------------------------------------------------
(* The token endpoint. The client is authenticated by the guard.           *)

Holders(x) == {t \in Thread : ~ Is(t, "idle") /\ "of" \in DOMAIN thread[t] /\ thread[t].of = x}

\* A request that starts on a grant disturbs whoever disconnects it meanwhile.
Begin(t, record) ==
  thread' = [s \in Thread |->
    IF s = t THEN record
    ELSE IF "calm" \in DOMAIN thread[s] THEN [thread[s] EXCEPT !.calm = @ \ {record.grant}]
    ELSE thread[s]]

Noted(x) == raced' = IF Holders(x) # {} THEN raced \cup {x} ELSE raced

\* Wrong: a code that was used is taken again.
SlipSpendable(rec) == rec.is = "kept"

\* There, not used and, for a refresh token, not revoked.
Spendable(rec) == rec.is = "kept" /\ ~ rec.used

ExchangeRead(t, c, k) ==
  /\ Is(t, "idle") /\ c \in registered
  /\ Spendable(code[k])
  /\ Begin(t, [pc |-> "exchange", client |-> c, of |-> <<"code", k>>, grant |-> k, rec |-> code[k]])
  /\ Noted(<<"code", k>>)
  /\ UNCHANGED <<store, approved, known, children, cut, faults>>

\* Wrong: the code is not bound to the client it was minted for.
SlipBound(rec, c, uri, verifier) == rec.uri = uri /\ rec.challenge = verifier

Bound(rec, c, uri, verifier) == rec.client = c /\ rec.uri = uri /\ rec.challenge = verifier

\* The code is used up before it is known whether the request may have it.
ExchangeSpend(t, uri, verifier) ==
  /\ Is(t, "exchange")
  /\ LET x == thread[t] IN
     /\ code' = [code EXCEPT ![x.grant] = [x.rec EXCEPT !.used = TRUE]]
     /\ Go(t, IF Bound(x.rec, x.client, uri, verifier) THEN [x EXCEPT !.pc = "access"] ELSE Idle)
  /\ UNCHANGED <<registered, pending, refresh, access, index, ghosts, faults>>

RefreshRead(t, c, k) ==
  /\ Is(t, "idle") /\ c \in registered
  /\ Spendable(refresh[k]) /\ ~ refresh[k].revoked
  /\ k \in known
  /\ Begin(t, [pc |-> "rotate", client |-> c, of |-> <<"refresh", k>>,
               grant |-> refresh[k].grant, rec |-> refresh[k]])
  /\ Noted(<<"refresh", k>>)
  /\ UNCHANGED <<store, approved, known, children, cut, faults>>

\* The record is written as it was read: a revocation in between is undone.
RefreshSpend(t) ==
  /\ Is(t, "rotate")
  /\ LET x == thread[t] IN
     /\ refresh' = [refresh EXCEPT ![x.of[2]] = [x.rec EXCEPT !.used = TRUE]]
     /\ Go(t, IF x.rec.client = x.client THEN [x EXCEPT !.pc = "access"] ELSE Idle)
  /\ UNCHANGED <<registered, pending, code, access, index, ghosts, faults>>

MintAccess(t) ==
  /\ Is(t, "access")
  /\ access' = access \cup {[client |-> thread[t].client, user |-> thread[t].rec.user, grant |-> thread[t].grant]}
  /\ Go(t, [thread[t] EXCEPT !.pc = "refresh"])
  /\ UNCHANGED <<registered, pending, code, refresh, index, ghosts, faults>>

MintRefresh(t, k) ==
  /\ Is(t, "refresh")
  /\ k \in Fresh(MaxRefresh, {m \in Token : refresh[m] # Gone})
  /\ LET x == thread[t] IN
     /\ refresh' = [refresh EXCEPT ![k] = [is |-> "kept", client |-> x.client, user |-> x.rec.user,
          grant |-> x.grant, used |-> FALSE, revoked |-> FALSE]]
     /\ children' = [children EXCEPT ![x.of] = @ + 1]
     /\ Go(t, [pc |-> "index", of |-> x.of, grant |-> x.grant, user |-> x.rec.user, token |-> k])
  /\ UNCHANGED <<registered, pending, code, access, index, approved, known, raced, cut, faults>>

\* The token is put in the index of its user, and the pair is answered.
IndexRefresh(t) ==
  /\ Is(t, "index")
  /\ index' = [index EXCEPT ![thread[t].user] = @ \cup {thread[t].token}]
  /\ known' = known \cup {thread[t].token}
  /\ Go(t, Idle)
  /\ UNCHANGED <<registered, pending, code, refresh, access, approved, children, raced, cut, faults>>

-----------------------------------------------------------------------------
(* Revocation by the client, which always answers 200.                     *)

RevokeAccess(c, a) ==
  /\ c \in registered /\ a \in access /\ a.client = c
  /\ access' = access \ {a}
  /\ UNCHANGED <<registered, pending, code, refresh, index, thread, ghosts, faults>>

RevokeRead(t, c, k) ==
  /\ Is(t, "idle") /\ c \in registered /\ k \in known
  /\ refresh[k].is = "kept" /\ refresh[k].client = c /\ ~ refresh[k].revoked
  /\ Go(t, [pc |-> "revoke", of |-> <<"refresh", k>>, rec |-> refresh[k]])
  /\ Noted(<<"refresh", k>>)
  /\ UNCHANGED <<store, approved, known, children, cut, faults>>

\* save_refresh_token also puts it in the index.
Revoked(rec) == [rec EXCEPT !.revoked = TRUE]

RevokeWrite(t) ==
  /\ Is(t, "revoke")
  /\ LET k == thread[t].of[2] IN
     /\ refresh' = [refresh EXCEPT ![k] = Revoked(thread[t].rec)]
     /\ index' = [index EXCEPT ![thread[t].rec.user] = @ \cup {k}]
  /\ Go(t, Idle)
  /\ UNCHANGED <<registered, pending, code, access, ghosts, faults>>

-----------------------------------------------------------------------------
(* The user disconnects a client (revoke_grants_for_client).               *)

Grants(u, c) == {g \in Code : approved[g] # Gone /\ approved[g].user = u /\ approved[g].client = c}

\* The grants that a request is working on.
Busy == {thread[t].grant : t \in {s \in Thread : "grant" \in DOMAIN thread[s]}}

\* A disconnection: the tokens it has yet to look at, and what it has read.
Disconnecting(x, pc, left, k, rec) ==
  [pc |-> pc, user |-> x.user, client |-> x.client, calm |-> x.calm,
   left |-> left, token |-> k, rec |-> rec]

Disconnect(t, u, c) ==
  /\ Is(t, "idle")
  /\ LET calm == {g \in Grants(u, c) : code[g].is = "kept" => code[g].used} \ Busy
     IN  Go(t, Disconnecting([user |-> u, client |-> c, calm |-> calm], "disconnect", index[u], 0, Gone))
  /\ UNCHANGED <<store, ghosts, faults>>

\* Wrong: the tokens of the other clients are revoked instead.
SlipTargeted(rec, c) == rec.is = "kept" /\ rec.client # c /\ ~ rec.revoked

Targeted(rec, c) == rec.is = "kept" /\ rec.client = c /\ ~ rec.revoked

DisconnectRead(t, k) ==
  /\ Is(t, "disconnect") /\ k \in thread[t].left
  /\ LET rest == thread[t].left \ {k} IN
     Go(t, IF Targeted(refresh[k], thread[t].client)
           THEN Disconnecting(thread[t], "cutting", rest, k, refresh[k])
           ELSE Disconnecting(thread[t], "disconnect", rest, 0, Gone))
  /\ UNCHANGED <<store, ghosts, faults>>

DisconnectWrite(t) ==
  /\ Is(t, "cutting")
  /\ refresh' = [refresh EXCEPT ![thread[t].token] = Revoked(thread[t].rec)]
  /\ Go(t, Disconnecting(thread[t], "disconnect", thread[t].left, 0, Gone))
  /\ UNCHANGED <<registered, pending, code, access, index, ghosts, faults>>

DisconnectEnd(t) ==
  /\ Is(t, "disconnect") /\ thread[t].left = {}
  /\ cut' = cut \cup thread[t].calm
  /\ Go(t, Idle)
  /\ UNCHANGED <<store, approved, known, children, raced, faults>>

-----------------------------------------------------------------------------
(* Expiry and crashes.                                                     *)

MayFail == faults < MaxFaults /\ faults' = faults + 1

\* An id that expired stays taken: it was random and never comes back.
ExpireCode(k) ==
  /\ MayFail /\ code[k].is = "kept"
  /\ code' = [code EXCEPT ![k] = [is |-> "expired"]]
  /\ UNCHANGED <<registered, pending, refresh, access, index, thread, ghosts>>

ExpireRefresh(k) ==
  /\ MayFail /\ refresh[k].is = "kept"
  /\ refresh' = [refresh EXCEPT ![k] = [is |-> "expired"]]
  /\ UNCHANGED <<registered, pending, code, access, index, thread, ghosts>>

\* The host dies, or storage fails, in the middle of a request.
Crash(t) ==
  /\ MayFail /\ ~ Is(t, "idle")
  /\ Go(t, Idle)
  /\ UNCHANGED <<store, ghosts>>

Next ==
  \/ \E c \in Client : Register(c)
  \/ \E c \in Client, n \in Nonce, uri \in Uri, v \in Verifier : Authorize(c, n, uri, v)
  \/ \E c \in Client, a \in access : RevokeAccess(c, a)
  \/ \E k \in Code : ExpireCode(k)
  \/ \E k \in Token : ExpireRefresh(k)
  \/ \E t \in Thread :
       \/ \E u \in User, n \in Nonce : ConsentRead(t, u, n)
       \/ \E approve \in BOOLEAN : ConsentDrop(t, approve)
       \/ \E k \in Code : ConsentMint(t, k)
       \/ \E c \in Client, k \in Code : ExchangeRead(t, c, k)
       \/ \E uri \in Uri, v \in Verifier : ExchangeSpend(t, uri, v)
       \/ \E c \in Client, k \in Token : RefreshRead(t, c, k) \/ RevokeRead(t, c, k)
       \/ RefreshSpend(t) \/ MintAccess(t) \/ IndexRefresh(t) \/ RevokeWrite(t)
       \/ \E k \in Token : MintRefresh(t, k) \/ DisconnectRead(t, k)
       \/ \E u \in User, c \in Client : Disconnect(t, u, c)
       \/ DisconnectWrite(t) \/ DisconnectEnd(t) \/ Crash(t)

Spec == Init /\ [][Next]_vars

-----------------------------------------------------------------------------
\* Every token belongs to a client and a user such that this user, signed in,
\* approved this client: through codes, rotations, wrong clients that burn
\* codes, races and crashes (mcp_oauth.rs:1124, :1338, :1464).
Consented ==
  LET Traced(x) == approved[x.grant] = [is |-> "consent", user |-> x.user, client |-> x.client] IN
  /\ \A a \in access : Traced(a)
  /\ \A k \in Token : refresh[k].is = "kept" => Traced(refresh[k])

\* A code or a refresh token buys one pair of tokens at most, unless two
\* requests held it at once: "Returns Some(record) on the FIRST consume"
\* (mcp_oauth.rs:247, :294) holds one request after the other.
OnePairUnlessRaced == \A x \in DOMAIN children : children[x] <= 1 \/ x \in raced

\* A grant that the user disconnected while no request was at work on it has
\* no refresh token left that its client could use (mcp_oauth.rs:538).
CutOff == \A k \in known :
  refresh[k].is = "kept" /\ refresh[k].grant \in cut => refresh[k].used \/ refresh[k].revoked
=============================================================================
