----------------------------- MODULE OAuthProofs -----------------------------
(* Whatever the users, clients and requests are, and however they race and *)
(* crash: every token goes back to a consent of its user for its client,   *)
(* a code or refresh token buys one pair unless two requests held it, and  *)
(* a disconnection leaves no live token of a grant that nobody works on.   *)
(* The inductive invariants are IInv and, on top of it, PairInv and CutInv.*)
EXTENDS OAuth, TLAPS

Consent(u, c) == [is |-> "consent", user |-> u, client |-> c]

(* Grant g was approved by u for c, as far as ap knows.                    *)
Grant(ap, g, u, c) == ap[g] = Consent(u, c)

CodeRecord(r) ==
  r = [is |-> "kept", client |-> r.client, user |-> r.user, uri |-> r.uri,
       challenge |-> r.challenge, used |-> r.used]

TokenRecord(r) ==
  r = [is |-> "kept", client |-> r.client, user |-> r.user, grant |-> r.grant,
       used |-> r.used, revoked |-> r.revoked]

Owned(ap, r) == TokenRecord(r) /\ Grant(ap, r.grant, r.user, r.client)

(* A request at the token endpoint, and one that disconnects a client.     *)
Serving(x) ==
  x = [pc |-> x.pc, client |-> x.client, of |-> x.of, grant |-> x.grant, rec |-> x.rec]

Cutting(x) ==
  x = [pc |-> x.pc, user |-> x.user, client |-> x.client, left |-> x.left,
       token |-> x.token, rec |-> x.rec, calm |-> x.calm]

(* What a request knows at each of its steps. At "access" its client is    *)
(* the one that the record belongs to: Bound, and the check of a rotation. *)
Sound(ap, x) ==
  \/ x = Idle
  \/ /\ x.pc \in {"consent", "approve"}
     /\ x = [pc |-> x.pc, user |-> x.user, nonce |-> x.nonce, rec |-> x.rec]
  \/ /\ x.pc = "exchange" /\ Serving(x)
     /\ CodeRecord(x.rec) /\ Grant(ap, x.grant, x.rec.user, x.rec.client)
  \/ /\ x.pc = "rotate" /\ Serving(x)
     /\ Owned(ap, x.rec) /\ x.rec.grant = x.grant
  \/ /\ x.pc \in {"access", "refresh"} /\ Serving(x)
     /\ Grant(ap, x.grant, x.rec.user, x.client)
  \/ /\ x.pc = "index"
     /\ x = [pc |-> "index", of |-> x.of, grant |-> x.grant, user |-> x.user, token |-> x.token]
  \/ /\ x.pc = "revoke" /\ x = [pc |-> "revoke", of |-> x.of, rec |-> x.rec]
     /\ Owned(ap, x.rec)
  \/ x.pc = "disconnect" /\ Cutting(x)
  \/ x.pc = "cutting" /\ Cutting(x) /\ Owned(ap, x.rec)

Maps ==
  /\ thread = [t \in Thread |-> thread[t]]
  /\ code = [k \in Code |-> code[k]]
  /\ refresh = [k \in Token |-> refresh[k]]
  /\ approved = [k \in Code |-> approved[k]]

(* An approval is never overwritten: its code was handed out.              *)
Minted == \A k \in Code : approved[k] # Gone => code[k] # Gone

CodesOwned == \A k \in Code : code[k].is = "kept" =>
  CodeRecord(code[k]) /\ Grant(approved, k, code[k].user, code[k].client)

TokensOwned ==
  /\ \A k \in Token : refresh[k].is = "kept" => Owned(approved, refresh[k])
  /\ \A a \in access : Grant(approved, a.grant, a.user, a.client)

RequestsSound == \A t \in Thread : Sound(approved, thread[t])

IInv == Maps /\ Minted /\ CodesOwned /\ TokensOwned /\ RequestsSound

(* The invariant holds at first, and says what the theorem says.           *)
LEMMA InitInv == Init => IInv
BY DEF Init, IInv, Maps, Minted, CodesOwned, TokensOwned, RequestsSound, Sound, Gone

LEMMA InvConsented == IInv => Consented
BY DEF IInv, TokensOwned, Consented, Grant, Owned, Consent

(* What a request knows, by the step it is at.                             *)
LEMMA Knows ==
  ASSUME NEW ap, NEW x, Sound(ap, x)
  PROVE  /\ x.pc = "consent" =>
              x = [pc |-> "consent", user |-> x.user, nonce |-> x.nonce, rec |-> x.rec]
         /\ x.pc = "exchange" => /\ Serving(x) /\ CodeRecord(x.rec)
                                 /\ Grant(ap, x.grant, x.rec.user, x.rec.client)
         /\ x.pc = "rotate" => Serving(x) /\ Owned(ap, x.rec) /\ x.rec.grant = x.grant
         /\ x.pc \in {"access", "refresh"} => Serving(x) /\ Grant(ap, x.grant, x.rec.user, x.client)
         /\ x.pc = "revoke" => Owned(ap, x.rec)
         /\ x.pc = "disconnect" => Cutting(x)
         /\ x.pc = "cutting" => Cutting(x) /\ Owned(ap, x.rec)
BY DEF Sound, Idle

(* Which is true of every request in progress.                             *)
LEMMA ThreadKnows ==
  ASSUME IInv, NEW t \in Thread
  PROVE  Sound(approved, thread[t])
BY DEF IInv, RequestsSound

(* What requests know stays true while approvals are only added.           *)
LEMMA SoundKept ==
  ASSUME NEW ap, NEW bp, NEW x, Sound(ap, x),
         \A g, u, c : Grant(ap, g, u, c) => Grant(bp, g, u, c)
  PROVE  Sound(bp, x)
<1> USE DEF Owned
<1> QED
  BY DEF Sound

(* One thread moves on, the approvals stay.                                *)
LEMMA Moves ==
  ASSUME IInv, NEW t \in Thread, NEW x, Go(t, x), Sound(approved, x), approved' = approved
  PROVE  RequestsSound' /\ thread' = [s \in Thread |-> thread'[s]]
BY DEF IInv, Maps, RequestsSound, Go

(* A request that starts takes its grant off the list of whoever is        *)
(* disconnecting; nobody else is touched.                                  *)
LEMMA Begins ==
  ASSUME IInv, NEW t \in Thread, NEW x, Begin(t, x), Sound(approved, x), approved' = approved
  PROVE  RequestsSound' /\ thread' = [s \in Thread |-> thread'[s]]
<1>1. thread' = [s \in Thread |-> thread'[s]]
  BY DEF Begin
<1>2. ASSUME NEW s \in Thread PROVE Sound(approved, thread'[s])
  <2>1. CASE s = t
    BY <2>1 DEF Begin
  <2>2. CASE s # t /\ "calm" \notin DOMAIN thread[s]
    BY <2>2 DEF Begin, IInv, RequestsSound
  <2>3. CASE s # t /\ "calm" \in DOMAIN thread[s]
    <3> DEFINE y == thread[s]
    <3>1. thread'[s] = [y EXCEPT !.calm = @ \ {x.grant}]
      BY <2>3 DEF Begin
    <3>2. Sound(approved, y)
      BY DEF IInv, RequestsSound
    <3>3. y.pc \in {"disconnect", "cutting"} /\ Cutting(y)
      <4> HIDE DEF y
      <4> QED
        BY <2>3, <3>2 DEF Sound, Serving, Idle, y
    <3>4. /\ Cutting(thread'[s]) /\ thread'[s].pc = y.pc /\ thread'[s].rec = y.rec
      BY <3>1, <3>3 DEF Cutting
    <3> QED
      BY <3>2, <3>3, <3>4 DEF Sound, Serving, Idle, Cutting
  <2> QED
    BY <2>1, <2>2, <2>3
<1> QED
  BY <1>1, <1>2 DEF RequestsSound

-----------------------------------------------------------------------------
(* One lemma per part of the server.                                       *)

LEMMA RegistrationInv ==
  ASSUME IInv, NEW c \in Client, Register(c) \/ \E n \in Nonce, uri \in Uri, v \in Verifier : Authorize(c, n, uri, v)
  PROVE  IInv'
BY DEF Register, Authorize, ghosts, IInv, Maps, Minted, CodesOwned, TokensOwned, RequestsSound

LEMMA ConsentReadInv ==
  ASSUME IInv, NEW t \in Thread, NEW u, NEW n, ConsentRead(t, u, n)
  PROVE  IInv'
<1> DEFINE x == [pc |-> "consent", user |-> u, nonce |-> n, rec |-> pending[n]]
<1>1. UNCHANGED <<store, ghosts>> /\ Go(t, x) /\ approved' = approved
  BY DEF ConsentRead, ghosts
<1>2. Sound(approved, x)
  BY DEF Sound
<1> HIDE DEF x
<1>3. RequestsSound' /\ thread' = [s \in Thread |-> thread'[s]]
  BY <1>1, <1>2, Moves
<1> QED
  BY <1>1, <1>3 DEF IInv, Maps, Minted, CodesOwned, TokensOwned, store, ghosts

LEMMA ConsentDropInv ==
  ASSUME IInv, NEW t \in Thread, NEW approve \in BOOLEAN, ConsentDrop(t, approve)
  PROVE  IInv'
<1> DEFINE x == IF approve THEN [thread[t] EXCEPT !.pc = "approve"] ELSE Idle
<1>1. thread[t] = [pc |-> "consent", user |-> thread[t].user, nonce |-> thread[t].nonce,
                   rec |-> thread[t].rec]
  BY ThreadKnows, Knows DEF ConsentDrop, Is
<1>2. [thread[t] EXCEPT !.pc = "approve"]
        = [pc |-> "approve", user |-> thread[t].user, nonce |-> thread[t].nonce, rec |-> thread[t].rec]
  BY <1>1
<1>3. Sound(approved, x)
  BY <1>2 DEF Sound
<1>4. UNCHANGED <<code, refresh, access, approved>> /\ Go(t, x)
  BY DEF ConsentDrop, ghosts
<1>5. RequestsSound' /\ thread' = [s \in Thread |-> thread'[s]]
  BY <1>3, <1>4, Moves
<1> QED
  BY <1>4, <1>5 DEF IInv, Maps, Minted, CodesOwned, TokensOwned

(* The code is new, so nothing that was approved before is forgotten.      *)
LEMMA ConsentMintInv ==
  ASSUME IInv, NEW t \in Thread, NEW k \in Code, ConsentMint(t, k)
  PROVE  IInv'
<1> DEFINE p == thread[t].rec
           u == thread[t].user
           minted == [is |-> "kept", client |-> p.client, user |-> u, uri |-> p.uri,
                      challenge |-> p.challenge, used |-> FALSE]
<1>1. code[k] = Gone /\ approved[k] = Gone
  BY DEF ConsentMint, Fresh, IInv, Minted
<1>2. /\ code' = [code EXCEPT ![k] = minted]
      /\ approved' = [approved EXCEPT ![k] = Consent(u, p.client)]
      /\ Go(t, Idle) /\ UNCHANGED <<refresh, access>>
  BY DEF ConsentMint, Consent
<1>3. \A g, v, c : Grant(approved, g, v, c) => Grant(approved', g, v, c)
  <2> SUFFICES ASSUME NEW g, NEW v, NEW c, Grant(approved, g, v, c) PROVE Grant(approved', g, v, c)
    OBVIOUS
  <2>1. g # k
    BY <1>1 DEF Grant, Consent, Gone
  <2>2. approved'[g] = approved[g]
    BY <1>2, <2>1
  <2> QED
    BY <2>2 DEF Grant
<1>4. RequestsSound'
  <2> SUFFICES ASSUME NEW s \in Thread PROVE Sound(approved', thread'[s])
    BY DEF RequestsSound
  <2>1. CASE s = t
    BY <1>2, <2>1 DEF Go, Sound, IInv, Maps
  <2>2. CASE s # t
    <3>1. thread'[s] = thread[s] /\ Sound(approved, thread[s])
      BY <1>2, <2>2 DEF Go, IInv, Maps, RequestsSound
    <3>2. Sound(approved', thread[s])
      BY <1>3, <3>1, SoundKept
    <3> QED
      BY <3>1, <3>2
  <2> QED
    BY <2>1, <2>2
<1>5. Maps'
  BY <1>2 DEF IInv, Maps, Go
<1>6. Minted'
  BY <1>2 DEF IInv, Maps, Minted, Gone
<1>7. CodesOwned'
  <2> SUFFICES ASSUME NEW j \in Code, code'[j].is = "kept"
               PROVE  CodeRecord(code'[j]) /\ Grant(approved', j, code'[j].user, code'[j].client)
    BY DEF CodesOwned
  <2>1. CASE j = k
    BY <1>2, <2>1 DEF IInv, Maps, CodeRecord, Grant
  <2>2. CASE j # k
    BY <1>2, <1>3, <2>2 DEF IInv, Maps, CodesOwned
  <2> QED
    BY <2>1, <2>2
<1>8. TokensOwned'
  BY <1>2, <1>3 DEF IInv, TokensOwned, Owned
<1> QED
  BY <1>4, <1>5, <1>6, <1>7, <1>8 DEF IInv

LEMMA ExchangeReadInv ==
  ASSUME IInv, NEW t \in Thread, NEW c, NEW k \in Code, ExchangeRead(t, c, k)
  PROVE  IInv'
<1> DEFINE x == [pc |-> "exchange", client |-> c, of |-> <<"code", k>>, grant |-> k, rec |-> code[k]]
<1>1. UNCHANGED <<code, refresh, access, approved>> /\ Begin(t, x)
  BY DEF ExchangeRead, store
<1>2. CodeRecord(code[k]) /\ Grant(approved, k, code[k].user, code[k].client)
  BY DEF ExchangeRead, Spendable, IInv, CodesOwned
<1>3. Sound(approved, x)
  BY <1>2 DEF Sound, Serving
<1> HIDE DEF x
<1>4. RequestsSound' /\ thread' = [s \in Thread |-> thread'[s]]
  BY <1>1, <1>3, Begins
<1> QED
  BY <1>1, <1>4 DEF IInv, Maps, Minted, CodesOwned, TokensOwned

(* A record that is written back says what it said, but for its flags.     *)
LEMMA CodeFlagged ==
  ASSUME NEW r, CodeRecord(r), NEW flag
  PROVE  [r EXCEPT !.used = flag]
           = [is |-> "kept", client |-> r.client, user |-> r.user, uri |-> r.uri,
              challenge |-> r.challenge, used |-> flag]
<1> DEFINE c == r.client  u == r.user  i == r.uri  h == r.challenge  b == r.used
<1>1. r = [is |-> "kept", client |-> c, user |-> u, uri |-> i, challenge |-> h, used |-> b]
  BY DEF CodeRecord
<1> HIDE DEF c, u, i, h, b
<1>2. [r EXCEPT !.used = flag]
        = [is |-> "kept", client |-> c, user |-> u, uri |-> i, challenge |-> h, used |-> flag]
  BY <1>1
<1> QED
  BY <1>2 DEF c, u, i, h

LEMMA TokenFlagged ==
  ASSUME NEW r, TokenRecord(r), NEW flag
  PROVE  /\ [r EXCEPT !.used = flag]
              = [is |-> "kept", client |-> r.client, user |-> r.user, grant |-> r.grant,
                 used |-> flag, revoked |-> r.revoked]
         /\ [r EXCEPT !.revoked = flag]
              = [is |-> "kept", client |-> r.client, user |-> r.user, grant |-> r.grant,
                 used |-> r.used, revoked |-> flag]
<1> DEFINE c == r.client  u == r.user  g == r.grant  b == r.used  d == r.revoked
<1>1. r = [is |-> "kept", client |-> c, user |-> u, grant |-> g, used |-> b, revoked |-> d]
  BY DEF TokenRecord
<1> HIDE DEF c, u, g, b, d
<1>2. [r EXCEPT !.used = flag]
        = [is |-> "kept", client |-> c, user |-> u, grant |-> g, used |-> flag, revoked |-> d]
  BY <1>1
<1>3. [r EXCEPT !.revoked = flag]
        = [is |-> "kept", client |-> c, user |-> u, grant |-> g, used |-> b, revoked |-> flag]
  BY <1>1
<1> QED
  BY <1>2, <1>3 DEF c, u, g, b, d

(* And so it belongs to whom it belonged.                                  *)
LEMMA FlagsKeepOwners ==
  /\ \A r, flag : CodeRecord(r) =>
       LET s == [r EXCEPT !.used = flag]
       IN  CodeRecord(s) /\ s.is = "kept" /\ s.user = r.user /\ s.client = r.client
  /\ \A ap, r, flag : Owned(ap, r) =>
       Owned(ap, [r EXCEPT !.used = flag]) /\ Owned(ap, [r EXCEPT !.revoked = flag])
<1>1. ASSUME NEW r, NEW flag, CodeRecord(r)
      PROVE  LET s == [r EXCEPT !.used = flag]
             IN  CodeRecord(s) /\ s.is = "kept" /\ s.user = r.user /\ s.client = r.client
  BY <1>1, CodeFlagged DEF CodeRecord
<1>2. ASSUME NEW ap, NEW r, NEW flag, Owned(ap, r)
      PROVE  Owned(ap, [r EXCEPT !.used = flag]) /\ Owned(ap, [r EXCEPT !.revoked = flag])
  BY <1>2, TokenFlagged DEF Owned, TokenRecord
<1> QED
  BY <1>1, <1>2

LEMMA ExchangeSpendInv ==
  ASSUME IInv, NEW t \in Thread, NEW uri, NEW v, ExchangeSpend(t, uri, v)
  PROVE  IInv'
<1> DEFINE x == thread[t]
           spent == [x.rec EXCEPT !.used = TRUE]
           next == IF Bound(x.rec, x.client, uri, v) THEN [x EXCEPT !.pc = "access"] ELSE Idle
<1>1. /\ Serving(x) /\ CodeRecord(x.rec)
      /\ Grant(approved, x.grant, x.rec.user, x.rec.client)
  BY ThreadKnows, Knows DEF ExchangeSpend, Is
<1>2. /\ UNCHANGED <<refresh, access, approved>>
      /\ code' = [code EXCEPT ![x.grant] = spent] /\ Go(t, next)
  BY DEF ExchangeSpend, ghosts
<1>3. CodeRecord(spent) /\ spent.is = "kept" /\ spent.user = x.rec.user /\ spent.client = x.rec.client
  BY <1>1, FlagsKeepOwners
<1>4. Sound(approved, next)
  <2>1. CASE Bound(x.rec, x.client, uri, v)
    <3>1. [x EXCEPT !.pc = "access"] = [pc |-> "access", client |-> x.client, of |-> x.of,
                                        grant |-> x.grant, rec |-> x.rec]
      BY <1>1 DEF Serving
    <3> QED
      BY <1>1, <2>1, <3>1 DEF Sound, Serving, Bound
  <2>2. CASE ~ Bound(x.rec, x.client, uri, v)
    BY <2>2 DEF Sound
  <2> QED
    BY <2>1, <2>2
<1>5. \A j \in Code : code'[j] = code[j] \/ (j = x.grant /\ code'[j] = spent)
  BY <1>2 DEF IInv, Maps
<1> HIDE DEF spent, next, x
<1>6. RequestsSound' /\ thread' = [s \in Thread |-> thread'[s]]
  BY <1>2, <1>4, Moves
<1>7. CodesOwned'
  BY <1>1, <1>2, <1>3, <1>5 DEF IInv, CodesOwned
<1>8. Minted'
  BY <1>2, <1>3, <1>5 DEF IInv, Minted, Gone
<1> QED
  BY <1>2, <1>6, <1>7, <1>8 DEF IInv, Maps, TokensOwned

LEMMA RefreshReadInv ==
  ASSUME IInv, NEW t \in Thread, NEW c, NEW k \in Token, RefreshRead(t, c, k)
  PROVE  IInv'
<1> DEFINE x == [pc |-> "rotate", client |-> c, of |-> <<"refresh", k>>,
                 grant |-> refresh[k].grant, rec |-> refresh[k]]
<1>1. UNCHANGED <<code, refresh, access, approved>> /\ Begin(t, x)
  BY DEF RefreshRead, store
<1>2. Owned(approved, refresh[k])
  BY DEF RefreshRead, Spendable, IInv, TokensOwned
<1>3. Sound(approved, x)
  BY <1>2 DEF Sound, Serving
<1> HIDE DEF x
<1>4. RequestsSound' /\ thread' = [s \in Thread |-> thread'[s]]
  BY <1>1, <1>3, Begins
<1> QED
  BY <1>1, <1>4 DEF IInv, Maps, Minted, CodesOwned, TokensOwned

(* A write to the refresh tokens puts down a record that is owned.         *)
LEMMA TokenWritten ==
  ASSUME IInv, NEW k, NEW r, Owned(approved, r), refresh' = [refresh EXCEPT ![k] = r],
         UNCHANGED <<approved, access>>
  PROVE  TokensOwned' /\ refresh' = [j \in Token |-> refresh'[j]]
<1>1. \A j \in Token : refresh'[j] = refresh[j] \/ refresh'[j] = r
  BY DEF IInv, Maps
<1> QED
  BY <1>1 DEF IInv, Maps, TokensOwned

LEMMA RefreshSpendInv ==
  ASSUME IInv, NEW t \in Thread, RefreshSpend(t)
  PROVE  IInv'
<1> DEFINE x == thread[t]
           spent == [x.rec EXCEPT !.used = TRUE]
           next == IF x.rec.client = x.client THEN [x EXCEPT !.pc = "access"] ELSE Idle
<1>1. Serving(x) /\ Owned(approved, x.rec) /\ x.rec.grant = x.grant
  BY ThreadKnows, Knows DEF RefreshSpend, Is
<1>2. /\ UNCHANGED <<code, access, approved>>
      /\ refresh' = [refresh EXCEPT ![x.of[2]] = spent] /\ Go(t, next)
  BY DEF RefreshSpend, ghosts
<1>3. Owned(approved, spent)
  BY <1>1, FlagsKeepOwners
<1>4. Sound(approved, next)
  <2>1. CASE x.rec.client = x.client
    <3>1. [x EXCEPT !.pc = "access"] = [pc |-> "access", client |-> x.client, of |-> x.of,
                                        grant |-> x.grant, rec |-> x.rec]
      BY <1>1 DEF Serving
    <3> QED
      BY <1>1, <2>1, <3>1 DEF Sound, Serving, Owned
  <2>2. CASE x.rec.client # x.client
    BY <2>2 DEF Sound
  <2> QED
    BY <2>1, <2>2
<1> HIDE DEF spent, next, x
<1>5. RequestsSound' /\ thread' = [s \in Thread |-> thread'[s]]
  BY <1>2, <1>4, Moves
<1>6. TokensOwned' /\ refresh' = [j \in Token |-> refresh'[j]]
  BY <1>2, <1>3, TokenWritten
<1> QED
  BY <1>2, <1>5, <1>6 DEF IInv, Maps, Minted, CodesOwned

LEMMA MintAccessInv ==
  ASSUME IInv, NEW t \in Thread, MintAccess(t)
  PROVE  IInv'
<1> DEFINE x == thread[t]
           next == [x EXCEPT !.pc = "refresh"]
           pass == [client |-> x.client, user |-> x.rec.user, grant |-> x.grant]
<1>1. Serving(x) /\ Grant(approved, x.grant, x.rec.user, x.client)
  BY ThreadKnows, Knows DEF MintAccess, Is
<1>2. /\ UNCHANGED <<code, refresh, approved>>
      /\ access' = access \cup {pass} /\ Go(t, next)
  BY DEF MintAccess, ghosts
<1>3. next = [pc |-> "refresh", client |-> x.client, of |-> x.of, grant |-> x.grant, rec |-> x.rec]
  BY <1>1 DEF Serving
<1>4. Sound(approved, next)
  BY <1>1, <1>3 DEF Sound, Serving
<1>5. Grant(approved, pass.grant, pass.user, pass.client)
  BY <1>1
<1> HIDE DEF x, next, pass
<1>6. RequestsSound' /\ thread' = [s \in Thread |-> thread'[s]]
  BY <1>2, <1>4, Moves
<1>7. TokensOwned'
  BY <1>2, <1>5 DEF IInv, TokensOwned
<1> QED
  BY <1>2, <1>6, <1>7 DEF IInv, Maps, Minted, CodesOwned

LEMMA MintRefreshInv ==
  ASSUME IInv, NEW t \in Thread, NEW k \in Token, MintRefresh(t, k)
  PROVE  IInv'
<1> DEFINE x == thread[t]
           next == [pc |-> "index", of |-> x.of, grant |-> x.grant, user |-> x.rec.user, token |-> k]
           new == [is |-> "kept", client |-> x.client, user |-> x.rec.user,
                   grant |-> x.grant, used |-> FALSE, revoked |-> FALSE]
<1>1. Grant(approved, x.grant, x.rec.user, x.client)
  BY ThreadKnows, Knows DEF MintRefresh, Is
<1>2. /\ UNCHANGED <<code, access, approved>>
      /\ refresh' = [refresh EXCEPT ![k] = new] /\ Go(t, next)
  BY DEF MintRefresh
<1>3. Sound(approved, next)
  BY DEF Sound
<1>4. Owned(approved, new)
  BY <1>1 DEF Owned, TokenRecord
<1> HIDE DEF x, next, new
<1>5. RequestsSound' /\ thread' = [s \in Thread |-> thread'[s]]
  BY <1>2, <1>3, Moves
<1>6. TokensOwned' /\ refresh' = [j \in Token |-> refresh'[j]]
  BY <1>2, <1>4, TokenWritten
<1> QED
  BY <1>2, <1>5, <1>6 DEF IInv, Maps, Minted, CodesOwned

(* A request that ends, and touches neither codes nor tokens.              *)
LEMMA EndInv ==
  ASSUME IInv, NEW t \in Thread, Go(t, Idle), UNCHANGED <<code, refresh, access, approved>>
  PROVE  IInv'
<1>1. Sound(approved, Idle)
  BY DEF Sound
<1>2. RequestsSound' /\ thread' = [s \in Thread |-> thread'[s]]
  BY <1>1, Moves
<1> QED
  BY <1>2 DEF IInv, Maps, Minted, CodesOwned, TokensOwned

LEMMA RevokeReadInv ==
  ASSUME IInv, NEW t \in Thread, NEW c, NEW k \in Token, RevokeRead(t, c, k)
  PROVE  IInv'
<1> DEFINE x == [pc |-> "revoke", of |-> <<"refresh", k>>, rec |-> refresh[k]]
<1>1. UNCHANGED <<code, refresh, access, approved>> /\ Go(t, x)
  BY DEF RevokeRead, store
<1>2. Owned(approved, refresh[k])
  BY DEF RevokeRead, IInv, TokensOwned
<1>3. Sound(approved, x)
  BY <1>2 DEF Sound
<1> HIDE DEF x
<1>4. RequestsSound' /\ thread' = [s \in Thread |-> thread'[s]]
  BY <1>1, <1>3, Moves
<1> QED
  BY <1>1, <1>4 DEF IInv, Maps, Minted, CodesOwned, TokensOwned

(* A token that is revoked belongs to whom it belonged.                    *)
LEMMA RevokedOwned ==
  ASSUME NEW ap, NEW r, Owned(ap, r)
  PROVE  Owned(ap, Revoked(r))
BY FlagsKeepOwners DEF Revoked

LEMMA RevokeWriteInv ==
  ASSUME IInv, NEW t \in Thread, RevokeWrite(t)
  PROVE  IInv'
<1> DEFINE k == thread[t].of[2]
           r == Revoked(thread[t].rec)
<1>1. Owned(approved, thread[t].rec)
  BY ThreadKnows, Knows DEF RevokeWrite, Is
<1>2. Owned(approved, r)
  BY <1>1, RevokedOwned
<1>3. /\ UNCHANGED <<code, access, approved>>
      /\ refresh' = [refresh EXCEPT ![k] = r] /\ Go(t, Idle)
  BY DEF RevokeWrite, ghosts
<1> HIDE DEF k, r
<1>4. TokensOwned' /\ refresh' = [j \in Token |-> refresh'[j]]
  BY <1>2, <1>3, TokenWritten
<1>5. RequestsSound' /\ thread' = [s \in Thread |-> thread'[s]]
  BY <1>3, Moves DEF Sound
<1> QED
  BY <1>3, <1>4, <1>5 DEF IInv, Maps, Minted, CodesOwned

(* Each step of a disconnection puts its record together anew.             *)
LEMMA DisconnectingShape ==
  ASSUME NEW x, NEW pc, NEW left, NEW k, NEW rec
  PROVE  LET y == Disconnecting(x, pc, left, k, rec)
         IN  Cutting(y) /\ y.pc = pc /\ y.rec = rec
BY DEF Disconnecting, Cutting

LEMMA DisconnectInv ==
  ASSUME IInv, NEW t \in Thread, NEW u, NEW c, Disconnect(t, u, c)
  PROVE  IInv'
<1>1. PICK x : /\ Go(t, Disconnecting(x, "disconnect", index[u], 0, Gone))
               /\ UNCHANGED <<code, refresh, access, approved>>
  BY DEF Disconnect, store, ghosts
<1>2. Sound(approved, Disconnecting(x, "disconnect", index[u], 0, Gone))
  BY DisconnectingShape DEF Sound
<1>3. RequestsSound' /\ thread' = [s \in Thread |-> thread'[s]]
  BY <1>1, <1>2, Moves
<1> QED
  BY <1>1, <1>3 DEF IInv, Maps, Minted, CodesOwned, TokensOwned

LEMMA DisconnectReadInv ==
  ASSUME IInv, NEW t \in Thread, NEW k \in Token, DisconnectRead(t, k)
  PROVE  IInv'
<1> DEFINE rest == thread[t].left \ {k}
           found == Disconnecting(thread[t], "cutting", rest, k, refresh[k])
           passed == Disconnecting(thread[t], "disconnect", rest, 0, Gone)
           next == IF Targeted(refresh[k], thread[t].client) THEN found ELSE passed
<1>1. UNCHANGED <<code, refresh, access, approved>> /\ Go(t, next)
  BY DEF DisconnectRead, store, ghosts
<1>2. Sound(approved, passed)
  BY DisconnectingShape DEF Sound
<1>3. Targeted(refresh[k], thread[t].client) => Sound(approved, found)
  <2>1. Targeted(refresh[k], thread[t].client) => Owned(approved, refresh[k])
    BY DEF Targeted, IInv, TokensOwned
  <2> QED
    BY <2>1, DisconnectingShape DEF Sound
<1>4. Sound(approved, next)
  BY <1>2, <1>3
<1> HIDE DEF next
<1>5. RequestsSound' /\ thread' = [s \in Thread |-> thread'[s]]
  BY <1>1, <1>4, Moves
<1> QED
  BY <1>1, <1>5 DEF IInv, Maps, Minted, CodesOwned, TokensOwned

LEMMA DisconnectWriteInv ==
  ASSUME IInv, NEW t \in Thread, DisconnectWrite(t)
  PROVE  IInv'
<1> DEFINE k == thread[t].token
           r == Revoked(thread[t].rec)
           next == Disconnecting(thread[t], "disconnect", thread[t].left, 0, Gone)
<1>1. Owned(approved, r)
  BY ThreadKnows, Knows, RevokedOwned DEF DisconnectWrite, Is
<1>2. Sound(approved, next)
  BY DisconnectingShape DEF Sound
<1>3. /\ UNCHANGED <<code, access, approved>>
      /\ refresh' = [refresh EXCEPT ![k] = r] /\ Go(t, next)
  BY DEF DisconnectWrite, ghosts
<1> HIDE DEF k, r, next
<1>4. TokensOwned' /\ refresh' = [j \in Token |-> refresh'[j]]
  BY <1>1, <1>3, TokenWritten
<1>5. RequestsSound' /\ thread' = [s \in Thread |-> thread'[s]]
  BY <1>2, <1>3, Moves
<1> QED
  BY <1>3, <1>4, <1>5 DEF IInv, Maps, Minted, CodesOwned

(* What expires was handed out, and owes nothing any more.                 *)
LEMMA ExpiryInv ==
  ASSUME IInv, (\E k \in Code : ExpireCode(k)) \/ (\E k \in Token : ExpireRefresh(k))
  PROVE  IInv'
<1>1. ASSUME NEW k \in Code, ExpireCode(k) PROVE IInv'
  <2>1. /\ UNCHANGED <<refresh, access, thread, approved>>
        /\ code' = [code EXCEPT ![k] = [is |-> "expired"]]
    BY <1>1 DEF ExpireCode, ghosts
  <2>2. \A j \in Code : code'[j] = code[j] \/ (code'[j].is = "expired" /\ code'[j] # Gone)
    BY <2>1 DEF IInv, Maps, Gone
  <2> QED
    BY <2>1, <2>2 DEF IInv, Maps, Minted, CodesOwned, TokensOwned, RequestsSound
<1>2. ASSUME NEW k \in Token, ExpireRefresh(k) PROVE IInv'
  <2>1. /\ UNCHANGED <<code, access, thread, approved>>
        /\ refresh' = [refresh EXCEPT ![k] = [is |-> "expired"]]
    BY <1>2 DEF ExpireRefresh, ghosts
  <2>2. \A j \in Token : refresh'[j] = refresh[j] \/ refresh'[j].is = "expired"
    BY <2>1 DEF IInv, Maps
  <2> QED
    BY <2>1, <2>2 DEF IInv, Maps, Minted, CodesOwned, TokensOwned, RequestsSound
<1> QED
  BY <1>1, <1>2

-----------------------------------------------------------------------------
LEMMA StepInv == IInv /\ [Next]_vars => IInv'
<1> SUFFICES ASSUME IInv, [Next]_vars PROVE IInv'
  OBVIOUS
<1>1. ASSUME NEW c \in Client, Register(c) PROVE IInv'
  BY <1>1, RegistrationInv
<1>2. ASSUME NEW c \in Client, NEW n \in Nonce, NEW uri \in Uri, NEW v \in Verifier,
             Authorize(c, n, uri, v)
      PROVE  IInv'
  BY <1>2, RegistrationInv
<1>3. ASSUME NEW c \in Client, NEW a \in access, RevokeAccess(c, a) PROVE IInv'
  BY <1>3 DEF RevokeAccess, ghosts, IInv, Maps, Minted, CodesOwned, TokensOwned, RequestsSound
<1>4. ASSUME (\E k \in Code : ExpireCode(k)) \/ (\E k \in Token : ExpireRefresh(k)) PROVE IInv'
  BY <1>4, ExpiryInv
<1>5. ASSUME NEW t \in Thread,
             \/ \E u \in User, n \in Nonce : ConsentRead(t, u, n)
             \/ \E approve \in BOOLEAN : ConsentDrop(t, approve)
             \/ \E k \in Code : ConsentMint(t, k)
      PROVE  IInv'
  BY <1>5, ConsentReadInv, ConsentDropInv, ConsentMintInv
<1>6. ASSUME NEW t \in Thread,
             \/ \E c \in Client, k \in Code : ExchangeRead(t, c, k)
             \/ \E uri \in Uri, v \in Verifier : ExchangeSpend(t, uri, v)
             \/ \E c \in Client, k \in Token : RefreshRead(t, c, k)
             \/ RefreshSpend(t)
      PROVE  IInv'
  BY <1>6, ExchangeReadInv, ExchangeSpendInv, RefreshReadInv, RefreshSpendInv
<1>7. ASSUME NEW t \in Thread, MintAccess(t) \/ \E k \in Token : MintRefresh(t, k) PROVE IInv'
  BY <1>7, MintAccessInv, MintRefreshInv
<1>8. ASSUME NEW t \in Thread, IndexRefresh(t) \/ DisconnectEnd(t) \/ Crash(t) PROVE IInv'
  BY <1>8, EndInv DEF IndexRefresh, DisconnectEnd, Crash, store, ghosts
<1>9. ASSUME NEW t \in Thread, RevokeWrite(t) \/ \E c \in Client, k \in Token : RevokeRead(t, c, k)
      PROVE  IInv'
  BY <1>9, RevokeReadInv, RevokeWriteInv
<1>10. ASSUME NEW t \in Thread,
              \/ \E u \in User, c \in Client : Disconnect(t, u, c)
              \/ \E k \in Token : DisconnectRead(t, k)
              \/ DisconnectWrite(t)
       PROVE  IInv'
  BY <1>10, DisconnectInv, DisconnectReadInv, DisconnectWriteInv
<1>11. CASE UNCHANGED vars
  BY <1>11 DEF vars, store, ghosts, IInv, Maps, Minted, CodesOwned, TokensOwned, RequestsSound
<1> QED
  BY <1>1, <1>2, <1>3, <1>4, <1>5, <1>6, <1>7, <1>8, <1>9, <1>10, <1>11 DEF Next

(* No token of any client was ever minted that does not go back to its     *)
(* user's consent for this very client (mcp_oauth.rs): not by a code that  *)
(* another client presents, a rotation, a race, a revocation or a crash.   *)
THEOREM TokensGoBackToConsents == Spec => []Consented
<1> QED
  BY InitInv, InvConsented, StepInv, PTL DEF Spec
-----------------------------------------------------------------------------
(* How records age.                                                        *)

(* A code and a refresh token that no request can take any more.           *)
Spent(k) == ~ Spendable(code[k])
Dead(k) == Spendable(refresh[k]) => refresh[k].revoked

(* The flag that is written is the flag that is read.                      *)
LEMMA FlagsRead ==
  /\ \A r, flag : CodeRecord(r) =>
       [r EXCEPT !.used = flag].is = "kept" /\ [r EXCEPT !.used = flag].used = flag
  /\ \A r, flag : TokenRecord(r) =>
       /\ [r EXCEPT !.used = flag].is = "kept" /\ [r EXCEPT !.used = flag].used = flag
       /\ [r EXCEPT !.revoked = flag].is = "kept" /\ [r EXCEPT !.revoked = flag].revoked = flag
<1>1. ASSUME NEW r, NEW flag, CodeRecord(r)
      PROVE  [r EXCEPT !.used = flag].is = "kept" /\ [r EXCEPT !.used = flag].used = flag
  <2> DEFINE s == [r EXCEPT !.used = flag]
  <2>1. s = [is |-> "kept", client |-> r.client, user |-> r.user, uri |-> r.uri,
             challenge |-> r.challenge, used |-> flag]
    BY <1>1, CodeFlagged
  <2> HIDE DEF s
  <2>2. s.is = "kept" /\ s.used = flag
    BY <2>1
  <2> QED
    BY <2>2 DEF s
<1>2. ASSUME NEW r, NEW flag, TokenRecord(r)
      PROVE  /\ [r EXCEPT !.used = flag].is = "kept" /\ [r EXCEPT !.used = flag].used = flag
             /\ [r EXCEPT !.revoked = flag].is = "kept" /\ [r EXCEPT !.revoked = flag].revoked = flag
  <2> DEFINE s == [r EXCEPT !.used = flag]
             z == [r EXCEPT !.revoked = flag]
  <2>1. s = [is |-> "kept", client |-> r.client, user |-> r.user, grant |-> r.grant,
             used |-> flag, revoked |-> r.revoked]
    BY <1>2, TokenFlagged
  <2>2. z = [is |-> "kept", client |-> r.client, user |-> r.user, grant |-> r.grant,
             used |-> r.used, revoked |-> flag]
    BY <1>2, TokenFlagged
  <2> HIDE DEF s, z
  <2>3. s.is = "kept" /\ s.used = flag /\ z.is = "kept" /\ z.revoked = flag
    BY <2>1, <2>2
  <2> QED
    BY <2>3 DEF s, z
<1> QED
  BY <1>1, <1>2

(* Whatever is written over a code that exists uses it up or expires it.   *)
LEMMA CodesAge ==
  ASSUME IInv, [Next]_vars, NEW k \in Code, code[k] # Gone
  PROVE  code'[k] # Gone /\ (Spent(k) => Spent(k)')
<1> DEFINE Goal == code'[k] # Gone /\ (Spent(k) => Spent(k)')
<1>1. UNCHANGED code => Goal
  BY DEF Spent
<1>2. ASSUME NEW t \in Thread, NEW j \in Code, ConsentMint(t, j) PROVE Goal
  <2>1. k # j
    BY <1>2 DEF ConsentMint, Fresh
  <2>2. code'[k] = code[k]
    BY <1>2, <2>1 DEF ConsentMint, IInv, Maps
  <2> QED
    BY <2>2 DEF Spent
<1>3. ASSUME NEW t \in Thread, NEW uri, NEW v, ExchangeSpend(t, uri, v) PROVE Goal
  <2> DEFINE spent == [thread[t].rec EXCEPT !.used = TRUE]
  <2>1. CodeRecord(thread[t].rec)
    BY <1>3, ThreadKnows, Knows DEF ExchangeSpend, Is
  <2>2. spent.is = "kept" /\ spent.used = TRUE
    BY <2>1, FlagsRead
  <2>3. code'[k] = code[k] \/ code'[k] = spent
    BY <1>3 DEF ExchangeSpend, IInv, Maps
  <2> HIDE DEF spent
  <2> QED
    BY <2>2, <2>3 DEF Spent, Spendable, Gone
<1>4. ASSUME NEW j \in Code, ExpireCode(j) PROVE Goal
  <2>1. code'[k] = code[k] \/ code'[k] = [is |-> "expired"]
    BY <1>4 DEF ExpireCode, IInv, Maps
  <2> QED
    BY <2>1 DEF Spent, Spendable, Gone
<1> HIDE DEF Goal
<1>5. ASSUME NEW t \in Thread,
             \/ \E u \in User, n \in Nonce : ConsentRead(t, u, n)
             \/ \E approve \in BOOLEAN : ConsentDrop(t, approve)
             \/ \E c \in Client, j \in Code : ExchangeRead(t, c, j)
             \/ \E c \in Client, j \in Token : RefreshRead(t, c, j) \/ RevokeRead(t, c, j)
             \/ RefreshSpend(t) \/ MintAccess(t) \/ IndexRefresh(t) \/ RevokeWrite(t)
             \/ \E j \in Token : MintRefresh(t, j) \/ DisconnectRead(t, j)
             \/ \E u \in User, c \in Client : Disconnect(t, u, c)
             \/ DisconnectWrite(t) \/ DisconnectEnd(t) \/ Crash(t)
      PROVE  UNCHANGED code
  BY <1>5 DEF store, ConsentRead, ConsentDrop, ExchangeRead, RefreshRead, RevokeRead, RefreshSpend,
              MintAccess, IndexRefresh, RevokeWrite, MintRefresh, DisconnectRead, Disconnect,
              DisconnectWrite, DisconnectEnd, Crash
<1>6. ASSUME \/ \E c \in Client : Register(c)
             \/ \E c \in Client, n \in Nonce, uri \in Uri, v \in Verifier : Authorize(c, n, uri, v)
             \/ \E c \in Client, a \in access : RevokeAccess(c, a)
             \/ \E j \in Token : ExpireRefresh(j)
             \/ UNCHANGED vars
      PROVE  UNCHANGED code
  BY <1>6 DEF Register, Authorize, RevokeAccess, ExpireRefresh, vars, store
<1> QED
  BY <1>1, <1>2, <1>3, <1>4, <1>5, <1>6 DEF Next, Goal

(* Whatever is written over a token that exists uses it up, revokes or     *)
(* expires it, also when the write undoes another one.                     *)
LEMMA TokensAge ==
  ASSUME IInv, [Next]_vars, NEW k \in Token, refresh[k] # Gone
  PROVE  refresh'[k] # Gone /\ (Dead(k) => Dead(k)') /\ (refresh'[k] = refresh[k] \/ Dead(k)')
<1> DEFINE Goal == refresh'[k] # Gone /\ (Dead(k) => Dead(k)')
                   /\ (refresh'[k] = refresh[k] \/ Dead(k)')
<1>1. ASSUME refresh'[k] = refresh[k] PROVE Goal
  BY <1>1 DEF Dead
<1>2. ASSUME NEW r, refresh'[k] = r, r.is = "kept", r.used = TRUE \/ r.revoked = TRUE PROVE Goal
  BY <1>2 DEF Dead, Spendable, Gone
<1>3. ASSUME NEW t \in Thread, RefreshSpend(t) PROVE Goal
  <2> DEFINE spent == [thread[t].rec EXCEPT !.used = TRUE]
  <2>1. TokenRecord(thread[t].rec)
    BY <1>3, ThreadKnows, Knows DEF RefreshSpend, Is, Owned
  <2>2. spent.is = "kept" /\ spent.used = TRUE
    BY <2>1, FlagsRead
  <2>3. refresh'[k] = refresh[k] \/ refresh'[k] = spent
    BY <1>3 DEF RefreshSpend, IInv, Maps
  <2> HIDE DEF spent, Goal
  <2> QED
    BY <1>1, <1>2, <2>2, <2>3
<1>4. ASSUME NEW t \in Thread, RevokeWrite(t) \/ DisconnectWrite(t) PROVE Goal
  <2> DEFINE r == Revoked(thread[t].rec)
  <2>1. TokenRecord(thread[t].rec)
    BY <1>4, ThreadKnows, Knows DEF RevokeWrite, DisconnectWrite, Is, Owned
  <2>2. r.is = "kept" /\ r.revoked = TRUE
    BY <2>1, FlagsRead DEF Revoked
  <2>3. refresh'[k] = refresh[k] \/ refresh'[k] = r
    BY <1>4 DEF RevokeWrite, DisconnectWrite, IInv, Maps
  <2> HIDE DEF r, Goal
  <2> QED
    BY <1>1, <1>2, <2>2, <2>3
<1>5. ASSUME NEW t \in Thread, NEW j \in Token, MintRefresh(t, j) PROVE Goal
  <2>1. k # j
    BY <1>5 DEF MintRefresh, Fresh
  <2>2. refresh'[k] = refresh[k]
    BY <1>5, <2>1 DEF MintRefresh, IInv, Maps
  <2> HIDE DEF Goal
  <2> QED
    BY <1>1, <2>2
<1>6. ASSUME NEW j \in Token, ExpireRefresh(j) PROVE Goal
  <2>1. refresh'[k] = refresh[k] \/ refresh'[k] = [is |-> "expired"]
    BY <1>6 DEF ExpireRefresh, IInv, Maps
  <2> QED
    BY <2>1 DEF Dead, Spendable, Gone
<1> HIDE DEF Goal
<1>7. ASSUME NEW t \in Thread,
             \/ \E u \in User, n \in Nonce : ConsentRead(t, u, n)
             \/ \E approve \in BOOLEAN : ConsentDrop(t, approve)
             \/ \E j \in Code : ConsentMint(t, j)
             \/ \E c \in Client, j \in Code : ExchangeRead(t, c, j)
             \/ \E uri \in Uri, v \in Verifier : ExchangeSpend(t, uri, v)
             \/ \E c \in Client, j \in Token : RefreshRead(t, c, j) \/ RevokeRead(t, c, j)
             \/ MintAccess(t) \/ IndexRefresh(t)
             \/ \E j \in Token : DisconnectRead(t, j)
             \/ \E u \in User, c \in Client : Disconnect(t, u, c)
             \/ DisconnectEnd(t) \/ Crash(t)
      PROVE  UNCHANGED refresh
  BY <1>7 DEF store, ConsentRead, ConsentDrop, ConsentMint, ExchangeRead, ExchangeSpend, RefreshRead,
              RevokeRead, MintAccess, IndexRefresh, DisconnectRead, Disconnect, DisconnectEnd, Crash
<1>8. ASSUME \/ \E c \in Client : Register(c)
             \/ \E c \in Client, n \in Nonce, uri \in Uri, v \in Verifier : Authorize(c, n, uri, v)
             \/ \E c \in Client, a \in access : RevokeAccess(c, a)
             \/ \E j \in Code : ExpireCode(j)
             \/ UNCHANGED vars
      PROVE  UNCHANGED refresh
  BY <1>8 DEF Register, Authorize, RevokeAccess, ExpireCode, vars, store
<1> QED
  BY <1>1, <1>3, <1>4, <1>5, <1>6, <1>7, <1>8 DEF Next, Goal
-----------------------------------------------------------------------------
(* One pair of tokens for a code or a refresh token.                       *)

Things == ({"code"} \X Code) \cup ({"refresh"} \X Token)

(* A request that holds a thing, and one that may still mint for it.       *)
Holding == {"exchange", "rotate", "access", "refresh", "index", "revoke"}
Working == {"exchange", "rotate", "access", "refresh"}

Born(x) == IF x[1] = "code" THEN code[x[2]] # Gone ELSE refresh[x[2]] # Gone
Taken(x) == IF x[1] = "code" THEN Spent(x[2]) ELSE Dead(x[2])

(* What is minted is minted for something that was taken.                  *)
Held(t) == thread[t].pc \in Holding =>
  /\ thread[t].of \in Things /\ Born(thread[t].of)
  /\ thread[t].pc \in {"access", "refresh"} => Taken(thread[t].of)
  /\ thread[t].pc = "exchange" => thread[t].of = <<"code", thread[t].grant>>
  /\ thread[t].pc = "rotate" => thread[t].of[1] = "refresh"

(* What two requests never held at once is held by one at most; once it    *)
(* has a pair it is taken, and nobody is about to mint another.            *)
OneHolder(x) == \A s, t \in Thread :
  /\ thread[s].pc \in Holding /\ thread[s].of = x
  /\ thread[t].pc \in Holding /\ thread[t].of = x
  => s = t

OnePair(x) ==
  /\ OneHolder(x)
  /\ children[x] <= 1
  /\ children[x] = 1 =>
       Taken(x) /\ \A t \in Thread : thread[t].pc \in Working => thread[t].of # x

PairInv ==
  /\ IInv
  /\ children \in [Things -> Nat]
  /\ \A x \in Things : children[x] = 0 \/ Born(x)
  /\ \A t \in Thread : Held(t)
  /\ \A x \in Things \ raced : OnePair(x)

(* Things age as their records do.                                         *)
LEMMA ThingsAge ==
  ASSUME IInv, [Next]_vars, NEW x \in Things, Born(x)
  PROVE  Born(x)' /\ (Taken(x) => Taken(x)')
<1>1. CASE x \in {"code"} \X Code
  <2>1. x[1] = "code" /\ x[2] \in Code /\ code[x[2]] # Gone
    BY <1>1 DEF Born
  <2> QED
    BY <2>1, CodesAge DEF Born, Taken
<1>2. CASE x \in {"refresh"} \X Token
  <2>1. x[1] = "refresh" /\ x[2] \in Token /\ refresh[x[2]] # Gone
    BY <1>2 DEF Born
  <2> QED
    BY <2>1, TokensAge DEF Born, Taken
<1> QED
  BY <1>1, <1>2 DEF Things

(* The other requests hold what they held.                                 *)
OthersHold(t) == \A s \in Thread \ {t} :
  /\ thread'[s].pc = thread[s].pc
  /\ thread[s].pc \in Holding => thread'[s] = thread[s]

LEMMA GoHolds ==
  ASSUME IInv, NEW t \in Thread, NEW x, Go(t, x)
  PROVE  thread'[t] = x /\ OthersHold(t)
BY DEF Go, IInv, Maps, OthersHold

(* Only a disconnection has a list of grants to take one from.             *)
LEMMA Calm ==
  ASSUME IInv, NEW s \in Thread, "calm" \in DOMAIN thread[s]
  PROVE  thread[s].pc \in {"disconnect", "cutting"} /\ Cutting(thread[s])
<1> DEFINE y == thread[s]
<1>1. Sound(approved, y)
  BY ThreadKnows
<1> HIDE DEF y
<1> QED
  BY <1>1 DEF Sound, Serving, Idle, y

LEMMA BeginHolds ==
  ASSUME IInv, NEW t \in Thread, NEW x, Begin(t, x)
  PROVE  thread'[t] = x /\ OthersHold(t)
<1>1. thread'[t] = x
  BY DEF Begin
<1>2. ASSUME NEW s \in Thread \ {t}, "calm" \notin DOMAIN thread[s] PROVE thread'[s] = thread[s]
  BY <1>2 DEF Begin
<1>3. ASSUME NEW s \in Thread \ {t}, "calm" \in DOMAIN thread[s]
      PROVE  thread'[s].pc = thread[s].pc /\ thread[s].pc \notin Holding
  <2> DEFINE y == thread[s]
  <2>1. thread'[s] = [y EXCEPT !.calm = @ \ {x.grant}]
    BY <1>3 DEF Begin
  <2>2. y.pc \in {"disconnect", "cutting"} /\ Cutting(y)
    BY <1>3, Calm
  <2> HIDE DEF y
  <2>3. thread'[s].pc = y.pc
    BY <2>1, <2>2 DEF Cutting
  <2> QED
    BY <2>2, <2>3 DEF y, Holding
<1> QED
  BY <1>1, <1>2, <1>3 DEF OthersHold

(* Who holds something, as Holders sees it.                                *)
LEMMA HoldersAre ==
  ASSUME IInv, NEW x, NEW t \in Thread, thread[t].pc \in Holding, thread[t].of = x
  PROVE  t \in Holders(x)
<1> DEFINE y == thread[t]
<1>1. Sound(approved, y) /\ y.pc \in Holding
  BY ThreadKnows
<1> HIDE DEF y
<1>2. "of" \in DOMAIN y /\ y.pc # "idle"
  BY <1>1 DEF Sound, Serving, Holding, Idle
<1> QED
  BY <1>2 DEF Holders, Is, y

(* A request goes on with what it holds, or lets go of it.                 *)
LEMMA HolderMoves ==
  ASSUME PairInv, [Next]_vars, NEW t \in Thread, OthersHold(t),
         children' = children, raced' = raced,
         thread'[t].pc \in Holding =>
           /\ thread[t].pc \in Holding /\ thread'[t].of = thread[t].of
           /\ thread'[t].pc \in Working => thread[t].pc \in Working
           /\ thread'[t].pc \in {"access", "refresh"} => Taken(thread[t].of)'
           /\ thread'[t].pc \notin {"exchange", "rotate"}
  PROVE  PairInv'
<1>1. IInv'
  BY StepInv DEF PairInv
<1>2. \A x \in Things : Born(x) => Born(x)' /\ (Taken(x) => Taken(x)')
  BY ThingsAge DEF PairInv
<1>3. ASSUME NEW s \in Thread PROVE Held(s)'
  <2>1. CASE s = t
    BY <1>2, <2>1 DEF PairInv, Held
  <2>2. CASE s # t
    BY <1>2, <2>2 DEF PairInv, Held, OthersHold
  <2> QED
    BY <2>1, <2>2
<1>4. ASSUME NEW s \in Thread, thread'[s].pc \in Holding
      PROVE  /\ thread[s].pc \in Holding /\ thread'[s].of = thread[s].of
             /\ thread'[s].pc \in Working => thread[s].pc \in Working
  BY <1>4 DEF OthersHold
<1>5. ASSUME NEW x \in Things \ raced' PROVE OnePair(x)'
  <2>1. OnePair(x)
    BY <1>5 DEF PairInv
  <2>2. OneHolder(x)'
    BY <1>4, <2>1 DEF OnePair, OneHolder
  <2>3. ASSUME children[x] = 1, NEW s \in Thread, thread'[s].pc \in Working, thread'[s].of = x
        PROVE  FALSE
    BY <1>4, <2>1, <2>3 DEF OnePair, Working, Holding
  <2>4. children[x] = 1 => Taken(x)'
    BY <1>2, <2>1 DEF OnePair, PairInv
  <2> QED
    BY <2>1, <2>2, <2>3, <2>4 DEF OnePair
<1> QED
  BY <1>1, <1>2, <1>3, <1>5 DEF PairInv

(* A request takes hold of something that another may hold; if it may mint *)
(* for it, it was not taken.                                               *)
LEMMA HolderStarts ==
  ASSUME PairInv, [Next]_vars, NEW t \in Thread, OthersHold(t), NEW x \in Things, Born(x),
         children' = children, Noted(x),
         thread[t].pc \notin Holding, thread'[t].of = x,
         thread'[t].pc \in {"exchange", "rotate", "revoke"},
         thread'[t].pc \in Working => ~ Taken(x),
         thread'[t].pc = "exchange" => x = <<"code", thread'[t].grant>>,
         thread'[t].pc = "rotate" => x[1] = "refresh"
  PROVE  PairInv'
<1>1. IInv'
  BY StepInv DEF PairInv
<1>2. \A z \in Things : Born(z) => Born(z)' /\ (Taken(z) => Taken(z)')
  BY ThingsAge DEF PairInv
<1>3. ASSUME NEW s \in Thread PROVE Held(s)'
  <2>1. CASE s = t
    BY <1>2, <2>1 DEF Held
  <2>2. CASE s # t
    BY <1>2, <2>2 DEF PairInv, Held, OthersHold
  <2> QED
    BY <2>1, <2>2
<1>4. raced \subseteq raced' /\ (x \notin raced' => Holders(x) = {})
  BY DEF Noted
<1>5. ASSUME NEW z \in Things \ raced', z # x PROVE OnePair(z)'
  <2>1. OnePair(z)
    BY <1>4, <1>5 DEF PairInv
  <2>2. OneHolder(z)'
    BY <1>5, <2>1 DEF OnePair, OneHolder, OthersHold
  <2>3. ASSUME children[z] = 1, NEW s \in Thread, thread'[s].pc \in Working PROVE thread'[s].of # z
    BY <1>5, <2>1, <2>3 DEF OnePair, Working, Holding, OthersHold
  <2>4. children[z] = 1 => Taken(z)'
    BY <1>2, <2>1 DEF OnePair, PairInv
  <2> QED
    BY <2>1, <2>2, <2>3, <2>4 DEF OnePair
<1>6. ASSUME x \notin raced' PROVE OnePair(x)'
  <2>1. OnePair(x)
    BY <1>4, <1>6 DEF PairInv
  <2>2. ASSUME NEW s \in Thread \ {t}, thread'[s].pc \in Holding PROVE thread'[s].of # x
    BY <1>4, <1>6, <2>2, HoldersAre DEF PairInv, OthersHold
  <2>3. OneHolder(x)'
    BY <2>2 DEF OneHolder
  <2>4. children[x] = 1 => Taken(x) /\ thread'[t].pc \notin Working
    BY <2>1 DEF OnePair
  <2>5. children[x] = 1 => Taken(x)' /\ \A s \in Thread : thread'[s].pc \in Working => thread'[s].of # x
    BY <1>2, <2>2, <2>4 DEF Working, Holding
  <2> QED
    BY <2>1, <2>3, <2>5 DEF OnePair
<1> QED
  BY <1>1, <1>2, <1>3, <1>5, <1>6 DEF PairInv

(* The pair is complete: one for what was taken and had none.              *)
LEMMA PairMinted ==
  ASSUME PairInv, [Next]_vars, NEW t \in Thread, NEW k \in Token, MintRefresh(t, k)
  PROVE  PairInv'
<1> DEFINE x == thread[t].of
<1>1. IInv'
  BY StepInv DEF PairInv
<1>2. \A z \in Things : Born(z) => Born(z)' /\ (Taken(z) => Taken(z)')
  BY ThingsAge DEF PairInv
<1>3. /\ thread'[t].pc = "index" /\ thread'[t].of = x /\ OthersHold(t)
      /\ children' = [children EXCEPT ![x] = @ + 1] /\ raced' = raced
      /\ thread[t].pc = "refresh"
  BY GoHolds DEF MintRefresh, Is, PairInv
<1> HIDE DEF x
<1>4. x \in Things /\ Born(x) /\ Taken(x)
  BY <1>3 DEF PairInv, Held, Holding, x
<1>5. ASSUME NEW s \in Thread PROVE Held(s)'
  <2>1. CASE s = t
    BY <1>2, <1>3, <1>4, <2>1 DEF Held
  <2>2. CASE s # t
    BY <1>2, <1>3, <2>2 DEF PairInv, Held, OthersHold
  <2> QED
    BY <2>1, <2>2
<1>6. ASSUME NEW s \in Thread, thread'[s].pc \in Holding
      PROVE  /\ thread[s].pc \in Holding /\ thread'[s].of = thread[s].of
             /\ thread'[s].pc \in Working => thread[s].pc \in Working /\ s # t
  BY <1>3, <1>6 DEF OthersHold, Holding, Working, x
<1>7. children' \in [Things -> Nat]
  BY <1>3, <1>4 DEF PairInv
<1>8. \A z \in Things : children'[z] = children[z] \/ (z = x /\ children'[z] = children[z] + 1)
  BY <1>3 DEF PairInv
<1>9. ASSUME NEW z \in Things \ raced' PROVE OnePair(z)'
  <2>1. OnePair(z)
    BY <1>3, <1>9 DEF PairInv
  <2>2. OneHolder(z)'
    BY <1>6, <2>1 DEF OnePair, OneHolder
  <2>3. CASE z # x
    <3>1. children'[z] = children[z]
      BY <1>8, <2>3
    <3>2. ASSUME children[z] = 1, NEW s \in Thread, thread'[s].pc \in Working, thread'[s].of = z
          PROVE  FALSE
      BY <1>6, <2>1, <3>2 DEF OnePair, Working, Holding
    <3>3. children[z] = 1 => Taken(z)'
      BY <1>2, <2>1 DEF OnePair, PairInv
    <3> QED
      BY <2>1, <2>2, <3>1, <3>2, <3>3 DEF OnePair
  <2>4. CASE z = x
    <3>1. children[x] # 1
      BY <1>3, <2>1, <2>4 DEF OnePair, Working, x
    <3>2. children[x] \in Nat
      BY <1>4 DEF PairInv
    <3>3. children'[x] \in {0, 1}
      BY <1>4, <1>8, <2>1, <2>4, <3>1, <3>2 DEF OnePair
    <3>4. ASSUME NEW s \in Thread, thread'[s].pc \in Working PROVE thread'[s].of # x
      BY <1>3, <1>6, <2>1, <2>4, <3>4 DEF OnePair, OneHolder, Working, Holding, x
    <3> QED
      BY <1>2, <1>4, <2>2, <2>4, <3>3, <3>4 DEF OnePair
  <2> QED
    BY <2>3, <2>4
<1>10. \A z \in Things : children'[z] = 0 \/ Born(z)'
  BY <1>2, <1>4, <1>8 DEF PairInv
<1> QED
  BY <1>1, <1>5, <1>7, <1>9, <1>10 DEF PairInv

(* Nobody moves: only records change.                                      *)
LEMMA NobodyMoves ==
  ASSUME PairInv, [Next]_vars, UNCHANGED <<thread, children, raced>>
  PROVE  PairInv'
<1>1. IInv'
  BY StepInv DEF PairInv
<1>2. \A z \in Things : Born(z) => Born(z)' /\ (Taken(z) => Taken(z)')
  BY ThingsAge DEF PairInv
<1>3. ASSUME NEW s \in Thread PROVE Held(s)'
  BY <1>2 DEF PairInv, Held
<1>4. ASSUME NEW x \in Things \ raced' PROVE OnePair(x)'
  <2>1. OnePair(x)
    BY <1>4 DEF PairInv
  <2>2. OneHolder(x)'
    BY <2>1 DEF OnePair, OneHolder
  <2>3. children[x] = 1 => Taken(x)'
    BY <1>2, <2>1 DEF OnePair, PairInv
  <2> QED
    BY <2>1, <2>2, <2>3 DEF OnePair
<1> QED
  BY <1>1, <1>2, <1>3, <1>4 DEF PairInv

(* A request goes where it holds nothing.                                  *)
LEMMA LetsGo ==
  ASSUME PairInv, [Next]_vars, NEW t \in Thread, NEW x, Go(t, x), x.pc \notin Holding,
         UNCHANGED <<children, raced>>
  PROVE  PairInv'
<1>1. thread'[t] = x /\ OthersHold(t)
  BY GoHolds DEF PairInv
<1> QED
  BY <1>1, HolderMoves

(* A code is exchanged.                                                    *)
LEMMA ExchangePairs ==
  ASSUME PairInv, [Next]_vars, NEW t \in Thread
  PROVE  /\ \A c \in Client, k \in Code : ExchangeRead(t, c, k) => PairInv'
         /\ \A uri, v : ExchangeSpend(t, uri, v) => PairInv'
<1>1. ASSUME NEW c \in Client, NEW k \in Code, ExchangeRead(t, c, k) PROVE PairInv'
  <2> DEFINE z == [pc |-> "exchange", client |-> c, of |-> <<"code", k>>, grant |-> k,
                   rec |-> code[k]]
             x == <<"code", k>>
  <2>1. thread[t].pc = "idle" /\ Begin(t, z) /\ Noted(x) /\ children' = children
    BY <1>1 DEF ExchangeRead, Is
  <2>2. x \in Things /\ Born(x) /\ ~ Taken(x)
    BY <1>1 DEF ExchangeRead, Things, Born, Taken, Spent, Spendable, Gone
  <2>3. z.pc = "exchange" /\ z.of = x /\ z.grant = k
    OBVIOUS
  <2> HIDE DEF z
  <2>4. thread'[t] = z /\ OthersHold(t)
    BY <2>1, BeginHolds DEF PairInv
  <2>5. thread'[t].pc = "exchange" /\ thread'[t].of = x /\ x = <<"code", thread'[t].grant>>
    BY <2>3, <2>4
  <2> HIDE DEF x
  <2> QED
    BY <2>1, <2>2, <2>4, <2>5, HolderStarts DEF Holding
<1>2. ASSUME NEW uri, NEW v, ExchangeSpend(t, uri, v) PROVE PairInv'
  <2> DEFINE y == thread[t]
             spent == [y.rec EXCEPT !.used = TRUE]
  <2>1. /\ y.pc = "exchange" /\ code' = [code EXCEPT ![y.grant] = spent]
        /\ Go(t, [y EXCEPT !.pc = "access"]) \/ Go(t, Idle)
        /\ UNCHANGED <<children, raced>>
    BY <1>2 DEF ExchangeSpend, Is, ghosts
  <2>2. Serving(y) /\ CodeRecord(y.rec)
    BY <2>1, ThreadKnows, Knows DEF PairInv
  <2>3. CASE Go(t, Idle)
    BY <2>1, <2>3, LetsGo DEF Idle, Holding
  <2>4. CASE Go(t, [y EXCEPT !.pc = "access"])
    <3> DEFINE z == [y EXCEPT !.pc = "access"]
    <3>1. z.pc = "access" /\ z.of = y.of
      BY <2>2 DEF Serving
    <3>2. y.of \in Things /\ y.of = <<"code", y.grant>>
      BY <2>1 DEF PairInv, Held, Holding
    <3>3. y.grant \in Code
      BY <3>2 DEF Things
    <3>4. spent.used = TRUE
      BY <2>2, FlagsRead
    <3> HIDE DEF y, z, spent
    <3>5. code'[y.grant].used = TRUE
      BY <2>1, <3>3, <3>4 DEF PairInv, IInv, Maps
    <3>6. thread'[t] = z /\ OthersHold(t)
      BY <2>4, GoHolds DEF PairInv, z
    <3>7. Taken(thread[t].of)'
      BY <3>1, <3>2, <3>5, <3>6 DEF Taken, Spent, Spendable
    <3> QED
      BY <2>1, <3>1, <3>6, <3>7, HolderMoves DEF y, Holding, Working
  <2> QED
    BY <2>1, <2>3, <2>4
<1> QED
  BY <1>1, <1>2

(* A refresh token is rotated, or revoked by its client.                   *)
LEMMA RefreshPairs ==
  ASSUME PairInv, [Next]_vars, NEW t \in Thread
  PROVE  /\ \A c \in Client, k \in Token : RefreshRead(t, c, k) => PairInv'
         /\ \A c \in Client, k \in Token : RevokeRead(t, c, k) => PairInv'
         /\ RefreshSpend(t) => PairInv'
         /\ MintAccess(t) => PairInv'
<1>1. ASSUME NEW c \in Client, NEW k \in Token, RefreshRead(t, c, k) PROVE PairInv'
  <2> DEFINE z == [pc |-> "rotate", client |-> c, of |-> <<"refresh", k>>,
                   grant |-> refresh[k].grant, rec |-> refresh[k]]
             x == <<"refresh", k>>
  <2>1. thread[t].pc = "idle" /\ Begin(t, z) /\ Noted(x) /\ children' = children
    BY <1>1 DEF RefreshRead, Is
  <2>2. x \in Things /\ Born(x) /\ x[1] = "refresh"
    BY <1>1 DEF RefreshRead, Things, Born, Spendable, Gone
  <2>3. ~ Taken(x)
    BY <1>1 DEF RefreshRead, Taken, Dead
  <2>4. z.pc = "rotate" /\ z.of = x
    OBVIOUS
  <2> HIDE DEF z
  <2>5. thread'[t] = z /\ OthersHold(t)
    BY <2>1, BeginHolds DEF PairInv
  <2> HIDE DEF x
  <2> QED
    BY <2>1, <2>2, <2>3, <2>4, <2>5, HolderStarts DEF Holding
<1>2. ASSUME NEW c \in Client, NEW k \in Token, RevokeRead(t, c, k) PROVE PairInv'
  <2> DEFINE z == [pc |-> "revoke", of |-> <<"refresh", k>>, rec |-> refresh[k]]
             x == <<"refresh", k>>
  <2>1. thread[t].pc = "idle" /\ Go(t, z) /\ Noted(x) /\ children' = children
    BY <1>2 DEF RevokeRead, Is
  <2>2. x \in Things /\ Born(x)
    BY <1>2 DEF RevokeRead, Things, Born, Gone
  <2>3. z.pc = "revoke" /\ z.of = x
    OBVIOUS
  <2> HIDE DEF z
  <2>4. thread'[t] = z /\ OthersHold(t)
    BY <2>1, GoHolds DEF PairInv
  <2> HIDE DEF x
  <2> QED
    BY <2>1, <2>2, <2>3, <2>4, HolderStarts DEF Holding, Working
<1>3. ASSUME RefreshSpend(t) PROVE PairInv'
  <2> DEFINE y == thread[t]
             k == y.of[2]
             spent == [y.rec EXCEPT !.used = TRUE]
  <2>1. /\ y.pc = "rotate" /\ refresh' = [refresh EXCEPT ![k] = spent]
        /\ Go(t, [y EXCEPT !.pc = "access"]) \/ Go(t, Idle)
        /\ UNCHANGED <<children, raced>>
    BY <1>3 DEF RefreshSpend, Is, ghosts
  <2>2. Serving(y) /\ TokenRecord(y.rec)
    BY <2>1, ThreadKnows, Knows DEF PairInv, Owned
  <2>3. CASE Go(t, Idle)
    BY <2>1, <2>3, LetsGo DEF Idle, Holding
  <2>4. CASE Go(t, [y EXCEPT !.pc = "access"])
    <3> DEFINE z == [y EXCEPT !.pc = "access"]
    <3>1. z.pc = "access" /\ z.of = y.of
      BY <2>2 DEF Serving
    <3>2. y.of \in Things /\ y.of[1] = "refresh"
      BY <2>1 DEF PairInv, Held, Holding
    <3>3. k \in Token
      BY <3>2 DEF Things
    <3>4. spent.used = TRUE
      BY <2>2, FlagsRead
    <3> HIDE DEF y, z, spent, k
    <3>5. refresh'[k].used = TRUE
      BY <2>1, <3>3, <3>4 DEF PairInv, IInv, Maps
    <3>6. thread'[t] = z /\ OthersHold(t)
      BY <2>4, GoHolds DEF PairInv, z
    <3>7. thread'[t].of[1] = "refresh" /\ thread'[t].of[2] = k
      BY <3>1, <3>2, <3>6 DEF k
    <3>8. Taken(thread[t].of)'
      BY <3>5, <3>7 DEF Taken, Dead, Spendable
    <3> QED
      BY <2>1, <3>1, <3>6, <3>8, HolderMoves DEF y, Holding, Working
  <2> QED
    BY <2>1, <2>3, <2>4
<1>4. ASSUME MintAccess(t) PROVE PairInv'
  <2> DEFINE y == thread[t]
             z == [y EXCEPT !.pc = "refresh"]
  <2>1. y.pc = "access" /\ Go(t, z) /\ UNCHANGED <<children, raced>>
    BY <1>4 DEF MintAccess, Is, ghosts
  <2>2. Serving(y)
    BY <2>1, ThreadKnows, Knows DEF PairInv
  <2>3. z.pc = "refresh" /\ z.of = y.of
    BY <2>2 DEF Serving
  <2>4. y.of \in Things /\ Born(y.of) /\ Taken(y.of)
    BY <2>1 DEF PairInv, Held, Holding
  <2> HIDE DEF y, z
  <2>5. thread'[t] = z /\ OthersHold(t)
    BY <2>1, GoHolds DEF PairInv
  <2>6. Taken(thread[t].of)'
    <3>1. \A x \in Things : Born(x) /\ Taken(x) => Taken(x)'
      BY ThingsAge DEF PairInv
    <3>2. y.of = thread'[t].of
      BY <2>3, <2>5
    <3> QED
      BY <2>4, <3>1, <3>2
  <2> QED
    BY <2>1, <2>3, <2>5, <2>6, HolderMoves DEF y, Holding, Working
<1> QED
  BY <1>1, <1>2, <1>3, <1>4

(* The requests that hold nothing when they are done with the step.        *)
LEMMA OtherPairs ==
  ASSUME PairInv, [Next]_vars, NEW t \in Thread
  PROVE  /\ \A u, n : ConsentRead(t, u, n) => PairInv'
         /\ \A approve \in BOOLEAN : ConsentDrop(t, approve) => PairInv'
         /\ \A k : ConsentMint(t, k) => PairInv'
         /\ IndexRefresh(t) \/ RevokeWrite(t) \/ DisconnectEnd(t) \/ Crash(t) => PairInv'
         /\ \A u, c : Disconnect(t, u, c) => PairInv'
         /\ \A k : DisconnectRead(t, k) => PairInv'
         /\ DisconnectWrite(t) => PairInv'
<1>1. ASSUME NEW x, Go(t, x), x.pc \in {"idle", "consent", "approve", "disconnect", "cutting"},
             UNCHANGED <<children, raced>>
      PROVE  PairInv'
  BY <1>1, LetsGo DEF Holding
<1>2. ASSUME NEW u, NEW n, ConsentRead(t, u, n) PROVE PairInv'
  <2> DEFINE x == [pc |-> "consent", user |-> u, nonce |-> n, rec |-> pending[n]]
  <2>1. Go(t, x) /\ x.pc = "consent" /\ UNCHANGED <<children, raced>>
    BY <1>2 DEF ConsentRead, ghosts
  <2> HIDE DEF x
  <2> QED
    BY <1>1, <2>1
<1>3. ASSUME NEW approve \in BOOLEAN, ConsentDrop(t, approve) PROVE PairInv'
  <2> DEFINE y == thread[t]
             x == [y EXCEPT !.pc = "approve"]
  <2>1. (Go(t, x) \/ Go(t, Idle)) /\ UNCHANGED <<children, raced>>
    BY <1>3 DEF ConsentDrop, ghosts
  <2>2. y = [pc |-> "consent", user |-> y.user, nonce |-> y.nonce, rec |-> y.rec]
    BY <1>3, ThreadKnows, Knows DEF ConsentDrop, Is, PairInv
  <2>3. x.pc = "approve" /\ Idle.pc = "idle"
    BY <2>2 DEF Idle
  <2> HIDE DEF x
  <2> QED
    BY <1>1, <2>1, <2>3
<1>4. ASSUME NEW k, ConsentMint(t, k) PROVE PairInv'
  BY <1>1, <1>4 DEF ConsentMint, Idle
<1>5. ASSUME IndexRefresh(t) \/ RevokeWrite(t) \/ DisconnectEnd(t) \/ Crash(t) PROVE PairInv'
  BY <1>1, <1>5 DEF IndexRefresh, RevokeWrite, DisconnectEnd, Crash, ghosts, Idle
<1>6. ASSUME NEW x, NEW pc, pc \in {"disconnect", "cutting"}, NEW left, NEW k, NEW rec,
             Go(t, Disconnecting(x, pc, left, k, rec)), UNCHANGED <<children, raced>>
      PROVE  PairInv'
  BY <1>1, <1>6, DisconnectingShape
<1>7. ASSUME NEW u, NEW c, Disconnect(t, u, c) PROVE PairInv'
  BY <1>6, <1>7 DEF Disconnect, ghosts
<1>8. ASSUME NEW k, DisconnectRead(t, k) PROVE PairInv'
  BY <1>6, <1>8 DEF DisconnectRead, ghosts
<1>9. ASSUME DisconnectWrite(t) PROVE PairInv'
  BY <1>6, <1>9 DEF DisconnectWrite, ghosts
<1> QED
  BY <1>2, <1>3, <1>4, <1>5, <1>7, <1>8, <1>9

LEMMA PairStep == PairInv /\ [Next]_vars => PairInv'
<1> SUFFICES ASSUME PairInv, [Next]_vars PROVE PairInv'
  OBVIOUS
<1>1. ASSUME \/ \E c \in Client : Register(c)
             \/ \E c \in Client, n \in Nonce, uri \in Uri, v \in Verifier : Authorize(c, n, uri, v)
             \/ \E c \in Client, a \in access : RevokeAccess(c, a)
             \/ \E k \in Code : ExpireCode(k)
             \/ \E k \in Token : ExpireRefresh(k)
             \/ UNCHANGED vars
      PROVE  UNCHANGED <<thread, children, raced>>
  BY <1>1 DEF Register, Authorize, RevokeAccess, ExpireCode, ExpireRefresh, vars, ghosts
<1>2. ASSUME NEW t \in Thread,
             \/ \E u \in User, n \in Nonce : ConsentRead(t, u, n)
             \/ \E approve \in BOOLEAN : ConsentDrop(t, approve)
             \/ \E k \in Code : ConsentMint(t, k)
             \/ IndexRefresh(t) \/ RevokeWrite(t)
             \/ \E k \in Token : DisconnectRead(t, k)
             \/ \E u \in User, c \in Client : Disconnect(t, u, c)
             \/ DisconnectWrite(t) \/ DisconnectEnd(t) \/ Crash(t)
      PROVE  PairInv'
  BY <1>2, OtherPairs
<1>3. ASSUME NEW t \in Thread,
             \/ \E c \in Client, k \in Code : ExchangeRead(t, c, k)
             \/ \E uri \in Uri, v \in Verifier : ExchangeSpend(t, uri, v)
      PROVE  PairInv'
  BY <1>3, ExchangePairs
<1>4. ASSUME NEW t \in Thread,
             \/ \E c \in Client, k \in Token : RefreshRead(t, c, k) \/ RevokeRead(t, c, k)
             \/ RefreshSpend(t) \/ MintAccess(t)
      PROVE  PairInv'
  BY <1>4, RefreshPairs
<1>5. ASSUME NEW t \in Thread, NEW k \in Token, MintRefresh(t, k) PROVE PairInv'
  BY <1>5, PairMinted
<1> QED
  BY <1>1, <1>2, <1>3, <1>4, <1>5, NobodyMoves DEF Next

LEMMA InitPairs == Init => PairInv
<1> SUFFICES ASSUME Init PROVE PairInv
  OBVIOUS
<1>1. IInv
  BY InitInv
<1>2. children = [x \in Things |-> 0] /\ \A t \in Thread : thread[t].pc = "idle"
  BY DEF Init, Things, Idle
<1>3. \A t \in Thread : Held(t)
  BY <1>2 DEF Held, Holding
<1>4. ASSUME NEW x \in Things PROVE OnePair(x)
  BY <1>2 DEF OnePair, OneHolder, Holding, Working
<1> QED
  BY <1>1, <1>2, <1>3, <1>4 DEF PairInv

(* A code or a refresh token buys one pair of tokens at most, unless two   *)
(* requests held it at once (mcp_oauth.rs:247, :294): whatever expires,    *)
(* crashes, or is written back over a revocation meanwhile.                *)
THEOREM OnePairOfTokens == Spec => []OnePairUnlessRaced
<1>1. PairInv => OnePairUnlessRaced
  BY DEF PairInv, OnePair, OnePairUnlessRaced
<1> QED
  BY <1>1, InitPairs, PairStep, PTL DEF Spec
-----------------------------------------------------------------------------
(* What a disconnection cuts off.                                          *)

OnGrant == {"exchange", "rotate", "access", "refresh", "index"}
Cutter == {"disconnect", "cutting"}

(* Nothing more can come of grant g: its code is taken, and no request is  *)
(* at work on it.                                                          *)
Quiet(g) ==
  /\ g \in Code /\ code[g] # Gone /\ Spent(g)
  /\ \A t \in Thread : thread[t].pc \in OnGrant => thread[t].grant # g

Live(k, g) == refresh[k].is = "kept" /\ refresh[k].grant = g /\ ~ Dead(k)

Finished(g) == Quiet(g) /\ \A k \in known : ~ Live(k, g)

(* The users of records are users, and so are those that requests serve.   *)
Serves(x) ==
  /\ x.pc \in {"consent", "approve", "index"} => x.user \in User
  /\ x.pc \in {"exchange", "rotate", "access", "refresh", "revoke", "cutting"} => x.rec.user \in User

UsersKnown ==
  /\ \A k \in Code : code[k].is = "kept" => code[k].user \in User
  /\ \A k \in Token : refresh[k].is = "kept" => refresh[k].user \in User
  /\ \A t \in Thread : Serves(thread[t])

(* A token that reached its client is in the index of its user, also when  *)
(* a request writes back what it read before.                              *)
Finds(ix, x) ==
  /\ x.pc \in {"rotate", "revoke"} => x.of[2] \in ix[x.rec.user]
  /\ x.pc = "cutting" => x.token \in ix[x.rec.user]

Indexed ==
  /\ index \in [User -> SUBSET Token]
  /\ known \subseteq Token /\ \A u \in User : index[u] \subseteq known
  /\ \A k \in known :
       refresh[k] # Gone /\ (refresh[k].is = "kept" => k \in index[refresh[k].user])
  /\ \A t \in Thread : Finds(index, thread[t])

(* A token on its way to its client is no other request's business.        *)
OnItsWay(t) == thread[t].pc = "index" =>
  LET k == thread[t].token IN
  /\ k \in Token /\ k \notin known /\ refresh[k] # Gone
  /\ refresh[k].is = "kept" => refresh[k].user = thread[t].user /\ refresh[k].grant = thread[t].grant
  /\ \A s \in Thread : thread[s].pc = "index" /\ thread[s].token = k => s = t

(* What a disconnection is sure to end: the grants nobody works on, whose  *)
(* live tokens it has yet to look at, or to write.                         *)
Cuts(t) == thread[t].pc \in Cutter =>
  /\ thread[t].left \subseteq known
  /\ \A g \in thread[t].calm :
       /\ Quiet(g) /\ g \in Grants(thread[t].user, thread[t].client)
       /\ \A k \in known : Live(k, g) =>
            k \in thread[t].left \/ (thread[t].pc = "cutting" /\ k = thread[t].token)

CutInv ==
  /\ IInv /\ UsersKnown /\ Indexed
  /\ \A t \in Thread : OnItsWay(t) /\ Cuts(t)
  /\ \A g \in cut : Finished(g)

LEMMA InitCuts == Init => CutInv
<1> SUFFICES ASSUME Init PROVE CutInv
  OBVIOUS
<1>1. IInv
  BY InitInv
<1>2. \A t \in Thread : thread[t].pc = "idle"
  BY DEF Init, Idle
<1>3. UsersKnown
  BY <1>2 DEF Init, UsersKnown, Serves, Gone
<1>4. Indexed
  BY <1>2 DEF Init, Indexed, Finds
<1>5. \A t \in Thread : OnItsWay(t) /\ Cuts(t)
  BY <1>2 DEF OnItsWay, Cuts, Cutter
<1> QED
  BY <1>1, <1>3, <1>4, <1>5 DEF CutInv, Init

(* The other requests go on, but a disconnection may have fewer grants     *)
(* that it is sure of.                                                     *)
OthersStay(t) == \A s \in Thread \ {t} :
  /\ thread'[s].pc = thread[s].pc
  /\ thread[s].pc \notin Cutter => thread'[s] = thread[s]
  /\ thread[s].pc \in Cutter =>
       /\ thread'[s].user = thread[s].user /\ thread'[s].client = thread[s].client
       /\ thread'[s].left = thread[s].left /\ thread'[s].token = thread[s].token
       /\ thread'[s].rec = thread[s].rec /\ thread'[s].calm \subseteq thread[s].calm

LEMMA GoStays ==
  ASSUME IInv, NEW t \in Thread, NEW x, Go(t, x)
  PROVE  thread'[t] = x /\ OthersStay(t)
BY DEF Go, IInv, Maps, OthersStay

LEMMA BeginStays ==
  ASSUME IInv, NEW t \in Thread, NEW x, Begin(t, x)
  PROVE  /\ thread'[t] = x /\ OthersStay(t)
         /\ \A s \in Thread \ {t} : thread'[s].pc \in Cutter => x.grant \notin thread'[s].calm
<1>1. thread'[t] = x
  BY DEF Begin
<1>2. ASSUME NEW s \in Thread \ {t}, "calm" \notin DOMAIN thread[s]
      PROVE  thread'[s] = thread[s] /\ thread[s].pc \notin Cutter
  <2> DEFINE y == thread[s]
  <2>1. thread'[s] = y
    BY <1>2 DEF Begin
  <2>2. Sound(approved, y)
    BY ThreadKnows
  <2>3. "calm" \notin DOMAIN y
    BY <1>2
  <2> HIDE DEF y
  <2>4. y.pc \in Cutter => Cutting(y)
    BY <2>2, Knows DEF Cutter
  <2>5. y.pc \notin Cutter
    BY <2>3, <2>4 DEF Cutting
  <2> QED
    BY <2>1, <2>5 DEF y
<1>3. ASSUME NEW s \in Thread \ {t}, "calm" \in DOMAIN thread[s]
      PROVE  /\ thread[s].pc \in Cutter /\ thread'[s].pc = thread[s].pc
             /\ thread'[s].user = thread[s].user /\ thread'[s].client = thread[s].client
             /\ thread'[s].left = thread[s].left /\ thread'[s].token = thread[s].token
             /\ thread'[s].rec = thread[s].rec /\ thread'[s].calm = thread[s].calm \ {x.grant}
  <2> DEFINE y == thread[s]
  <2>1. thread'[s] = [y EXCEPT !.calm = @ \ {x.grant}]
    BY <1>3 DEF Begin
  <2>2. y.pc \in {"disconnect", "cutting"} /\ Cutting(y)
    BY <1>3, Calm
  <2> HIDE DEF y
  <2>3. /\ thread'[s].pc = y.pc
        /\ thread'[s].user = y.user /\ thread'[s].client = y.client
        /\ thread'[s].left = y.left /\ thread'[s].token = y.token
        /\ thread'[s].rec = y.rec /\ thread'[s].calm = y.calm \ {x.grant}
    BY <2>1, <2>2 DEF Cutting
  <2> QED
    BY <2>2, <2>3 DEF y, Cutter
<1>4. OthersStay(t)
  BY <1>2, <1>3 DEF OthersStay
<1>5. \A s \in Thread \ {t} : thread'[s].pc \in Cutter => x.grant \notin thread'[s].calm
  BY <1>2, <1>3
<1> QED
  BY <1>1, <1>4, <1>5

(* A flag that is written leaves the rest of the record alone.             *)
LEMMA FlagsLeaveUsers ==
  /\ \A r, flag : CodeRecord(r) => [r EXCEPT !.used = flag].user = r.user
  /\ \A r, flag : TokenRecord(r) =>
       [r EXCEPT !.used = flag].user = r.user /\ [r EXCEPT !.revoked = flag].user = r.user
<1>1. ASSUME NEW r, NEW flag, CodeRecord(r) PROVE [r EXCEPT !.used = flag].user = r.user
  <2> DEFINE s == [r EXCEPT !.used = flag]
  <2>1. s = [is |-> "kept", client |-> r.client, user |-> r.user, uri |-> r.uri,
             challenge |-> r.challenge, used |-> flag]
    BY <1>1, CodeFlagged
  <2> HIDE DEF s
  <2>2. s.user = r.user
    BY <2>1
  <2> QED
    BY <2>2 DEF s
<1>2. ASSUME NEW r, NEW flag, TokenRecord(r)
      PROVE  [r EXCEPT !.used = flag].user = r.user /\ [r EXCEPT !.revoked = flag].user = r.user
  <2> DEFINE s == [r EXCEPT !.used = flag]
             z == [r EXCEPT !.revoked = flag]
  <2>1. s = [is |-> "kept", client |-> r.client, user |-> r.user, grant |-> r.grant,
             used |-> flag, revoked |-> r.revoked]
    BY <1>2, TokenFlagged
  <2>2. z = [is |-> "kept", client |-> r.client, user |-> r.user, grant |-> r.grant,
             used |-> r.used, revoked |-> flag]
    BY <1>2, TokenFlagged
  <2> HIDE DEF s, z
  <2>3. s.user = r.user /\ z.user = r.user
    BY <2>1, <2>2
  <2> QED
    BY <2>3 DEF s, z
<1> QED
  BY <1>1, <1>2

(* What becomes of the record of a refresh token.                          *)
Writer(t, k) ==
  \/ thread[t].pc \in {"rotate", "revoke"} /\ k = thread[t].of[2]
  \/ thread[t].pc = "cutting" /\ k = thread[t].token

LEMMA TokensFate ==
  ASSUME IInv, [Next]_vars, NEW k \in Token, refresh'[k] # refresh[k]
  PROVE  \/ refresh'[k].is = "expired" /\ refresh[k].is = "kept"
         \/ \E t \in Thread : Writer(t, k) /\ refresh'[k].user = thread[t].rec.user
         \/ \E t \in Thread :
              /\ MintRefresh(t, k) /\ refresh[k] = Gone /\ refresh'[k].is = "kept"
              /\ refresh'[k].user = thread[t].rec.user /\ refresh'[k].grant = thread[t].grant
<1> DEFINE Goal ==
         \/ refresh'[k].is = "expired" /\ refresh[k].is = "kept"
         \/ \E t \in Thread : Writer(t, k) /\ refresh'[k].user = thread[t].rec.user
         \/ \E t \in Thread :
              /\ MintRefresh(t, k) /\ refresh[k] = Gone /\ refresh'[k].is = "kept"
              /\ refresh'[k].user = thread[t].rec.user /\ refresh'[k].grant = thread[t].grant
<1>1. ASSUME NEW t \in Thread, RefreshSpend(t) PROVE Goal
  <2> DEFINE spent == [thread[t].rec EXCEPT !.used = TRUE]
  <2>1. TokenRecord(thread[t].rec) /\ thread[t].pc = "rotate"
    BY <1>1, ThreadKnows, Knows DEF RefreshSpend, Is, Owned
  <2>2. spent.user = thread[t].rec.user
    BY <2>1, FlagsLeaveUsers
  <2>3. k = thread[t].of[2] /\ refresh'[k] = spent
    BY <1>1 DEF RefreshSpend, IInv, Maps
  <2> HIDE DEF spent
  <2> QED
    BY <2>1, <2>2, <2>3 DEF Writer
<1>2. ASSUME NEW t \in Thread, RevokeWrite(t) PROVE Goal
  <2> DEFINE r == Revoked(thread[t].rec)
  <2>1. TokenRecord(thread[t].rec) /\ thread[t].pc = "revoke"
    BY <1>2, ThreadKnows, Knows DEF RevokeWrite, Is, Owned
  <2>2. r.user = thread[t].rec.user
    BY <2>1, FlagsLeaveUsers DEF Revoked
  <2>3. k = thread[t].of[2] /\ refresh'[k] = r
    BY <1>2 DEF RevokeWrite, IInv, Maps
  <2> HIDE DEF r
  <2> QED
    BY <2>1, <2>2, <2>3 DEF Writer
<1>3. ASSUME NEW t \in Thread, DisconnectWrite(t) PROVE Goal
  <2> DEFINE r == Revoked(thread[t].rec)
  <2>1. TokenRecord(thread[t].rec) /\ thread[t].pc = "cutting"
    BY <1>3, ThreadKnows, Knows DEF DisconnectWrite, Is, Owned
  <2>2. r.user = thread[t].rec.user
    BY <2>1, FlagsLeaveUsers DEF Revoked
  <2>3. k = thread[t].token /\ refresh'[k] = r
    BY <1>3 DEF DisconnectWrite, IInv, Maps
  <2> HIDE DEF r
  <2> QED
    BY <2>1, <2>2, <2>3 DEF Writer
<1>4. ASSUME NEW t \in Thread, NEW j \in Token, MintRefresh(t, j) PROVE Goal
  <2>1. j = k
    BY <1>4 DEF MintRefresh, IInv, Maps
  <2>2. refresh[k] = Gone
    BY <1>4, <2>1 DEF MintRefresh, Fresh
  <2>3. refresh'[k] = [is |-> "kept", client |-> thread[t].client, user |-> thread[t].rec.user,
                       grant |-> thread[t].grant, used |-> FALSE, revoked |-> FALSE]
    BY <1>4, <2>1 DEF MintRefresh, IInv, Maps
  <2>4. /\ refresh'[k].is = "kept" /\ refresh'[k].user = thread[t].rec.user
        /\ refresh'[k].grant = thread[t].grant
    BY <2>3
  <2> QED
    BY <1>4, <2>1, <2>2, <2>4
<1>5. ASSUME NEW j \in Token, ExpireRefresh(j) PROVE Goal
  <2>1. k = j /\ refresh'[k] = [is |-> "expired"] /\ refresh[k].is = "kept"
    BY <1>5 DEF ExpireRefresh, IInv, Maps
  <2> QED
    BY <2>1
<1> HIDE DEF Goal
<1>6. ASSUME NEW t \in Thread,
             \/ \E u \in User, n \in Nonce : ConsentRead(t, u, n)
             \/ \E approve \in BOOLEAN : ConsentDrop(t, approve)
             \/ \E j \in Code : ConsentMint(t, j)
             \/ \E c \in Client, j \in Code : ExchangeRead(t, c, j)
             \/ \E uri \in Uri, v \in Verifier : ExchangeSpend(t, uri, v)
             \/ \E c \in Client, j \in Token : RefreshRead(t, c, j) \/ RevokeRead(t, c, j)
             \/ MintAccess(t) \/ IndexRefresh(t)
             \/ \E j \in Token : DisconnectRead(t, j)
             \/ \E u \in User, c \in Client : Disconnect(t, u, c)
             \/ DisconnectEnd(t) \/ Crash(t)
      PROVE  UNCHANGED refresh
  BY <1>6 DEF store, ConsentRead, ConsentDrop, ConsentMint, ExchangeRead, ExchangeSpend, RefreshRead,
              RevokeRead, MintAccess, IndexRefresh, DisconnectRead, Disconnect, DisconnectEnd, Crash
<1>7. ASSUME \/ \E c \in Client : Register(c)
             \/ \E c \in Client, n \in Nonce, uri \in Uri, v \in Verifier : Authorize(c, n, uri, v)
             \/ \E c \in Client, a \in access : RevokeAccess(c, a)
             \/ \E j \in Code : ExpireCode(j)
             \/ UNCHANGED vars
      PROVE  UNCHANGED refresh
  BY <1>7 DEF Register, Authorize, RevokeAccess, ExpireCode, vars, store
<1>8. Goal
  BY <1>1, <1>2, <1>3, <1>4, <1>5, <1>6, <1>7 DEF Next
<1> QED
  BY <1>8 DEF Goal

(* The index and what clients know only grow, by the tokens that arrive.   *)
LEMMA IndexGrows ==
  ASSUME CutInv, [Next]_vars
  PROVE  /\ index' \in [User -> SUBSET Token] /\ known \subseteq known' /\ known' \subseteq Token
         /\ \A u \in User : index[u] \subseteq index'[u] /\ index'[u] \subseteq known'
         /\ UNCHANGED <<index, known>> \/ \E t \in Thread : IndexRefresh(t)
<1>1. index \in [User -> SUBSET Token] /\ known \subseteq Token
      /\ \A u \in User : index[u] \subseteq known
  BY DEF CutInv, Indexed
<1>2. ASSUME NEW t \in Thread, IndexRefresh(t)
      PROVE  /\ index' \in [User -> SUBSET Token] /\ known \subseteq known' /\ known' \subseteq Token
             /\ \A u \in User : index[u] \subseteq index'[u] /\ index'[u] \subseteq known'
  <2> DEFINE v == thread[t].user
             k == thread[t].token
  <2>1. v \in User /\ k \in Token
    BY <1>2 DEF IndexRefresh, Is, CutInv, UsersKnown, Serves, OnItsWay
  <2>2. index' = [index EXCEPT ![v] = @ \cup {k}] /\ known' = known \cup {k}
    BY <1>2 DEF IndexRefresh
  <2> HIDE DEF v, k
  <2> QED
    BY <1>1, <2>1, <2>2
<1>3. ASSUME NEW t \in Thread, RevokeWrite(t) PROVE UNCHANGED <<index, known>>
  <2> DEFINE v == thread[t].rec.user
             k == thread[t].of[2]
  <2>1. thread[t].pc = "revoke" /\ k \in index[v] /\ v \in User
    BY <1>3 DEF RevokeWrite, Is, CutInv, Indexed, Finds, UsersKnown, Serves
  <2>2. index' = [index EXCEPT ![v] = @ \cup {k}] /\ known' = known
    BY <1>3 DEF RevokeWrite, ghosts
  <2> HIDE DEF v, k
  <2>3. index' = index
    BY <1>1, <2>1, <2>2
  <2> QED
    BY <2>2, <2>3
<1>4. ASSUME NEW t \in Thread,
             \/ \E u \in User, n \in Nonce : ConsentRead(t, u, n)
             \/ \E approve \in BOOLEAN : ConsentDrop(t, approve)
             \/ \E j \in Code : ConsentMint(t, j)
             \/ \E c \in Client, j \in Code : ExchangeRead(t, c, j)
             \/ \E uri \in Uri, v \in Verifier : ExchangeSpend(t, uri, v)
             \/ \E c \in Client, j \in Token : RefreshRead(t, c, j) \/ RevokeRead(t, c, j)
             \/ RefreshSpend(t) \/ MintAccess(t)
             \/ \E j \in Token : MintRefresh(t, j) \/ DisconnectRead(t, j)
             \/ \E u \in User, c \in Client : Disconnect(t, u, c)
             \/ DisconnectWrite(t) \/ DisconnectEnd(t) \/ Crash(t)
      PROVE  UNCHANGED <<index, known>>
  BY <1>4 DEF store, ghosts, ConsentRead, ConsentDrop, ConsentMint, ExchangeRead, ExchangeSpend,
              RefreshRead, RevokeRead, RefreshSpend, MintAccess, MintRefresh, DisconnectRead,
              Disconnect, DisconnectWrite, DisconnectEnd, Crash
<1>5. ASSUME \/ \E c \in Client : Register(c)
             \/ \E c \in Client, n \in Nonce, uri \in Uri, v \in Verifier : Authorize(c, n, uri, v)
             \/ \E c \in Client, a \in access : RevokeAccess(c, a)
             \/ \E j \in Code : ExpireCode(j)
             \/ \E j \in Token : ExpireRefresh(j)
             \/ UNCHANGED vars
      PROVE  UNCHANGED <<index, known>>
  BY <1>5 DEF Register, Authorize, RevokeAccess, ExpireCode, ExpireRefresh, vars, store, ghosts
<1>6. UNCHANGED <<index, known>> \/ \E t \in Thread : IndexRefresh(t)
  BY <1>3, <1>4, <1>5 DEF Next
<1> QED
  BY <1>1, <1>2, <1>6

(* How a request moves, as far as disconnections are concerned: it is not  *)
(* at work on a grant, or starts on one that is open and which nobody else *)
(* is sure of, or stays on it, or it is a disconnection itself.            *)
Open(g) == ~ Spent(g) \/ \E k \in known : Live(k, g)

Starts(t) ==
  /\ Open(thread'[t].grant)
  /\ \A s \in Thread \ {t} : thread'[s].pc \in Cutter => thread'[t].grant \notin thread'[s].calm

Way(t) ==
  \/ thread'[t].pc \in {"idle", "consent", "approve", "revoke"}
  \/ thread'[t].pc \in {"exchange", "rotate"} /\ Starts(t)
  \/ /\ thread'[t].pc \in {"access", "refresh"}
     /\ thread[t].pc \in OnGrant /\ thread'[t].grant = thread[t].grant
  \/ \E k \in Token : MintRefresh(t, k)
  \/ \E u \in User, c \in Client : Disconnect(t, u, c)
  \/ \E k \in Token : DisconnectRead(t, k)
  \/ DisconnectWrite(t)

Moved(t) ==
  OthersStay(t) /\ Way(t) /\ Serves(thread'[t]) /\ Finds(index, thread'[t])

LEMMA ConsentMoves ==
  ASSUME CutInv, NEW t \in Thread
  PROVE  /\ \A u \in User : \A n : ConsentRead(t, u, n) => Moved(t)
         /\ \A approve \in BOOLEAN : ConsentDrop(t, approve) => Moved(t)
         /\ \A k : ConsentMint(t, k) => Moved(t)
         /\ IndexRefresh(t) \/ RevokeWrite(t) \/ DisconnectEnd(t) \/ Crash(t) => Moved(t)
<1>1. ASSUME NEW x, Go(t, x), x.pc \in {"idle", "consent", "approve"}, x.pc # "idle" => x.user \in User
      PROVE  Moved(t)
  <2>1. thread'[t] = x /\ OthersStay(t)
    BY <1>1, GoStays DEF CutInv
  <2>2. Serves(x) /\ Finds(index, x)
    BY <1>1 DEF Serves, Finds
  <2> QED
    BY <1>1, <2>1, <2>2 DEF Moved, Way
<1>2. ASSUME NEW u \in User, NEW n, ConsentRead(t, u, n) PROVE Moved(t)
  <2> DEFINE x == [pc |-> "consent", user |-> u, nonce |-> n, rec |-> pending[n]]
  <2>1. Go(t, x) /\ x.pc = "consent" /\ x.user = u
    BY <1>2 DEF ConsentRead
  <2> HIDE DEF x
  <2> QED
    BY <1>1, <2>1
<1>3. ASSUME NEW approve \in BOOLEAN, ConsentDrop(t, approve) PROVE Moved(t)
  <2> DEFINE y == thread[t]
             x == [y EXCEPT !.pc = "approve"]
  <2>1. (Go(t, x) \/ Go(t, Idle)) /\ y.pc = "consent"
    BY <1>3 DEF ConsentDrop, Is
  <2>2. y = [pc |-> "consent", user |-> y.user, nonce |-> y.nonce, rec |-> y.rec]
    BY <2>1, ThreadKnows, Knows DEF CutInv
  <2>3. y.user \in User
    BY <2>1 DEF CutInv, UsersKnown, Serves
  <2>4. x.pc = "approve" /\ x.user = y.user /\ Idle.pc = "idle"
    BY <2>2 DEF Idle
  <2> HIDE DEF x
  <2> QED
    BY <1>1, <2>1, <2>3, <2>4
<1>4. ASSUME NEW k, ConsentMint(t, k) PROVE Moved(t)
  BY <1>1, <1>4 DEF ConsentMint, Idle
<1>5. ASSUME IndexRefresh(t) \/ RevokeWrite(t) \/ DisconnectEnd(t) \/ Crash(t) PROVE Moved(t)
  BY <1>1, <1>5 DEF IndexRefresh, RevokeWrite, DisconnectEnd, Crash, Idle
<1> QED
  BY <1>2, <1>3, <1>4, <1>5

(* A code is taken while it is not spent, a token while it is live.        *)
LEMMA ReadsMove ==
  ASSUME CutInv, NEW t \in Thread
  PROVE  /\ \A c : \A k \in Code : ExchangeRead(t, c, k) => Moved(t)
         /\ \A c : \A k \in Token : RefreshRead(t, c, k) => Moved(t)
         /\ \A c : \A k \in Token : RevokeRead(t, c, k) => Moved(t)
<1>1. ASSUME NEW c, NEW k \in Code, ExchangeRead(t, c, k) PROVE Moved(t)
  <2> DEFINE x == [pc |-> "exchange", client |-> c, of |-> <<"code", k>>, grant |-> k,
                   rec |-> code[k]]
  <2>1. x.pc = "exchange" /\ x.grant = k /\ x.rec.user = code[k].user
    OBVIOUS
  <2>2. Begin(t, x) /\ ~ Spent(k) /\ code[k].user \in User
    BY <1>1 DEF ExchangeRead, Spent, Spendable, CutInv, UsersKnown
  <2> HIDE DEF x
  <2>3. /\ thread'[t] = x /\ OthersStay(t)
        /\ \A s \in Thread \ {t} : thread'[s].pc \in Cutter => x.grant \notin thread'[s].calm
    BY <2>2, BeginStays DEF CutInv
  <2>4. Serves(x) /\ Finds(index, x)
    BY <2>1, <2>2 DEF Serves, Finds
  <2>5. Starts(t)
    BY <2>1, <2>2, <2>3 DEF Starts, Open
  <2> QED
    BY <2>1, <2>3, <2>4, <2>5 DEF Moved, Way
<1>2. ASSUME NEW c, NEW k \in Token, RefreshRead(t, c, k) PROVE Moved(t)
  <2> DEFINE x == [pc |-> "rotate", client |-> c, of |-> <<"refresh", k>>,
                   grant |-> refresh[k].grant, rec |-> refresh[k]]
  <2>1. /\ x.pc = "rotate" /\ x.grant = refresh[k].grant /\ x.of[2] = k
        /\ x.rec.user = refresh[k].user
    OBVIOUS
  <2>2. Begin(t, x) /\ k \in known /\ Live(k, refresh[k].grant)
    BY <1>2 DEF RefreshRead, Live, Dead, Spendable
  <2>3. refresh[k].user \in User /\ k \in index[refresh[k].user]
    BY <2>2 DEF Live, CutInv, UsersKnown, Indexed
  <2> HIDE DEF x
  <2>4. /\ thread'[t] = x /\ OthersStay(t)
        /\ \A s \in Thread \ {t} : thread'[s].pc \in Cutter => x.grant \notin thread'[s].calm
    BY <2>2, BeginStays DEF CutInv
  <2>5. Serves(x) /\ Finds(index, x)
    BY <2>1, <2>3 DEF Serves, Finds
  <2>6. Starts(t)
    BY <2>1, <2>2, <2>4 DEF Starts, Open
  <2> QED
    BY <2>1, <2>4, <2>5, <2>6 DEF Moved, Way
<1>3. ASSUME NEW c, NEW k \in Token, RevokeRead(t, c, k) PROVE Moved(t)
  <2> DEFINE x == [pc |-> "revoke", of |-> <<"refresh", k>>, rec |-> refresh[k]]
  <2>1. x.pc = "revoke" /\ x.of[2] = k /\ x.rec.user = refresh[k].user
    OBVIOUS
  <2>2. Go(t, x) /\ refresh[k].user \in User /\ k \in index[refresh[k].user]
    BY <1>3 DEF RevokeRead, CutInv, UsersKnown, Indexed
  <2> HIDE DEF x
  <2>3. thread'[t] = x /\ OthersStay(t)
    BY <2>2, GoStays DEF CutInv
  <2>4. Serves(x) /\ Finds(index, x)
    BY <2>1, <2>2 DEF Serves, Finds
  <2> QED
    BY <2>1, <2>3, <2>4 DEF Moved, Way
<1> QED
  BY <1>1, <1>2, <1>3

(* What was taken is served, or the request ends.                          *)
LEMMA ServingMoves ==
  ASSUME CutInv, NEW t \in Thread
  PROVE  /\ \A uri, v : ExchangeSpend(t, uri, v) => Moved(t)
         /\ RefreshSpend(t) => Moved(t)
         /\ MintAccess(t) => Moved(t)
         /\ \A k \in Token : MintRefresh(t, k) => Moved(t)
<1> DEFINE y == thread[t]
<1>1. ASSUME y.pc \in {"exchange", "rotate", "access"}, NEW pc \in {"access", "refresh"},
             Go(t, [y EXCEPT !.pc = pc])
      PROVE  Moved(t)
  <2> DEFINE x == [y EXCEPT !.pc = pc]
  <2>1. Serving(y)
    BY <1>1, ThreadKnows, Knows DEF CutInv
  <2>2. x.pc = pc /\ x.grant = y.grant /\ x.rec = y.rec
    BY <2>1 DEF Serving
  <2>3. y.rec.user \in User
    BY <1>1 DEF CutInv, UsersKnown, Serves
  <2> HIDE DEF x
  <2>4. thread'[t] = x /\ OthersStay(t)
    BY <1>1, GoStays DEF CutInv, x
  <2>5. Serves(x) /\ Finds(index, x)
    BY <2>2, <2>3 DEF Serves, Finds
  <2> QED
    BY <1>1, <2>2, <2>4, <2>5 DEF Moved, Way, OnGrant
<1>2. ASSUME Go(t, Idle) PROVE Moved(t)
  <2>1. thread'[t] = Idle /\ OthersStay(t) /\ Idle.pc = "idle"
    BY <1>2, GoStays DEF CutInv, Idle
  <2> QED
    BY <2>1 DEF Moved, Way, Serves, Finds
<1> HIDE DEF y
<1>3. ASSUME NEW uri, NEW v, ExchangeSpend(t, uri, v) PROVE Moved(t)
  <2>1. y.pc = "exchange" /\ (Go(t, [y EXCEPT !.pc = "access"]) \/ Go(t, Idle))
    BY <1>3 DEF ExchangeSpend, Is, y
  <2> QED
    BY <1>1, <1>2, <2>1
<1>4. ASSUME RefreshSpend(t) PROVE Moved(t)
  <2>1. y.pc = "rotate" /\ (Go(t, [y EXCEPT !.pc = "access"]) \/ Go(t, Idle))
    BY <1>4 DEF RefreshSpend, Is, y
  <2> QED
    BY <1>1, <1>2, <2>1
<1>5. ASSUME MintAccess(t) PROVE Moved(t)
  <2>1. y.pc = "access" /\ Go(t, [y EXCEPT !.pc = "refresh"])
    BY <1>5 DEF MintAccess, Is, y
  <2> QED
    BY <1>1, <2>1
<1>6. ASSUME NEW k \in Token, MintRefresh(t, k) PROVE Moved(t)
  <2> DEFINE x == [pc |-> "index", of |-> y.of, grant |-> y.grant, user |-> y.rec.user, token |-> k]
  <2>1. Go(t, x) /\ y.pc = "refresh"
    BY <1>6 DEF MintRefresh, Is, y
  <2>2. x.pc = "index" /\ x.user = y.rec.user
    OBVIOUS
  <2>3. y.rec.user \in User
    BY <2>1 DEF CutInv, UsersKnown, Serves, y
  <2> HIDE DEF x
  <2>4. thread'[t] = x /\ OthersStay(t)
    BY <2>1, GoStays DEF CutInv
  <2>5. Serves(x) /\ Finds(index, x)
    BY <2>2, <2>3 DEF Serves, Finds
  <2> QED
    BY <1>6, <2>4, <2>5 DEF Moved, Way
<1> QED
  BY <1>3, <1>4, <1>5, <1>6

(* A disconnection goes on.                                                *)
LEMMA DisconnectingMoves ==
  ASSUME CutInv, NEW t \in Thread
  PROVE  /\ \A u \in User, c \in Client : Disconnect(t, u, c) => Moved(t)
         /\ \A k \in Token : DisconnectRead(t, k) => Moved(t)
         /\ DisconnectWrite(t) => Moved(t)
<1>1. ASSUME NEW z, NEW left, NEW k, NEW rec,
             Go(t, Disconnecting(z, "disconnect", left, k, rec)), Way(t)
      PROVE  Moved(t)
  <2> DEFINE x == Disconnecting(z, "disconnect", left, k, rec)
  <2>1. x.pc = "disconnect"
    BY DisconnectingShape
  <2> HIDE DEF x
  <2>2. thread'[t] = x /\ OthersStay(t)
    BY <1>1, GoStays DEF CutInv, x
  <2> QED
    BY <1>1, <2>1, <2>2 DEF Moved, Serves, Finds
<1>2. ASSUME NEW u \in User, NEW c \in Client, Disconnect(t, u, c) PROVE Moved(t)
  BY <1>1, <1>2 DEF Disconnect, Way
<1>3. ASSUME DisconnectWrite(t) PROVE Moved(t)
  BY <1>1, <1>3 DEF DisconnectWrite, Way
<1>4. ASSUME NEW k \in Token, DisconnectRead(t, k) PROVE Moved(t)
  <2> DEFINE rest == thread[t].left \ {k}
             x == Disconnecting(thread[t], "cutting", rest, k, refresh[k])
  <2>1. CASE Targeted(refresh[k], thread[t].client)
    <3>1. Go(t, x) /\ thread[t].pc = "disconnect" /\ k \in thread[t].left
      BY <1>4, <2>1 DEF DisconnectRead, Is
    <3>2. x.pc = "cutting" /\ x.token = k /\ x.rec = refresh[k]
      BY DEF Disconnecting
    <3>3. k \in known /\ refresh[k].is = "kept"
      BY <2>1, <3>1 DEF CutInv, Cuts, Cutter, Targeted
    <3>4. refresh[k].user \in User /\ k \in index[refresh[k].user]
      BY <3>3 DEF CutInv, UsersKnown, Indexed
    <3> HIDE DEF x
    <3>5. thread'[t] = x /\ OthersStay(t)
      BY <3>1, GoStays DEF CutInv
    <3>6. Serves(x) /\ Finds(index, x)
      BY <3>2, <3>4 DEF Serves, Finds
    <3> QED
      BY <1>4, <3>5, <3>6 DEF Moved, Way
  <2>2. CASE ~ Targeted(refresh[k], thread[t].client)
    BY <1>1, <1>4, <2>2 DEF DisconnectRead, Way
  <2> QED
    BY <2>1, <2>2
<1> QED
  BY <1>2, <1>3, <1>4

LEMMA RequestsMove ==
  ASSUME CutInv, [Next]_vars
  PROVE  UNCHANGED thread \/ \E t \in Thread : Moved(t)
<1>1. ASSUME \/ \E c \in Client : Register(c)
             \/ \E c \in Client, n \in Nonce, uri \in Uri, v \in Verifier : Authorize(c, n, uri, v)
             \/ \E c \in Client, a \in access : RevokeAccess(c, a)
             \/ \E k \in Code : ExpireCode(k)
             \/ \E k \in Token : ExpireRefresh(k)
             \/ UNCHANGED vars
      PROVE  UNCHANGED thread
  BY <1>1 DEF Register, Authorize, RevokeAccess, ExpireCode, ExpireRefresh, vars
<1>2. ASSUME NEW t \in Thread,
             \/ \E u \in User, n \in Nonce : ConsentRead(t, u, n)
             \/ \E approve \in BOOLEAN : ConsentDrop(t, approve)
             \/ \E k \in Code : ConsentMint(t, k)
             \/ IndexRefresh(t) \/ RevokeWrite(t) \/ DisconnectEnd(t) \/ Crash(t)
      PROVE  Moved(t)
  BY <1>2, ConsentMoves
<1>3. ASSUME NEW t \in Thread,
             \/ \E c \in Client, k \in Code : ExchangeRead(t, c, k)
             \/ \E c \in Client, k \in Token : RefreshRead(t, c, k) \/ RevokeRead(t, c, k)
      PROVE  Moved(t)
  BY <1>3, ReadsMove
<1>4. ASSUME NEW t \in Thread,
             \/ \E uri \in Uri, v \in Verifier : ExchangeSpend(t, uri, v)
             \/ RefreshSpend(t) \/ MintAccess(t)
             \/ \E k \in Token : MintRefresh(t, k)
      PROVE  Moved(t)
  BY <1>4, ServingMoves
<1>5. ASSUME NEW t \in Thread,
             \/ \E u \in User, c \in Client : Disconnect(t, u, c)
             \/ \E k \in Token : DisconnectRead(t, k)
             \/ DisconnectWrite(t)
      PROVE  Moved(t)
  BY <1>5, DisconnectingMoves
<1> QED
  BY <1>1, <1>2, <1>3, <1>4, <1>5 DEF Next

(* The users of what is written are users.                                 *)
LEMMA UsersStep ==
  ASSUME CutInv, [Next]_vars
  PROVE  UsersKnown'
<1> DEFINE Kept(k) == code'[k] = code[k] \/ code'[k].is # "kept"
<1>1. ASSUME NEW t \in Thread, NEW j \in Code, ConsentMint(t, j), NEW k \in Code
      PROVE  Kept(k) \/ code'[k].user \in User
  <2>1. thread[t].user \in User
    BY <1>1 DEF ConsentMint, Is, CutInv, UsersKnown, Serves
  <2>2. CASE k = j
    <3>1. code'[k] = [is |-> "kept", client |-> thread[t].rec.client, user |-> thread[t].user,
                      uri |-> thread[t].rec.uri, challenge |-> thread[t].rec.challenge,
                      used |-> FALSE]
      BY <1>1, <2>2 DEF ConsentMint, CutInv, IInv, Maps
    <3> QED
      BY <2>1, <3>1
  <2>3. CASE k # j
    BY <1>1, <2>3 DEF ConsentMint, CutInv, IInv, Maps
  <2> QED
    BY <2>2, <2>3
<1>2. ASSUME NEW t \in Thread, NEW uri, NEW v, ExchangeSpend(t, uri, v), NEW k \in Code
      PROVE  Kept(k) \/ code'[k].user \in User
  <2> DEFINE r == thread[t].rec
             spent == [r EXCEPT !.used = TRUE]
  <2>1. thread[t].pc = "exchange" /\ code' = [code EXCEPT ![thread[t].grant] = spent]
    BY <1>2 DEF ExchangeSpend, Is
  <2>2. r.user \in User /\ CodeRecord(r)
    BY <2>1, ThreadKnows, Knows DEF CutInv, UsersKnown, Serves
  <2>3. spent.user = r.user
    BY <2>2, FlagsLeaveUsers
  <2> HIDE DEF r, spent
  <2>4. code'[k] = code[k] \/ code'[k] = spent
    BY <2>1 DEF CutInv, IInv, Maps
  <2> QED
    BY <2>2, <2>3, <2>4
<1>3. ASSUME NEW j \in Code, ExpireCode(j), NEW k \in Code PROVE Kept(k)
  <2>1. code'[k] = code[k] \/ code'[k] = [is |-> "expired"]
    BY <1>3 DEF ExpireCode, CutInv, IInv, Maps
  <2> QED
    BY <2>1
<1>4. ASSUME NEW t \in Thread,
             \/ \E u \in User, n \in Nonce : ConsentRead(t, u, n)
             \/ \E approve \in BOOLEAN : ConsentDrop(t, approve)
             \/ \E c \in Client, j \in Code : ExchangeRead(t, c, j)
             \/ \E c \in Client, j \in Token : RefreshRead(t, c, j) \/ RevokeRead(t, c, j)
             \/ RefreshSpend(t) \/ MintAccess(t) \/ IndexRefresh(t) \/ RevokeWrite(t)
             \/ \E j \in Token : MintRefresh(t, j) \/ DisconnectRead(t, j)
             \/ \E u \in User, c \in Client : Disconnect(t, u, c)
             \/ DisconnectWrite(t) \/ DisconnectEnd(t) \/ Crash(t)
      PROVE  UNCHANGED code
  BY <1>4 DEF store, ConsentRead, ConsentDrop, ExchangeRead, RefreshRead, RevokeRead, RefreshSpend,
              MintAccess, IndexRefresh, RevokeWrite, MintRefresh, DisconnectRead, Disconnect,
              DisconnectWrite, DisconnectEnd, Crash
<1>5. ASSUME \/ \E c \in Client : Register(c)
             \/ \E c \in Client, n \in Nonce, uri \in Uri, v \in Verifier : Authorize(c, n, uri, v)
             \/ \E c \in Client, a \in access : RevokeAccess(c, a)
             \/ \E j \in Token : ExpireRefresh(j)
             \/ UNCHANGED vars
      PROVE  UNCHANGED code
  BY <1>5 DEF Register, Authorize, RevokeAccess, ExpireRefresh, vars, store
<1>6. ASSUME NEW k \in Code PROVE Kept(k) \/ code'[k].user \in User
  <2>1. UNCHANGED code => Kept(k)
    OBVIOUS
  <2> HIDE DEF Kept
  <2> QED
    BY <1>1, <1>2, <1>3, <1>4, <1>5, <2>1 DEF Next
<1>7. ASSUME NEW k \in Code, code'[k].is = "kept" PROVE code'[k].user \in User
  BY <1>6, <1>7 DEF CutInv, UsersKnown
<1>8. ASSUME NEW k \in Token, refresh'[k].is = "kept" PROVE refresh'[k].user \in User
  <2>1. CASE refresh'[k] = refresh[k]
    BY <1>8, <2>1 DEF CutInv, UsersKnown
  <2>2. ASSUME NEW t \in Thread, Writer(t, k) PROVE thread[t].rec.user \in User
    BY <2>2 DEF Writer, CutInv, UsersKnown, Serves
  <2>3. ASSUME NEW t \in Thread, MintRefresh(t, k) PROVE thread[t].rec.user \in User
    BY <2>3 DEF MintRefresh, Is, CutInv, UsersKnown, Serves
  <2> QED
    BY <1>8, <2>1, <2>2, <2>3, TokensFate DEF CutInv
<1>9. ASSUME NEW s \in Thread PROVE Serves(thread'[s])
  <2>1. CASE UNCHANGED thread
    BY <2>1 DEF CutInv, UsersKnown
  <2>2. ASSUME NEW t \in Thread, Moved(t) PROVE Serves(thread'[s])
    <3>1. CASE s = t
      BY <2>2, <3>1 DEF Moved
    <3>2. CASE s # t
      <4>1. Serves(thread[s]) /\ thread'[s].pc = thread[s].pc
        BY <2>2, <3>2 DEF Moved, OthersStay, CutInv, UsersKnown
      <4>2. CASE thread[s].pc \in Cutter
        BY <2>2, <3>2, <4>1, <4>2 DEF Moved, OthersStay, Serves, Cutter
      <4>3. CASE thread[s].pc \notin Cutter
        BY <2>2, <3>2, <4>1, <4>3 DEF Moved, OthersStay
      <4> QED
        BY <4>2, <4>3
    <3> QED
      BY <3>1, <3>2
  <2> QED
    BY <2>1, <2>2, RequestsMove
<1> QED
  BY <1>7, <1>8, <1>9 DEF UsersKnown, Serves

(* The token that arrives is the one that was on its way.                  *)
LEMMA Arrives ==
  ASSUME CutInv, NEW t \in Thread, IndexRefresh(t), NEW k \in known' \ known
  PROVE  /\ k = thread[t].token /\ k \in Token /\ refresh[k] # Gone /\ refresh' = refresh
         /\ thread[t].pc = "index" /\ thread[t].user \in User /\ k \in index'[thread[t].user]
         /\ refresh[k].is = "kept" =>
              refresh[k].user = thread[t].user /\ refresh[k].grant = thread[t].grant
<1> DEFINE v == thread[t].user
           j == thread[t].token
<1>1. /\ thread[t].pc = "index" /\ k = j /\ refresh' = refresh
      /\ index' = [index EXCEPT ![v] = @ \cup {j}]
  BY DEF IndexRefresh, Is
<1>2. v \in User /\ index \in [User -> SUBSET Token]
  BY <1>1 DEF CutInv, UsersKnown, Serves, Indexed
<1>3. /\ j \in Token /\ refresh[j] # Gone
      /\ refresh[j].is = "kept" => refresh[j].user = v /\ refresh[j].grant = thread[t].grant
  BY <1>1 DEF CutInv, OnItsWay
<1> HIDE DEF v, j
<1>4. j \in index'[v]
  BY <1>1, <1>2
<1> QED
  BY <1>1, <1>2, <1>3, <1>4 DEF v, j

LEMMA IndexedStep ==
  ASSUME CutInv, [Next]_vars
  PROVE  Indexed'
<1>1. /\ index' \in [User -> SUBSET Token] /\ known \subseteq known' /\ known' \subseteq Token
      /\ \A u \in User : index[u] \subseteq index'[u] /\ index'[u] \subseteq known'
      /\ UNCHANGED <<index, known>> \/ \E t \in Thread : IndexRefresh(t)
  BY IndexGrows
<1>2. ASSUME NEW k \in known
      PROVE  refresh'[k] # Gone /\ (refresh'[k].is = "kept" => k \in index'[refresh'[k].user])
  <2>1. k \in Token /\ refresh[k] # Gone
    BY DEF CutInv, Indexed
  <2>2. refresh'[k] # Gone
    BY <2>1, TokensAge DEF CutInv
  <2>3. CASE refresh'[k] = refresh[k]
    BY <1>1, <2>1, <2>3 DEF CutInv, Indexed, UsersKnown
  <2>4. ASSUME NEW t \in Thread, Writer(t, k)
        PROVE  k \in index[thread[t].rec.user] /\ thread[t].rec.user \in User
    BY <2>4 DEF Writer, CutInv, Indexed, Finds, UsersKnown, Serves
  <2>5. ASSUME NEW t \in Thread, Writer(t, k), refresh'[k].user = thread[t].rec.user
        PROVE  k \in index'[refresh'[k].user]
    BY <1>1, <2>4, <2>5
  <2>6. CASE refresh'[k] # refresh[k]
    BY <2>1, <2>2, <2>5, <2>6, TokensFate DEF CutInv
  <2> QED
    BY <2>2, <2>3, <2>6
<1>3. ASSUME NEW k \in known' \ known
      PROVE  refresh'[k] # Gone /\ (refresh'[k].is = "kept" => k \in index'[refresh'[k].user])
  BY <1>1, <1>3, Arrives
<1>4. ASSUME NEW s \in Thread PROVE Finds(index', thread'[s])
  <2>1. Finds(index, thread'[s]) /\ Serves(thread'[s])
    <3>1. CASE UNCHANGED thread
      BY <3>1 DEF CutInv, Indexed, UsersKnown
    <3>2. ASSUME NEW t \in Thread, Moved(t) PROVE Finds(index, thread'[s]) /\ Serves(thread'[s])
      <4>1. CASE s = t
        BY <3>2, <4>1 DEF Moved
      <4>2. CASE s # t
        <5>1. /\ Serves(thread[s]) /\ Finds(index, thread[s]) /\ thread'[s].pc = thread[s].pc
          BY <3>2, <4>2 DEF Moved, OthersStay, CutInv, UsersKnown, Indexed
        <5>2. CASE thread[s].pc \in Cutter
          BY <3>2, <4>2, <5>1, <5>2 DEF Moved, OthersStay, Serves, Finds, Cutter
        <5>3. CASE thread[s].pc \notin Cutter
          BY <3>2, <4>2, <5>1, <5>3 DEF Moved, OthersStay
        <5> QED
          BY <5>2, <5>3
      <4> QED
        BY <4>1, <4>2
    <3> QED
      BY <3>1, <3>2, RequestsMove
  <2> QED
    BY <1>1, <2>1 DEF Finds, Serves
<1> QED
  BY <1>1, <1>2, <1>3, <1>4 DEF Indexed

(* A request that is about to hand out its token has just minted it, or    *)
(* had it already.                                                         *)
LEMMA HandsOut ==
  ASSUME CutInv, [Next]_vars, NEW t \in Thread, thread'[t].pc = "index"
  PROVE  thread'[t] = thread[t] \/ \E k \in Token : MintRefresh(t, k)
<1>1. CASE UNCHANGED thread
  BY <1>1
<1>2. ASSUME NEW s \in Thread, Moved(s) PROVE thread'[t] = thread[t] \/ \E k \in Token : MintRefresh(t, k)
  <2>1. CASE s = t
    <3>1. ASSUME \/ \E u \in User, c \in Client : Disconnect(t, u, c)
                 \/ \E k \in Token : DisconnectRead(t, k)
                 \/ DisconnectWrite(t)
          PROVE  FALSE
      <4>1. ASSUME NEW x, NEW pc \in Cutter, NEW left, NEW k, NEW rec,
                   Go(t, Disconnecting(x, pc, left, k, rec))
            PROVE  FALSE
        <5>1. thread'[t] = Disconnecting(x, pc, left, k, rec)
          BY <4>1, GoStays DEF CutInv
        <5> QED
          BY <5>1, DisconnectingShape DEF Cutter
      <4>2. ASSUME NEW u \in User, NEW c \in Client, Disconnect(t, u, c) PROVE FALSE
        BY <4>1, <4>2 DEF Disconnect, Cutter
      <4>3. ASSUME NEW k \in Token, DisconnectRead(t, k) PROVE FALSE
        BY <4>1, <4>3 DEF DisconnectRead, Cutter
      <4>4. ASSUME DisconnectWrite(t) PROVE FALSE
        BY <4>1, <4>4 DEF DisconnectWrite, Cutter
      <4> QED
        BY <3>1, <4>2, <4>3, <4>4
    <3> QED
      BY <1>2, <2>1, <3>1 DEF Moved, Way
  <2>2. CASE s # t
    BY <1>2, <2>2 DEF Moved, OthersStay, Cutter
  <2> QED
    BY <2>1, <2>2
<1> QED
  BY <1>1, <1>2, RequestsMove

LEMMA OnItsWayStep ==
  ASSUME CutInv, [Next]_vars, NEW t \in Thread
  PROVE  OnItsWay(t)'
<1> SUFFICES ASSUME thread'[t].pc = "index" PROVE OnItsWay(t)'
  BY DEF OnItsWay
<1> DEFINE k == thread'[t].token
<1>1. CASE thread'[t] = thread[t]
  <2>1. /\ thread[t].pc = "index" /\ k \in Token /\ k \notin known /\ refresh[k] # Gone
        /\ refresh[k].is = "kept" =>
             refresh[k].user = thread[t].user /\ refresh[k].grant = thread[t].grant
        /\ \A s \in Thread : thread[s].pc = "index" /\ thread[s].token = k => s = t
    BY <1>1 DEF CutInv, OnItsWay
  <2>2. k \notin known'
    <3>1. ASSUME NEW s \in Thread, IndexRefresh(s), k \in known' PROVE FALSE
      <4>1. k = thread[s].token /\ thread[s].pc = "index"
        BY <2>1, <3>1, Arrives
      <4>2. s = t
        BY <2>1, <4>1
      <4>3. thread'[t] = Idle
        BY <3>1, <4>2, GoStays DEF IndexRefresh, CutInv
      <4> QED
        BY <4>3 DEF Idle
    <3> QED
      BY <2>1, <3>1, IndexGrows
  <2>3. refresh'[k] # Gone
    BY <2>1, TokensAge DEF CutInv
  <2>4. refresh'[k] = refresh[k] \/ refresh'[k].is # "kept"
    <3>1. ASSUME NEW s \in Thread, Writer(s, k) PROVE FALSE
      <4>1. k \in index[thread[s].rec.user] /\ thread[s].rec.user \in User
        BY <3>1 DEF Writer, CutInv, Indexed, Finds, UsersKnown, Serves
      <4> QED
        BY <2>1, <4>1 DEF CutInv, Indexed
    <3> QED
      BY <2>1, <3>1, TokensFate DEF CutInv
  <2>5. ASSUME NEW s \in Thread, thread'[s].pc = "index", thread'[s].token = k PROVE s = t
    <3>1. CASE thread'[s] = thread[s]
      BY <2>1, <2>5, <3>1
    <3>2. ASSUME NEW j \in Token, MintRefresh(s, j) PROVE FALSE
      <4>1. thread'[s].token = j /\ refresh[j] = Gone
        BY <3>2, GoStays DEF MintRefresh, Fresh, CutInv
      <4> QED
        BY <2>1, <2>5, <4>1
    <3> QED
      BY <2>5, <3>1, <3>2, HandsOut
  <2> QED
    BY <1>1, <2>1, <2>2, <2>3, <2>4, <2>5 DEF OnItsWay
<1>2. ASSUME NEW j \in Token, MintRefresh(t, j) PROVE OnItsWay(t)'
  <2> DEFINE y == thread[t]
  <2>1. /\ thread'[t] = [pc |-> "index", of |-> y.of, grant |-> y.grant, user |-> y.rec.user, token |-> j]
        /\ OthersStay(t)
    BY <1>2, GoStays DEF MintRefresh, CutInv
  <2>2. refresh[j] = Gone /\ known' = known
    BY <1>2 DEF MintRefresh, Fresh
  <2>3. refresh'[j] = [is |-> "kept", client |-> y.client, user |-> y.rec.user,
                       grant |-> y.grant, used |-> FALSE, revoked |-> FALSE]
    BY <1>2 DEF MintRefresh, CutInv, IInv, Maps
  <2> HIDE DEF y
  <2>4. k = j /\ thread'[t].user = y.rec.user /\ thread'[t].grant = y.grant
    BY <2>1
  <2>5. refresh'[j] # Gone /\ refresh'[j].user = y.rec.user /\ refresh'[j].grant = y.grant
    BY <2>3 DEF Gone
  <2>6. j \notin known'
    BY <2>2 DEF CutInv, Indexed
  <2>7. ASSUME NEW s \in Thread \ {t}, thread'[s].pc = "index", thread'[s].token = j PROVE FALSE
    <3>1. thread'[s] = thread[s]
      BY <2>1, <2>7 DEF OthersStay, Cutter
    <3> QED
      BY <2>2, <2>7, <3>1 DEF CutInv, OnItsWay
  <2> QED
    BY <2>4, <2>5, <2>6, <2>7 DEF OnItsWay
<1> QED
  BY <1>1, <1>2, HandsOut

(* A grant that is quiet stays so, unless one of its tokens is taken.      *)
LEMMA QuietStep ==
  ASSUME CutInv, [Next]_vars, NEW g, Quiet(g),
         \/ \A k \in known : ~ Live(k, g)
         \/ \E s \in Thread : thread'[s].pc \in Cutter /\ g \in thread'[s].calm
  PROVE  Quiet(g)'
<1>1. g \in Code /\ code'[g] # Gone /\ Spent(g)'
  BY CodesAge DEF Quiet, CutInv
<1>2. ASSUME NEW t \in Thread, thread'[t].pc \in OnGrant, thread'[t].grant = g PROVE FALSE
  <2>1. CASE UNCHANGED thread
    BY <1>2, <2>1 DEF Quiet
  <2>2. ASSUME NEW r \in Thread, Moved(r) PROVE FALSE
    <3>1. CASE r # t
      <4>1. thread'[t] = thread[t]
        BY <1>2, <2>2, <3>1 DEF Moved, OthersStay, OnGrant, Cutter
      <4> QED
        BY <1>2, <4>1 DEF Quiet
    <3>2. CASE r = t
      <4>1. ASSUME thread[t].pc \in OnGrant, thread[t].grant = g PROVE FALSE
        BY <4>1 DEF Quiet
      <4>2. CASE Starts(t)
        <5>1. \E k \in known : Live(k, g)
          BY <1>2, <4>2 DEF Starts, Open, Quiet
        <5>2. PICK s \in Thread : thread'[s].pc \in Cutter /\ g \in thread'[s].calm
          BY <5>1
        <5>3. s # t
          BY <1>2, <5>2 DEF OnGrant, Cutter
        <5> QED
          BY <1>2, <4>2, <5>2, <5>3 DEF Starts
      <4>3. ASSUME NEW k \in Token, MintRefresh(t, k) PROVE FALSE
        <5>1. /\ thread[t].pc = "refresh"
              /\ thread'[t] = [pc |-> "index", of |-> thread[t].of, grant |-> thread[t].grant,
                               user |-> thread[t].rec.user, token |-> k]
          BY <4>3, GoStays DEF MintRefresh, Is, CutInv
        <5>2. thread'[t].grant = thread[t].grant
          BY <5>1
        <5> QED
          BY <1>2, <4>1, <5>1, <5>2 DEF OnGrant
      <4>4. ASSUME NEW x, NEW pc \in Cutter, NEW left, NEW k, NEW rec,
                   Go(t, Disconnecting(x, pc, left, k, rec))
            PROVE  FALSE
        <5>1. thread'[t] = Disconnecting(x, pc, left, k, rec)
          BY <4>4, GoStays DEF CutInv
        <5> QED
          BY <1>2, <5>1, DisconnectingShape DEF Cutter, OnGrant
      <4>5. ASSUME NEW u \in User, NEW c \in Client, Disconnect(t, u, c) PROVE FALSE
        BY <4>4, <4>5 DEF Disconnect, Cutter
      <4>6. ASSUME NEW k \in Token, DisconnectRead(t, k) PROVE FALSE
        BY <4>4, <4>6 DEF DisconnectRead, Cutter
      <4>7. ASSUME DisconnectWrite(t) PROVE FALSE
        BY <4>4, <4>7 DEF DisconnectWrite, Cutter
      <4>8. thread'[t].pc \notin {"idle", "consent", "approve", "revoke"}
        BY <1>2 DEF OnGrant
      <4> QED
        BY <1>2, <2>2, <3>2, <4>1, <4>2, <4>3, <4>5, <4>6, <4>7, <4>8 DEF Moved, Way
    <3> QED
      BY <3>1, <3>2
  <2> QED
    BY <2>1, <2>2, RequestsMove
<1> QED
  BY <1>1, <1>2 DEF Quiet

(* No live token of a quiet grant appears.                                 *)
LEMMA LiveStep ==
  ASSUME CutInv, [Next]_vars, NEW g, Quiet(g), NEW k \in known', Live(k, g)'
  PROVE  k \in known /\ Live(k, g)
<1>1. CASE k \in known
  <2>1. k \in Token /\ refresh[k] # Gone
    BY <1>1 DEF CutInv, Indexed
  <2>2. refresh'[k] = refresh[k]
    BY <2>1, TokensAge DEF Live, CutInv
  <2> QED
    BY <1>1, <2>2 DEF Live, Dead
<1>2. CASE k \notin known
  <2>1. PICK t \in Thread : IndexRefresh(t)
    BY <1>2, IndexGrows
  <2>2. /\ refresh' = refresh /\ thread[t].pc = "index"
        /\ refresh[k].is = "kept" => refresh[k].grant = thread[t].grant
    BY <1>2, <2>1, Arrives
  <2>3. refresh[k].is = "kept" /\ refresh[k].grant = g
    BY <2>2 DEF Live
  <2> QED
    BY <2>2, <2>3 DEF Quiet, OnGrant
<1> QED
  BY <1>1, <1>2

(* What is finished stays finished.                                        *)
LEMMA FinishedStep ==
  ASSUME CutInv, [Next]_vars, NEW g, Finished(g)
  PROVE  Finished(g)'
<1>1. Quiet(g)'
  BY QuietStep DEF Finished
<1>2. ASSUME NEW k \in known', Live(k, g)' PROVE FALSE
  BY <1>2, LiveStep DEF Finished
<1> QED
  BY <1>1, <1>2 DEF Finished

(* Consents are not forgotten.                                             *)
LEMMA GrantsKept ==
  ASSUME CutInv, [Next]_vars, NEW u, NEW c, NEW g, g \in Grants(u, c)
  PROVE  g \in Grants(u, c)'
<1>1. ASSUME NEW t \in Thread, NEW k \in Code, ConsentMint(t, k) PROVE approved'[g] = approved[g]
  <2>1. g \in Code /\ code[g] # Gone
    BY DEF Grants, CutInv, IInv, Minted
  <2>2. k # g
    BY <1>1, <2>1 DEF ConsentMint, Fresh
  <2> QED
    BY <1>1, <2>1, <2>2 DEF ConsentMint, CutInv, IInv, Maps
<1>2. ASSUME NEW t \in Thread,
             \/ \E v \in User, n \in Nonce : ConsentRead(t, v, n)
             \/ \E approve \in BOOLEAN : ConsentDrop(t, approve)
             \/ \E d \in Client, j \in Code : ExchangeRead(t, d, j)
             \/ \E uri \in Uri, v \in Verifier : ExchangeSpend(t, uri, v)
             \/ \E d \in Client, j \in Token : RefreshRead(t, d, j) \/ RevokeRead(t, d, j)
             \/ RefreshSpend(t) \/ MintAccess(t) \/ IndexRefresh(t) \/ RevokeWrite(t)
             \/ \E j \in Token : MintRefresh(t, j) \/ DisconnectRead(t, j)
             \/ \E v \in User, d \in Client : Disconnect(t, v, d)
             \/ DisconnectWrite(t) \/ DisconnectEnd(t) \/ Crash(t)
      PROVE  approved' = approved
  BY <1>2 DEF ghosts, ConsentRead, ConsentDrop, ExchangeRead, ExchangeSpend, RefreshRead, RevokeRead,
              RefreshSpend, MintAccess, IndexRefresh, RevokeWrite, MintRefresh, DisconnectRead,
              Disconnect, DisconnectWrite, DisconnectEnd, Crash
<1>3. ASSUME \/ \E d \in Client : Register(d)
             \/ \E d \in Client, n \in Nonce, uri \in Uri, v \in Verifier : Authorize(d, n, uri, v)
             \/ \E d \in Client, a \in access : RevokeAccess(d, a)
             \/ \E j \in Code : ExpireCode(j)
             \/ \E j \in Token : ExpireRefresh(j)
             \/ UNCHANGED vars
      PROVE  approved' = approved
  BY <1>3 DEF Register, Authorize, RevokeAccess, ExpireCode, ExpireRefresh, vars, ghosts
<1>4. approved'[g] = approved[g]
  BY <1>1, <1>2, <1>3 DEF Next
<1> QED
  BY <1>4 DEF Grants

(* A disconnection that another request does not disturb more than by      *)
(* taking a grant off its list.                                            *)
LEMMA CutsKept ==
  ASSUME CutInv, [Next]_vars, NEW s \in Thread,
         thread'[s].pc = thread[s].pc, thread[s].pc \in Cutter,
         thread'[s].user = thread[s].user, thread'[s].client = thread[s].client,
         thread'[s].left = thread[s].left, thread'[s].token = thread[s].token,
         thread'[s].calm \subseteq thread[s].calm
  PROVE  Cuts(s)'
<1>1. thread'[s].left \subseteq known'
  BY IndexGrows DEF CutInv, Cuts
<1>2. ASSUME NEW g \in thread'[s].calm
      PROVE  /\ Quiet(g)' /\ g \in Grants(thread[s].user, thread[s].client)'
             /\ \A k \in known' : Live(k, g)' =>
                  k \in thread[s].left \/ (thread[s].pc = "cutting" /\ k = thread[s].token)
  <2>1. /\ Quiet(g) /\ g \in Grants(thread[s].user, thread[s].client)
        /\ \A k \in known : Live(k, g) =>
             k \in thread[s].left \/ (thread[s].pc = "cutting" /\ k = thread[s].token)
    BY <1>2 DEF CutInv, Cuts
  <2>2. Quiet(g)'
    BY <2>1, QuietStep
  <2>3. \A k \in known' : Live(k, g)' => k \in known /\ Live(k, g)
    BY <2>1, LiveStep
  <2> QED
    BY <2>1, <2>2, <2>3, GrantsKept
<1> QED
  BY <1>1, <1>2 DEF Cuts

(* It starts with the grants that nobody works on.                         *)
LEMMA DisconnectCuts ==
  ASSUME CutInv, [Next]_vars, NEW s \in Thread, NEW u \in User, NEW c \in Client, Disconnect(s, u, c)
  PROVE  Cuts(s)'
<1> DEFINE calm == {g \in Grants(u, c) : code[g].is = "kept" => code[g].used} \ Busy
           x == Disconnecting([user |-> u, client |-> c, calm |-> calm], "disconnect",
                              index[u], 0, Gone)
<1>1. Go(s, x) /\ UNCHANGED <<store, ghosts>>
  BY DEF Disconnect
<1>2. thread'[s] = x
  BY <1>1, GoStays DEF CutInv
<1>3. index[u] \subseteq known /\ known' = known
  BY <1>1 DEF CutInv, Indexed, ghosts
<1>4. ASSUME NEW g \in calm
      PROVE  Quiet(g) /\ \A k \in known : Live(k, g) => k \in index[u]
  <2>1. g \in Code /\ approved[g] # Gone /\ approved[g].user = u
    BY DEF Grants
  <2>2. code[g] # Gone /\ Spent(g)
    BY <2>1 DEF CutInv, IInv, Minted, Spent, Spendable
  <2>3. ASSUME NEW t \in Thread, thread[t].pc \in OnGrant PROVE thread[t].grant # g
    <3> DEFINE y == thread[t]
    <3>1. Sound(approved, y) /\ y.pc \in OnGrant
      BY <2>3, ThreadKnows DEF CutInv
    <3> HIDE DEF y
    <3>2. "grant" \in DOMAIN y
      BY <3>1 DEF Sound, Serving, OnGrant, Idle
    <3>3. y.grant \in Busy
      BY <3>2 DEF Busy, y
    <3> QED
      BY <3>3 DEF y
  <2>4. ASSUME NEW k \in known, Live(k, g) PROVE k \in index[u]
    <3>1. refresh[k].is = "kept" /\ refresh[k].grant = g /\ k \in Token
      BY <2>4 DEF Live, CutInv, Indexed
    <3>2. approved[g] = Consent(refresh[k].user, refresh[k].client)
      BY <3>1 DEF CutInv, IInv, TokensOwned, Owned, Grant
    <3>3. refresh[k].user = u
      BY <2>1, <3>2 DEF Consent
    <3> QED
      BY <3>1, <3>3 DEF CutInv, Indexed
  <2> QED
    BY <2>1, <2>2, <2>3, <2>4 DEF Quiet
<1>5. x.pc = "disconnect" /\ x.user = u /\ x.client = c /\ x.left = index[u] /\ x.calm = calm
  BY DEF Disconnecting
<1>6. calm \subseteq Grants(u, c)
  OBVIOUS
<1> HIDE DEF calm, x
<1>7. ASSUME NEW g \in calm
      PROVE  /\ Quiet(g)' /\ g \in Grants(u, c)'
             /\ \A k \in known' : Live(k, g)' => k \in index[u]
  <2>1. Quiet(g)'
    BY <1>2, <1>4, <1>5, <1>7, QuietStep DEF Cutter
  <2>2. g \in Grants(u, c)'
    BY <1>6, <1>7, GrantsKept
  <2> QED
    BY <1>4, <1>7, <2>1, <2>2, LiveStep
<1>8. Cuts(s)'
  BY <1>2, <1>3, <1>5, <1>7 DEF Cuts
<1> QED
  BY <1>8

(* It passes over no token that is live and goes back to a grant it cuts.  *)
LEMMA DisconnectReadCuts ==
  ASSUME CutInv, [Next]_vars, NEW s \in Thread, NEW k \in Token, DisconnectRead(s, k)
  PROVE  Cuts(s)'
<1> DEFINE y == thread[s]
           rest == y.left \ {k}
           found == Disconnecting(y, "cutting", rest, k, refresh[k])
           passed == Disconnecting(y, "disconnect", rest, 0, Gone)
           x == thread'[s]
<1>1. /\ y.pc = "disconnect" /\ known' = known
      /\ Go(s, IF Targeted(refresh[k], y.client) THEN found ELSE passed)
  BY DEF DisconnectRead, Is, ghosts
<1>2. x = IF Targeted(refresh[k], y.client) THEN found ELSE passed
  BY <1>1, GoStays DEF CutInv
<1>3. /\ x.pc \in Cutter /\ x.user = y.user /\ x.client = y.client
      /\ x.left = rest /\ x.calm = y.calm
      /\ Targeted(refresh[k], y.client) => x.pc = "cutting" /\ x.token = k
  BY <1>2 DEF Disconnecting, Cutter
<1>4. /\ y.left \subseteq known
      /\ \A g \in y.calm : /\ Quiet(g) /\ g \in Grants(y.user, y.client)
                           /\ \A j \in known : Live(j, g) => j \in y.left
  BY <1>1 DEF CutInv, Cuts, Cutter
<1>5. ASSUME NEW g \in y.calm, Live(k, g) PROVE Targeted(refresh[k], y.client)
  <2>1. refresh[k].is = "kept" /\ refresh[k].grant = g /\ ~ Dead(k)
    BY <1>5 DEF Live
  <2>2. approved[g] = Consent(refresh[k].user, refresh[k].client)
    BY <2>1 DEF CutInv, IInv, TokensOwned, Owned, Grant
  <2>3. refresh[k].client = y.client
    BY <1>4, <1>5, <2>2 DEF Grants, Consent
  <2> QED
    BY <2>1, <2>3 DEF Dead, Targeted
<1> HIDE DEF y, x
<1>6. ASSUME NEW g \in y.calm
      PROVE  /\ Quiet(g)' /\ g \in Grants(y.user, y.client)'
             /\ \A j \in known' : Live(j, g)' => j \in rest \/ (x.pc = "cutting" /\ j = x.token)
  <2>1. Quiet(g)'
    BY <1>3, <1>4, <1>6, QuietStep DEF x
  <2>2. g \in Grants(y.user, y.client)'
    <3>1. \A u, c : g \in Grants(u, c) => g \in Grants(u, c)'
      BY GrantsKept
    <3>2. g \in Grants(y.user, y.client) /\ x.user = y.user /\ x.client = y.client
      BY <1>3, <1>4, <1>6
    <3> QED
      BY <3>1, <3>2 DEF x, y
  <2>3. ASSUME NEW j \in known', Live(j, g)' PROVE j \in known /\ Live(j, g)
    BY <1>4, <1>6, <2>3, LiveStep
  <2> QED
    BY <1>3, <1>4, <1>5, <1>6, <2>1, <2>2, <2>3
<1> QED
  BY <1>1, <1>3, <1>4, <1>6 DEF Cuts, x, y

(* What it writes is dead.                                                 *)
LEMMA DisconnectWriteCuts ==
  ASSUME CutInv, [Next]_vars, NEW s \in Thread, DisconnectWrite(s)
  PROVE  Cuts(s)'
<1> DEFINE y == thread[s]
           k == y.token
           r == Revoked(y.rec)
           x == thread'[s]
           next == Disconnecting(y, "disconnect", y.left, 0, Gone)
<1>1. /\ y.pc = "cutting" /\ known' = known /\ Go(s, next)
      /\ refresh' = [refresh EXCEPT ![k] = r]
  BY DEF DisconnectWrite, Is, ghosts
<1>2. x = next
  BY <1>1, GoStays DEF CutInv
<1>3. /\ x.pc = "disconnect" /\ x.user = y.user /\ x.client = y.client
      /\ x.left = y.left /\ x.calm = y.calm
  BY <1>2 DEF Disconnecting
<1>4. r.revoked = TRUE
  <2>1. TokenRecord(y.rec)
    BY <1>1, ThreadKnows, Knows DEF CutInv, Owned
  <2> QED
    BY <2>1, FlagsRead DEF Revoked
<1>5. /\ y.left \subseteq known
      /\ \A g \in y.calm : /\ Quiet(g) /\ g \in Grants(y.user, y.client)
                           /\ \A j \in known : Live(j, g) => j \in y.left \/ j = k
  BY <1>1 DEF CutInv, Cuts, Cutter
<1> HIDE DEF y, x, r, k, next
<1>6. ASSUME NEW g, NEW j \in known, j = k, Live(j, g)' PROVE FALSE
  <2>1. j \in Token
    BY <1>6 DEF CutInv, Indexed
  <2>2. refresh'[j] = r
    BY <1>1, <1>6, <2>1 DEF CutInv, IInv, Maps
  <2> QED
    BY <1>4, <1>6, <2>2 DEF Live, Dead
<1>7. ASSUME NEW g \in y.calm
      PROVE  /\ Quiet(g)' /\ g \in Grants(y.user, y.client)'
             /\ \A j \in known' : Live(j, g)' => j \in y.left
  <2>1. Quiet(g)'
    BY <1>3, <1>5, <1>7, QuietStep DEF x, Cutter
  <2>2. g \in Grants(y.user, y.client)'
    <3>1. \A u, c : g \in Grants(u, c) => g \in Grants(u, c)'
      BY GrantsKept
    <3>2. g \in Grants(y.user, y.client) /\ x.user = y.user /\ x.client = y.client
      BY <1>3, <1>5, <1>7
    <3> QED
      BY <3>1, <3>2 DEF x, y
  <2>3. ASSUME NEW j \in known', Live(j, g)' PROVE j \in known /\ Live(j, g)
    BY <1>5, <1>7, <2>3, LiveStep
  <2> QED
    BY <1>1, <1>5, <1>6, <1>7, <2>1, <2>2, <2>3
<1> QED
  BY <1>1, <1>3, <1>5, <1>7 DEF Cuts, x, y, Cutter

(* A disconnection that goes on without a step of its own.                 *)
LEMMA CutsStep ==
  ASSUME CutInv, [Next]_vars, NEW s \in Thread
  PROVE  Cuts(s)'
<1> SUFFICES ASSUME thread'[s].pc \in Cutter PROVE Cuts(s)'
  BY DEF Cuts
<1>1. CASE UNCHANGED thread
  BY <1>1, CutsKept
<1>2. ASSUME NEW t \in Thread, Moved(t) PROVE Cuts(s)'
  <2>1. CASE t # s
    BY <1>2, <2>1, CutsKept DEF Moved, OthersStay
  <2>2. CASE t = s
    <3>1. ASSUME NEW k \in Token, MintRefresh(s, k) PROVE FALSE
      <4>1. thread'[s] = [pc |-> "index", of |-> thread[s].of, grant |-> thread[s].grant,
                          user |-> thread[s].rec.user, token |-> k]
        BY <3>1, GoStays DEF MintRefresh, CutInv
      <4>2. thread'[s].pc = "index"
        BY <4>1
      <4> QED
        BY <4>2 DEF Cutter
    <3> QED
      BY <1>2, <2>2, <3>1, DisconnectCuts, DisconnectReadCuts, DisconnectWriteCuts
      DEF Moved, Way, Cutter
  <2> QED
    BY <2>1, <2>2
<1> QED
  BY <1>1, <1>2, RequestsMove

(* What is cut is finished.                                                *)
LEMMA CutStep ==
  ASSUME CutInv, [Next]_vars, NEW g \in cut'
  PROVE  Finished(g)'
<1>1. ASSUME NEW t \in Thread, DisconnectEnd(t) PROVE g \in cut \/ Finished(g)
  <2>1. thread[t].pc = "disconnect" /\ thread[t].left = {} /\ cut' = cut \cup thread[t].calm
    BY <1>1 DEF DisconnectEnd, Is
  <2>2. ASSUME g \in thread[t].calm PROVE Finished(g)
    BY <2>1, <2>2 DEF CutInv, Cuts, Cutter, Finished
  <2> QED
    BY <2>1, <2>2
<1>2. ASSUME NEW t \in Thread,
             \/ \E u \in User, n \in Nonce : ConsentRead(t, u, n)
             \/ \E approve \in BOOLEAN : ConsentDrop(t, approve)
             \/ \E k \in Code : ConsentMint(t, k)
             \/ \E c \in Client, k \in Code : ExchangeRead(t, c, k)
             \/ \E uri \in Uri, v \in Verifier : ExchangeSpend(t, uri, v)
             \/ \E c \in Client, k \in Token : RefreshRead(t, c, k) \/ RevokeRead(t, c, k)
             \/ RefreshSpend(t) \/ MintAccess(t) \/ IndexRefresh(t) \/ RevokeWrite(t)
             \/ \E k \in Token : MintRefresh(t, k) \/ DisconnectRead(t, k)
             \/ \E u \in User, c \in Client : Disconnect(t, u, c)
             \/ DisconnectWrite(t) \/ Crash(t)
      PROVE  cut' = cut
  BY <1>2 DEF ghosts, ConsentRead, ConsentDrop, ConsentMint, ExchangeRead, ExchangeSpend, RefreshRead,
              RevokeRead, RefreshSpend, MintAccess, IndexRefresh, RevokeWrite, MintRefresh,
              DisconnectRead, Disconnect, DisconnectWrite, Crash
<1>3. ASSUME \/ \E c \in Client : Register(c)
             \/ \E c \in Client, n \in Nonce, uri \in Uri, v \in Verifier : Authorize(c, n, uri, v)
             \/ \E c \in Client, a \in access : RevokeAccess(c, a)
             \/ \E k \in Code : ExpireCode(k)
             \/ \E k \in Token : ExpireRefresh(k)
             \/ UNCHANGED vars
      PROVE  cut' = cut
  BY <1>3 DEF Register, Authorize, RevokeAccess, ExpireCode, ExpireRefresh, vars, ghosts
<1>4. g \in cut \/ Finished(g)
  BY <1>1, <1>2, <1>3 DEF Next
<1> QED
  BY <1>4, FinishedStep DEF CutInv

(* A grant that the user disconnected while no request was at work on it   *)
(* has no refresh token left that its client could use                     *)
(* (revoke_grants_for_client, mcp_oauth.rs:538): whatever other requests   *)
(* exchange, rotate, revoke, write back or drop while it goes through the  *)
(* tokens of the user one by one.                                          *)
THEOREM DisconnectedIsCutOff == Spec => []CutOff
<1>1. CutInv => CutOff
  BY DEF CutInv, Finished, Live, Dead, Spendable, CutOff
<1>2. ASSUME CutInv, [Next]_vars PROVE CutInv'
  <2>1. IInv'
    BY <1>2, StepInv DEF CutInv
  <2>2. UsersKnown' /\ Indexed'
    BY <1>2, UsersStep, IndexedStep
  <2>3. \A t \in Thread : OnItsWay(t)' /\ Cuts(t)'
    BY <1>2, OnItsWayStep, CutsStep
  <2>4. \A g \in cut' : Finished(g)'
    BY <1>2, CutStep
  <2> QED
    BY <2>1, <2>2, <2>3, <2>4 DEF CutInv
<1> QED
  BY <1>1, <1>2, InitCuts, PTL DEF Spec
=============================================================================
