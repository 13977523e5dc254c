------------------------------ MODULE Accounts -------------------------------
(* Accounts, sessions and API tokens (auth.rs, session.rs, auth_api.rs).   *)
(*                                                                         *)
(* A call is a thread that issues one storage command per step; between    *)
(* two of them any other thread may run, on this replica or another.  A    *)
(* record is written field by field but reached only through its indexes:  *)
(* it is written in one step, and in one step it goes from "whole" to the  *)
(* "stub" that no longer decodes.  A call that presents a credential ends  *)
(* up "ready", knows who asks, and goes on here or in module Access.       *)
(*                                                                         *)
(* Records from before emails became the identifier are left out.          *)
EXTENDS Naturals, FiniteSets

CONSTANTS
  Thread,
  Plans,        \* bound: what each thread may be asked, as functions
  MaxCalls,     \* bound: how many calls thread p serves
  Email, Login, \* the emails; the identities people sign in with
  MailOf,       \* MailOf[l]: the verified email of identity l
  Local,        \* the identities of WM_LOCAL_AUTH
  AdminLogin,   \* the identities configured as administrators
  Linked,       \* the identities that signed in before
  Seed,         \* the accounts that exist, as [mail, admin]
  TokenName,
  MaxUsers, MaxCookies, MaxTokens,   \* bounds
  None

User == 1 .. MaxUsers
Cookie == 1 .. MaxCookies
Token == 1 .. MaxTokens
Credential == ({"session"} \X Cookie) \cup ({"token"} \X Token)

ASSUME AccountsAssumption ==
  /\ MailOf \in [Login -> Email] /\ Local \subseteq Login
  /\ AdminLogin \subseteq Login /\ Linked \subseteq Login
  /\ \A l \in Linked : \E u \in DOMAIN Seed : Seed[u].mail = MailOf[l]
  /\ DOMAIN Seed \subseteq 1 .. MaxUsers /\ TokenName # {}
  /\ Seed \in [DOMAIN Seed -> [mail : Email, admin : BOOLEAN]]
  /\ \A u, v \in DOMAIN Seed : Seed[u].mail = Seed[v].mail => u = v
  /\ MaxCalls \in [Thread -> Nat] /\ \A f \in Plans : DOMAIN f = Thread
  /\ {MaxUsers, MaxCookies, MaxTokens} \subseteq Nat /\ None \notin Credential

VARIABLES
  user,       \* user:{id}
  byEmail,    \* user:by-email:{email}
  byIdentity, \* user:by-identity:{provider}:{subject}
  all,        \* user:all
  session,    \* session:{token}
  token,      \* token:{id}
  byHash,     \* token:by-hash, as the tokens it leads to
  byName,     \* token:by-name:{owner}:{name}
  ofOwner,    \* token:by-owner, as the tokens in their owner's set
  issued,     \* the cookies and tokens that reached somebody
  group,      \* the groups and their routes (module Access)
  plan,       \* the one of Plans this behaviour keeps to
  job, calls, \* the calls in progress; how many each thread began
  withdrawn,  \* the credentials that were revoked
  excused,    \* the last administrator may be gone, for a known reason
  freed,      \* the emails whose entry a deletion took from another account
  orphaning   \* who creates routes while, or after, the account is deleted

accounts == <<user, byEmail, byIdentity, all>>
credentials == <<session, token, byHash, byName, ofOwner>>
registry == <<group, orphaning>>
others == <<withdrawn, excused, freed, registry>>
control == <<plan, job, calls>>
avars == <<accounts, credentials, issued, control, others>>

NoUser == [shape |-> "none", mail |-> None, admin |-> FALSE, epoch |-> 0]
NoSession == [user |-> 0, epoch |-> 0]
NoToken == [shape |-> "none", owner |-> 0, name |-> None]

(* A thread at rest.  Of a call it knows who asks (user, admin, cred), the *)
(* arguments (op, login, mail, role, name, new) and what it has in hand:   *)
(* an account (id, was, epoch), a token (tok) and those left to delete, the *)
(* group it was let into (gate) and those it then worked on (hits).        *)
Idle == [at |-> "idle", op |-> None, cred |-> None, dead |-> FALSE,
         user |-> 0, admin |-> FALSE, login |-> None, mail |-> None,
         role |-> FALSE, name |-> None, new |-> None,
         id |-> 0, was |-> FALSE, epoch |-> 0, tok |-> 0, toks |-> {}, gate |-> 0, hits |-> {}]

At(p, label) == job[p].at = label
Work(p, task) == job' = [job EXCEPT ![p] = task] /\ UNCHANGED <<calls, plan>>
Step(p, label) == Work(p, [job[p] EXCEPT !.at = label])
End(p) == Work(p, Idle)

(* A new call, within the bound                                            *)
Begin(p, task) ==
  /\ At(p, "idle") /\ calls[p] < MaxCalls[p]
  /\ calls' = [calls EXCEPT ![p] = @ + 1]
  /\ job' = [job EXCEPT ![p] = task]
  /\ UNCHANGED plan

Whole(u) == user[u].shape = "whole"
Unborn == {u \in User : user[u].shape = "none"}
Smallest(S) == CHOOSE x \in S : \A y \in S : x <= y

(* The seeded accounts have each a session and a token that are in use.    *)
Init ==
  /\ user = [u \in User |-> IF u \in DOMAIN Seed
       THEN [shape |-> "whole", mail |-> Seed[u].mail, admin |-> Seed[u].admin,
             epoch |-> 0]
       ELSE NoUser]
  /\ byEmail = [e \in Email |->
       IF \E u \in DOMAIN Seed : Seed[u].mail = e
         THEN CHOOSE u \in DOMAIN Seed : Seed[u].mail = e ELSE 0]
  /\ byIdentity = [l \in Login |-> IF l \in Linked
       THEN CHOOSE u \in DOMAIN Seed : Seed[u].mail = MailOf[l] ELSE 0]
  /\ all = DOMAIN Seed
  /\ session = [c \in Cookie |->
       IF c \in DOMAIN Seed THEN [user |-> c, epoch |-> 0] ELSE NoSession]
  /\ token = [t \in Token |-> IF t \in DOMAIN Seed
       THEN [shape |-> "whole", owner |-> t, name |-> CHOOSE n \in TokenName : TRUE]
       ELSE NoToken]
  /\ byHash = DOMAIN Seed \cap Token
  /\ byName = [on \in User \X TokenName |->
       IF on[1] \in byHash /\ token[on[1]].name = on[2] THEN on[1] ELSE 0]
  /\ ofOwner = byHash
  /\ issued = ({"session"} \X (DOMAIN Seed \cap Cookie)) \cup ({"token"} \X byHash)
  /\ job = [p \in Thread |-> Idle]
  /\ calls = [p \in Thread |-> 0]
  /\ plan \in Plans
  /\ withdrawn = {}
  /\ excused = FALSE
  /\ freed = {}

-----------------------------------------------------------------------------
(* Who asks: the AuthContext extractor                                     *)

(* A request with a credential somebody was given, valid or not            *)
Present(p) == \E cred \in issued :
  /\ plan[p] \ {"sign_in", "logout"} # {}
  /\ Begin(p, [Idle EXCEPT !.cred = cred, !.dead = cred \in withdrawn,
       !.at = IF cred[1] = "session" THEN "touch_read" ELSE "token_find"])
  /\ UNCHANGED <<accounts, credentials, issued, others>>

(* SessionStore::touch reads the session,                                  *)
TouchRead(p) ==
  LET s == session[job[p].cred[2]] IN
  /\ At(p, "touch_read")
  /\ IF s = NoSession THEN End(p)
     ELSE Work(p, [job[p] EXCEPT !.at = "touch_write", !.id = s.user,
                                 !.epoch = s.epoch])
  /\ UNCHANGED <<accounts, credentials, issued, others>>

(* and writes it back with a later expiry, whatever became of it.          *)
TouchWrite(p) ==
  /\ At(p, "touch_write")
  /\ session' = [session EXCEPT ![job[p].cred[2]] =
                   [user |-> job[p].id, epoch |-> job[p].epoch]]
  /\ Step(p, "load_user")
  /\ UNCHANGED <<accounts, token, byHash, byName, ofOwner, issued, others>>

(* Any session of an account that exists is good.                          *)
SlipEpochMatches(p, u) == Whole(u)

(* "Sign out everywhere" leaves older sessions with an older stamp.        *)
EpochMatches(p, u) ==
  job[p].cred[1] = "session" => job[p].epoch = user[u].epoch

(* The account is loaded; the role is the one it has now.                  *)
LoadUser(p) ==
  LET u == job[p].id IN
  /\ At(p, "load_user")
  /\ IF Whole(u) /\ EpochMatches(p, u)
       THEN Work(p, [Idle EXCEPT !.cred = job[p].cred, !.dead = job[p].dead,
              !.user = u, !.admin = user[u].admin,
              !.at = IF job[p].cred[1] = "token" THEN "stamp" ELSE "ready"])
       ELSE End(p)
  /\ UNCHANGED <<accounts, credentials, issued, others>>

(* authenticate_wmt: the hash leads to the token,                          *)
TokenFind(p) ==
  /\ At(p, "token_find")
  /\ IF job[p].cred[2] \in byHash THEN Step(p, "token_read") ELSE End(p)
  /\ UNCHANGED <<accounts, credentials, issued, others>>

(* the token to its owner,                                                 *)
TokenRead(p) ==
  LET t == token[job[p].cred[2]] IN
  /\ At(p, "token_read")
  /\ IF t.shape = "whole"
       THEN Work(p, [job[p] EXCEPT !.at = "load_user", !.id = t.owner])
       ELSE End(p)
  /\ UNCHANGED <<accounts, credentials, issued, others>>

(* and last_used_at is written: into a stub, when the token is gone.       *)
TokenStamp(p) ==
  LET t == job[p].cred[2] IN
  /\ At(p, "stamp")
  /\ token' = [token EXCEPT ![t].shape = IF @ = "whole" THEN @ ELSE "stub"]
  /\ Step(p, "ready")
  /\ UNCHANGED <<accounts, session, byHash, byName, ofOwner, issued, others>>

(* The call that was asked for                                             *)
Ask(p, op) == At(p, "ready") /\ op \in plan[p]
Refuse(p) == End(p)

(* logout deletes the session; there is nothing to withdraw while a request *)
(* with the same cookie is about to write it back.                         *)
Logout(p) == \E c \in Cookie :
  LET touched == \E q \in Thread : At(q, "touch_write") /\ job[q].cred = <<"session", c>> IN
  /\ "logout" \in plan[p] /\ <<"session", c>> \in issued
  /\ Begin(p, Idle)
  /\ session' = [session EXCEPT ![c] = NoSession]
  /\ withdrawn' = IF touched THEN withdrawn ELSE withdrawn \cup {<<"session", c>>}
  /\ UNCHANGED <<accounts, token, byHash, byName, ofOwner, issued, excused, freed, registry>>

(* revoke_all_my_sessions: the account must exist,                         *)
SignOutEverywhere(p) ==
  /\ Ask(p, "sign_out")
  /\ IF Whole(job[p].user) THEN Step(p, "bump") ELSE Refuse(p)
  /\ UNCHANGED <<accounts, credentials, issued, others>>

(* A sign-in that has read the account and will stamp a session with it    *)
Stamping(q, u) ==
  /\ job[q].op \in {"sign_in", "join", "return"} /\ job[q].id = u
  /\ job[q].at \in {"heal", "claim", "enlist", "link", "sync", "reindex", "mint"}

(* then its epoch goes up; sessions being minted from what was read before *)
(* are as dead as those that exist.                                        *)
BumpEpoch(p) ==
  LET u == job[p].user
      old == {c \in Cookie : session[c].user = u} IN
  /\ At(p, "bump")
  /\ user' = [user EXCEPT ![u].epoch = @ + 1]
  /\ withdrawn' = withdrawn \cup ({"session"} \X old)
  /\ job' = [q \in Thread |->
       IF q = p THEN Idle
       ELSE IF Stamping(q, u) THEN [job[q] EXCEPT !.dead = TRUE] ELSE job[q]]
  /\ UNCHANGED <<byEmail, byIdentity, all, credentials, issued, calls, plan, excused, freed, registry>>

-----------------------------------------------------------------------------
(* find_user_by_email, with the email in job.mail; who called is job.op    *)

(* Where a call goes once the account was found, or was not: write_new_user *)
(* (create_user, and join, the second look of a login) wants none. A login *)
(* whose identity was linked before is a return.                           *)
OnFound(p) ==
  CASE job[p].op = "sign_in" ->
         IF job[p].login \in Local THEN "sync" ELSE "link"
    [] job[p].op = "patch_user" -> "may_patch"
    [] job[p].op = "delete_user" -> "may_delete"
    [] OTHER -> "end"

OnMissing(op) == IF op \in {"create_user", "join"} THEN "write_user"
                 ELSE IF op = "sign_in" THEN "find" ELSE "end"

Found(p, u, label) ==
  IF label = "end" THEN End(p)
  ELSE Work(p, [job[p] EXCEPT !.at = label, !.id = u, !.was = user[u].admin,
                              !.epoch = user[u].epoch])

Missing(p) ==
  LET label == OnMissing(job[p].op) IN
  IF label = "end" THEN End(p)
  ELSE Work(p, [job[p] EXCEPT !.at = label,
                  !.op = IF @ = "sign_in" THEN "join" ELSE @])

(* The index comes first,                                                  *)
FindIndex(p) ==
  LET u == byEmail[job[p].mail] IN
  /\ At(p, "find")
  /\ IF u = 0 THEN Step(p, "scan")
     ELSE Work(p, [job[p] EXCEPT !.at = "find_user", !.id = u])
  /\ UNCHANGED <<accounts, credentials, issued, others>>

(* and leads to a record that was whole once; a stub is an error (500).    *)
FindUser(p) ==
  LET u == job[p].id IN
  /\ At(p, "find_user")
  /\ IF Whole(u) THEN Found(p, u, OnFound(p)) ELSE End(p)
  /\ UNCHANGED <<accounts, credentials, issued, others>>

(* Without an entry every account is read: a stub among them is an error,  *)
(* unless the one looked for comes before it.                              *)
Scan(p) ==
  LET mine == {u \in all : Whole(u) /\ user[u].mail = job[p].mail}
      stubs == {u \in all : ~ Whole(u)} IN
  /\ At(p, "scan")
  /\ \/ stubs # {} /\ End(p)
     \/ \E u \in mine : Work(p, [job[p] EXCEPT !.at = "heal", !.id = u,
                                !.was = user[u].admin, !.epoch = user[u].epoch])
     \/ mine = {} /\ stubs = {} /\ Missing(p)
  /\ UNCHANGED <<accounts, credentials, issued, others>>

(* What was found is indexed again, whatever happened to it since.         *)
Heal(p) ==
  /\ At(p, "heal")
  /\ byEmail' = [byEmail EXCEPT ![job[p].mail] = job[p].id]
  /\ IF OnFound(p) = "end" THEN End(p) ELSE Step(p, OnFound(p))
  /\ UNCHANGED <<user, byIdentity, all, credentials, issued, others>>

-----------------------------------------------------------------------------
(* write_new_user                                                          *)

(* The record comes first, so that no index leads to half of one.          *)
WriteUser(p) ==
  LET u == Smallest(Unborn) IN
  /\ At(p, "write_user") /\ Unborn # {}
  /\ user' = [user EXCEPT ![u] = [shape |-> "whole", mail |-> job[p].mail,
                                  admin |-> job[p].role, epoch |-> 0]]
  /\ Work(p, [job[p] EXCEPT !.at = "claim", !.id = u, !.was = job[p].role,
                            !.epoch = 0])
  /\ UNCHANGED <<byEmail, byIdentity, all, credentials, issued, others>>

(* The entry is written even where there is one.                           *)
SlipClaim(p) ==
  /\ At(p, "claim")
  /\ byEmail' = [byEmail EXCEPT ![job[p].mail] = job[p].id]
  /\ Step(p, "enlist")
  /\ UNCHANGED <<user, byIdentity, all, credentials, issued, others>>

(* set_if_absent: of two that write the same email one is told it is taken *)
(* and leaves a record nobody can reach.                                   *)
Claim(p) ==
  LET e == job[p].mail IN
  /\ At(p, "claim")
  /\ IF byEmail[e] = 0
       THEN byEmail' = [byEmail EXCEPT ![e] = job[p].id] /\ Step(p, "enlist")
       ELSE UNCHANGED byEmail /\ End(p)
  /\ UNCHANGED <<user, byIdentity, all, credentials, issued, others>>

Enlist(p) ==
  /\ At(p, "enlist")
  /\ all' = all \cup {job[p].id}
  /\ IF job[p].op = "join" THEN Step(p, "link") ELSE End(p)
  /\ UNCHANGED <<user, byEmail, byIdentity, credentials, issued, others>>

-----------------------------------------------------------------------------
(* Signing in: password_login and the callbacks of the providers, from the *)
(* point where the identity is proved                                      *)

PasswordLogin(p) == \E l \in Local :
  /\ "sign_in" \in plan[p]
  /\ Begin(p, [Idle EXCEPT !.at = "find", !.op = "sign_in", !.login = l,
              !.mail = MailOf[l], !.role = l \in AdminLogin])
  /\ UNCHANGED <<accounts, credentials, issued, others>>

Callback(p) == \E l \in Login \ Local :
  /\ "sign_in" \in plan[p]
  /\ Begin(p, [Idle EXCEPT !.at = "identity", !.op = "sign_in", !.login = l,
              !.mail = MailOf[l], !.role = l \in AdminLogin])
  /\ UNCHANGED <<accounts, credentials, issued, others>>

(* upsert_oauth_user: an identity that was linked leads to its account,    *)
Identity(p) ==
  LET u == byIdentity[job[p].login] IN
  /\ At(p, "identity")
  /\ IF u = 0 THEN Step(p, "find")
     ELSE Work(p, [job[p] EXCEPT !.at = "known", !.id = u])
  /\ UNCHANGED <<accounts, credentials, issued, others>>

(* which may be a stub by now: an error, for this login and all to come.   *)
Known(p) ==
  LET u == job[p].id IN
  /\ At(p, "known")
  /\ IF Whole(u)
       THEN Work(p, [job[p] EXCEPT !.at = "sync", !.op = "return",
              !.was = user[u].admin, !.epoch = user[u].epoch, !.mail = user[u].mail])
       ELSE End(p)
  /\ UNCHANGED <<accounts, credentials, issued, others>>

(* The role is the configured one from now on. Nobody counts who is left.  *)
Sync(p) ==
  LET j == job[p] IN
  /\ At(p, "sync")
  /\ user' = IF j.was = j.role THEN user ELSE [user EXCEPT ![j.id].admin = j.role]
  /\ excused' = (excused \/ (j.was /\ ~ j.role))
  /\ Step(p, IF j.login \in Local THEN "link"
             ELSE IF j.op = "return" THEN "reindex" ELSE "mint")
  /\ UNCHANGED <<byEmail, byIdentity, all, credentials, issued, withdrawn, freed, registry>>

(* Account v has claimed email e.                                          *)
Held(v, e) ==
  /\ Whole(v) /\ user[v].mail = e
  /\ v \in all \/ \E q \in Thread : At(q, "enlist") /\ job[q].id = v

(* The index entry of a linked account is written again. Of one that was   *)
(* deleted meanwhile it is written only if the email leads to nobody; else *)
(* the look-up leaves the entry with the account it finds.                 *)
Indexable(u, e) ==
  LET found == {v \in User : Held(v, e)} IN
  IF Whole(u) \/ found = {} THEN {u} ELSE found

Reindex(p) ==
  /\ At(p, "reindex")
  /\ \E u \in Indexable(job[p].id, job[p].mail) :
       byEmail' = [byEmail EXCEPT ![job[p].mail] = u]
  /\ Step(p, "mint")
  /\ UNCHANGED <<user, byIdentity, all, credentials, issued, others>>

(* The identity is linked: by a local login last, by a provider's before   *)
(* the role of an account it found is set.                                 *)
Link(p) ==
  LET j == job[p] IN
  /\ At(p, "link")
  /\ byIdentity' = [byIdentity EXCEPT ![j.login] = j.id]
  /\ Step(p, IF j.op = "sign_in" /\ j.login \notin Local THEN "sync" ELSE "mint")
  /\ UNCHANGED <<user, byEmail, all, credentials, issued, others>>

(* SessionStore::create stamps the session with the epoch read above.      *)
Mint(p) ==
  LET c == Smallest({k \in Cookie : <<"session", k>> \notin issued}) IN
  /\ At(p, "mint")
  /\ \E k \in Cookie : <<"session", k>> \notin issued
  /\ session' = [session EXCEPT ![c] = [user |-> job[p].id, epoch |-> job[p].epoch]]
  /\ issued' = issued \cup {<<"session", c>>}
  /\ withdrawn' = IF job[p].dead THEN withdrawn \cup {<<"session", c>>} ELSE withdrawn
  /\ End(p)
  /\ UNCHANGED <<accounts, token, byHash, byName, ofOwner, excused, freed, registry>>

-----------------------------------------------------------------------------
(* Administration of accounts                                              *)

AskAdmin(p, op) == Ask(p, op) /\ job[p].admin

CreateUser(p) == \E e \in Email, r \in BOOLEAN :
  /\ AskAdmin(p, "create_user")
  /\ Work(p, [job[p] EXCEPT !.at = "find", !.op = "create_user", !.mail = e, !.role = r])
  /\ UNCHANGED <<accounts, credentials, issued, others>>

PatchUser(p) == \E e \in Email, r \in BOOLEAN :
  /\ AskAdmin(p, "patch_user")
  /\ Work(p, [job[p] EXCEPT !.at = "find", !.op = "patch_user", !.mail = e, !.role = r])
  /\ UNCHANGED <<accounts, credentials, issued, others>>

DeleteUser(p) == \E e \in Email :
  /\ AskAdmin(p, "delete_user")
  /\ Work(p, [job[p] EXCEPT !.at = "find", !.op = "delete_user", !.mail = e])
  /\ UNCHANGED <<accounts, credentials, issued, others>>

Admins == {u \in all : Whole(u) /\ user[u].admin}

(* A demotion or a deletion past the point where it counts                 *)
Removing(p) ==
  LET j == job[p] IN
  /\ j.op = "delete_user" \/ (j.op = "patch_user" /\ ~ j.role)
  /\ \/ j.at \in {"patch_read", "patch_write", "owned", "delete_read",
            "cascade", "drop_hash", "drop_name", "disown", "drop_token",
            "unmail", "unlist", "wipe"}
     \/ j.at \in {"heal", "may_patch", "may_delete"} /\ ~ j.was

(* One that is demoted or deleted, or so it was read, may not be the last. *)
MayPatch(p) ==
  /\ At(p, "may_patch")
  /\ Step(p, IF job[p].was /\ ~ job[p].role THEN "count" ELSE "patch_read")
  /\ UNCHANGED <<accounts, credentials, issued, others>>

MayDelete(p) ==
  /\ At(p, "may_delete")
  /\ IF job[p].id = job[p].user THEN Refuse(p)
     ELSE Step(p, IF job[p].was THEN "count" ELSE "owned")
  /\ UNCHANGED <<accounts, credentials, issued, others>>

(* The last one may go.                                                    *)
SlipEnough(n) == n > 0

Enough(n) == n > 1

(* count_admins reads every account: a stub among them is an error.        *)
CountAdmins(p) ==
  /\ At(p, "count")
  /\ IF (\E u \in all : ~ Whole(u)) \/ ~ Enough(Cardinality(Admins)) THEN Refuse(p)
     ELSE Step(p, IF job[p].op = "patch_user" THEN "patch_read" ELSE "owned")
  /\ excused' = (excused \/ \E q \in Thread \ {p} : Removing(q))
  /\ UNCHANGED <<accounts, credentials, issued, withdrawn, freed, registry>>

(* set_user_admin reads the account, then writes the role.                 *)
PatchRead(p) ==
  /\ At(p, "patch_read")
  /\ IF Whole(job[p].id) THEN Step(p, "patch_write") ELSE End(p)
  /\ UNCHANGED <<accounts, credentials, issued, others>>

PatchWrite(p) ==
  /\ At(p, "patch_write")
  /\ user' = [user EXCEPT ![job[p].id].admin = job[p].role]
  /\ End(p)
  /\ UNCHANGED <<byEmail, byIdentity, all, credentials, issued, others>>

(* delete_user, once the caller has seen that no route is owned: the       *)
(* account and the list of its tokens are read,                            *)
DeleteRead(p) ==
  LET u == job[p].id IN
  /\ At(p, "delete_read")
  /\ IF Whole(u)
       THEN Work(p, [job[p] EXCEPT !.at = "cascade",
              !.toks = {t \in ofOwner : token[t].owner = u}])
       ELSE End(p)
  /\ UNCHANGED <<accounts, credentials, issued, others>>

(* the tokens go one by one; one that is gone is passed over, a stub is an *)
(* error;                                                                  *)
CascadeToken(p) ==
  /\ At(p, "cascade")
  /\ \/ job[p].toks = {} /\ Step(p, "unmail")
     \/ \E t \in job[p].toks :
          CASE token[t].shape = "whole" ->
                 Work(p, [job[p] EXCEPT !.at = "drop_hash", !.tok = t,
                            !.name = token[t].name, !.toks = @ \ {t}])
            [] token[t].shape = "none" ->
                 Work(p, [job[p] EXCEPT !.toks = @ \ {t}])
            [] token[t].shape = "stub" -> End(p)
  /\ UNCHANGED <<accounts, credentials, issued, others>>

(* then the email's entry, whichever account it leads to by now: a second  *)
(* deletion of an account takes it from one created after the first;       *)
Unmail(p) ==
  LET e == job[p].mail IN
  /\ At(p, "unmail")
  /\ byEmail' = [byEmail EXCEPT ![e] = 0]
  /\ freed' = IF \E v \in User \ {job[p].id} : Held(v, e) THEN freed \cup {e} ELSE freed
  /\ Step(p, "unlist")
  /\ UNCHANGED <<user, byIdentity, all, credentials, issued, withdrawn, excused, registry>>

Unlist(p) ==
  /\ At(p, "unlist")
  /\ all' = all \ {job[p].id}
  /\ Step(p, "wipe")
  /\ UNCHANGED <<user, byEmail, byIdentity, credentials, issued, others>>

(* and every field but the epoch: what is left does not decode.            *)
WipeUser(p) ==
  LET u == job[p].id IN
  /\ At(p, "wipe")
  /\ user' = [user EXCEPT ![u].shape = "stub"]
  /\ withdrawn' = withdrawn \cup {k \in issued :
       IF k[1] = "session" THEN session[k[2]].user = u ELSE token[k[2]].owner = u}
  /\ End(p)
  /\ UNCHANGED <<byEmail, byIdentity, all, credentials, issued, excused, freed, registry>>

-----------------------------------------------------------------------------
(* API tokens: everyone manages their own                                  *)

(* create_token: the owner exists,                                         *)
CreateToken(p) == \E n \in TokenName :
  /\ Ask(p, "create_token")
  /\ IF Whole(job[p].user)
       THEN Work(p, [job[p] EXCEPT !.at = "token_free", !.op = "create_token", !.name = n])
       ELSE Refuse(p)
  /\ UNCHANGED <<accounts, credentials, issued, others>>

(* the name is free at the moment,                                         *)
TokenFree(p) ==
  /\ At(p, "token_free")
  /\ IF byName[<<job[p].user, job[p].name>>] # 0 THEN Refuse(p) ELSE Step(p, "write_token")
  /\ UNCHANGED <<accounts, credentials, issued, others>>

(* write_new_token: the record, the hash, the name (in place of another    *)
(* that was faster) and the owner's set; only then its owner gets to see it. *)
WriteToken(p) ==
  LET unused == {k \in Token : <<"token", k>> \notin issued
                                /\ \A q \in Thread : job[q].tok # k}
      t == Smallest(unused) IN
  /\ At(p, "write_token") /\ unused # {}
  /\ token' = [token EXCEPT ![t] =
       [shape |-> "whole", owner |-> job[p].user, name |-> job[p].name]]
  /\ Work(p, [job[p] EXCEPT !.at = "index_hash", !.tok = t])
  /\ UNCHANGED <<accounts, session, byHash, byName, ofOwner, issued, others>>

IndexHash(p) ==
  /\ At(p, "index_hash")
  /\ byHash' = byHash \cup {job[p].tok}
  /\ Step(p, "index_name")
  /\ UNCHANGED <<accounts, session, token, byName, ofOwner, issued, others>>

IndexName(p) ==
  /\ At(p, "index_name")
  /\ byName' = [byName EXCEPT ![<<job[p].user, job[p].name>>] = job[p].tok]
  /\ Step(p, "index_owner")
  /\ UNCHANGED <<accounts, session, token, byHash, ofOwner, issued, others>>

IndexOwner(p) ==
  /\ At(p, "index_owner")
  /\ ofOwner' = ofOwner \cup {job[p].tok}
  /\ issued' = issued \cup {<<"token", job[p].tok>>}
  /\ End(p)
  /\ UNCHANGED <<accounts, session, token, byHash, byName, others>>

(* rename_token: the new name is free, the old one leads to a token;       *)
RenameToken(p) == \E old, new \in TokenName :
  /\ Ask(p, "rename_token") /\ old # new
  /\ IF byName[<<job[p].user, new>>] # 0 THEN Refuse(p)
     ELSE Work(p, [job[p] EXCEPT !.at = "rename_find", !.op = "rename_token",
                                 !.name = old, !.new = new])
  /\ UNCHANGED <<accounts, credentials, issued, others>>

(* a name that leads nowhere, or to a stub, ends the call.                 *)
HoldNamed(p, label) ==
  LET t == byName[<<job[p].user, job[p].name>>] IN
  IF t # 0 /\ token[t].shape = "whole"
    THEN Work(p, [job[p] EXCEPT !.at = label, !.tok = t])
    ELSE End(p)

RenameFind(p) ==
  /\ At(p, "rename_find")
  /\ HoldNamed(p, "set_name")
  /\ UNCHANGED <<accounts, credentials, issued, others>>

(* The new entry comes before the record's name and the old entry goes     *)
(* last.                                                                   *)
SetName(p) ==
  /\ At(p, "set_name")
  /\ byName' = [byName EXCEPT ![<<job[p].user, job[p].new>>] = job[p].tok]
  /\ Step(p, "name_token")
  /\ UNCHANGED <<accounts, session, token, byHash, ofOwner, issued, others>>

NameToken(p) ==
  LET t == job[p].tok IN
  /\ At(p, "name_token")
  /\ token' = [token EXCEPT ![t].name = job[p].new,
                            ![t].shape = IF @ = "none" THEN "stub" ELSE @]
  /\ Step(p, "drop_old")
  /\ UNCHANGED <<accounts, session, byHash, byName, ofOwner, issued, others>>

DropOld(p) ==
  /\ At(p, "drop_old")
  /\ byName' = [byName EXCEPT ![<<job[p].user, job[p].name>>] = 0]
  /\ End(p)
  /\ UNCHANGED <<accounts, session, token, byHash, ofOwner, issued, others>>

(* revoke_token_by_name                                                    *)
RevokeToken(p) == \E n \in TokenName :
  /\ Ask(p, "revoke_token")
  /\ Work(p, [job[p] EXCEPT !.at = "revoke_find", !.op = "revoke_token", !.name = n,
                            !.id = job[p].user])
  /\ UNCHANGED <<accounts, credentials, issued, others>>

RevokeFind(p) ==
  LET t == byName[<<job[p].user, job[p].name>>] IN
  /\ At(p, "revoke_find")
  /\ IF t # 0 /\ token[t].shape = "whole"
       THEN Work(p, [job[p] EXCEPT !.at = "drop_hash", !.tok = t, !.name = token[t].name])
       ELSE End(p)
  /\ UNCHANGED <<accounts, credentials, issued, others>>

(* delete_token: the hash, the name the record had, the owner's set, the   *)
(* record.                                                                 *)
DropHash(p) ==
  /\ At(p, "drop_hash")
  /\ byHash' = byHash \ {job[p].tok}
  /\ Step(p, "drop_name")
  /\ UNCHANGED <<accounts, session, token, byName, ofOwner, issued, others>>

DropName(p) ==
  /\ At(p, "drop_name")
  /\ byName' = [byName EXCEPT ![<<job[p].id, job[p].name>>] = 0]
  /\ Step(p, "disown")
  /\ UNCHANGED <<accounts, session, token, byHash, ofOwner, issued, others>>

Disown(p) ==
  /\ At(p, "disown")
  /\ ofOwner' = ofOwner \ {job[p].tok}
  /\ Step(p, "drop_token")
  /\ UNCHANGED <<accounts, session, token, byHash, byName, issued, others>>

DropToken(p) ==
  LET t == job[p].tok IN
  /\ At(p, "drop_token")
  /\ token' = [token EXCEPT ![t].shape = "none"]
  /\ withdrawn' = withdrawn \cup {<<"token", t>>}
  /\ IF job[p].op = "delete_user" THEN Step(p, "cascade") ELSE End(p)
  /\ UNCHANGED <<accounts, session, byHash, byName, ofOwner, issued, excused, freed, registry>>

-----------------------------------------------------------------------------

(* A session that was signed out, alone or with all others of its account, *)
(* a revoked token, and what is left of a deleted account never let a      *)
(* later request in: not by a touch that writes the session back, not by a *)
(* sign-in that had read the account before, not by a stamp into a token   *)
(* that is gone.  A plain logout that falls between the read and the write *)
(* of a touch is no withdrawal.  (auth.rs, session.rs)                     *)
Withdrawn == \A p \in Thread : At(p, "ready") => ~ job[p].dead

(* However creations, first sign-ins, deletions and repairs of the index   *)
(* interleave, no two accounts that can be listed have one email, but for  *)
(* one that is being deleted: the claim of the index entry decides.  The   *)
(* exception is an email whose entry a second deletion of an account took  *)
(* from the account that was created after the first.  (auth.rs,           *)
(* write_new_user and delete_user)                                         *)
OneAccountPerEmailUnlessFreed == \A u, v \in all :
  user[u].mail = user[v].mail /\ Whole(u) /\ Whole(v) /\ u # v =>
    \/ \E p \in Thread : job[p].op = "delete_user" /\ job[p].id \in {u, v}
    \/ user[u].mail \in freed

(* There is an administrator as long as no two demotions or deletions      *)
(* overlap and no sign-in takes the role away.  (count_admins)             *)
LastAdmin == Admins # {} \/ excused

=============================================================================
