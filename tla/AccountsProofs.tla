--------------------------- MODULE AccountsProofs ----------------------------
(* Whatever the accounts, emails, credentials, groups and calls in         *)
(* progress are:                                                           *)
(*   a live route has an owner, unless it was made while its owner went,   *)
(*   an email is of one account, until a deletion frees it under another,  *)
(*   an administrator is left, until two calls count each other,           *)
(*   a call touches what its caller owns, unless a name was rebound, and   *)
(*   a credential that was withdrawn lets nobody in.                       *)
(* Each has an inductive invariant of its own on top of Typed, which says  *)
(* what the records hold and what a call has in hand at each of its steps. *)
(* A lemma per action comes first: it says that the action keeps Typed and *)
(* what else it moves, and the five proofs look at those moves alone.      *)
EXTENDS Access, TLAPS, FiniteSetTheorems, WellFoundedInduction

-----------------------------------------------------------------------------
(* What the variables and a thread's task are made of                      *)

Id == 0 .. MaxUsers
Named == TokenName \cup Name \cup {None}

Account ==
  [shape : {"none", "whole", "stub"}, mail : Email \cup {None}, admin : BOOLEAN, epoch : Nat]
SessionRecord == [user : Id, epoch : Nat]
TokenRecord == [shape : {"none", "whole", "stub"}, owner : Id, name : Named]
GroupRecord ==
  [live : BOOLEAN, name : Name \cup {None}, owner : Id, maker : Id, routed : BOOLEAN]

Label ==
  {"idle", "touch_read", "touch_write", "load_user", "token_find", "token_read", "stamp",
   "ready", "done", "bump", "find", "scan", "find_user", "heal", "write_user", "claim",
   "enlist", "identity", "known", "sync", "reindex", "link", "mint", "may_patch",
   "may_delete", "count", "patch_read", "patch_write", "owned", "delete_read", "cascade",
   "unmail", "unlist", "wipe", "token_free", "write_token", "index_hash", "index_name",
   "index_owner", "rename_find", "set_name", "name_token", "drop_old", "revoke_find",
   "drop_hash", "drop_name", "disown", "drop_token", "update_route", "delete_route",
   "route_data", "patch_route", "rename", "group_data", "drop", "probe", "new_route",
   "implicit", "import_route", "rollback"}
Ops ==
  {"sign_in", "join", "return", "create_user", "patch_user", "delete_user", "create_token",
   "rename_token", "revoke_token", "route", "group", "journal", "groups", "routes",
   "probe", "create"} \cup {None}
Creds == Credential \cup {None}
Logins == Login \cup {None}
Mails == Email \cup {None}
Toks == Token \cup {0}
Gates == Group \cup {0}
TokSets == SUBSET Token
GroupSets == SUBSET Group

Task ==
  [at : Label, op : Ops, cred : Creds, dead : BOOLEAN, user : Id, admin : BOOLEAN,
   login : Logins, mail : Mails, role : BOOLEAN, name : Named, new : Named, id : Nat,
   was : BOOLEAN, epoch : Nat, tok : Toks, toks : TokSets, gate : Gates, hits : GroupSets]

LEMMA Labels ==
  /\ "idle" \in Label /\ "touch_read" \in Label /\ "touch_write" \in Label
  /\ "load_user" \in Label /\ "token_find" \in Label /\ "token_read" \in Label
  /\ "stamp" \in Label /\ "ready" \in Label /\ "done" \in Label
  /\ "bump" \in Label /\ "find" \in Label /\ "scan" \in Label
  /\ "find_user" \in Label /\ "heal" \in Label /\ "write_user" \in Label
  /\ "claim" \in Label /\ "enlist" \in Label /\ "identity" \in Label
  /\ "known" \in Label /\ "sync" \in Label /\ "reindex" \in Label
  /\ "link" \in Label /\ "mint" \in Label /\ "may_patch" \in Label
  /\ "may_delete" \in Label /\ "count" \in Label /\ "patch_read" \in Label
  /\ "patch_write" \in Label /\ "owned" \in Label /\ "delete_read" \in Label
  /\ "cascade" \in Label /\ "unmail" \in Label /\ "unlist" \in Label
  /\ "wipe" \in Label /\ "token_free" \in Label /\ "write_token" \in Label
  /\ "index_hash" \in Label /\ "index_name" \in Label /\ "index_owner" \in Label
  /\ "rename_find" \in Label /\ "set_name" \in Label /\ "name_token" \in Label
  /\ "drop_old" \in Label /\ "revoke_find" \in Label /\ "drop_hash" \in Label
  /\ "drop_name" \in Label /\ "disown" \in Label /\ "drop_token" \in Label
  /\ "update_route" \in Label /\ "delete_route" \in Label /\ "route_data" \in Label
  /\ "patch_route" \in Label /\ "rename" \in Label /\ "group_data" \in Label
  /\ "drop" \in Label /\ "probe" \in Label /\ "new_route" \in Label
  /\ "implicit" \in Label /\ "import_route" \in Label /\ "rollback" \in Label
BY DEF Label

LEMMA Asks ==
  /\ "sign_in" \in Ops /\ "join" \in Ops /\ "return" \in Ops
  /\ "create_user" \in Ops /\ "patch_user" \in Ops /\ "delete_user" \in Ops
  /\ "create_token" \in Ops /\ "rename_token" \in Ops /\ "revoke_token" \in Ops
  /\ "route" \in Ops /\ "group" \in Ops /\ "journal" \in Ops
  /\ "groups" \in Ops /\ "routes" \in Ops /\ "probe" \in Ops
  /\ "create" \in Ops
  /\ None \in Ops
BY DEF Ops

(* Who asked for what, by the step the task is at                          *)
OpFits(t) ==
  /\ t.at \in {"may_delete", "owned", "delete_read", "cascade", "unmail", "unlist", "wipe"} =>
       t.op = "delete_user"
  /\ t.at \in {"may_patch", "patch_read", "patch_write"} => t.op = "patch_user"
  /\ t.at = "count" => t.op = "delete_user" \/ (t.op = "patch_user" /\ ~ t.role)
  /\ t.at = "revoke_find" => t.op = "revoke_token"
  /\ t.at \in {"drop_hash", "drop_name", "disown", "drop_token"} =>
       t.op \in {"delete_user", "revoke_token"}
  /\ t.at \in {"find", "scan", "find_user", "heal"} =>
       t.op \in {"sign_in", "join", "create_user", "patch_user", "delete_user"}
  /\ t.at \in {"identity", "known"} => t.op = "sign_in"
  /\ t.at \in {"write_user", "claim", "enlist"} => t.op \in {"create_user", "join"}
  /\ t.at \in {"sync", "reindex", "link", "mint"} => t.op \in {"sign_in", "join", "return"}
  /\ t.at \in {"update_route", "delete_route", "route_data", "patch_route"} => t.op = "route"
  /\ t.at \in {"rename", "group_data", "drop"} => t.op \in {"group", "journal"}
  /\ t.at = "probe" => t.op = "probe"
  /\ t.at \in {"new_route", "implicit", "import_route"} => t.op = "create"

UserFits(t) ==
  t.at \in {"stamp", "ready", "done", "bump", "token_free", "write_token", "index_hash",
            "index_name", "index_owner", "rename_find", "set_name", "name_token", "drop_old",
            "revoke_find", "update_route", "delete_route", "route_data", "patch_route",
            "rename", "group_data", "drop", "probe", "new_route", "implicit",
            "import_route", "rollback"} => t.user \in User

IdFits(t) ==
  t.at \in {"touch_write", "load_user", "find_user", "heal", "claim", "enlist", "link", "sync",
            "reindex", "mint", "known", "may_patch", "may_delete", "count", "patch_read",
            "patch_write", "owned", "delete_read", "cascade", "unmail", "unlist", "wipe",
            "revoke_find", "drop_hash", "drop_name", "disown", "drop_token"} => t.id \in User

MailFits(t) ==
  /\ t.at \in {"identity", "find", "scan", "find_user", "heal", "write_user", "claim", "enlist",
               "may_patch", "may_delete", "count", "owned", "delete_read", "cascade",
               "unmail", "unlist", "wipe"} => t.mail \in Email
  /\ t.at \in {"drop_hash", "drop_name", "disown", "drop_token"} /\ t.op = "delete_user" =>
       t.mail \in Email
  /\ t.at = "identity" => t.login \in Login

CredFits(t) ==
  /\ t.at \in {"touch_read", "touch_write"} => t.cred \in {"session"} \X Cookie
  /\ t.at \in {"token_find", "token_read", "stamp"} => t.cred \in {"token"} \X Token
  /\ t.at \in {"load_user", "ready"} => t.cred \in Credential

TokenFits(t) ==
  /\ t.at \in {"index_hash", "index_name", "index_owner", "set_name", "name_token", "drop_old",
               "drop_hash", "drop_name", "disown", "drop_token"} => t.tok \in Token
  /\ t.at \in {"rename_find", "revoke_find"} => t.name \in TokenName

GateFits(t) == t.at \in {"rename", "group_data", "drop"} => t.gate \in Group

Fits(t) ==
  /\ t \in Task
  /\ OpFits(t) /\ UserFits(t) /\ IdFits(t) /\ MailFits(t)
  /\ CredFits(t) /\ TokenFits(t) /\ GateFits(t)

(* A record that is whole or stands for a session has an owner.            *)
AccountsTyped ==
  /\ user \in [User -> Account]
  /\ \A u \in User : user[u].shape = "whole" => user[u].mail \in Email
  /\ byEmail \in [Email -> Id] /\ byIdentity \in [Login -> Id]
  /\ all \subseteq User

CredentialsTyped ==
  /\ session \in [Cookie -> SessionRecord]
  /\ \A c \in Cookie : session[c] = NoSession \/ session[c].user \in User
  /\ token \in [Token -> TokenRecord]
  /\ \A t \in Token : token[t].shape = "whole" => token[t].owner \in User
  /\ byHash \subseteq Token /\ ofOwner \subseteq Token
  /\ byName \in [User \X TokenName -> Token \cup {0}]
  /\ issued \subseteq Credential

GroupsTyped ==
  /\ group \in [Group -> GroupRecord]
  /\ \A g \in Group : group[g].live => group[g].owner \in User
  /\ \A g \in Group : group[g].routed => group[g].maker \in User

TasksFit == job \in [Thread -> Task] /\ \A p \in Thread : Fits(job[p])

Typed == AccountsTyped /\ CredentialsTyped /\ GroupsTyped /\ TasksFit

-----------------------------------------------------------------------------
(* What a step of a thread may make of its task: o becomes t               *)

(* A deletion that has looked for routes                                   *)
Deep(t) ==
  /\ t.op = "delete_user"
  /\ t.at \in {"delete_read", "cascade", "drop_hash", "drop_name",
               "disown", "drop_token", "unmail", "unlist", "wipe"}

(* A demotion or deletion past the point where it counts; see Removing     *)
Demoting(t) ==
  /\ t.op = "delete_user" \/ (t.op = "patch_user" /\ ~ t.role)
  /\ \/ t.at \in {"patch_read", "patch_write", "owned", "delete_read",
            "cascade", "drop_hash", "drop_name", "disown", "drop_token",
            "unmail", "unlist", "wipe"}
     \/ t.at \in {"heal", "may_patch", "may_delete"} /\ ~ t.was

(* A sign-in that holds an account and its epoch; see Stamping             *)
Stamps(t) ==
  /\ t.op \in {"sign_in", "join", "return"}
  /\ t.at \in {"heal", "claim", "enlist", "link", "sync", "reindex", "mint"}

Gated(t) ==
  t.at \in {"update_route", "route_data", "delete_route", "rename", "group_data", "drop",
            "probe", "new_route", "done"}

Settling(t) == t.at \in {"claim", "enlist", "unlist", "wipe"}

OwnDrift(o, t) == Deep(t) => Deep(o) /\ t.id = o.id

AdminDrift(o, t) == Demoting(t) => Demoting(o) /\ t.id = o.id

CredDrift(o, t) ==
  /\ t.cred \in {o.cred, None}
  /\ t.dead => /\ o.dead /\ (Stamps(o) => Stamps(t))
               /\ o.at \notin {"touch_read", "touch_write", "load_user", "token_find",
                               "token_read"}
  /\ Stamps(t) => Stamps(o) /\ t.id = o.id /\ t.epoch = o.epoch
  /\ t.at # "touch_write"
  /\ t.tok \in {o.tok, 0} /\ t.toks \subseteq o.toks
  /\ t.at \notin {"index_hash", "index_name", "index_owner", "drop_name", "disown",
                  "drop_token"}
  /\ o.at \notin {"index_hash", "index_name", "index_owner"}

MailDrift(o, t) == ~ Settling(o) /\ ~ Settling(t)

(* The steps that do more than that                                        *)
OwnStep(p) == CheckOwned(p)

AdminStep(p) == FindUser(p) \/ Scan(p) \/ CountAdmins(p)

CredStep(p) ==
  \/ Present(p) \/ TouchRead(p) \/ TouchWrite(p) \/ LoadUser(p) \/ TokenFind(p)
  \/ TokenRead(p) \/ FindUser(p) \/ Scan(p) \/ Known(p) \/ WriteUser(p)
  \/ DeleteRead(p) \/ CascadeToken(p) \/ WriteToken(p) \/ IndexHash(p) \/ IndexName(p)
  \/ IndexOwner(p) \/ RenameFind(p) \/ RevokeFind(p) \/ DropHash(p) \/ DropName(p)
  \/ Disown(p)

MailStep(p) ==
  \/ WriteUser(p) \/ Claim(p) \/ Enlist(p) \/ Unmail(p) \/ Unlist(p) \/ WipeUser(p)

GateStep(p) ==
  \/ Shown(p) \/ ShownGroup(p) \/ Unmatched(p) \/ ListGroups(p) \/ ListRoutes(p)
  \/ \E act \in {"update_route", "delete_route", "route_data", "patch_route"} : BySlug(p, act)
  \/ \E act \in {"rename", "group_data", "drop"} : ByRef(p, act)
  \/ Journal(p) \/ Probing(p) \/ Into(p) \/ ImportRoute(p) \/ PatchCore(p)
  \/ UpdateRoute(p) \/ RouteData(p) \/ DeleteRoute(p) \/ GroupData(p) \/ Rename(p)
  \/ Drop(p) \/ Probe(p) \/ NewRoute(p) \/ Implicit(p) \/ Make(p)

(* The steps that change more than a task                                  *)
AccountMove(p) ==
  \/ BumpEpoch(p) \/ Heal(p) \/ WriteUser(p) \/ Claim(p) \/ Enlist(p) \/ Sync(p)
  \/ Reindex(p) \/ Link(p) \/ PatchWrite(p) \/ Unmail(p) \/ Unlist(p) \/ WipeUser(p)

CredentialMove(p) ==
  \/ TouchWrite(p) \/ TokenStamp(p) \/ Logout(p) \/ Mint(p)
  \/ WriteToken(p) \/ IndexHash(p) \/ IndexName(p) \/ IndexOwner(p) \/ SetName(p)
  \/ NameToken(p) \/ DropOld(p) \/ DropHash(p) \/ DropName(p) \/ Disown(p) \/ DropToken(p)

GroupMove(p) ==
  \/ DeleteRoute(p) \/ Rename(p) \/ Drop(p) \/ Make(p) \/ Import(p) \/ NewRoute(p)
  \/ Implicit(p) \/ Rollback(p)

Moving(p) == AccountMove(p) \/ CredentialMove(p) \/ GroupMove(p) \/ CountAdmins(p)

Moves(p, t) ==
  /\ Fits(t) /\ job' = [job EXCEPT ![p] = t]
  /\ OwnDrift(job[p], t) \/ OwnStep(p)
  /\ AdminDrift(job[p], t) \/ AdminStep(p)
  /\ CredDrift(job[p], t) \/ CredStep(p)
  /\ MailDrift(job[p], t) \/ MailStep(p)
  /\ ~ Gated(t) \/ GateStep(p)

Moved(p) == \E t : Moves(p, t)


LEMMA MinExists ==
  ASSUME NEW S \in SUBSET Nat, S # {}
  PROVE  Smallest(S) \in S
<1> DEFINE Below == {ss \in Nat \X Nat : ss[1] < ss[2]}
<1>1. IsWellFoundedOn(Below, Nat)
  BY NatLessThanWellFounded DEF OpToRel
<1>2. \E x \in S : \A y \in S : ~ (<<y, x>> \in Below)
  <2> HIDE DEF Below
  <2> QED
    BY <1>1, WFMin
<1>3. PICK x \in S : \A y \in S : ~ (<<y, x>> \in Below)
  BY <1>2
<1>4. ASSUME NEW y \in S PROVE x <= y
  <2>1. x \in Nat /\ y \in Nat
    OBVIOUS
  <2>2. ~ (y < x)
    BY <1>3, <2>1
  <2> QED
    BY <2>1, <2>2
<1> QED
  BY <1>4 DEF Smallest

LEMMA IdleFits == Fits(Idle)
<1>1. /\ 0 \in Id /\ None \in Named /\ None \in Creds /\ None \in Logins
      /\ None \in Mails /\ 0 \in Toks /\ 0 \in Gates /\ {} \in TokSets /\ {} \in GroupSets
  BY AccountsAssumption DEF Id, Named, Creds, Logins, Mails, Toks, Gates, TokSets, GroupSets
<1>2. Idle \in Task
  BY <1>1, Labels, Asks DEF Idle, Task
<1>3. Idle.at = "idle"
  BY DEF Idle
<1> HIDE DEF Idle
<1> QED
  BY <1>2, <1>3 DEF Fits, OpFits, UserFits, IdFits, MailFits, CredFits, TokenFits, GateFits

LEMMA IdleFields ==
  /\ Idle \in Task /\ Idle.at = "idle" /\ Idle.op = None /\ Idle.role = FALSE
  /\ Idle.user = 0 /\ Idle.id = 0 /\ Idle.mail = None /\ Idle.login = None
  /\ Idle.cred = None /\ Idle.tok = 0 /\ Idle.gate = 0 /\ Idle.was = FALSE
  /\ Idle.epoch = 0 /\ Idle.dead = FALSE /\ Idle.toks = {}
BY IdleFits DEF Idle, Fits

(* The steps that change nothing of a task but where it is                 *)
Edge(t, l) ==
  \/ t.at = "touch_write" /\ l = "load_user"
  \/ t.at = "token_find" /\ l = "token_read"
  \/ t.at = "stamp" /\ l = "ready"
  \/ t.at = "ready" /\ l = "bump"
  \/ t.at = "find" /\ l = "scan"
  \/ t.at = "heal" /\ t.op = "sign_in" /\ l \in {"sync", "link"}
  \/ t.at = "heal" /\ t.op = "patch_user" /\ l = "may_patch"
  \/ t.at = "heal" /\ t.op = "delete_user" /\ l = "may_delete"
  \/ t.at = "claim" /\ l = "enlist"
  \/ t.at = "enlist" /\ t.op = "join" /\ l = "link"
  \/ t.at = "identity" /\ l = "find"
  \/ t.at = "sync" /\ l \in {"link", "reindex", "mint"}
  \/ t.at = "reindex" /\ l = "mint"
  \/ t.at = "link" /\ l \in {"sync", "mint"}
  \/ t.at = "may_patch" /\ t.was /\ ~ t.role /\ l = "count"
  \/ t.at = "may_patch" /\ ~ (t.was /\ ~ t.role) /\ l = "patch_read"
  \/ t.at = "may_delete" /\ t.was /\ l = "count"
  \/ t.at = "may_delete" /\ ~ t.was /\ l = "owned"
  \/ t.at = "count" /\ t.op = "patch_user" /\ l = "patch_read"
  \/ t.at = "count" /\ t.op # "patch_user" /\ l = "owned"
  \/ t.at = "patch_read" /\ l = "patch_write"
  \/ t.at = "owned" /\ l = "delete_read"
  \/ t.at = "cascade" /\ l = "unmail"
  \/ t.at = "unmail" /\ l = "unlist"
  \/ t.at = "unlist" /\ l = "wipe"
  \/ t.at = "token_free" /\ l = "write_token"
  \/ t.at = "index_hash" /\ l = "index_name"
  \/ t.at = "index_name" /\ l = "index_owner"
  \/ t.at = "set_name" /\ l = "name_token"
  \/ t.at = "name_token" /\ l = "drop_old"
  \/ t.at = "drop_hash" /\ l = "drop_name"
  \/ t.at = "drop_name" /\ l = "disown"
  \/ t.at = "disown" /\ l = "drop_token"
  \/ t.at = "drop_token" /\ t.op = "delete_user" /\ l = "cascade"
  \/ t.at = "rename" /\ l = "group_data"
  \/ t.at \in {"update_route", "route_data", "rename", "group_data", "new_route",
               "import_route"} /\ l = "rollback"

LEMMA Placed ==
  ASSUME NEW o, Fits(o), NEW l \in Label, NEW n, n = [o EXCEPT !.at = l]
  PROVE  /\ n \in Task /\ n.at = l
         /\ n.op = o.op /\ n.role = o.role /\ n.user = o.user /\ n.id = o.id
         /\ n.mail = o.mail /\ n.login = o.login /\ n.cred = o.cred
         /\ n.tok = o.tok /\ n.gate = o.gate /\ n.was = o.was
         /\ n.epoch = o.epoch /\ n.dead = o.dead /\ n.toks = o.toks
<1>1. o \in Task
  BY DEF Fits
<1> QED
  BY <1>1 DEF Task

LEMMA EdgeFits ==
  ASSUME NEW o, Fits(o), NEW l, Edge(o, l), NEW n, n = [o EXCEPT !.at = l]
  PROVE  Fits(n)
<1>1. l \in Label
  BY Labels DEF Edge
<1>2. /\ n \in Task /\ n.at = l
      /\ n.op = o.op /\ n.role = o.role /\ n.user = o.user /\ n.id = o.id
      /\ n.mail = o.mail /\ n.login = o.login /\ n.cred = o.cred
      /\ n.tok = o.tok /\ n.gate = o.gate
  BY <1>1, Placed
<1>3. OpFits(n)
  BY <1>2 DEF Fits, OpFits, Edge
<1>4. UserFits(n) /\ IdFits(n)
  BY <1>2 DEF Fits, UserFits, IdFits, Edge
<1>5. MailFits(n) /\ CredFits(n)
  BY <1>2 DEF Fits, MailFits, OpFits, CredFits, Credential, Edge
<1>6. TokenFits(n) /\ GateFits(n)
  BY <1>2 DEF Fits, TokenFits, GateFits, Edge
<1> QED
  BY <1>2, <1>3, <1>4, <1>5, <1>6 DEF Fits

LEMMA StepMoves ==
  ASSUME TasksFit, NEW p \in Thread, NEW l, Edge(job[p], l), Step(p, l),
         job[p].at = "owned" => OwnStep(p),
         job[p].at = "count" => AdminStep(p),
         job[p].at \in {"touch_write", "token_find", "index_hash", "index_name",
                        "drop_hash", "drop_name", "disown"} => CredStep(p),
         job[p].at \in {"claim", "enlist", "unmail", "unlist"} => MailStep(p),
         l = "group_data" => GateStep(p)
  PROVE  Moved(p)
<1> DEFINE o == job[p]
<1>1. PICK n : n = [o EXCEPT !.at = l]
  OBVIOUS
<1>2. Fits(o) /\ l \in Label
  BY Labels DEF TasksFit, Edge
<1>3. Fits(n) /\ job' = [job EXCEPT ![p] = n]
  BY <1>1, <1>2, EdgeFits DEF Step, Work
<1>4. /\ n.at = l /\ n.op = o.op /\ n.role = o.role /\ n.id = o.id /\ n.cred = o.cred
      /\ n.tok = o.tok /\ n.was = o.was /\ n.epoch = o.epoch /\ n.dead = o.dead
      /\ n.toks = o.toks
  BY <1>1, <1>2, Placed
<1> HIDE DEF o
<1>5. OwnDrift(o, n) \/ o.at = "owned"
  BY <1>2, <1>4 DEF OwnDrift, Deep, Edge, Fits, OpFits, o
<1>6. AdminDrift(o, n) \/ o.at = "count"
  BY <1>2, <1>4 DEF AdminDrift, Demoting, Edge, Fits, OpFits, o
<1>7. CredDrift(o, n) \/ o.at \in {"touch_write", "token_find", "index_hash", "index_name",
                                   "drop_hash", "drop_name", "disown"}
  BY <1>2, <1>4 DEF CredDrift, Stamps, Edge, Fits, OpFits, o
<1>8. MailDrift(o, n) \/ o.at \in {"claim", "enlist", "unmail", "unlist"}
  BY <1>2, <1>4 DEF MailDrift, Settling, Edge, o
<1>9. ~ Gated(n) \/ l = "group_data"
  BY <1>4 DEF Gated, Edge
<1> QED
  BY <1>3, <1>5, <1>6, <1>7, <1>8, <1>9 DEF Moved, Moves, o

LEMMA IdleMoves ==
  ASSUME NEW p \in Thread, job' = [job EXCEPT ![p] = Idle],
         job[p].at \in {"index_hash", "index_name", "index_owner"} => CredStep(p),
         Settling(job[p]) => MailStep(p)
  PROVE  Moved(p)
<1>1. /\ Idle.at = "idle" /\ Idle.cred = None /\ Idle.dead = FALSE /\ Idle.tok = 0
      /\ Idle.toks = {}
  BY DEF Idle
<1> HIDE DEF Idle
<1>2. OwnDrift(job[p], Idle) /\ AdminDrift(job[p], Idle) /\ ~ Gated(Idle)
  BY <1>1 DEF OwnDrift, AdminDrift, Deep, Demoting, Gated
<1>3. CredDrift(job[p], Idle) \/ CredStep(p)
  BY <1>1 DEF CredDrift, Stamps
<1>4. MailDrift(job[p], Idle) \/ MailStep(p)
  BY <1>1 DEF MailDrift, Settling
<1> QED
  BY <1>2, <1>3, <1>4, IdleFits DEF Moved, Moves

LEMMA EndMoves ==
  ASSUME NEW p \in Thread, End(p),
         job[p].at \in {"index_hash", "index_name", "index_owner"} => CredStep(p),
         Settling(job[p]) => MailStep(p)
  PROVE  Moved(p)
BY IdleMoves DEF End, Work


(* A look-up leads to a live group, or to none.                            *)
LEMMA LookupFits ==
  ASSUME NEW n
  PROVE  /\ Lookup(n) \in Gates
         /\ Lookup(n) # 0 => Lookup(n) \in Group /\ group[Lookup(n)].live
BY DEF Lookup, Gates

LEMMA GroupsCounted == Group \subseteq Nat /\ 0 \notin Group
<1>1. ASSUME NEW n, NEW i \in 1 .. n PROVE i \in Nat /\ i # 0
  OBVIOUS
<1> QED
  BY <1>1, AccessAssumption

(* The next group to be made                                               *)
LEMMA NextUnmade ==
  ASSUME Unmade # {}
  PROVE  Smallest(Unmade) \in Unmade /\ Smallest(Unmade) \in Group /\ Smallest(Unmade) \in Nat
<1>1. Unmade \in SUBSET Nat /\ Unmade \subseteq Group
  BY GroupsCounted DEF Unmade
<1> QED
  BY <1>1, MinExists

(* Steps that take a credential                                            *)
LEMMA AuthMoves ==
  ASSUME Typed, NEW p \in Thread,
         \/ Present(p) \/ TouchRead(p) \/ TouchWrite(p) \/ LoadUser(p) \/ TokenFind(p)
         \/ TokenRead(p) \/ TokenStamp(p) \/ Logout(p) \/ SignOutEverywhere(p)
  PROVE  Moved(p)
<1>0. TasksFit /\ Fits(job[p]) /\ job[p] \in Task
  BY DEF Typed, TasksFit, Fits
<1>1. CASE Present(p)
  <2>1. PICK cred \in issued : Begin(p, [Idle EXCEPT !.cred = cred, !.dead = cred \in withdrawn,
           !.at = IF cred[1] = "session" THEN "touch_read" ELSE "token_find"])
    BY <1>1 DEF Present
  <2>2. (cred \in withdrawn) \in BOOLEAN
    BY SMT
  <2>3. PICK d \in BOOLEAN : d = (cred \in withdrawn)
    BY <2>2, Zenon
  <2>4. job[p].at = "idle"
    BY <1>1 DEF Present, At, Ask, AskAdmin, Browser, Begin
  <2>5. CredStep(p)
    BY <1>1 DEF CredStep
  <2>6. \/ cred[1] = "session" /\
             Begin(p, [Idle EXCEPT !.at = "touch_read", !.cred = cred, !.dead = d])
        \/ cred[1] # "session" /\
             Begin(p, [Idle EXCEPT !.at = "token_find", !.cred = cred, !.dead = d])
    BY <2>1, <2>2, <2>3 DEF Present, At, Ask, AskAdmin, Refuse
  <2>7. CASE cred[1] = "session" /\
               Begin(p, [Idle EXCEPT !.at = "touch_read", !.cred = cred, !.dead = d])
    <3>1. PICK n : n = [Idle EXCEPT !.at = "touch_read", !.cred = cred, !.dead = d]
      OBVIOUS
    <3>2. cred \in Creds /\ cred \in {"session"} \X Cookie
      BY <2>7, <2>1 DEF Typed, CredentialsTyped, Creds, Credential
    <3>3. /\ n \in Task /\ n.at = "touch_read" /\ n.op = None /\ n.role = FALSE /\ n.user = 0
          /\ n.id = 0 /\ n.mail = None /\ n.login = None /\ n.cred = cred /\ n.tok = 0
          /\ n.gate = 0 /\ n.was = FALSE /\ n.epoch = 0 /\ n.dead = d /\ n.toks = {}
      BY <3>1, IdleFields, <3>2, Labels, Asks DEF Task
    <3>4. Fits(n)
      BY <1>0, <3>3, <2>4, <3>2 DEF Fits, OpFits, UserFits, IdFits, MailFits, CredFits,
        TokenFits, GateFits
    <3>5. /\ OwnDrift(job[p], n) /\ AdminDrift(job[p], n) /\ MailDrift(job[p], n)
          /\ ~ Gated(n)
      BY <1>0, <3>3, <2>4, <3>2 DEF OwnDrift, Deep, AdminDrift, Demoting, MailDrift, Settling,
        Gated, Fits, OpFits
    <3>6. job' = [job EXCEPT ![p] = n]
      BY <2>7, <3>1 DEF Begin
    <3> QED
      BY <3>4, <3>5, <3>6, <2>5 DEF Moved, Moves
  <2>8. CASE cred[1] # "session" /\
               Begin(p, [Idle EXCEPT !.at = "token_find", !.cred = cred, !.dead = d])
    <3>1. PICK n : n = [Idle EXCEPT !.at = "token_find", !.cred = cred, !.dead = d]
      OBVIOUS
    <3>2. cred \in Creds /\ cred \in {"token"} \X Token
      BY <2>8, <2>1 DEF Typed, CredentialsTyped, Creds, Credential
    <3>3. /\ n \in Task /\ n.at = "token_find" /\ n.op = None /\ n.role = FALSE /\ n.user = 0
          /\ n.id = 0 /\ n.mail = None /\ n.login = None /\ n.cred = cred /\ n.tok = 0
          /\ n.gate = 0 /\ n.was = FALSE /\ n.epoch = 0 /\ n.dead = d /\ n.toks = {}
      BY <3>1, IdleFields, <3>2, Labels, Asks DEF Task
    <3>4. Fits(n)
      BY <1>0, <3>3, <2>4, <3>2 DEF Fits, OpFits, UserFits, IdFits, MailFits, CredFits,
        TokenFits, GateFits
    <3>5. /\ OwnDrift(job[p], n) /\ AdminDrift(job[p], n) /\ MailDrift(job[p], n)
          /\ ~ Gated(n)
      BY <1>0, <3>3, <2>4, <3>2 DEF OwnDrift, Deep, AdminDrift, Demoting, MailDrift, Settling,
        Gated, Fits, OpFits
    <3>6. job' = [job EXCEPT ![p] = n]
      BY <2>8, <3>1 DEF Begin
    <3> QED
      BY <3>4, <3>5, <3>6, <2>5 DEF Moved, Moves
  <2> QED
    BY <2>6, <2>7, <2>8
<1>2. CASE TouchRead(p)
  <2>1. job[p].at = "touch_read"
    BY <1>2 DEF TouchRead, At, Ask, AskAdmin, Browser, Begin
  <2>2. CredStep(p)
    BY <1>2 DEF CredStep
  <2>3. \/ End(p)
        \/ session[job[p].cred[2]] # NoSession /\
             Work(p, [job[p] EXCEPT !.at = "touch_write",
                        !.id = session[job[p].cred[2]].user,
                        !.epoch = session[job[p].cred[2]].epoch])
    BY <1>2 DEF TouchRead, At, Ask, AskAdmin, Refuse
  <2>4. CASE End(p)
    BY <2>4, <2>1, <2>2, EndMoves DEF Settling
  <2>5. CASE session[job[p].cred[2]] # NoSession /\
               Work(p, [job[p] EXCEPT !.at = "touch_write",
                          !.id = session[job[p].cred[2]].user,
                          !.epoch = session[job[p].cred[2]].epoch])
    <3>1. PICK n : n = [job[p] EXCEPT !.at = "touch_write",
                   !.id = session[job[p].cred[2]].user,
                   !.epoch = session[job[p].cred[2]].epoch]
      OBVIOUS
    <3>2. job[p].cred[2] \in Cookie
      BY <1>0, <2>1 DEF Fits, CredFits
    <3>3. session[job[p].cred[2]].user \in User /\ session[job[p].cred[2]].epoch \in Nat
      BY <2>5, <3>2 DEF Typed, CredentialsTyped, SessionRecord
    <3>4. session[job[p].cred[2]].user \in Nat
      BY <3>2, <3>3 DEF User
    <3>5. /\ n \in Task /\ n.at = "touch_write" /\ n.op = job[p].op /\ n.role = job[p].role
          /\ n.user = job[p].user /\ n.id = session[job[p].cred[2]].user
          /\ n.mail = job[p].mail /\ n.login = job[p].login /\ n.cred = job[p].cred
          /\ n.tok = job[p].tok /\ n.gate = job[p].gate /\ n.was = job[p].was
          /\ n.epoch = session[job[p].cred[2]].epoch /\ n.dead = job[p].dead
          /\ n.toks = job[p].toks
      BY <1>0, <3>1, <3>2, <3>3, <3>4, Labels, Asks DEF Task
    <3>6. Fits(n)
      BY <1>0, <3>5, <2>1, <3>2, <3>3, <3>4 DEF Fits, OpFits, UserFits, IdFits, MailFits,
        CredFits, TokenFits, GateFits
    <3>7. /\ OwnDrift(job[p], n) /\ AdminDrift(job[p], n) /\ MailDrift(job[p], n)
          /\ ~ Gated(n)
      BY <1>0, <3>5, <2>1, <3>2, <3>3, <3>4 DEF OwnDrift, Deep, AdminDrift, Demoting, MailDrift,
        Settling, Gated, Fits, OpFits
    <3>8. job' = [job EXCEPT ![p] = n]
      BY <2>5, <3>1 DEF Work
    <3> QED
      BY <3>6, <3>7, <3>8, <2>2 DEF Moved, Moves
  <2> QED
    BY <2>3, <2>4, <2>5
<1>3. CASE TouchWrite(p)
  <2>1. job[p].at = "touch_write"
    BY <1>3 DEF TouchWrite, At, Ask, AskAdmin, Browser, Begin
  <2>2. CredStep(p)
    BY <1>3 DEF CredStep
  <2>3. Step(p, "load_user")
    BY <1>3 DEF TouchWrite, At, Ask, AskAdmin, Refuse
  <2> QED
    BY <1>0, <2>3, <2>1, <2>2, StepMoves DEF Edge
<1>4. CASE LoadUser(p)
  <2>1. job[p].at = "load_user"
    BY <1>4 DEF LoadUser, At, Ask, AskAdmin, Browser, Begin
  <2>2. CredStep(p)
    BY <1>4 DEF CredStep
  <2>3. \/ End(p)
        \/ job[p].cred[1] = "token" /\
             Work(p, [Idle EXCEPT !.at = "stamp", !.cred = job[p].cred,
                        !.dead = job[p].dead, !.user = job[p].id,
                        !.admin = user[job[p].id].admin])
        \/ job[p].cred[1] # "token" /\
             Work(p, [Idle EXCEPT !.at = "ready", !.cred = job[p].cred,
                        !.dead = job[p].dead, !.user = job[p].id,
                        !.admin = user[job[p].id].admin])
    BY <1>4 DEF LoadUser, At, Ask, AskAdmin, Refuse
  <2>4. CASE End(p)
    BY <2>4, <2>1, <2>2, EndMoves DEF Settling
  <2>5. CASE job[p].cred[1] = "token" /\
               Work(p, [Idle EXCEPT !.at = "stamp", !.cred = job[p].cred,
                          !.dead = job[p].dead, !.user = job[p].id,
                          !.admin = user[job[p].id].admin])
    <3>1. PICK n : n = [Idle EXCEPT !.at = "stamp", !.cred = job[p].cred,
                   !.dead = job[p].dead, !.user = job[p].id,
                   !.admin = user[job[p].id].admin]
      OBVIOUS
    <3>2. job[p].id \in User /\ job[p].cred \in Credential
      BY <1>0, <2>1 DEF Fits, IdFits, CredFits
    <3>3. job[p].id \in Id /\ user[job[p].id].admin \in BOOLEAN
      BY <3>2 DEF Typed, AccountsTyped, Account, User, Id
    <3>4. job[p].cred \in Creds /\ job[p].dead \in BOOLEAN
      BY <1>0 DEF Task
    <3>5. job[p].cred[1] = "token" => job[p].cred \in {"token"} \X Token
      BY <3>2, <3>3, <3>4 DEF Credential
    <3>6. /\ n \in Task /\ n.at = "stamp" /\ n.op = None /\ n.role = FALSE
          /\ n.user = job[p].id /\ n.id = 0 /\ n.mail = None /\ n.login = None
          /\ n.cred = job[p].cred /\ n.tok = 0 /\ n.gate = 0 /\ n.was = FALSE /\ n.epoch = 0
          /\ n.dead = job[p].dead /\ n.toks = {} /\ n.admin = user[job[p].id].admin
      BY <3>1, IdleFields, <3>2, <3>3, <3>4, <3>5, Labels, Asks DEF Task
    <3>7. Fits(n)
      BY <1>0, <3>6, <2>1, <2>5, <3>2, <3>3, <3>4, <3>5 DEF Fits, OpFits, UserFits, IdFits,
        MailFits, CredFits, TokenFits, GateFits
    <3>8. /\ OwnDrift(job[p], n) /\ AdminDrift(job[p], n) /\ MailDrift(job[p], n)
          /\ ~ Gated(n)
      BY <1>0, <3>6, <2>1, <2>5, <3>2, <3>3, <3>4, <3>5 DEF OwnDrift, Deep, AdminDrift,
        Demoting, MailDrift, Settling, Gated, Fits, OpFits
    <3>9. job' = [job EXCEPT ![p] = n]
      BY <2>5, <3>1 DEF Work
    <3> QED
      BY <3>7, <3>8, <3>9, <2>2 DEF Moved, Moves
  <2>6. CASE job[p].cred[1] # "token" /\
               Work(p, [Idle EXCEPT !.at = "ready", !.cred = job[p].cred,
                          !.dead = job[p].dead, !.user = job[p].id,
                          !.admin = user[job[p].id].admin])
    <3>1. PICK n : n = [Idle EXCEPT !.at = "ready", !.cred = job[p].cred,
                   !.dead = job[p].dead, !.user = job[p].id,
                   !.admin = user[job[p].id].admin]
      OBVIOUS
    <3>2. job[p].id \in User /\ job[p].cred \in Credential
      BY <1>0, <2>1 DEF Fits, IdFits, CredFits
    <3>3. job[p].id \in Id /\ user[job[p].id].admin \in BOOLEAN
      BY <3>2 DEF Typed, AccountsTyped, Account, User, Id
    <3>4. job[p].cred \in Creds /\ job[p].dead \in BOOLEAN
      BY <1>0 DEF Task
    <3>5. job[p].cred[1] = "token" => job[p].cred \in {"token"} \X Token
      BY <3>2, <3>3, <3>4 DEF Credential
    <3>6. /\ n \in Task /\ n.at = "ready" /\ n.op = None /\ n.role = FALSE
          /\ n.user = job[p].id /\ n.id = 0 /\ n.mail = None /\ n.login = None
          /\ n.cred = job[p].cred /\ n.tok = 0 /\ n.gate = 0 /\ n.was = FALSE /\ n.epoch = 0
          /\ n.dead = job[p].dead /\ n.toks = {} /\ n.admin = user[job[p].id].admin
      BY <3>1, IdleFields, <3>2, <3>3, <3>4, <3>5, Labels, Asks DEF Task
    <3>7. Fits(n)
      BY <1>0, <3>6, <2>1, <3>2, <3>3, <3>4, <3>5 DEF Fits, OpFits, UserFits, IdFits, MailFits,
        CredFits, TokenFits, GateFits
    <3>8. /\ OwnDrift(job[p], n) /\ AdminDrift(job[p], n) /\ MailDrift(job[p], n)
          /\ ~ Gated(n)
      BY <1>0, <3>6, <2>1, <3>2, <3>3, <3>4, <3>5 DEF OwnDrift, Deep, AdminDrift, Demoting,
        MailDrift, Settling, Gated, Fits, OpFits
    <3>9. job' = [job EXCEPT ![p] = n]
      BY <2>6, <3>1 DEF Work
    <3> QED
      BY <3>7, <3>8, <3>9, <2>2 DEF Moved, Moves
  <2> QED
    BY <2>3, <2>4, <2>5, <2>6
<1>5. CASE TokenFind(p)
  <2>1. job[p].at = "token_find"
    BY <1>5 DEF TokenFind, At, Ask, AskAdmin, Browser, Begin
  <2>2. CredStep(p)
    BY <1>5 DEF CredStep
  <2>3. \/ End(p)
        \/ Step(p, "token_read")
    BY <1>5 DEF TokenFind, At, Ask, AskAdmin, Refuse
  <2>4. CASE End(p)
    BY <2>4, <2>1, <2>2, EndMoves DEF Settling
  <2>5. CASE Step(p, "token_read")
    BY <1>0, <2>5, <2>1, <2>2, StepMoves DEF Edge
  <2> QED
    BY <2>3, <2>4, <2>5
<1>6. CASE TokenRead(p)
  <2>1. job[p].at = "token_read"
    BY <1>6 DEF TokenRead, At, Ask, AskAdmin, Browser, Begin
  <2>2. CredStep(p)
    BY <1>6 DEF CredStep
  <2>3. \/ End(p)
        \/ token[job[p].cred[2]].shape = "whole" /\
             Work(p, [job[p] EXCEPT !.at = "load_user", !.id = token[job[p].cred[2]].owner])
    BY <1>6 DEF TokenRead, At, Ask, AskAdmin, Refuse
  <2>4. CASE End(p)
    BY <2>4, <2>1, <2>2, EndMoves DEF Settling
  <2>5. CASE token[job[p].cred[2]].shape = "whole" /\
               Work(p, [job[p] EXCEPT !.at = "load_user", !.id = token[job[p].cred[2]].owner])
    <3>1. PICK n : n = [job[p] EXCEPT !.at = "load_user", !.id = token[job[p].cred[2]].owner]
      OBVIOUS
    <3>2. job[p].cred[2] \in Token /\ job[p].cred \in Credential
      BY <1>0, <2>1 DEF Fits, CredFits, Credential
    <3>3. token[job[p].cred[2]].owner \in User
      BY <2>5, <3>2 DEF Typed, CredentialsTyped
    <3>4. token[job[p].cred[2]].owner \in Nat
      BY <3>2, <3>3 DEF User
    <3>5. /\ n \in Task /\ n.at = "load_user" /\ n.op = job[p].op /\ n.role = job[p].role
          /\ n.user = job[p].user /\ n.id = token[job[p].cred[2]].owner
          /\ n.mail = job[p].mail /\ n.login = job[p].login /\ n.cred = job[p].cred
          /\ n.tok = job[p].tok /\ n.gate = job[p].gate /\ n.was = job[p].was
          /\ n.epoch = job[p].epoch /\ n.dead = job[p].dead /\ n.toks = job[p].toks
      BY <1>0, <3>1, <3>2, <3>3, <3>4, Labels, Asks DEF Task
    <3>6. Fits(n)
      BY <1>0, <3>5, <2>1, <3>2, <3>3, <3>4 DEF Fits, OpFits, UserFits, IdFits, MailFits,
        CredFits, TokenFits, GateFits
    <3>7. /\ OwnDrift(job[p], n) /\ AdminDrift(job[p], n) /\ MailDrift(job[p], n)
          /\ ~ Gated(n)
      BY <1>0, <3>5, <2>1, <3>2, <3>3, <3>4 DEF OwnDrift, Deep, AdminDrift, Demoting, MailDrift,
        Settling, Gated, Fits, OpFits
    <3>8. job' = [job EXCEPT ![p] = n]
      BY <2>5, <3>1 DEF Work
    <3> QED
      BY <3>6, <3>7, <3>8, <2>2 DEF Moved, Moves
  <2> QED
    BY <2>3, <2>4, <2>5
<1>7. CASE TokenStamp(p)
  <2>1. job[p].at = "stamp"
    BY <1>7 DEF TokenStamp, At, Ask, AskAdmin, Browser, Begin
  <2>2. Step(p, "ready")
    BY <1>7 DEF TokenStamp, At, Ask, AskAdmin, Refuse
  <2> QED
    BY <1>0, <2>2, <2>1, StepMoves DEF Edge
<1>8. CASE Logout(p)
  <2>1. job[p].at = "idle"
    BY <1>8 DEF Logout, At, Ask, AskAdmin, Browser, Begin
  <2>2. Begin(p, Idle)
    BY <1>8 DEF Logout, At, Ask, AskAdmin, Refuse
  <2> QED
    BY <2>2, <2>1, IdleMoves DEF Begin, Settling
<1>9. CASE SignOutEverywhere(p)
  <2>1. job[p].at = "ready"
    BY <1>9 DEF SignOutEverywhere, At, Ask, AskAdmin, Browser, Begin
  <2>2. \/ End(p)
        \/ Step(p, "bump")
    BY <1>9 DEF SignOutEverywhere, At, Ask, AskAdmin, Refuse
  <2>3. CASE End(p)
    BY <2>3, <2>1, EndMoves DEF Settling
  <2>4. CASE Step(p, "bump")
    BY <1>0, <2>4, <2>1, StepMoves DEF Edge
  <2> QED
    BY <2>2, <2>3, <2>4
<1> QED
  BY <1>1, <1>2, <1>3, <1>4, <1>5, <1>6, <1>7, <1>8, <1>9

(* Steps that look an account up, create it and sign in                    *)
LEMMA SignInMoves ==
  ASSUME Typed, NEW p \in Thread,
         \/ PasswordLogin(p) \/ Callback(p) \/ Identity(p) \/ Known(p) \/ FindIndex(p)
         \/ FindUser(p) \/ Scan(p) \/ Heal(p) \/ WriteUser(p) \/ Claim(p) \/ Enlist(p)
         \/ Sync(p) \/ Reindex(p) \/ Link(p) \/ Mint(p)
  PROVE  Moved(p)
<1>0. TasksFit /\ Fits(job[p]) /\ job[p] \in Task
  BY DEF Typed, TasksFit, Fits
<1>1. CASE PasswordLogin(p)
  <2>1. PICK l \in Local : Begin(p, [Idle EXCEPT !.at = "find", !.op = "sign_in", !.login = l,
           !.mail = MailOf[l], !.role = l \in AdminLogin])
    BY <1>1 DEF PasswordLogin
  <2>2. (l \in AdminLogin) \in BOOLEAN
    BY SMT
  <2>3. PICK r \in BOOLEAN : r = (l \in AdminLogin)
    BY <2>2, Zenon
  <2>4. job[p].at = "idle"
    BY <1>1 DEF PasswordLogin, At, Ask, AskAdmin, Browser, Begin
  <2>5. Begin(p, [Idle EXCEPT !.at = "find", !.op = "sign_in", !.login = l,
                  !.mail = MailOf[l], !.role = r])
    BY <2>1, <2>2, <2>3 DEF PasswordLogin, At, Ask, AskAdmin, Refuse
  <2>6. PICK n : n = [Idle EXCEPT !.at = "find", !.op = "sign_in", !.login = l,
                 !.mail = MailOf[l], !.role = r]
    OBVIOUS
  <2>7. l \in Login /\ MailOf[l] \in Email
    BY <2>1, AccountsAssumption
  <2>8. l \in Logins /\ MailOf[l] \in Mails
    BY <2>7 DEF Logins, Mails
  <2>9. /\ n \in Task /\ n.at = "find" /\ n.op = "sign_in" /\ n.role = r /\ n.user = 0
        /\ n.id = 0 /\ n.mail = MailOf[l] /\ n.login = l /\ n.cred = None /\ n.tok = 0
        /\ n.gate = 0 /\ n.was = FALSE /\ n.epoch = 0 /\ n.dead = FALSE /\ n.toks = {}
    BY <2>6, IdleFields, <2>7, <2>8, Labels, Asks DEF Task
  <2>10. Fits(n)
    BY <1>0, <2>9, <2>4, <2>7, <2>8 DEF Fits, OpFits, UserFits, IdFits, MailFits, CredFits,
      TokenFits, GateFits
  <2>11. /\ OwnDrift(job[p], n) /\ AdminDrift(job[p], n) /\ CredDrift(job[p], n)
         /\ MailDrift(job[p], n) /\ ~ Gated(n)
    BY <1>0, <2>9, <2>4, <2>7, <2>8 DEF OwnDrift, Deep, AdminDrift, Demoting, CredDrift, Stamps,
      MailDrift, Settling, Gated, Fits, OpFits
  <2>12. job' = [job EXCEPT ![p] = n]
    BY <2>5, <2>6 DEF Begin
  <2> QED
    BY <2>10, <2>11, <2>12 DEF Moved, Moves
<1>2. CASE Callback(p)
  <2>1. PICK l \in Login \ Local :
           Begin(p, [Idle EXCEPT !.at = "identity", !.op = "sign_in", !.login = l,
           !.mail = MailOf[l], !.role = l \in AdminLogin])
    BY <1>2 DEF Callback
  <2>2. (l \in AdminLogin) \in BOOLEAN
    BY SMT
  <2>3. PICK r \in BOOLEAN : r = (l \in AdminLogin)
    BY <2>2, Zenon
  <2>4. job[p].at = "idle"
    BY <1>2 DEF Callback, At, Ask, AskAdmin, Browser, Begin
  <2>5. Begin(p, [Idle EXCEPT !.at = "identity", !.op = "sign_in", !.login = l,
                  !.mail = MailOf[l], !.role = r])
    BY <2>1, <2>2, <2>3 DEF Callback, At, Ask, AskAdmin, Refuse
  <2>6. PICK n : n = [Idle EXCEPT !.at = "identity", !.op = "sign_in", !.login = l,
                 !.mail = MailOf[l], !.role = r]
    OBVIOUS
  <2>7. l \in Login /\ MailOf[l] \in Email
    BY <2>1, AccountsAssumption
  <2>8. l \in Logins /\ MailOf[l] \in Mails
    BY <2>7 DEF Logins, Mails
  <2>9. /\ n \in Task /\ n.at = "identity" /\ n.op = "sign_in" /\ n.role = r /\ n.user = 0
        /\ n.id = 0 /\ n.mail = MailOf[l] /\ n.login = l /\ n.cred = None /\ n.tok = 0
        /\ n.gate = 0 /\ n.was = FALSE /\ n.epoch = 0 /\ n.dead = FALSE /\ n.toks = {}
    BY <2>6, IdleFields, <2>7, <2>8, Labels, Asks DEF Task
  <2>10. Fits(n)
    BY <1>0, <2>9, <2>4, <2>7, <2>8 DEF Fits, OpFits, UserFits, IdFits, MailFits, CredFits,
      TokenFits, GateFits
  <2>11. /\ OwnDrift(job[p], n) /\ AdminDrift(job[p], n) /\ CredDrift(job[p], n)
         /\ MailDrift(job[p], n) /\ ~ Gated(n)
    BY <1>0, <2>9, <2>4, <2>7, <2>8 DEF OwnDrift, Deep, AdminDrift, Demoting, CredDrift, Stamps,
      MailDrift, Settling, Gated, Fits, OpFits
  <2>12. job' = [job EXCEPT ![p] = n]
    BY <2>5, <2>6 DEF Begin
  <2> QED
    BY <2>10, <2>11, <2>12 DEF Moved, Moves
<1>3. CASE Identity(p)
  <2>1. job[p].at = "identity"
    BY <1>3 DEF Identity, At, Ask, AskAdmin, Browser, Begin
  <2>2. \/ Step(p, "find")
        \/ byIdentity[job[p].login] # 0 /\
             Work(p, [job[p] EXCEPT !.at = "known", !.id = byIdentity[job[p].login]])
    BY <1>3 DEF Identity, At, Ask, AskAdmin, Refuse
  <2>3. CASE Step(p, "find")
    BY <1>0, <2>3, <2>1, StepMoves DEF Edge
  <2>4. CASE byIdentity[job[p].login] # 0 /\
               Work(p, [job[p] EXCEPT !.at = "known", !.id = byIdentity[job[p].login]])
    <3>1. PICK n : n = [job[p] EXCEPT !.at = "known", !.id = byIdentity[job[p].login]]
      OBVIOUS
    <3>2. job[p].login \in Login
      BY <1>0, <2>1 DEF Fits, MailFits
    <3>3. byIdentity[job[p].login] \in Id
      BY <3>2 DEF Typed, AccountsTyped
    <3>4. byIdentity[job[p].login] \in User /\ byIdentity[job[p].login] \in Nat
      BY <2>4, <3>2, <3>3 DEF Id, User
    <3>5. /\ n \in Task /\ n.at = "known" /\ n.op = job[p].op /\ n.role = job[p].role
          /\ n.user = job[p].user /\ n.id = byIdentity[job[p].login] /\ n.mail = job[p].mail
          /\ n.login = job[p].login /\ n.cred = job[p].cred /\ n.tok = job[p].tok
          /\ n.gate = job[p].gate /\ n.was = job[p].was /\ n.epoch = job[p].epoch
          /\ n.dead = job[p].dead /\ n.toks = job[p].toks
      BY <1>0, <3>1, <3>2, <3>3, <3>4, Labels, Asks DEF Task
    <3>6. Fits(n)
      BY <1>0, <3>5, <2>1, <3>2, <3>3, <3>4 DEF Fits, OpFits, UserFits, IdFits, MailFits,
        CredFits, TokenFits, GateFits
    <3>7. /\ OwnDrift(job[p], n) /\ AdminDrift(job[p], n) /\ CredDrift(job[p], n)
          /\ MailDrift(job[p], n) /\ ~ Gated(n)
      BY <1>0, <3>5, <2>1, <3>2, <3>3, <3>4 DEF OwnDrift, Deep, AdminDrift, Demoting, CredDrift,
        Stamps, MailDrift, Settling, Gated, Fits, OpFits
    <3>8. job' = [job EXCEPT ![p] = n]
      BY <2>4, <3>1 DEF Work
    <3> QED
      BY <3>6, <3>7, <3>8 DEF Moved, Moves
  <2> QED
    BY <2>2, <2>3, <2>4
<1>4. CASE Known(p)
  <2>1. job[p].at = "known"
    BY <1>4 DEF Known, At, Ask, AskAdmin, Browser, Begin
  <2>2. CredStep(p)
    BY <1>4 DEF CredStep
  <2>3. \/ End(p)
        \/ Whole(job[p].id) /\ Work(p, [job[p] EXCEPT !.at = "sync", !.op = "return",
                     !.was = user[job[p].id].admin, !.epoch = user[job[p].id].epoch,
                     !.mail = user[job[p].id].mail])
    BY <1>4 DEF Known, At, Ask, AskAdmin, Refuse
  <2>4. CASE End(p)
    BY <2>4, <2>1, <2>2, EndMoves DEF Settling
  <2>5. CASE Whole(job[p].id) /\ Work(p, [job[p] EXCEPT !.at = "sync", !.op = "return",
                       !.was = user[job[p].id].admin, !.epoch = user[job[p].id].epoch,
                       !.mail = user[job[p].id].mail])
    <3>1. PICK n : n = [job[p] EXCEPT !.at = "sync", !.op = "return",
                   !.was = user[job[p].id].admin, !.epoch = user[job[p].id].epoch,
                   !.mail = user[job[p].id].mail]
      OBVIOUS
    <3>2. job[p].id \in User
      BY <1>0, <2>1 DEF Fits, IdFits
    <3>3. /\ user[job[p].id].admin \in BOOLEAN /\ user[job[p].id].epoch \in Nat
          /\ user[job[p].id].mail \in Mails
      BY <3>2 DEF Typed, AccountsTyped, Account, Mails
    <3>4. /\ n \in Task /\ n.at = "sync" /\ n.op = "return" /\ n.role = job[p].role
          /\ n.user = job[p].user /\ n.id = job[p].id /\ n.mail = user[job[p].id].mail
          /\ n.login = job[p].login /\ n.cred = job[p].cred /\ n.tok = job[p].tok
          /\ n.gate = job[p].gate /\ n.was = user[job[p].id].admin
          /\ n.epoch = user[job[p].id].epoch /\ n.dead = job[p].dead /\ n.toks = job[p].toks
      BY <1>0, <3>1, <3>2, <3>3, Labels, Asks DEF Task
    <3>5. Fits(n)
      BY <1>0, <3>4, <2>1, <3>2, <3>3 DEF Fits, OpFits, UserFits, IdFits, MailFits, CredFits,
        TokenFits, GateFits
    <3>6. /\ OwnDrift(job[p], n) /\ AdminDrift(job[p], n) /\ MailDrift(job[p], n)
          /\ ~ Gated(n)
      BY <1>0, <3>4, <2>1, <3>2, <3>3 DEF OwnDrift, Deep, AdminDrift, Demoting, MailDrift,
        Settling, Gated, Fits, OpFits
    <3>7. job' = [job EXCEPT ![p] = n]
      BY <2>5, <3>1 DEF Work
    <3> QED
      BY <3>5, <3>6, <3>7, <2>2 DEF Moved, Moves
  <2> QED
    BY <2>3, <2>4, <2>5
<1>5. CASE FindIndex(p)
  <2>1. job[p].at = "find"
    BY <1>5 DEF FindIndex, At, Ask, AskAdmin, Browser, Begin
  <2>2. \/ Step(p, "scan")
        \/ byEmail[job[p].mail] # 0 /\
             Work(p, [job[p] EXCEPT !.at = "find_user", !.id = byEmail[job[p].mail]])
    BY <1>5 DEF FindIndex, At, Ask, AskAdmin, Refuse
  <2>3. CASE Step(p, "scan")
    BY <1>0, <2>3, <2>1, StepMoves DEF Edge
  <2>4. CASE byEmail[job[p].mail] # 0 /\
               Work(p, [job[p] EXCEPT !.at = "find_user", !.id = byEmail[job[p].mail]])
    <3>1. PICK n : n = [job[p] EXCEPT !.at = "find_user", !.id = byEmail[job[p].mail]]
      OBVIOUS
    <3>2. job[p].mail \in Email
      BY <1>0, <2>1 DEF Fits, MailFits
    <3>3. byEmail[job[p].mail] \in Id
      BY <3>2 DEF Typed, AccountsTyped
    <3>4. byEmail[job[p].mail] \in User /\ byEmail[job[p].mail] \in Nat
      BY <2>4, <3>2, <3>3 DEF Id, User
    <3>5. /\ n \in Task /\ n.at = "find_user" /\ n.op = job[p].op /\ n.role = job[p].role
          /\ n.user = job[p].user /\ n.id = byEmail[job[p].mail] /\ n.mail = job[p].mail
          /\ n.login = job[p].login /\ n.cred = job[p].cred /\ n.tok = job[p].tok
          /\ n.gate = job[p].gate /\ n.was = job[p].was /\ n.epoch = job[p].epoch
          /\ n.dead = job[p].dead /\ n.toks = job[p].toks
      BY <1>0, <3>1, <3>2, <3>3, <3>4, Labels, Asks DEF Task
    <3>6. Fits(n)
      BY <1>0, <3>5, <2>1, <3>2, <3>3, <3>4 DEF Fits, OpFits, UserFits, IdFits, MailFits,
        CredFits, TokenFits, GateFits
    <3>7. /\ OwnDrift(job[p], n) /\ AdminDrift(job[p], n) /\ CredDrift(job[p], n)
          /\ MailDrift(job[p], n) /\ ~ Gated(n)
      BY <1>0, <3>5, <2>1, <3>2, <3>3, <3>4 DEF OwnDrift, Deep, AdminDrift, Demoting, CredDrift,
        Stamps, MailDrift, Settling, Gated, Fits, OpFits
    <3>8. job' = [job EXCEPT ![p] = n]
      BY <2>4, <3>1 DEF Work
    <3> QED
      BY <3>6, <3>7, <3>8 DEF Moved, Moves
  <2> QED
    BY <2>2, <2>3, <2>4
<1>6. CASE FindUser(p)
  <2>1. job[p].at = "find_user"
    BY <1>6 DEF FindUser, At, Ask, AskAdmin, Browser, Begin
  <2>2. AdminStep(p) /\ CredStep(p)
    BY <1>6 DEF AdminStep, CredStep
  <2>3. \/ End(p)
        \/ job[p].op = "sign_in" /\ Work(p, [job[p] EXCEPT !.at = "sync", !.id = job[p].id,
                     !.was = user[job[p].id].admin, !.epoch = user[job[p].id].epoch])
        \/ job[p].op = "sign_in" /\ Work(p, [job[p] EXCEPT !.at = "link", !.id = job[p].id,
                     !.was = user[job[p].id].admin, !.epoch = user[job[p].id].epoch])
        \/ job[p].op = "patch_user" /\
             Work(p, [job[p] EXCEPT !.at = "may_patch", !.id = job[p].id,
                        !.was = user[job[p].id].admin, !.epoch = user[job[p].id].epoch])
        \/ job[p].op = "delete_user" /\
             Work(p, [job[p] EXCEPT !.at = "may_delete", !.id = job[p].id,
                        !.was = user[job[p].id].admin, !.epoch = user[job[p].id].epoch])
    BY <1>6 DEF FindUser, At, Ask, AskAdmin, Refuse, Found, OnFound
  <2>4. CASE End(p)
    BY <2>4, <2>1, <2>2, EndMoves DEF Settling
  <2>5. CASE job[p].op = "sign_in" /\ Work(p, [job[p] EXCEPT !.at = "sync", !.id = job[p].id,
                       !.was = user[job[p].id].admin, !.epoch = user[job[p].id].epoch])
    <3>1. PICK n : n = [job[p] EXCEPT !.at = "sync", !.id = job[p].id,
                   !.was = user[job[p].id].admin, !.epoch = user[job[p].id].epoch]
      OBVIOUS
    <3>2. job[p].id \in User /\ job[p].id \in Nat
      BY <1>0, <2>1 DEF Fits, IdFits, User
    <3>3. user[job[p].id].admin \in BOOLEAN /\ user[job[p].id].epoch \in Nat
      BY <3>2 DEF Typed, AccountsTyped, Account
    <3>4. /\ n \in Task /\ n.at = "sync" /\ n.op = job[p].op /\ n.role = job[p].role
          /\ n.user = job[p].user /\ n.id = job[p].id /\ n.mail = job[p].mail
          /\ n.login = job[p].login /\ n.cred = job[p].cred /\ n.tok = job[p].tok
          /\ n.gate = job[p].gate /\ n.was = user[job[p].id].admin
          /\ n.epoch = user[job[p].id].epoch /\ n.dead = job[p].dead /\ n.toks = job[p].toks
      BY <1>0, <3>1, <3>2, <3>3, Labels, Asks DEF Task
    <3>5. Fits(n)
      BY <1>0, <3>4, <2>1, <2>5, <3>2, <3>3 DEF Fits, OpFits, UserFits, IdFits, MailFits,
        CredFits, TokenFits, GateFits
    <3>6. /\ OwnDrift(job[p], n) /\ MailDrift(job[p], n) /\ ~ Gated(n)
      BY <1>0, <3>4, <2>1, <2>5, <3>2, <3>3 DEF OwnDrift, Deep, MailDrift, Settling, Gated,
        Fits, OpFits
    <3>7. job' = [job EXCEPT ![p] = n]
      BY <2>5, <3>1 DEF Work
    <3> QED
      BY <3>5, <3>6, <3>7, <2>2 DEF Moved, Moves
  <2>6. CASE job[p].op = "sign_in" /\ Work(p, [job[p] EXCEPT !.at = "link", !.id = job[p].id,
                       !.was = user[job[p].id].admin, !.epoch = user[job[p].id].epoch])
    <3>1. PICK n : n = [job[p] EXCEPT !.at = "link", !.id = job[p].id,
                   !.was = user[job[p].id].admin, !.epoch = user[job[p].id].epoch]
      OBVIOUS
    <3>2. job[p].id \in User /\ job[p].id \in Nat
      BY <1>0, <2>1 DEF Fits, IdFits, User
    <3>3. user[job[p].id].admin \in BOOLEAN /\ user[job[p].id].epoch \in Nat
      BY <3>2 DEF Typed, AccountsTyped, Account
    <3>4. /\ n \in Task /\ n.at = "link" /\ n.op = job[p].op /\ n.role = job[p].role
          /\ n.user = job[p].user /\ n.id = job[p].id /\ n.mail = job[p].mail
          /\ n.login = job[p].login /\ n.cred = job[p].cred /\ n.tok = job[p].tok
          /\ n.gate = job[p].gate /\ n.was = user[job[p].id].admin
          /\ n.epoch = user[job[p].id].epoch /\ n.dead = job[p].dead /\ n.toks = job[p].toks
      BY <1>0, <3>1, <3>2, <3>3, Labels, Asks DEF Task
    <3>5. Fits(n)
      BY <1>0, <3>4, <2>1, <2>6, <3>2, <3>3 DEF Fits, OpFits, UserFits, IdFits, MailFits,
        CredFits, TokenFits, GateFits
    <3>6. /\ OwnDrift(job[p], n) /\ MailDrift(job[p], n) /\ ~ Gated(n)
      BY <1>0, <3>4, <2>1, <2>6, <3>2, <3>3 DEF OwnDrift, Deep, MailDrift, Settling, Gated,
        Fits, OpFits
    <3>7. job' = [job EXCEPT ![p] = n]
      BY <2>6, <3>1 DEF Work
    <3> QED
      BY <3>5, <3>6, <3>7, <2>2 DEF Moved, Moves
  <2>7. CASE job[p].op = "patch_user" /\
               Work(p, [job[p] EXCEPT !.at = "may_patch", !.id = job[p].id,
                          !.was = user[job[p].id].admin, !.epoch = user[job[p].id].epoch])
    <3>1. PICK n : n = [job[p] EXCEPT !.at = "may_patch", !.id = job[p].id,
                   !.was = user[job[p].id].admin, !.epoch = user[job[p].id].epoch]
      OBVIOUS
    <3>2. job[p].id \in User /\ job[p].id \in Nat
      BY <1>0, <2>1 DEF Fits, IdFits, User
    <3>3. user[job[p].id].admin \in BOOLEAN /\ user[job[p].id].epoch \in Nat
      BY <3>2 DEF Typed, AccountsTyped, Account
    <3>4. /\ n \in Task /\ n.at = "may_patch" /\ n.op = job[p].op /\ n.role = job[p].role
          /\ n.user = job[p].user /\ n.id = job[p].id /\ n.mail = job[p].mail
          /\ n.login = job[p].login /\ n.cred = job[p].cred /\ n.tok = job[p].tok
          /\ n.gate = job[p].gate /\ n.was = user[job[p].id].admin
          /\ n.epoch = user[job[p].id].epoch /\ n.dead = job[p].dead /\ n.toks = job[p].toks
      BY <1>0, <3>1, <3>2, <3>3, Labels, Asks DEF Task
    <3>5. Fits(n)
      BY <1>0, <3>4, <2>1, <2>7, <3>2, <3>3 DEF Fits, OpFits, UserFits, IdFits, MailFits,
        CredFits, TokenFits, GateFits
    <3>6. /\ OwnDrift(job[p], n) /\ MailDrift(job[p], n) /\ ~ Gated(n)
      BY <1>0, <3>4, <2>1, <2>7, <3>2, <3>3 DEF OwnDrift, Deep, MailDrift, Settling, Gated,
        Fits, OpFits
    <3>7. job' = [job EXCEPT ![p] = n]
      BY <2>7, <3>1 DEF Work
    <3> QED
      BY <3>5, <3>6, <3>7, <2>2 DEF Moved, Moves
  <2>8. CASE job[p].op = "delete_user" /\
               Work(p, [job[p] EXCEPT !.at = "may_delete", !.id = job[p].id,
                          !.was = user[job[p].id].admin, !.epoch = user[job[p].id].epoch])
    <3>1. PICK n : n = [job[p] EXCEPT !.at = "may_delete", !.id = job[p].id,
                   !.was = user[job[p].id].admin, !.epoch = user[job[p].id].epoch]
      OBVIOUS
    <3>2. job[p].id \in User /\ job[p].id \in Nat
      BY <1>0, <2>1 DEF Fits, IdFits, User
    <3>3. user[job[p].id].admin \in BOOLEAN /\ user[job[p].id].epoch \in Nat
      BY <3>2 DEF Typed, AccountsTyped, Account
    <3>4. /\ n \in Task /\ n.at = "may_delete" /\ n.op = job[p].op /\ n.role = job[p].role
          /\ n.user = job[p].user /\ n.id = job[p].id /\ n.mail = job[p].mail
          /\ n.login = job[p].login /\ n.cred = job[p].cred /\ n.tok = job[p].tok
          /\ n.gate = job[p].gate /\ n.was = user[job[p].id].admin
          /\ n.epoch = user[job[p].id].epoch /\ n.dead = job[p].dead /\ n.toks = job[p].toks
      BY <1>0, <3>1, <3>2, <3>3, Labels, Asks DEF Task
    <3>5. Fits(n)
      BY <1>0, <3>4, <2>1, <2>8, <3>2, <3>3 DEF Fits, OpFits, UserFits, IdFits, MailFits,
        CredFits, TokenFits, GateFits
    <3>6. /\ OwnDrift(job[p], n) /\ MailDrift(job[p], n) /\ ~ Gated(n)
      BY <1>0, <3>4, <2>1, <2>8, <3>2, <3>3 DEF OwnDrift, Deep, MailDrift, Settling, Gated,
        Fits, OpFits
    <3>7. job' = [job EXCEPT ![p] = n]
      BY <2>8, <3>1 DEF Work
    <3> QED
      BY <3>5, <3>6, <3>7, <2>2 DEF Moved, Moves
  <2> QED
    BY <2>3, <2>4, <2>5, <2>6, <2>7, <2>8
<1>7. CASE Scan(p)
  <2>1. job[p].at = "scan"
    BY <1>7 DEF Scan, At, Ask, AskAdmin, Browser, Begin
  <2>2. AdminStep(p) /\ CredStep(p)
    BY <1>7 DEF AdminStep, CredStep
  <2>3. \/ End(p)
        \/ \E u \in all : /\ Whole(u)
                          /\ Work(p, [job[p] EXCEPT !.at = "heal", !.id = u,
                                       !.was = user[u].admin, !.epoch = user[u].epoch])
        \/ job[p].op \in {"create_user", "join"} /\
             Work(p, [job[p] EXCEPT !.at = "write_user", !.op = job[p].op])
        \/ job[p].op = "sign_in" /\ Work(p, [job[p] EXCEPT !.at = "find", !.op = "join"])
    BY <1>7 DEF Scan, At, Ask, AskAdmin, Refuse, Missing, OnMissing
  <2>4. CASE End(p)
    BY <2>4, <2>1, <2>2, EndMoves DEF Settling
  <2>5. CASE \E u \in all : /\ Whole(u)
                            /\ Work(p, [job[p] EXCEPT !.at = "heal", !.id = u,
                                         !.was = user[u].admin, !.epoch = user[u].epoch])
    <3>1. PICK u \in all : /\ Whole(u)
                           /\ Work(p, [job[p] EXCEPT !.at = "heal", !.id = u,
                                        !.was = user[u].admin, !.epoch = user[u].epoch])
      BY <2>5
    <3>2. PICK n : n = [job[p] EXCEPT !.at = "heal", !.id = u, !.was = user[u].admin,
                   !.epoch = user[u].epoch]
      OBVIOUS
    <3>3. u \in User /\ u \in Nat
      BY <3>1 DEF Typed, AccountsTyped, User
    <3>4. user[u].admin \in BOOLEAN /\ user[u].epoch \in Nat
      BY <3>3 DEF Typed, AccountsTyped, Account
    <3>5. /\ n \in Task /\ n.at = "heal" /\ n.op = job[p].op /\ n.role = job[p].role
          /\ n.user = job[p].user /\ n.id = u /\ n.mail = job[p].mail
          /\ n.login = job[p].login /\ n.cred = job[p].cred /\ n.tok = job[p].tok
          /\ n.gate = job[p].gate /\ n.was = user[u].admin /\ n.epoch = user[u].epoch
          /\ n.dead = job[p].dead /\ n.toks = job[p].toks
      BY <1>0, <3>2, <3>3, <3>4, Labels, Asks DEF Task
    <3>6. Fits(n)
      BY <1>0, <3>5, <2>1, <3>3, <3>4 DEF Fits, OpFits, UserFits, IdFits, MailFits, CredFits,
        TokenFits, GateFits
    <3>7. /\ OwnDrift(job[p], n) /\ MailDrift(job[p], n) /\ ~ Gated(n)
      BY <1>0, <3>5, <2>1, <3>3, <3>4 DEF OwnDrift, Deep, MailDrift, Settling, Gated, Fits,
        OpFits
    <3>8. job' = [job EXCEPT ![p] = n]
      BY <3>1, <3>2 DEF Work
    <3> QED
      BY <3>6, <3>7, <3>8, <2>2 DEF Moved, Moves
  <2>6. CASE job[p].op \in {"create_user", "join"} /\
               Work(p, [job[p] EXCEPT !.at = "write_user", !.op = job[p].op])
    <3>1. PICK n : n = [job[p] EXCEPT !.at = "write_user", !.op = job[p].op]
      OBVIOUS
    <3>2. job[p].op \in Ops
      BY <1>0 DEF Task
    <3>3. /\ n \in Task /\ n.at = "write_user" /\ n.op = job[p].op /\ n.role = job[p].role
          /\ n.user = job[p].user /\ n.id = job[p].id /\ n.mail = job[p].mail
          /\ n.login = job[p].login /\ n.cred = job[p].cred /\ n.tok = job[p].tok
          /\ n.gate = job[p].gate /\ n.was = job[p].was /\ n.epoch = job[p].epoch
          /\ n.dead = job[p].dead /\ n.toks = job[p].toks
      BY <1>0, <3>1, <3>2, Labels, Asks DEF Task
    <3>4. Fits(n)
      BY <1>0, <3>3, <2>1, <2>6, <3>2 DEF Fits, OpFits, UserFits, IdFits, MailFits, CredFits,
        TokenFits, GateFits
    <3>5. /\ OwnDrift(job[p], n) /\ MailDrift(job[p], n) /\ ~ Gated(n)
      BY <1>0, <3>3, <2>1, <2>6, <3>2 DEF OwnDrift, Deep, MailDrift, Settling, Gated, Fits,
        OpFits
    <3>6. job' = [job EXCEPT ![p] = n]
      BY <2>6, <3>1 DEF Work
    <3> QED
      BY <3>4, <3>5, <3>6, <2>2 DEF Moved, Moves
  <2>7. CASE job[p].op = "sign_in" /\ Work(p, [job[p] EXCEPT !.at = "find", !.op = "join"])
    <3>1. PICK n : n = [job[p] EXCEPT !.at = "find", !.op = "join"]
      OBVIOUS
    <3>2. /\ n \in Task /\ n.at = "find" /\ n.op = "join" /\ n.role = job[p].role
          /\ n.user = job[p].user /\ n.id = job[p].id /\ n.mail = job[p].mail
          /\ n.login = job[p].login /\ n.cred = job[p].cred /\ n.tok = job[p].tok
          /\ n.gate = job[p].gate /\ n.was = job[p].was /\ n.epoch = job[p].epoch
          /\ n.dead = job[p].dead /\ n.toks = job[p].toks
      BY <1>0, <3>1, Labels, Asks DEF Task
    <3>3. Fits(n)
      BY <1>0, <3>2, <2>1 DEF Fits, OpFits, UserFits, IdFits, MailFits, CredFits, TokenFits,
        GateFits
    <3>4. /\ OwnDrift(job[p], n) /\ MailDrift(job[p], n) /\ ~ Gated(n)
      BY <1>0, <3>2, <2>1 DEF OwnDrift, Deep, MailDrift, Settling, Gated, Fits, OpFits
    <3>5. job' = [job EXCEPT ![p] = n]
      BY <2>7, <3>1 DEF Work
    <3> QED
      BY <3>3, <3>4, <3>5, <2>2 DEF Moved, Moves
  <2> QED
    BY <2>3, <2>4, <2>5, <2>6, <2>7
<1>8. CASE Heal(p)
  <2>1. job[p].at = "heal"
    BY <1>8 DEF Heal, At, Ask, AskAdmin, Browser, Begin
  <2>2. \/ End(p)
        \/ job[p].op = "sign_in" /\ Step(p, "sync")
        \/ job[p].op = "sign_in" /\ Step(p, "link")
        \/ job[p].op = "patch_user" /\ Step(p, "may_patch")
        \/ job[p].op = "delete_user" /\ Step(p, "may_delete")
    BY <1>8 DEF Heal, At, Ask, AskAdmin, Refuse, OnFound
  <2>3. CASE End(p)
    BY <2>3, <2>1, EndMoves DEF Settling
  <2>4. CASE job[p].op = "sign_in" /\ Step(p, "sync")
    BY <1>0, <2>4, <2>1, StepMoves DEF Edge
  <2>5. CASE job[p].op = "sign_in" /\ Step(p, "link")
    BY <1>0, <2>5, <2>1, StepMoves DEF Edge
  <2>6. CASE job[p].op = "patch_user" /\ Step(p, "may_patch")
    BY <1>0, <2>6, <2>1, StepMoves DEF Edge
  <2>7. CASE job[p].op = "delete_user" /\ Step(p, "may_delete")
    BY <1>0, <2>7, <2>1, StepMoves DEF Edge
  <2> QED
    BY <2>2, <2>3, <2>4, <2>5, <2>6, <2>7
<1>9. CASE WriteUser(p)
  <2>1. job[p].at = "write_user"
    BY <1>9 DEF WriteUser, At, Ask, AskAdmin, Browser, Begin
  <2>2. CredStep(p) /\ MailStep(p)
    BY <1>9 DEF CredStep, MailStep
  <2>3. Work(p, [job[p] EXCEPT !.at = "claim", !.id = Smallest(Unborn),
                  !.was = job[p].role, !.epoch = 0])
    BY <1>9 DEF WriteUser, At, Ask, AskAdmin, Refuse
  <2>4. PICK n : n = [job[p] EXCEPT !.at = "claim", !.id = Smallest(Unborn),
                 !.was = job[p].role, !.epoch = 0]
    OBVIOUS
  <2>5. Unborn # {} /\ Unborn \in SUBSET Nat /\ Unborn \subseteq User
    BY <1>9 DEF WriteUser, Unborn, User
  <2>6. Smallest(Unborn) \in User /\ Smallest(Unborn) \in Nat
    BY <2>5, MinExists
  <2>7. job[p].role \in BOOLEAN
    BY <1>0 DEF Task
  <2>8. /\ n \in Task /\ n.at = "claim" /\ n.op = job[p].op /\ n.role = job[p].role
        /\ n.user = job[p].user /\ n.id = Smallest(Unborn) /\ n.mail = job[p].mail
        /\ n.login = job[p].login /\ n.cred = job[p].cred /\ n.tok = job[p].tok
        /\ n.gate = job[p].gate /\ n.was = job[p].role /\ n.epoch = 0 /\ n.dead = job[p].dead
        /\ n.toks = job[p].toks
    BY <1>0, <2>4, <2>5, <2>6, <2>7, Labels, Asks DEF Task
  <2>9. Fits(n)
    BY <1>0, <2>8, <2>1, <2>5, <2>6, <2>7 DEF Fits, OpFits, UserFits, IdFits, MailFits,
      CredFits, TokenFits, GateFits
  <2>10. /\ OwnDrift(job[p], n) /\ AdminDrift(job[p], n) /\ ~ Gated(n)
    BY <1>0, <2>8, <2>1, <2>5, <2>6, <2>7 DEF OwnDrift, Deep, AdminDrift, Demoting, Gated, Fits,
      OpFits
  <2>11. job' = [job EXCEPT ![p] = n]
    BY <2>3, <2>4 DEF Work
  <2> QED
    BY <2>9, <2>10, <2>11, <2>2 DEF Moved, Moves
<1>10. CASE Claim(p)
  <2>1. job[p].at = "claim"
    BY <1>10 DEF Claim, At, Ask, AskAdmin, Browser, Begin
  <2>2. MailStep(p)
    BY <1>10 DEF MailStep
  <2>3. \/ End(p)
        \/ Step(p, "enlist")
    BY <1>10 DEF Claim, At, Ask, AskAdmin, Refuse
  <2>4. CASE End(p)
    BY <2>4, <2>1, <2>2, EndMoves DEF Settling
  <2>5. CASE Step(p, "enlist")
    BY <1>0, <2>5, <2>1, <2>2, StepMoves DEF Edge
  <2> QED
    BY <2>3, <2>4, <2>5
<1>11. CASE Enlist(p)
  <2>1. job[p].at = "enlist"
    BY <1>11 DEF Enlist, At, Ask, AskAdmin, Browser, Begin
  <2>2. MailStep(p)
    BY <1>11 DEF MailStep
  <2>3. \/ End(p)
        \/ job[p].op = "join" /\ Step(p, "link")
    BY <1>11 DEF Enlist, At, Ask, AskAdmin, Refuse
  <2>4. CASE End(p)
    BY <2>4, <2>1, <2>2, EndMoves DEF Settling
  <2>5. CASE job[p].op = "join" /\ Step(p, "link")
    BY <1>0, <2>5, <2>1, <2>2, StepMoves DEF Edge
  <2> QED
    BY <2>3, <2>4, <2>5
<1>12. CASE Sync(p)
  <2>1. job[p].at = "sync"
    BY <1>12 DEF Sync, At, Ask, AskAdmin, Browser, Begin
  <2>2. \/ Step(p, "link")
        \/ Step(p, "reindex")
        \/ Step(p, "mint")
    BY <1>12 DEF Sync, At, Ask, AskAdmin, Refuse
  <2>3. CASE Step(p, "link")
    BY <1>0, <2>3, <2>1, StepMoves DEF Edge
  <2>4. CASE Step(p, "reindex")
    BY <1>0, <2>4, <2>1, StepMoves DEF Edge
  <2>5. CASE Step(p, "mint")
    BY <1>0, <2>5, <2>1, StepMoves DEF Edge
  <2> QED
    BY <2>2, <2>3, <2>4, <2>5
<1>13. CASE Reindex(p)
  <2>1. job[p].at = "reindex"
    BY <1>13 DEF Reindex, At, Ask, AskAdmin, Browser, Begin
  <2>2. Step(p, "mint")
    BY <1>13 DEF Reindex, At, Ask, AskAdmin, Refuse
  <2> QED
    BY <1>0, <2>2, <2>1, StepMoves DEF Edge
<1>14. CASE Link(p)
  <2>1. job[p].at = "link"
    BY <1>14 DEF Link, At, Ask, AskAdmin, Browser, Begin
  <2>2. \/ Step(p, "sync")
        \/ Step(p, "mint")
    BY <1>14 DEF Link, At, Ask, AskAdmin, Refuse
  <2>3. CASE Step(p, "sync")
    BY <1>0, <2>3, <2>1, StepMoves DEF Edge
  <2>4. CASE Step(p, "mint")
    BY <1>0, <2>4, <2>1, StepMoves DEF Edge
  <2> QED
    BY <2>2, <2>3, <2>4
<1>15. CASE Mint(p)
  <2>1. job[p].at = "mint"
    BY <1>15 DEF Mint, At, Ask, AskAdmin, Browser, Begin
  <2>2. End(p)
    BY <1>15 DEF Mint, At, Ask, AskAdmin, Refuse
  <2> QED
    BY <2>2, <2>1, EndMoves DEF Settling
<1> QED
  BY <1>1, <1>2, <1>3, <1>4, <1>5, <1>6, <1>7, <1>8, <1>9, <1>10, <1>11, <1>12, <1>13, <1>14,
    <1>15

(* Steps that manage accounts                                              *)
LEMMA AdminMoves ==
  ASSUME Typed, NEW p \in Thread,
         \/ CreateUser(p) \/ PatchUser(p) \/ DeleteUser(p) \/ MayPatch(p) \/ MayDelete(p)
         \/ CountAdmins(p) \/ PatchRead(p) \/ PatchWrite(p) \/ CheckOwned(p)
         \/ DeleteRead(p) \/ CascadeToken(p) \/ Unmail(p) \/ Unlist(p) \/ WipeUser(p)
  PROVE  Moved(p)
<1>0. TasksFit /\ Fits(job[p]) /\ job[p] \in Task
  BY DEF Typed, TasksFit, Fits
<1>1. CASE CreateUser(p)
  <2>1. PICK e \in Email, r \in BOOLEAN :
           Work(p, [job[p] EXCEPT !.at = "find", !.op = "create_user", !.mail = e, !.role = r])
    BY <1>1 DEF CreateUser
  <2>2. job[p].at = "ready"
    BY <1>1 DEF CreateUser, At, Ask, AskAdmin, Browser, Begin
  <2>3. Work(p, [job[p] EXCEPT !.at = "find", !.op = "create_user", !.mail = e,
                  !.role = r])
    BY <2>1 DEF CreateUser, At, Ask, AskAdmin, Refuse
  <2>4. PICK n : n = [job[p] EXCEPT !.at = "find", !.op = "create_user", !.mail = e,
                 !.role = r]
    OBVIOUS
  <2>5. e \in Mails
    BY DEF Mails
  <2>6. /\ n \in Task /\ n.at = "find" /\ n.op = "create_user" /\ n.role = r
        /\ n.user = job[p].user /\ n.id = job[p].id /\ n.mail = e /\ n.login = job[p].login
        /\ n.cred = job[p].cred /\ n.tok = job[p].tok /\ n.gate = job[p].gate
        /\ n.was = job[p].was /\ n.epoch = job[p].epoch /\ n.dead = job[p].dead
        /\ n.toks = job[p].toks
    BY <1>0, <2>4, <2>5, Labels, Asks DEF Task
  <2>7. Fits(n)
    BY <1>0, <2>6, <2>2, <2>5 DEF Fits, OpFits, UserFits, IdFits, MailFits, CredFits, TokenFits,
      GateFits
  <2>8. /\ OwnDrift(job[p], n) /\ AdminDrift(job[p], n) /\ CredDrift(job[p], n)
        /\ MailDrift(job[p], n) /\ ~ Gated(n)
    BY <1>0, <2>6, <2>2, <2>5 DEF OwnDrift, Deep, AdminDrift, Demoting, CredDrift, Stamps,
      MailDrift, Settling, Gated, Fits, OpFits
  <2>9. job' = [job EXCEPT ![p] = n]
    BY <2>3, <2>4 DEF Work
  <2> QED
    BY <2>7, <2>8, <2>9 DEF Moved, Moves
<1>2. CASE PatchUser(p)
  <2>1. PICK e \in Email, r \in BOOLEAN : Work(p, [job[p] EXCEPT !.at = "find", !.op = "patch_user",
           !.mail = e, !.role = r])
    BY <1>2 DEF PatchUser
  <2>2. job[p].at = "ready"
    BY <1>2 DEF PatchUser, At, Ask, AskAdmin, Browser, Begin
  <2>3. Work(p, [job[p] EXCEPT !.at = "find", !.op = "patch_user", !.mail = e, !.role = r])
    BY <2>1 DEF PatchUser, At, Ask, AskAdmin, Refuse
  <2>4. PICK n : n = [job[p] EXCEPT !.at = "find", !.op = "patch_user", !.mail = e,
                 !.role = r]
    OBVIOUS
  <2>5. e \in Mails
    BY DEF Mails
  <2>6. /\ n \in Task /\ n.at = "find" /\ n.op = "patch_user" /\ n.role = r
        /\ n.user = job[p].user /\ n.id = job[p].id /\ n.mail = e /\ n.login = job[p].login
        /\ n.cred = job[p].cred /\ n.tok = job[p].tok /\ n.gate = job[p].gate
        /\ n.was = job[p].was /\ n.epoch = job[p].epoch /\ n.dead = job[p].dead
        /\ n.toks = job[p].toks
    BY <1>0, <2>4, <2>5, Labels, Asks DEF Task
  <2>7. Fits(n)
    BY <1>0, <2>6, <2>2, <2>5 DEF Fits, OpFits, UserFits, IdFits, MailFits, CredFits, TokenFits,
      GateFits
  <2>8. /\ OwnDrift(job[p], n) /\ AdminDrift(job[p], n) /\ CredDrift(job[p], n)
        /\ MailDrift(job[p], n) /\ ~ Gated(n)
    BY <1>0, <2>6, <2>2, <2>5 DEF OwnDrift, Deep, AdminDrift, Demoting, CredDrift, Stamps,
      MailDrift, Settling, Gated, Fits, OpFits
  <2>9. job' = [job EXCEPT ![p] = n]
    BY <2>3, <2>4 DEF Work
  <2> QED
    BY <2>7, <2>8, <2>9 DEF Moved, Moves
<1>3. CASE DeleteUser(p)
  <2>1. PICK e \in Email : Work(p, [job[p] EXCEPT !.at = "find", !.op = "delete_user",
           !.mail = e])
    BY <1>3 DEF DeleteUser
  <2>2. job[p].at = "ready"
    BY <1>3 DEF DeleteUser, At, Ask, AskAdmin, Browser, Begin
  <2>3. Work(p, [job[p] EXCEPT !.at = "find", !.op = "delete_user", !.mail = e])
    BY <2>1 DEF DeleteUser, At, Ask, AskAdmin, Refuse
  <2>4. PICK n : n = [job[p] EXCEPT !.at = "find", !.op = "delete_user", !.mail = e]
    OBVIOUS
  <2>5. e \in Mails
    BY DEF Mails
  <2>6. /\ n \in Task /\ n.at = "find" /\ n.op = "delete_user" /\ n.role = job[p].role
        /\ n.user = job[p].user /\ n.id = job[p].id /\ n.mail = e /\ n.login = job[p].login
        /\ n.cred = job[p].cred /\ n.tok = job[p].tok /\ n.gate = job[p].gate
        /\ n.was = job[p].was /\ n.epoch = job[p].epoch /\ n.dead = job[p].dead
        /\ n.toks = job[p].toks
    BY <1>0, <2>4, <2>5, Labels, Asks DEF Task
  <2>7. Fits(n)
    BY <1>0, <2>6, <2>2, <2>5 DEF Fits, OpFits, UserFits, IdFits, MailFits, CredFits, TokenFits,
      GateFits
  <2>8. /\ OwnDrift(job[p], n) /\ AdminDrift(job[p], n) /\ CredDrift(job[p], n)
        /\ MailDrift(job[p], n) /\ ~ Gated(n)
    BY <1>0, <2>6, <2>2, <2>5 DEF OwnDrift, Deep, AdminDrift, Demoting, CredDrift, Stamps,
      MailDrift, Settling, Gated, Fits, OpFits
  <2>9. job' = [job EXCEPT ![p] = n]
    BY <2>3, <2>4 DEF Work
  <2> QED
    BY <2>7, <2>8, <2>9 DEF Moved, Moves
<1>4. CASE MayPatch(p)
  <2>1. job[p].at = "may_patch"
    BY <1>4 DEF MayPatch, At, Ask, AskAdmin, Browser, Begin
  <2>2. \/ job[p].was /\ ~ job[p].role /\ Step(p, "count")
        \/ ~ (job[p].was /\ ~ job[p].role) /\ Step(p, "patch_read")
    BY <1>4 DEF MayPatch, At, Ask, AskAdmin, Refuse
  <2>3. CASE job[p].was /\ ~ job[p].role /\ Step(p, "count")
    BY <1>0, <2>3, <2>1, StepMoves DEF Edge
  <2>4. CASE ~ (job[p].was /\ ~ job[p].role) /\ Step(p, "patch_read")
    BY <1>0, <2>4, <2>1, StepMoves DEF Edge
  <2> QED
    BY <2>2, <2>3, <2>4
<1>5. CASE MayDelete(p)
  <2>1. job[p].at = "may_delete"
    BY <1>5 DEF MayDelete, At, Ask, AskAdmin, Browser, Begin
  <2>2. \/ End(p)
        \/ job[p].was /\ Step(p, "count")
        \/ ~ job[p].was /\ Step(p, "owned")
    BY <1>5 DEF MayDelete, At, Ask, AskAdmin, Refuse
  <2>3. CASE End(p)
    BY <2>3, <2>1, EndMoves DEF Settling
  <2>4. CASE job[p].was /\ Step(p, "count")
    BY <1>0, <2>4, <2>1, StepMoves DEF Edge
  <2>5. CASE ~ job[p].was /\ Step(p, "owned")
    BY <1>0, <2>5, <2>1, StepMoves DEF Edge
  <2> QED
    BY <2>2, <2>3, <2>4, <2>5
<1>6. CASE CountAdmins(p)
  <2>1. job[p].at = "count"
    BY <1>6 DEF CountAdmins, At, Ask, AskAdmin, Browser, Begin
  <2>2. AdminStep(p)
    BY <1>6 DEF AdminStep
  <2>3. \/ End(p)
        \/ job[p].op = "patch_user" /\ Step(p, "patch_read")
        \/ job[p].op # "patch_user" /\ Step(p, "owned")
    BY <1>6 DEF CountAdmins, At, Ask, AskAdmin, Refuse
  <2>4. CASE End(p)
    BY <2>4, <2>1, <2>2, EndMoves DEF Settling
  <2>5. CASE job[p].op = "patch_user" /\ Step(p, "patch_read")
    BY <1>0, <2>5, <2>1, <2>2, StepMoves DEF Edge
  <2>6. CASE job[p].op # "patch_user" /\ Step(p, "owned")
    BY <1>0, <2>6, <2>1, <2>2, StepMoves DEF Edge
  <2> QED
    BY <2>3, <2>4, <2>5, <2>6
<1>7. CASE PatchRead(p)
  <2>1. job[p].at = "patch_read"
    BY <1>7 DEF PatchRead, At, Ask, AskAdmin, Browser, Begin
  <2>2. \/ End(p)
        \/ Step(p, "patch_write")
    BY <1>7 DEF PatchRead, At, Ask, AskAdmin, Refuse
  <2>3. CASE End(p)
    BY <2>3, <2>1, EndMoves DEF Settling
  <2>4. CASE Step(p, "patch_write")
    BY <1>0, <2>4, <2>1, StepMoves DEF Edge
  <2> QED
    BY <2>2, <2>3, <2>4
<1>8. CASE PatchWrite(p)
  <2>1. job[p].at = "patch_write"
    BY <1>8 DEF PatchWrite, At, Ask, AskAdmin, Browser, Begin
  <2>2. End(p)
    BY <1>8 DEF PatchWrite, At, Ask, AskAdmin, Refuse
  <2> QED
    BY <2>2, <2>1, EndMoves DEF Settling
<1>9. CASE CheckOwned(p)
  <2>1. job[p].at = "owned"
    BY <1>9 DEF CheckOwned, At, Ask, AskAdmin, Browser, Begin
  <2>2. OwnStep(p)
    BY <1>9 DEF OwnStep
  <2>3. \/ End(p)
        \/ Step(p, "delete_read")
    BY <1>9 DEF CheckOwned, At, Ask, AskAdmin, Refuse
  <2>4. CASE End(p)
    BY <2>4, <2>1, <2>2, EndMoves DEF Settling
  <2>5. CASE Step(p, "delete_read")
    BY <1>0, <2>5, <2>1, <2>2, StepMoves DEF Edge
  <2> QED
    BY <2>3, <2>4, <2>5
<1>10. CASE DeleteRead(p)
  <2>1. PICK ts : ts = {t \in ofOwner : token[t].owner = job[p].id}
    OBVIOUS
  <2>2. ts \in TokSets
    BY <2>1 DEF Typed, CredentialsTyped, TokSets
  <2>3. End(p) \/ Work(p, [job[p] EXCEPT !.at = "cascade", !.toks = ts])
    BY <1>10, <2>1 DEF DeleteRead
  <2>4. job[p].at = "delete_read"
    BY <1>10 DEF DeleteRead, At, Ask, AskAdmin, Browser, Begin
  <2>5. CredStep(p)
    BY <1>10 DEF CredStep
  <2>6. \/ End(p)
        \/ Work(p, [job[p] EXCEPT !.at = "cascade", !.toks = ts])
    BY <2>1, <2>2, <2>3 DEF DeleteRead, At, Ask, AskAdmin, Refuse
  <2>7. CASE End(p)
    BY <2>7, <2>4, <2>5, EndMoves DEF Settling
  <2>8. CASE Work(p, [job[p] EXCEPT !.at = "cascade", !.toks = ts])
    <3>1. PICK n : n = [job[p] EXCEPT !.at = "cascade", !.toks = ts]
      OBVIOUS
    <3>2. ts \in TokSets
      BY <2>2
    <3>3. /\ n \in Task /\ n.at = "cascade" /\ n.op = job[p].op /\ n.role = job[p].role
          /\ n.user = job[p].user /\ n.id = job[p].id /\ n.mail = job[p].mail
          /\ n.login = job[p].login /\ n.cred = job[p].cred /\ n.tok = job[p].tok
          /\ n.gate = job[p].gate /\ n.was = job[p].was /\ n.epoch = job[p].epoch
          /\ n.dead = job[p].dead /\ n.toks = ts
      BY <1>0, <3>1, <3>2, Labels, Asks DEF Task
    <3>4. Fits(n)
      BY <1>0, <3>3, <2>4, <3>2 DEF Fits, OpFits, UserFits, IdFits, MailFits, CredFits,
        TokenFits, GateFits
    <3>5. /\ OwnDrift(job[p], n) /\ AdminDrift(job[p], n) /\ MailDrift(job[p], n)
          /\ ~ Gated(n)
      BY <1>0, <3>3, <2>4, <3>2 DEF OwnDrift, Deep, AdminDrift, Demoting, MailDrift, Settling,
        Gated, Fits, OpFits
    <3>6. job' = [job EXCEPT ![p] = n]
      BY <2>8, <3>1 DEF Work
    <3> QED
      BY <3>4, <3>5, <3>6, <2>5 DEF Moved, Moves
  <2> QED
    BY <2>6, <2>7, <2>8
<1>11. CASE CascadeToken(p)
  <2>1. job[p].at = "cascade" /\ CredStep(p)
    BY <1>11 DEF CascadeToken, At, CredStep
  <2>2. CASE Step(p, "unmail")
    BY <1>0, <2>1, <2>2, StepMoves DEF Edge
  <2>3. CASE ~ Step(p, "unmail")
    <3>1. PICK t \in job[p].toks :
            CASE token[t].shape = "whole" ->
                   Work(p, [job[p] EXCEPT !.at = "drop_hash", !.tok = t,
                              !.name = token[t].name, !.toks = @ \ {t}])
              [] token[t].shape = "none" -> Work(p, [job[p] EXCEPT !.toks = @ \ {t}])
              [] token[t].shape = "stub" -> End(p)
      BY <1>11, <2>3 DEF CascadeToken
    <3>2. PICK nm, ts : nm = token[t].name /\ ts = job[p].toks \ {t}
      OBVIOUS
    <3>3. job[p].toks \in SUBSET Token
      BY <1>0 DEF Task, TokSets
    <3>4. /\ t \in Token /\ t \in Toks /\ ts \in TokSets /\ ts \subseteq job[p].toks
          /\ nm \in Named /\ token[t].shape \in {"none", "whole", "stub"}
      BY <3>2, <3>3 DEF TokSets, Toks, Typed, CredentialsTyped, TokenRecord
    <3>5. \/ End(p)
          \/ Work(p, [job[p] EXCEPT !.at = "drop_hash", !.tok = t, !.name = nm, !.toks = ts])
          \/ Work(p, [job[p] EXCEPT !.toks = ts])
      <4>1. CASE token[t].shape = "whole"
        BY <3>1, <3>2, <4>1
      <4>2. CASE token[t].shape = "none"
        BY <3>1, <3>2, <4>2
      <4>3. CASE token[t].shape = "stub"
        BY <3>1, <4>3
      <4> QED
        BY <3>4, <4>1, <4>2, <4>3
    <3>6. CASE End(p)
      BY <3>6, <2>1, EndMoves DEF Settling
    <3>7. CASE Work(p, [job[p] EXCEPT !.at = "drop_hash", !.tok = t, !.name = nm, !.toks = ts])
      <4>1. PICK n :
              n = [job[p] EXCEPT !.at = "drop_hash", !.tok = t, !.name = nm, !.toks = ts]
        OBVIOUS
      <4>2. /\ n \in Task /\ n.at = "drop_hash" /\ n.op = job[p].op /\ n.role = job[p].role
            /\ n.user = job[p].user /\ n.id = job[p].id /\ n.mail = job[p].mail
            /\ n.login = job[p].login /\ n.cred = job[p].cred /\ n.tok = t
            /\ n.gate = job[p].gate
        BY <1>0, <3>4, <4>1, Labels DEF Task
      <4>3. Fits(n)
        BY <1>0, <2>1, <3>4, <4>2 DEF Fits, OpFits, UserFits, IdFits, MailFits, CredFits,
          TokenFits, GateFits
      <4>4. /\ OwnDrift(job[p], n) /\ AdminDrift(job[p], n) /\ MailDrift(job[p], n)
            /\ ~ Gated(n)
        BY <1>0, <2>1, <4>2 DEF OwnDrift, Deep, AdminDrift, Demoting, MailDrift, Settling,
          Gated, Fits, OpFits
      <4>5. job' = [job EXCEPT ![p] = n]
        BY <3>7, <4>1 DEF Work
      <4> QED
        BY <4>3, <4>4, <4>5, <2>1 DEF Moved, Moves
    <3>8. CASE Work(p, [job[p] EXCEPT !.toks = ts])
      <4>1. PICK n : n = [job[p] EXCEPT !.toks = ts]
        OBVIOUS
      <4>2. /\ n \in Task /\ n.at = "cascade" /\ n.op = job[p].op /\ n.role = job[p].role
            /\ n.user = job[p].user /\ n.id = job[p].id /\ n.mail = job[p].mail
            /\ n.login = job[p].login /\ n.cred = job[p].cred /\ n.tok = job[p].tok
            /\ n.gate = job[p].gate
        BY <1>0, <2>1, <3>4, <4>1 DEF Task
      <4>3. Fits(n)
        BY <1>0, <2>1, <3>4, <4>2 DEF Fits, OpFits, UserFits, IdFits, MailFits, CredFits,
          TokenFits, GateFits
      <4>4. /\ OwnDrift(job[p], n) /\ AdminDrift(job[p], n) /\ MailDrift(job[p], n)
            /\ ~ Gated(n)
        BY <1>0, <2>1, <4>2 DEF OwnDrift, Deep, AdminDrift, Demoting, MailDrift, Settling,
          Gated, Fits, OpFits
      <4>5. job' = [job EXCEPT ![p] = n]
        BY <3>8, <4>1 DEF Work
      <4> QED
        BY <4>3, <4>4, <4>5, <2>1 DEF Moved, Moves
    <3> QED
      BY <3>5, <3>6, <3>7, <3>8
  <2> QED
    BY <2>2, <2>3
<1>12. CASE Unmail(p)
  <2>1. job[p].at = "unmail"
    BY <1>12 DEF Unmail, At, Ask, AskAdmin, Browser, Begin
  <2>2. MailStep(p)
    BY <1>12 DEF MailStep
  <2>3. Step(p, "unlist")
    BY <1>12 DEF Unmail, At, Ask, AskAdmin, Refuse
  <2> QED
    BY <1>0, <2>3, <2>1, <2>2, StepMoves DEF Edge
<1>13. CASE Unlist(p)
  <2>1. job[p].at = "unlist"
    BY <1>13 DEF Unlist, At, Ask, AskAdmin, Browser, Begin
  <2>2. MailStep(p)
    BY <1>13 DEF MailStep
  <2>3. Step(p, "wipe")
    BY <1>13 DEF Unlist, At, Ask, AskAdmin, Refuse
  <2> QED
    BY <1>0, <2>3, <2>1, <2>2, StepMoves DEF Edge
<1>14. CASE WipeUser(p)
  <2>1. job[p].at = "wipe"
    BY <1>14 DEF WipeUser, At, Ask, AskAdmin, Browser, Begin
  <2>2. MailStep(p)
    BY <1>14 DEF MailStep
  <2>3. End(p)
    BY <1>14 DEF WipeUser, At, Ask, AskAdmin, Refuse
  <2> QED
    BY <2>3, <2>1, <2>2, EndMoves DEF Settling
<1> QED
  BY <1>1, <1>2, <1>3, <1>4, <1>5, <1>6, <1>7, <1>8, <1>9, <1>10, <1>11, <1>12, <1>13, <1>14

(* Steps that manage API tokens                                            *)
LEMMA TokenMoves ==
  ASSUME Typed, NEW p \in Thread,
         \/ CreateToken(p) \/ TokenFree(p) \/ WriteToken(p) \/ IndexHash(p) \/ IndexName(p)
         \/ IndexOwner(p) \/ RenameToken(p) \/ RenameFind(p) \/ SetName(p) \/ NameToken(p)
         \/ DropOld(p) \/ RevokeToken(p) \/ RevokeFind(p) \/ DropHash(p) \/ DropName(p)
         \/ Disown(p) \/ DropToken(p)
  PROVE  Moved(p)
<1>0. TasksFit /\ Fits(job[p]) /\ job[p] \in Task
  BY DEF Typed, TasksFit, Fits
<1>1. CASE CreateToken(p)
  <2>1. PICK nm \in TokenName :
          \/ End(p)
          \/ Work(p, [job[p] EXCEPT !.at = "token_free", !.op = "create_token", !.name = nm])
    BY <1>1 DEF CreateToken, Refuse
  <2>2. job[p].at = "ready"
    BY <1>1 DEF CreateToken, At, Ask, AskAdmin, Browser, Begin
  <2>3. \/ End(p)
        \/ Work(p, [job[p] EXCEPT !.at = "token_free", !.op = "create_token", !.name = nm])
    BY <2>1 DEF CreateToken, At, Ask, AskAdmin, Refuse
  <2>4. CASE End(p)
    BY <2>4, <2>2, EndMoves DEF Settling
  <2>5. CASE Work(p, [job[p] EXCEPT !.at = "token_free", !.op = "create_token", !.name = nm])
    <3>1. PICK n : n = [job[p] EXCEPT !.at = "token_free", !.op = "create_token", !.name = nm]
      OBVIOUS
    <3>2. nm \in Named
      BY DEF Named
    <3>3. /\ n \in Task /\ n.at = "token_free" /\ n.op = "create_token"
          /\ n.role = job[p].role /\ n.user = job[p].user /\ n.id = job[p].id
          /\ n.mail = job[p].mail /\ n.login = job[p].login /\ n.cred = job[p].cred
          /\ n.tok = job[p].tok /\ n.gate = job[p].gate /\ n.was = job[p].was
          /\ n.epoch = job[p].epoch /\ n.dead = job[p].dead /\ n.toks = job[p].toks
          /\ n.name = nm
      BY <1>0, <3>1, <3>2, Labels, Asks DEF Task
    <3>4. Fits(n)
      BY <1>0, <3>3, <2>2, <3>2 DEF Fits, OpFits, UserFits, IdFits, MailFits, CredFits,
        TokenFits, GateFits
    <3>5. /\ OwnDrift(job[p], n) /\ AdminDrift(job[p], n) /\ CredDrift(job[p], n)
          /\ MailDrift(job[p], n) /\ ~ Gated(n)
      BY <1>0, <3>3, <2>2, <3>2 DEF OwnDrift, Deep, AdminDrift, Demoting, CredDrift, Stamps,
        MailDrift, Settling, Gated, Fits, OpFits
    <3>6. job' = [job EXCEPT ![p] = n]
      BY <2>5, <3>1 DEF Work
    <3> QED
      BY <3>4, <3>5, <3>6 DEF Moved, Moves
  <2> QED
    BY <2>3, <2>4, <2>5
<1>2. CASE TokenFree(p)
  <2>1. job[p].at = "token_free"
    BY <1>2 DEF TokenFree, At, Ask, AskAdmin, Browser, Begin
  <2>2. \/ End(p)
        \/ Step(p, "write_token")
    BY <1>2 DEF TokenFree, At, Ask, AskAdmin, Refuse
  <2>3. CASE End(p)
    BY <2>3, <2>1, EndMoves DEF Settling
  <2>4. CASE Step(p, "write_token")
    BY <1>0, <2>4, <2>1, StepMoves DEF Edge
  <2> QED
    BY <2>2, <2>3, <2>4
<1>3. CASE WriteToken(p)
  <2>1. PICK free : free = {k \in Token : <<"token", k>> \notin issued
                                        /\ \A q \in Thread : job[q].tok # k}
    OBVIOUS
  <2>2. free # {} /\ free \in SUBSET Nat /\ free \subseteq Token
    BY <1>3, <2>1 DEF WriteToken, Token
  <2>3. PICK t \in Token : t = Smallest(free)
    BY <2>2, MinExists
  <2>4. Work(p, [job[p] EXCEPT !.at = "index_hash", !.tok = t])
    BY <1>3, <2>1, <2>3 DEF WriteToken
  <2>5. job[p].at = "write_token"
    BY <1>3 DEF WriteToken, At, Ask, AskAdmin, Browser, Begin
  <2>6. CredStep(p)
    BY <1>3 DEF CredStep
  <2>7. Work(p, [job[p] EXCEPT !.at = "index_hash", !.tok = t])
    BY <2>1, <2>2, <2>3, <2>4 DEF WriteToken, At, Ask, AskAdmin, Refuse
  <2>8. PICK n : n = [job[p] EXCEPT !.at = "index_hash", !.tok = t]
    OBVIOUS
  <2>9. t \in Toks
    BY DEF Toks
  <2>10. /\ n \in Task /\ n.at = "index_hash" /\ n.op = job[p].op /\ n.role = job[p].role
         /\ n.user = job[p].user /\ n.id = job[p].id /\ n.mail = job[p].mail
         /\ n.login = job[p].login /\ n.cred = job[p].cred /\ n.tok = t
         /\ n.gate = job[p].gate /\ n.was = job[p].was /\ n.epoch = job[p].epoch
         /\ n.dead = job[p].dead /\ n.toks = job[p].toks
    BY <1>0, <2>8, <2>9, Labels, Asks DEF Task
  <2>11. Fits(n)
    BY <1>0, <2>10, <2>5, <2>9 DEF Fits, OpFits, UserFits, IdFits, MailFits, CredFits,
      TokenFits, GateFits
  <2>12. /\ OwnDrift(job[p], n) /\ AdminDrift(job[p], n) /\ MailDrift(job[p], n) /\ ~ Gated(n)
    BY <1>0, <2>10, <2>5, <2>9 DEF OwnDrift, Deep, AdminDrift, Demoting, MailDrift, Settling,
      Gated, Fits, OpFits
  <2>13. job' = [job EXCEPT ![p] = n]
    BY <2>7, <2>8 DEF Work
  <2> QED
    BY <2>11, <2>12, <2>13, <2>6 DEF Moved, Moves
<1>4. CASE IndexHash(p)
  <2>1. job[p].at = "index_hash"
    BY <1>4 DEF IndexHash, At, Ask, AskAdmin, Browser, Begin
  <2>2. CredStep(p)
    BY <1>4 DEF CredStep
  <2>3. Step(p, "index_name")
    BY <1>4 DEF IndexHash, At, Ask, AskAdmin, Refuse
  <2> QED
    BY <1>0, <2>3, <2>1, <2>2, StepMoves DEF Edge
<1>5. CASE IndexName(p)
  <2>1. job[p].at = "index_name"
    BY <1>5 DEF IndexName, At, Ask, AskAdmin, Browser, Begin
  <2>2. CredStep(p)
    BY <1>5 DEF CredStep
  <2>3. Step(p, "index_owner")
    BY <1>5 DEF IndexName, At, Ask, AskAdmin, Refuse
  <2> QED
    BY <1>0, <2>3, <2>1, <2>2, StepMoves DEF Edge
<1>6. CASE IndexOwner(p)
  <2>1. job[p].at = "index_owner"
    BY <1>6 DEF IndexOwner, At, Ask, AskAdmin, Browser, Begin
  <2>2. CredStep(p)
    BY <1>6 DEF CredStep
  <2>3. End(p)
    BY <1>6 DEF IndexOwner, At, Ask, AskAdmin, Refuse
  <2> QED
    BY <2>3, <2>1, <2>2, EndMoves DEF Settling
<1>7. CASE RenameToken(p)
  <2>1. PICK old \in TokenName, new \in TokenName :
          \/ End(p)
          \/ Work(p, [job[p] EXCEPT !.at = "rename_find", !.op = "rename_token",
                     !.name = old, !.new = new])
    BY <1>7 DEF RenameToken, Refuse
  <2>2. job[p].at = "ready"
    BY <1>7 DEF RenameToken, At, Ask, AskAdmin, Browser, Begin
  <2>3. \/ End(p)
        \/ Work(p, [job[p] EXCEPT !.at = "rename_find", !.op = "rename_token", !.name = old,
                     !.new = new])
    BY <2>1 DEF RenameToken, At, Ask, AskAdmin, Refuse
  <2>4. CASE End(p)
    BY <2>4, <2>2, EndMoves DEF Settling
  <2>5. CASE Work(p, [job[p] EXCEPT !.at = "rename_find", !.op = "rename_token", !.name = old,
                       !.new = new])
    <3>1. PICK n : n = [job[p] EXCEPT !.at = "rename_find", !.op = "rename_token",
                   !.name = old, !.new = new]
      OBVIOUS
    <3>2. old \in Named /\ new \in Named
      BY DEF Named
    <3>3. /\ n \in Task /\ n.at = "rename_find" /\ n.op = "rename_token"
          /\ n.role = job[p].role /\ n.user = job[p].user /\ n.id = job[p].id
          /\ n.mail = job[p].mail /\ n.login = job[p].login /\ n.cred = job[p].cred
          /\ n.tok = job[p].tok /\ n.gate = job[p].gate /\ n.was = job[p].was
          /\ n.epoch = job[p].epoch /\ n.dead = job[p].dead /\ n.toks = job[p].toks
          /\ n.name = old
      BY <1>0, <3>1, <3>2, Labels, Asks DEF Task
    <3>4. Fits(n)
      BY <1>0, <3>3, <2>2, <3>2 DEF Fits, OpFits, UserFits, IdFits, MailFits, CredFits,
        TokenFits, GateFits
    <3>5. /\ OwnDrift(job[p], n) /\ AdminDrift(job[p], n) /\ CredDrift(job[p], n)
          /\ MailDrift(job[p], n) /\ ~ Gated(n)
      BY <1>0, <3>3, <2>2, <3>2 DEF OwnDrift, Deep, AdminDrift, Demoting, CredDrift, Stamps,
        MailDrift, Settling, Gated, Fits, OpFits
    <3>6. job' = [job EXCEPT ![p] = n]
      BY <2>5, <3>1 DEF Work
    <3> QED
      BY <3>4, <3>5, <3>6 DEF Moved, Moves
  <2> QED
    BY <2>3, <2>4, <2>5
<1>8. CASE RenameFind(p)
  <2>1. job[p].at = "rename_find"
    BY <1>8 DEF RenameFind, At, Ask, AskAdmin, Browser, Begin
  <2>2. CredStep(p)
    BY <1>8 DEF CredStep
  <2>3. \/ End(p)
        \/ byName[<<job[p].user, job[p].name>>] # 0 /\ Work(p, [job[p] EXCEPT !.at = "set_name",
                     !.tok = byName[<<job[p].user, job[p].name>>]])
    BY <1>8 DEF RenameFind, At, Ask, AskAdmin, Refuse, HoldNamed
  <2>4. CASE End(p)
    BY <2>4, <2>1, <2>2, EndMoves DEF Settling
  <2>5. CASE byName[<<job[p].user, job[p].name>>] # 0 /\ Work(p, [job[p] EXCEPT !.at = "set_name",
                       !.tok = byName[<<job[p].user, job[p].name>>]])
    <3>1. PICK n : n = [job[p] EXCEPT !.at = "set_name",
                   !.tok = byName[<<job[p].user, job[p].name>>]]
      OBVIOUS
    <3>2. job[p].user \in User /\ job[p].name \in TokenName
      BY <1>0, <2>1 DEF Fits, UserFits, TokenFits
    <3>3. /\ byName[<<job[p].user, job[p].name>>] \in Token
          /\ byName[<<job[p].user, job[p].name>>] \in Toks
      BY <3>2, <2>5 DEF Typed, CredentialsTyped, Toks
    <3>4. /\ n \in Task /\ n.at = "set_name" /\ n.op = job[p].op /\ n.role = job[p].role
          /\ n.user = job[p].user /\ n.id = job[p].id /\ n.mail = job[p].mail
          /\ n.login = job[p].login /\ n.cred = job[p].cred
          /\ n.tok = byName[<<job[p].user, job[p].name>>] /\ n.gate = job[p].gate
          /\ n.was = job[p].was /\ n.epoch = job[p].epoch /\ n.dead = job[p].dead
          /\ n.toks = job[p].toks
      BY <1>0, <3>1, <3>2, <3>3, Labels, Asks DEF Task
    <3>5. Fits(n)
      BY <1>0, <3>4, <2>1, <3>2, <3>3 DEF Fits, OpFits, UserFits, IdFits, MailFits, CredFits,
        TokenFits, GateFits
    <3>6. /\ OwnDrift(job[p], n) /\ AdminDrift(job[p], n) /\ MailDrift(job[p], n)
          /\ ~ Gated(n)
      BY <1>0, <3>4, <2>1, <3>2, <3>3 DEF OwnDrift, Deep, AdminDrift, Demoting, MailDrift,
        Settling, Gated, Fits, OpFits
    <3>7. job' = [job EXCEPT ![p] = n]
      BY <2>5, <3>1 DEF Work
    <3> QED
      BY <3>5, <3>6, <3>7, <2>2 DEF Moved, Moves
  <2> QED
    BY <2>3, <2>4, <2>5
<1>9. CASE SetName(p)
  <2>1. job[p].at = "set_name"
    BY <1>9 DEF SetName, At, Ask, AskAdmin, Browser, Begin
  <2>2. Step(p, "name_token")
    BY <1>9 DEF SetName, At, Ask, AskAdmin, Refuse
  <2> QED
    BY <1>0, <2>2, <2>1, StepMoves DEF Edge
<1>10. CASE NameToken(p)
  <2>1. job[p].at = "name_token"
    BY <1>10 DEF NameToken, At, Ask, AskAdmin, Browser, Begin
  <2>2. Step(p, "drop_old")
    BY <1>10 DEF NameToken, At, Ask, AskAdmin, Refuse
  <2> QED
    BY <1>0, <2>2, <2>1, StepMoves DEF Edge
<1>11. CASE DropOld(p)
  <2>1. job[p].at = "drop_old"
    BY <1>11 DEF DropOld, At, Ask, AskAdmin, Browser, Begin
  <2>2. End(p)
    BY <1>11 DEF DropOld, At, Ask, AskAdmin, Refuse
  <2> QED
    BY <2>2, <2>1, EndMoves DEF Settling
<1>12. CASE RevokeToken(p)
  <2>1. PICK nm \in TokenName :
          Work(p, [job[p] EXCEPT !.at = "revoke_find", !.op = "revoke_token", !.name = nm,
                     !.id = job[p].user])
    BY <1>12 DEF RevokeToken
  <2>2. job[p].at = "ready"
    BY <1>12 DEF RevokeToken, At, Ask, AskAdmin, Browser, Begin
  <2>3. Work(p, [job[p] EXCEPT !.at = "revoke_find", !.op = "revoke_token", !.name = nm,
                  !.id = job[p].user])
    BY <2>1 DEF RevokeToken, At, Ask, AskAdmin, Refuse
  <2>4. PICK n : n = [job[p] EXCEPT !.at = "revoke_find", !.op = "revoke_token",
                 !.name = nm, !.id = job[p].user]
    OBVIOUS
  <2>5. nm \in Named
    BY DEF Named
  <2>6. job[p].user \in User /\ job[p].user \in Nat
    BY <1>0, <2>2 DEF Fits, UserFits, User
  <2>7. /\ n \in Task /\ n.at = "revoke_find" /\ n.op = "revoke_token" /\ n.role = job[p].role
        /\ n.user = job[p].user /\ n.id = job[p].user /\ n.mail = job[p].mail
        /\ n.login = job[p].login /\ n.cred = job[p].cred /\ n.tok = job[p].tok
        /\ n.gate = job[p].gate /\ n.was = job[p].was /\ n.epoch = job[p].epoch
        /\ n.dead = job[p].dead /\ n.toks = job[p].toks /\ n.name = nm
    BY <1>0, <2>4, <2>5, <2>6, Labels, Asks DEF Task
  <2>8. Fits(n)
    BY <1>0, <2>7, <2>2, <2>5, <2>6 DEF Fits, OpFits, UserFits, IdFits, MailFits, CredFits,
      TokenFits, GateFits
  <2>9. /\ OwnDrift(job[p], n) /\ AdminDrift(job[p], n) /\ CredDrift(job[p], n)
        /\ MailDrift(job[p], n) /\ ~ Gated(n)
    BY <1>0, <2>7, <2>2, <2>5, <2>6 DEF OwnDrift, Deep, AdminDrift, Demoting, CredDrift, Stamps,
      MailDrift, Settling, Gated, Fits, OpFits
  <2>10. job' = [job EXCEPT ![p] = n]
    BY <2>3, <2>4 DEF Work
  <2> QED
    BY <2>8, <2>9, <2>10 DEF Moved, Moves
<1>13. CASE RevokeFind(p)
  <2>1. job[p].at = "revoke_find"
    BY <1>13 DEF RevokeFind, At, Ask, AskAdmin, Browser, Begin
  <2>2. CredStep(p)
    BY <1>13 DEF CredStep
  <2>3. \/ End(p)
        \/ byName[<<job[p].user, job[p].name>>] # 0 /\ Work(p, [job[p] EXCEPT !.at = "drop_hash",
                     !.tok = byName[<<job[p].user, job[p].name>>],
                     !.name = token[byName[<<job[p].user, job[p].name>>]].name])
    BY <1>13 DEF RevokeFind, At, Ask, AskAdmin, Refuse
  <2>4. CASE End(p)
    BY <2>4, <2>1, <2>2, EndMoves DEF Settling
  <2>5. CASE byName[<<job[p].user, job[p].name>>] # 0 /\ Work(p, [job[p] EXCEPT !.at = "drop_hash",
                       !.tok = byName[<<job[p].user, job[p].name>>],
                       !.name = token[byName[<<job[p].user, job[p].name>>]].name])
    <3>1. PICK n : n = [job[p] EXCEPT !.at = "drop_hash",
                   !.tok = byName[<<job[p].user, job[p].name>>],
                   !.name = token[byName[<<job[p].user, job[p].name>>]].name]
      OBVIOUS
    <3>2. job[p].user \in User /\ job[p].name \in TokenName
      BY <1>0, <2>1 DEF Fits, UserFits, TokenFits
    <3>3. job[p].user \in User /\ job[p].id \in User
      BY <1>0, <2>1 DEF Fits, UserFits, IdFits
    <3>4. /\ byName[<<job[p].user, job[p].name>>] \in Token
          /\ byName[<<job[p].user, job[p].name>>] \in Toks
      BY <3>2, <3>3, <2>5 DEF Typed, CredentialsTyped, Toks
    <3>5. token[byName[<<job[p].user, job[p].name>>]].name \in Named
      BY <3>2, <3>3, <3>4 DEF Typed, CredentialsTyped, TokenRecord
    <3>6. /\ n \in Task /\ n.at = "drop_hash" /\ n.op = job[p].op /\ n.role = job[p].role
          /\ n.user = job[p].user /\ n.id = job[p].id /\ n.mail = job[p].mail
          /\ n.login = job[p].login /\ n.cred = job[p].cred
          /\ n.tok = byName[<<job[p].user, job[p].name>>] /\ n.gate = job[p].gate
          /\ n.was = job[p].was /\ n.epoch = job[p].epoch /\ n.dead = job[p].dead
          /\ n.toks = job[p].toks /\ n.name = token[byName[<<job[p].user, job[p].name>>]].name
      BY <1>0, <3>1, <3>2, <3>3, <3>4, <3>5, Labels, Asks DEF Task
    <3>7. Fits(n)
      BY <1>0, <3>6, <2>1, <3>2, <3>3, <3>4, <3>5 DEF Fits, OpFits, UserFits, IdFits, MailFits,
        CredFits, TokenFits, GateFits
    <3>8. /\ OwnDrift(job[p], n) /\ AdminDrift(job[p], n) /\ MailDrift(job[p], n)
          /\ ~ Gated(n)
      BY <1>0, <3>6, <2>1, <3>2, <3>3, <3>4, <3>5 DEF OwnDrift, Deep, AdminDrift, Demoting,
        MailDrift, Settling, Gated, Fits, OpFits
    <3>9. job' = [job EXCEPT ![p] = n]
      BY <2>5, <3>1 DEF Work
    <3> QED
      BY <3>7, <3>8, <3>9, <2>2 DEF Moved, Moves
  <2> QED
    BY <2>3, <2>4, <2>5
<1>14. CASE DropHash(p)
  <2>1. job[p].at = "drop_hash"
    BY <1>14 DEF DropHash, At, Ask, AskAdmin, Browser, Begin
  <2>2. CredStep(p)
    BY <1>14 DEF CredStep
  <2>3. Step(p, "drop_name")
    BY <1>14 DEF DropHash, At, Ask, AskAdmin, Refuse
  <2> QED
    BY <1>0, <2>3, <2>1, <2>2, StepMoves DEF Edge
<1>15. CASE DropName(p)
  <2>1. job[p].at = "drop_name"
    BY <1>15 DEF DropName, At, Ask, AskAdmin, Browser, Begin
  <2>2. CredStep(p)
    BY <1>15 DEF CredStep
  <2>3. Step(p, "disown")
    BY <1>15 DEF DropName, At, Ask, AskAdmin, Refuse
  <2> QED
    BY <1>0, <2>3, <2>1, <2>2, StepMoves DEF Edge
<1>16. CASE Disown(p)
  <2>1. job[p].at = "disown"
    BY <1>16 DEF Disown, At, Ask, AskAdmin, Browser, Begin
  <2>2. CredStep(p)
    BY <1>16 DEF CredStep
  <2>3. Step(p, "drop_token")
    BY <1>16 DEF Disown, At, Ask, AskAdmin, Refuse
  <2> QED
    BY <1>0, <2>3, <2>1, <2>2, StepMoves DEF Edge
<1>17. CASE DropToken(p)
  <2>1. job[p].at = "drop_token"
    BY <1>17 DEF DropToken, At, Ask, AskAdmin, Browser, Begin
  <2>2. \/ End(p)
        \/ job[p].op = "delete_user" /\ Step(p, "cascade")
    BY <1>17 DEF DropToken, At, Ask, AskAdmin, Refuse
  <2>3. CASE End(p)
    BY <2>3, <2>1, EndMoves DEF Settling
  <2>4. CASE job[p].op = "delete_user" /\ Step(p, "cascade")
    BY <1>0, <2>4, <2>1, StepMoves DEF Edge
  <2> QED
    BY <2>2, <2>3, <2>4
<1> QED
  BY <1>1, <1>2, <1>3, <1>4, <1>5, <1>6, <1>7, <1>8, <1>9, <1>10, <1>11, <1>12, <1>13, <1>14,
    <1>15, <1>16, <1>17

(* Steps that work on a route                                              *)
LEMMA RouteMoves ==
  ASSUME Typed, NEW p \in Thread,
         \/ Shown(p) \/ PatchCore(p) \/ UpdateRoute(p) \/ RouteData(p) \/ DeleteRoute(p)
         \/ \E act \in {"update_route", "delete_route", "route_data", "patch_route"} :
              BySlug(p, act)
  PROVE  Moved(p)
<1>0. TasksFit /\ Fits(job[p]) /\ job[p] \in Task
  BY DEF Typed, TasksFit, Fits
<1>1. CASE Shown(p)
  <2>1. PICK g \in Gates :
          \/ End(p)
          \/ /\ g \in Group
             /\ Work(p, [job[p] EXCEPT !.at = "done", !.op = "route", !.gate = g, !.hits = {g}])
    BY <1>1, LookupFits DEF Shown, Refuse, Routed
  <2>2. job[p].at = "ready"
    BY <1>1 DEF Shown, At, Ask, AskAdmin, Browser, Begin
  <2>3. GateStep(p)
    BY <1>1 DEF GateStep
  <2>4. \/ End(p)
        \/ g \in Group /\
             Work(p, [job[p] EXCEPT !.at = "done", !.op = "route", !.gate = g,
                        !.hits = {g}])
    BY <2>1 DEF Shown, At, Ask, AskAdmin, Refuse
  <2>5. CASE End(p)
    BY <2>5, <2>2, <2>3, EndMoves DEF Settling
  <2>6. CASE g \in Group /\
               Work(p, [job[p] EXCEPT !.at = "done", !.op = "route", !.gate = g,
                          !.hits = {g}])
    <3>1. PICK n : n = [job[p] EXCEPT !.at = "done", !.op = "route", !.gate = g, !.hits = {g}]
      OBVIOUS
    <3>2. {g} \in GroupSets
      BY <2>6 DEF GroupSets
    <3>3. /\ n \in Task /\ n.at = "done" /\ n.op = "route" /\ n.role = job[p].role
          /\ n.user = job[p].user /\ n.id = job[p].id /\ n.mail = job[p].mail
          /\ n.login = job[p].login /\ n.cred = job[p].cred /\ n.tok = job[p].tok
          /\ n.gate = g /\ n.was = job[p].was /\ n.epoch = job[p].epoch
          /\ n.dead = job[p].dead /\ n.toks = job[p].toks /\ n.hits = {g}
      BY <1>0, <3>1, <3>2, Labels, Asks DEF Task
    <3>4. Fits(n)
      BY <1>0, <3>3, <2>2, <3>2 DEF Fits, OpFits, UserFits, IdFits, MailFits, CredFits,
        TokenFits, GateFits
    <3>5. /\ OwnDrift(job[p], n) /\ AdminDrift(job[p], n) /\ CredDrift(job[p], n)
          /\ MailDrift(job[p], n)
      BY <1>0, <3>3, <2>2, <3>2 DEF OwnDrift, Deep, AdminDrift, Demoting, CredDrift, Stamps,
        MailDrift, Settling, Fits, OpFits
    <3>6. job' = [job EXCEPT ![p] = n]
      BY <2>6, <3>1 DEF Work
    <3> QED
      BY <3>4, <3>5, <3>6, <2>3 DEF Moved, Moves
  <2> QED
    BY <2>4, <2>5, <2>6
<1>2. CASE PatchCore(p)
  <2>1. PICK g \in Gates :
          \/ End(p)
          \/ Work(p, [job[p] EXCEPT !.at = "update_route", !.gate = g])
    BY <1>2, LookupFits DEF PatchCore, Refuse
  <2>2. job[p].at = "patch_route"
    BY <1>2 DEF PatchCore, At, Ask, AskAdmin, Browser, Begin
  <2>3. GateStep(p)
    BY <1>2 DEF GateStep
  <2>4. \/ End(p)
        \/ Work(p, [job[p] EXCEPT !.at = "update_route", !.gate = g])
    BY <2>1 DEF PatchCore, At, Ask, AskAdmin, Refuse
  <2>5. CASE End(p)
    BY <2>5, <2>2, <2>3, EndMoves DEF Settling
  <2>6. CASE Work(p, [job[p] EXCEPT !.at = "update_route", !.gate = g])
    <3>1. PICK n : n = [job[p] EXCEPT !.at = "update_route", !.gate = g]
      OBVIOUS
    <3>2. /\ n \in Task /\ n.at = "update_route" /\ n.op = job[p].op /\ n.role = job[p].role
          /\ n.user = job[p].user /\ n.id = job[p].id /\ n.mail = job[p].mail
          /\ n.login = job[p].login /\ n.cred = job[p].cred /\ n.tok = job[p].tok
          /\ n.gate = g /\ n.was = job[p].was /\ n.epoch = job[p].epoch
          /\ n.dead = job[p].dead /\ n.toks = job[p].toks
      BY <1>0, <3>1, Labels, Asks DEF Task
    <3>3. Fits(n)
      BY <1>0, <3>2, <2>2 DEF Fits, OpFits, UserFits, IdFits, MailFits, CredFits, TokenFits,
        GateFits
    <3>4. /\ OwnDrift(job[p], n) /\ AdminDrift(job[p], n) /\ CredDrift(job[p], n)
          /\ MailDrift(job[p], n)
      BY <1>0, <3>2, <2>2 DEF OwnDrift, Deep, AdminDrift, Demoting, CredDrift, Stamps,
        MailDrift, Settling, Fits, OpFits
    <3>5. job' = [job EXCEPT ![p] = n]
      BY <2>6, <3>1 DEF Work
    <3> QED
      BY <3>3, <3>4, <3>5, <2>3 DEF Moved, Moves
  <2> QED
    BY <2>4, <2>5, <2>6
<1>3. CASE UpdateRoute(p)
  <2>1. PICK g \in Gates :
          \/ End(p)
          \/ g \in Group /\ Work(p, [job[p] EXCEPT !.at = "done", !.hits = {g}])
    BY <1>3, LookupFits DEF UpdateRoute, Did, Routed
  <2>2. job[p].at = "update_route"
    BY <1>3 DEF UpdateRoute, At, Ask, AskAdmin, Browser, Begin
  <2>3. GateStep(p)
    BY <1>3 DEF GateStep
  <2>4. \/ End(p)
        \/ g \in Group /\ Work(p, [job[p] EXCEPT !.at = "done", !.hits = {g}])
    BY <2>1 DEF UpdateRoute, At, Ask, AskAdmin, Refuse
  <2>5. CASE End(p)
    BY <2>5, <2>2, <2>3, EndMoves DEF Settling
  <2>6. CASE g \in Group /\ Work(p, [job[p] EXCEPT !.at = "done", !.hits = {g}])
    <3>1. PICK n : n = [job[p] EXCEPT !.at = "done", !.hits = {g}]
      OBVIOUS
    <3>2. {g} \in GroupSets
      BY <2>6 DEF GroupSets
    <3>3. /\ n \in Task /\ n.at = "done" /\ n.op = job[p].op /\ n.role = job[p].role
          /\ n.user = job[p].user /\ n.id = job[p].id /\ n.mail = job[p].mail
          /\ n.login = job[p].login /\ n.cred = job[p].cred /\ n.tok = job[p].tok
          /\ n.gate = job[p].gate /\ n.was = job[p].was /\ n.epoch = job[p].epoch
          /\ n.dead = job[p].dead /\ n.toks = job[p].toks /\ n.hits = {g}
      BY <1>0, <3>1, <3>2, Labels, Asks DEF Task
    <3>4. Fits(n)
      BY <1>0, <3>3, <2>2, <3>2 DEF Fits, OpFits, UserFits, IdFits, MailFits, CredFits,
        TokenFits, GateFits
    <3>5. /\ OwnDrift(job[p], n) /\ AdminDrift(job[p], n) /\ CredDrift(job[p], n)
          /\ MailDrift(job[p], n)
      BY <1>0, <3>3, <2>2, <3>2 DEF OwnDrift, Deep, AdminDrift, Demoting, CredDrift, Stamps,
        MailDrift, Settling, Fits, OpFits
    <3>6. job' = [job EXCEPT ![p] = n]
      BY <2>6, <3>1 DEF Work
    <3> QED
      BY <3>4, <3>5, <3>6, <2>3 DEF Moved, Moves
  <2> QED
    BY <2>4, <2>5, <2>6
<1>4. CASE RouteData(p)
  <2>1. PICK g \in Gates :
          \/ End(p)
          \/ g \in Group /\ Work(p, [job[p] EXCEPT !.at = "done", !.hits = {g}])
    BY <1>4, LookupFits DEF RouteData, Did, Routed
  <2>2. job[p].at = "route_data"
    BY <1>4 DEF RouteData, At, Ask, AskAdmin, Browser, Begin
  <2>3. GateStep(p)
    BY <1>4 DEF GateStep
  <2>4. \/ End(p)
        \/ g \in Group /\ Work(p, [job[p] EXCEPT !.at = "done", !.hits = {g}])
    BY <2>1 DEF RouteData, At, Ask, AskAdmin, Refuse
  <2>5. CASE End(p)
    BY <2>5, <2>2, <2>3, EndMoves DEF Settling
  <2>6. CASE g \in Group /\ Work(p, [job[p] EXCEPT !.at = "done", !.hits = {g}])
    <3>1. PICK n : n = [job[p] EXCEPT !.at = "done", !.hits = {g}]
      OBVIOUS
    <3>2. {g} \in GroupSets
      BY <2>6 DEF GroupSets
    <3>3. /\ n \in Task /\ n.at = "done" /\ n.op = job[p].op /\ n.role = job[p].role
          /\ n.user = job[p].user /\ n.id = job[p].id /\ n.mail = job[p].mail
          /\ n.login = job[p].login /\ n.cred = job[p].cred /\ n.tok = job[p].tok
          /\ n.gate = job[p].gate /\ n.was = job[p].was /\ n.epoch = job[p].epoch
          /\ n.dead = job[p].dead /\ n.toks = job[p].toks /\ n.hits = {g}
      BY <1>0, <3>1, <3>2, Labels, Asks DEF Task
    <3>4. Fits(n)
      BY <1>0, <3>3, <2>2, <3>2 DEF Fits, OpFits, UserFits, IdFits, MailFits, CredFits,
        TokenFits, GateFits
    <3>5. /\ OwnDrift(job[p], n) /\ AdminDrift(job[p], n) /\ CredDrift(job[p], n)
          /\ MailDrift(job[p], n)
      BY <1>0, <3>3, <2>2, <3>2 DEF OwnDrift, Deep, AdminDrift, Demoting, CredDrift, Stamps,
        MailDrift, Settling, Fits, OpFits
    <3>6. job' = [job EXCEPT ![p] = n]
      BY <2>6, <3>1 DEF Work
    <3> QED
      BY <3>4, <3>5, <3>6, <2>3 DEF Moved, Moves
  <2> QED
    BY <2>4, <2>5, <2>6
<1>5. CASE DeleteRoute(p)
  <2>1. PICK g \in Gates :
          \/ End(p)
          \/ g \in Group /\ Work(p, [job[p] EXCEPT !.at = "done", !.hits = {g}])
    BY <1>5, LookupFits DEF DeleteRoute, Did, Routed
  <2>2. job[p].at = "delete_route"
    BY <1>5 DEF DeleteRoute, At, Ask, AskAdmin, Browser, Begin
  <2>3. GateStep(p)
    BY <1>5 DEF GateStep
  <2>4. \/ End(p)
        \/ g \in Group /\ Work(p, [job[p] EXCEPT !.at = "done", !.hits = {g}])
    BY <2>1 DEF DeleteRoute, At, Ask, AskAdmin, Refuse
  <2>5. CASE End(p)
    BY <2>5, <2>2, <2>3, EndMoves DEF Settling
  <2>6. CASE g \in Group /\ Work(p, [job[p] EXCEPT !.at = "done", !.hits = {g}])
    <3>1. PICK n : n = [job[p] EXCEPT !.at = "done", !.hits = {g}]
      OBVIOUS
    <3>2. {g} \in GroupSets
      BY <2>6 DEF GroupSets
    <3>3. /\ n \in Task /\ n.at = "done" /\ n.op = job[p].op /\ n.role = job[p].role
          /\ n.user = job[p].user /\ n.id = job[p].id /\ n.mail = job[p].mail
          /\ n.login = job[p].login /\ n.cred = job[p].cred /\ n.tok = job[p].tok
          /\ n.gate = job[p].gate /\ n.was = job[p].was /\ n.epoch = job[p].epoch
          /\ n.dead = job[p].dead /\ n.toks = job[p].toks /\ n.hits = {g}
      BY <1>0, <3>1, <3>2, Labels, Asks DEF Task
    <3>4. Fits(n)
      BY <1>0, <3>3, <2>2, <3>2 DEF Fits, OpFits, UserFits, IdFits, MailFits, CredFits,
        TokenFits, GateFits
    <3>5. /\ OwnDrift(job[p], n) /\ AdminDrift(job[p], n) /\ CredDrift(job[p], n)
          /\ MailDrift(job[p], n)
      BY <1>0, <3>3, <2>2, <3>2 DEF OwnDrift, Deep, AdminDrift, Demoting, CredDrift, Stamps,
        MailDrift, Settling, Fits, OpFits
    <3>6. job' = [job EXCEPT ![p] = n]
      BY <2>6, <3>1 DEF Work
    <3> QED
      BY <3>4, <3>5, <3>6, <2>3 DEF Moved, Moves
  <2> QED
    BY <2>4, <2>5, <2>6
<1>6. CASE \E act \in {"update_route", "delete_route", "route_data", "patch_route"} : BySlug(p, act)
  <2>1. PICK act \in {"update_route", "delete_route", "route_data", "patch_route"} :
          BySlug(p, act)
    BY <1>6
  <2>2. job[p].at = "ready" /\ GateStep(p)
    BY <2>1 DEF BySlug, Ask, At, GateStep
  <2>3. PICK nm \in Named, g \in Gates :
          \/ End(p)
          \/ Work(p, [job[p] EXCEPT !.at = act, !.op = "route", !.name = nm, !.gate = g])
    BY <2>1, LookupFits DEF BySlug, Refuse, Named
  <2>4. CASE End(p)
    BY <2>4, <2>2, EndMoves DEF Settling
  <2>5. CASE Work(p, [job[p] EXCEPT !.at = act, !.op = "route", !.name = nm, !.gate = g])
    <3>1. PICK n : n = [job[p] EXCEPT !.at = act, !.op = "route", !.name = nm, !.gate = g]
      OBVIOUS
    <3>2. /\ n \in Task /\ n.at = act /\ n.op = "route" /\ n.role = job[p].role
          /\ n.user = job[p].user /\ n.id = job[p].id /\ n.mail = job[p].mail
          /\ n.login = job[p].login /\ n.cred = job[p].cred /\ n.tok = job[p].tok
          /\ n.gate = g /\ n.was = job[p].was /\ n.epoch = job[p].epoch
          /\ n.dead = job[p].dead /\ n.toks = job[p].toks
      BY <1>0, <3>1, Labels, Asks DEF Task
    <3>3. Fits(n)
      BY <1>0, <3>2, <2>2 DEF Fits, OpFits, UserFits, IdFits, MailFits, CredFits, TokenFits,
        GateFits
    <3>4. /\ OwnDrift(job[p], n) /\ AdminDrift(job[p], n) /\ CredDrift(job[p], n)
          /\ MailDrift(job[p], n)
      BY <1>0, <3>2, <2>2 DEF OwnDrift, Deep, AdminDrift, Demoting, CredDrift, Stamps,
        MailDrift, Settling, Fits, OpFits
    <3>5. job' = [job EXCEPT ![p] = n]
      BY <2>5, <3>1 DEF Work
    <3> QED
      BY <3>3, <3>4, <3>5, <2>2 DEF Moved, Moves
  <2> QED
    BY <2>3, <2>4, <2>5
<1> QED
  BY <1>1, <1>2, <1>3, <1>4, <1>5, <1>6

(* Steps that work on a group                                              *)
LEMMA GroupMoves ==
  ASSUME Typed, NEW p \in Thread,
         \/ Journal(p) \/ Unmatched(p) \/ ShownGroup(p) \/ Probing(p) \/ ListGroups(p)
         \/ ListRoutes(p) \/ Probe(p) \/ GroupData(p) \/ Rename(p) \/ Drop(p)
         \/ \E act \in {"rename", "group_data", "drop"} : ByRef(p, act)
  PROVE  Moved(p)
<1>0. TasksFit /\ Fits(job[p]) /\ job[p] \in Task
  BY DEF Typed, TasksFit, Fits
<1>1. CASE Journal(p)
  <2>1. PICK g \in Gates :
          \/ End(p)
          \/ /\ g \in Group
             /\ Work(p, [job[p] EXCEPT !.at = "group_data", !.op = "journal", !.gate = g])
    BY <1>1, LookupFits DEF Journal, Refuse
  <2>2. job[p].at = "ready"
    BY <1>1 DEF Journal, At, Ask, AskAdmin, Browser, Begin
  <2>3. GateStep(p)
    BY <1>1 DEF GateStep
  <2>4. \/ End(p)
        \/ g \in Group /\
             Work(p, [job[p] EXCEPT !.at = "group_data", !.op = "journal", !.gate = g])
    BY <2>1 DEF Journal, At, Ask, AskAdmin, Refuse
  <2>5. CASE End(p)
    BY <2>5, <2>2, <2>3, EndMoves DEF Settling
  <2>6. CASE g \in Group /\
               Work(p, [job[p] EXCEPT !.at = "group_data", !.op = "journal", !.gate = g])
    <3>1. PICK n : n = [job[p] EXCEPT !.at = "group_data", !.op = "journal", !.gate = g]
      OBVIOUS
    <3>2. /\ n \in Task /\ n.at = "group_data" /\ n.op = "journal" /\ n.role = job[p].role
          /\ n.user = job[p].user /\ n.id = job[p].id /\ n.mail = job[p].mail
          /\ n.login = job[p].login /\ n.cred = job[p].cred /\ n.tok = job[p].tok
          /\ n.gate = g /\ n.was = job[p].was /\ n.epoch = job[p].epoch
          /\ n.dead = job[p].dead /\ n.toks = job[p].toks
      BY <1>0, <3>1, Labels, Asks DEF Task
    <3>3. Fits(n)
      BY <1>0, <3>2, <2>2, <2>6 DEF Fits, OpFits, UserFits, IdFits, MailFits, CredFits,
        TokenFits, GateFits
    <3>4. /\ OwnDrift(job[p], n) /\ AdminDrift(job[p], n) /\ CredDrift(job[p], n)
          /\ MailDrift(job[p], n)
      BY <1>0, <3>2, <2>2, <2>6 DEF OwnDrift, Deep, AdminDrift, Demoting, CredDrift, Stamps,
        MailDrift, Settling, Fits, OpFits
    <3>5. job' = [job EXCEPT ![p] = n]
      BY <2>6, <3>1 DEF Work
    <3> QED
      BY <3>3, <3>4, <3>5, <2>3 DEF Moved, Moves
  <2> QED
    BY <2>4, <2>5, <2>6
<1>2. CASE Unmatched(p)
  <2>1. PICK g \in Gates :
          \/ End(p)
          \/ /\ g \in Group
             /\ Work(p, [job[p] EXCEPT !.at = "done", !.op = "group", !.gate = g, !.hits = {g}])
    BY <1>2, LookupFits DEF Unmatched, Refuse, Gates
  <2>2. job[p].at = "ready"
    BY <1>2 DEF Unmatched, At, Ask, AskAdmin, Browser, Begin
  <2>3. GateStep(p)
    BY <1>2 DEF GateStep
  <2>4. \/ End(p)
        \/ g \in Group /\
             Work(p, [job[p] EXCEPT !.at = "done", !.op = "group", !.gate = g,
                        !.hits = {g}])
    BY <2>1 DEF Unmatched, At, Ask, AskAdmin, Refuse
  <2>5. CASE End(p)
    BY <2>5, <2>2, <2>3, EndMoves DEF Settling
  <2>6. CASE g \in Group /\
               Work(p, [job[p] EXCEPT !.at = "done", !.op = "group", !.gate = g,
                          !.hits = {g}])
    <3>1. PICK n : n = [job[p] EXCEPT !.at = "done", !.op = "group", !.gate = g, !.hits = {g}]
      OBVIOUS
    <3>2. {g} \in GroupSets /\ g \in Gates
      BY <2>6 DEF GroupSets, Gates
    <3>3. /\ n \in Task /\ n.at = "done" /\ n.op = "group" /\ n.role = job[p].role
          /\ n.user = job[p].user /\ n.id = job[p].id /\ n.mail = job[p].mail
          /\ n.login = job[p].login /\ n.cred = job[p].cred /\ n.tok = job[p].tok
          /\ n.gate = g /\ n.was = job[p].was /\ n.epoch = job[p].epoch
          /\ n.dead = job[p].dead /\ n.toks = job[p].toks /\ n.hits = {g}
      BY <1>0, <3>1, <3>2, Labels, Asks DEF Task
    <3>4. Fits(n)
      BY <1>0, <3>3, <2>2, <3>2 DEF Fits, OpFits, UserFits, IdFits, MailFits, CredFits,
        TokenFits, GateFits
    <3>5. /\ OwnDrift(job[p], n) /\ AdminDrift(job[p], n) /\ CredDrift(job[p], n)
          /\ MailDrift(job[p], n)
      BY <1>0, <3>3, <2>2, <3>2 DEF OwnDrift, Deep, AdminDrift, Demoting, CredDrift, Stamps,
        MailDrift, Settling, Fits, OpFits
    <3>6. job' = [job EXCEPT ![p] = n]
      BY <2>6, <3>1 DEF Work
    <3> QED
      BY <3>4, <3>5, <3>6, <2>3 DEF Moved, Moves
  <2> QED
    BY <2>4, <2>5, <2>6
<1>3. CASE ShownGroup(p)
  <2>1. PICK g \in Gates :
          \/ End(p)
          \/ /\ g \in Group
             /\ Work(p, [job[p] EXCEPT !.at = "done", !.op = "group", !.gate = g, !.hits = {g}])
    BY <1>3, LookupFits DEF ShownGroup, Refuse, Gates
  <2>2. job[p].at = "ready"
    BY <1>3 DEF ShownGroup, At, Ask, AskAdmin, Browser, Begin
  <2>3. GateStep(p)
    BY <1>3 DEF GateStep
  <2>4. \/ End(p)
        \/ g \in Group /\
             Work(p, [job[p] EXCEPT !.at = "done", !.op = "group", !.gate = g,
                        !.hits = {g}])
    BY <2>1 DEF ShownGroup, At, Ask, AskAdmin, Refuse
  <2>5. CASE End(p)
    BY <2>5, <2>2, <2>3, EndMoves DEF Settling
  <2>6. CASE g \in Group /\
               Work(p, [job[p] EXCEPT !.at = "done", !.op = "group", !.gate = g,
                          !.hits = {g}])
    <3>1. PICK n : n = [job[p] EXCEPT !.at = "done", !.op = "group", !.gate = g, !.hits = {g}]
      OBVIOUS
    <3>2. {g} \in GroupSets /\ g \in Gates
      BY <2>6 DEF GroupSets, Gates
    <3>3. /\ n \in Task /\ n.at = "done" /\ n.op = "group" /\ n.role = job[p].role
          /\ n.user = job[p].user /\ n.id = job[p].id /\ n.mail = job[p].mail
          /\ n.login = job[p].login /\ n.cred = job[p].cred /\ n.tok = job[p].tok
          /\ n.gate = g /\ n.was = job[p].was /\ n.epoch = job[p].epoch
          /\ n.dead = job[p].dead /\ n.toks = job[p].toks /\ n.hits = {g}
      BY <1>0, <3>1, <3>2, Labels, Asks DEF Task
    <3>4. Fits(n)
      BY <1>0, <3>3, <2>2, <3>2 DEF Fits, OpFits, UserFits, IdFits, MailFits, CredFits,
        TokenFits, GateFits
    <3>5. /\ OwnDrift(job[p], n) /\ AdminDrift(job[p], n) /\ CredDrift(job[p], n)
          /\ MailDrift(job[p], n)
      BY <1>0, <3>3, <2>2, <3>2 DEF OwnDrift, Deep, AdminDrift, Demoting, CredDrift, Stamps,
        MailDrift, Settling, Fits, OpFits
    <3>6. job' = [job EXCEPT ![p] = n]
      BY <2>6, <3>1 DEF Work
    <3> QED
      BY <3>4, <3>5, <3>6, <2>3 DEF Moved, Moves
  <2> QED
    BY <2>4, <2>5, <2>6
<1>4. CASE Probing(p)
  <2>1. PICK nm \in Name, g \in Gates :
          \/ End(p)
          \/ Work(p, [job[p] EXCEPT !.at = "probe", !.op = "probe", !.name = nm, !.gate = g])
    BY <1>4, LookupFits DEF Probing, Refuse
  <2>2. job[p].at = "ready"
    BY <1>4 DEF Probing, At, Ask, AskAdmin, Browser, Begin
  <2>3. GateStep(p)
    BY <1>4 DEF GateStep
  <2>4. \/ End(p)
        \/ Work(p, [job[p] EXCEPT !.at = "probe", !.op = "probe", !.name = nm, !.gate = g])
    BY <2>1 DEF Probing, At, Ask, AskAdmin, Refuse
  <2>5. CASE End(p)
    BY <2>5, <2>2, <2>3, EndMoves DEF Settling
  <2>6. CASE Work(p, [job[p] EXCEPT !.at = "probe", !.op = "probe", !.name = nm, !.gate = g])
    <3>1. PICK n : n = [job[p] EXCEPT !.at = "probe", !.op = "probe", !.name = nm, !.gate = g]
      OBVIOUS
    <3>2. nm \in Named
      BY DEF Named
    <3>3. /\ n \in Task /\ n.at = "probe" /\ n.op = "probe" /\ n.role = job[p].role
          /\ n.user = job[p].user /\ n.id = job[p].id /\ n.mail = job[p].mail
          /\ n.login = job[p].login /\ n.cred = job[p].cred /\ n.tok = job[p].tok
          /\ n.gate = g /\ n.was = job[p].was /\ n.epoch = job[p].epoch
          /\ n.dead = job[p].dead /\ n.toks = job[p].toks /\ n.name = nm
      BY <1>0, <3>1, <3>2, Labels, Asks DEF Task
    <3>4. Fits(n)
      BY <1>0, <3>3, <2>2, <3>2 DEF Fits, OpFits, UserFits, IdFits, MailFits, CredFits,
        TokenFits, GateFits
    <3>5. /\ OwnDrift(job[p], n) /\ AdminDrift(job[p], n) /\ CredDrift(job[p], n)
          /\ MailDrift(job[p], n)
      BY <1>0, <3>3, <2>2, <3>2 DEF OwnDrift, Deep, AdminDrift, Demoting, CredDrift, Stamps,
        MailDrift, Settling, Fits, OpFits
    <3>6. job' = [job EXCEPT ![p] = n]
      BY <2>6, <3>1 DEF Work
    <3> QED
      BY <3>4, <3>5, <3>6, <2>3 DEF Moved, Moves
  <2> QED
    BY <2>4, <2>5, <2>6
<1>5. CASE ListGroups(p)
  <2>1. PICK gs : gs = {g \in Group : group[g].live /\ May(p, group[g].owner)}
    OBVIOUS
  <2>2. gs \in GroupSets
    BY <2>1 DEF GroupSets
  <2>3. Work(p, [job[p] EXCEPT !.at = "done", !.op = "groups", !.hits = gs])
    BY <1>5, <2>1 DEF ListGroups
  <2>4. job[p].at = "ready"
    BY <1>5 DEF ListGroups, At, Ask, AskAdmin, Browser, Begin
  <2>5. GateStep(p)
    BY <1>5 DEF GateStep
  <2>6. Work(p, [job[p] EXCEPT !.at = "done", !.op = "groups", !.hits = gs])
    BY <2>1, <2>2, <2>3 DEF ListGroups, At, Ask, AskAdmin, Refuse
  <2>7. PICK n : n = [job[p] EXCEPT !.at = "done", !.op = "groups", !.hits = gs]
    OBVIOUS
  <2>8. gs \in GroupSets
    BY <2>2
  <2>9. /\ n \in Task /\ n.at = "done" /\ n.op = "groups" /\ n.role = job[p].role
        /\ n.user = job[p].user /\ n.id = job[p].id /\ n.mail = job[p].mail
        /\ n.login = job[p].login /\ n.cred = job[p].cred /\ n.tok = job[p].tok
        /\ n.gate = job[p].gate /\ n.was = job[p].was /\ n.epoch = job[p].epoch
        /\ n.dead = job[p].dead /\ n.toks = job[p].toks /\ n.hits = gs
    BY <1>0, <2>7, <2>8, Labels, Asks DEF Task
  <2>10. Fits(n)
    BY <1>0, <2>9, <2>4, <2>8 DEF Fits, OpFits, UserFits, IdFits, MailFits, CredFits, TokenFits,
      GateFits
  <2>11. /\ OwnDrift(job[p], n) /\ AdminDrift(job[p], n) /\ CredDrift(job[p], n)
         /\ MailDrift(job[p], n)
    BY <1>0, <2>9, <2>4, <2>8 DEF OwnDrift, Deep, AdminDrift, Demoting, CredDrift, Stamps,
      MailDrift, Settling, Fits, OpFits
  <2>12. job' = [job EXCEPT ![p] = n]
    BY <2>6, <2>7 DEF Work
  <2> QED
    BY <2>10, <2>11, <2>12, <2>5 DEF Moved, Moves
<1>6. CASE ListRoutes(p)
  <2>1. PICK gs : gs = {g \in Group : Routed(g) /\ May(p, group[g].maker)}
    OBVIOUS
  <2>2. gs \in GroupSets
    BY <2>1 DEF GroupSets
  <2>3. Work(p, [job[p] EXCEPT !.at = "done", !.op = "routes", !.hits = gs])
    BY <1>6, <2>1 DEF ListRoutes
  <2>4. job[p].at = "ready"
    BY <1>6 DEF ListRoutes, At, Ask, AskAdmin, Browser, Begin
  <2>5. GateStep(p)
    BY <1>6 DEF GateStep
  <2>6. Work(p, [job[p] EXCEPT !.at = "done", !.op = "routes", !.hits = gs])
    BY <2>1, <2>2, <2>3 DEF ListRoutes, At, Ask, AskAdmin, Refuse
  <2>7. PICK n : n = [job[p] EXCEPT !.at = "done", !.op = "routes", !.hits = gs]
    OBVIOUS
  <2>8. gs \in GroupSets
    BY <2>2
  <2>9. /\ n \in Task /\ n.at = "done" /\ n.op = "routes" /\ n.role = job[p].role
        /\ n.user = job[p].user /\ n.id = job[p].id /\ n.mail = job[p].mail
        /\ n.login = job[p].login /\ n.cred = job[p].cred /\ n.tok = job[p].tok
        /\ n.gate = job[p].gate /\ n.was = job[p].was /\ n.epoch = job[p].epoch
        /\ n.dead = job[p].dead /\ n.toks = job[p].toks /\ n.hits = gs
    BY <1>0, <2>7, <2>8, Labels, Asks DEF Task
  <2>10. Fits(n)
    BY <1>0, <2>9, <2>4, <2>8 DEF Fits, OpFits, UserFits, IdFits, MailFits, CredFits, TokenFits,
      GateFits
  <2>11. /\ OwnDrift(job[p], n) /\ AdminDrift(job[p], n) /\ CredDrift(job[p], n)
         /\ MailDrift(job[p], n)
    BY <1>0, <2>9, <2>4, <2>8 DEF OwnDrift, Deep, AdminDrift, Demoting, CredDrift, Stamps,
      MailDrift, Settling, Fits, OpFits
  <2>12. job' = [job EXCEPT ![p] = n]
    BY <2>6, <2>7 DEF Work
  <2> QED
    BY <2>10, <2>11, <2>12, <2>5 DEF Moved, Moves
<1>7. CASE Probe(p)
  <2>1. PICK gs : gs = {Lookup(job[p].name)} \ {0}
    OBVIOUS
  <2>2. gs \in GroupSets
    BY <2>1, LookupFits DEF GroupSets
  <2>3. Work(p, [job[p] EXCEPT !.at = "done", !.hits = gs])
    BY <1>7, <2>1 DEF Probe, Did
  <2>4. job[p].at = "probe"
    BY <1>7 DEF Probe, At, Ask, AskAdmin, Browser, Begin
  <2>5. GateStep(p)
    BY <1>7 DEF GateStep
  <2>6. Work(p, [job[p] EXCEPT !.at = "done", !.hits = gs])
    BY <2>1, <2>2, <2>3 DEF Probe, At, Ask, AskAdmin, Refuse
  <2>7. PICK n : n = [job[p] EXCEPT !.at = "done", !.hits = gs]
    OBVIOUS
  <2>8. gs \in GroupSets
    BY <2>2
  <2>9. /\ n \in Task /\ n.at = "done" /\ n.op = job[p].op /\ n.role = job[p].role
        /\ n.user = job[p].user /\ n.id = job[p].id /\ n.mail = job[p].mail
        /\ n.login = job[p].login /\ n.cred = job[p].cred /\ n.tok = job[p].tok
        /\ n.gate = job[p].gate /\ n.was = job[p].was /\ n.epoch = job[p].epoch
        /\ n.dead = job[p].dead /\ n.toks = job[p].toks /\ n.hits = gs
    BY <1>0, <2>7, <2>8, Labels, Asks DEF Task
  <2>10. Fits(n)
    BY <1>0, <2>9, <2>4, <2>8 DEF Fits, OpFits, UserFits, IdFits, MailFits, CredFits, TokenFits,
      GateFits
  <2>11. /\ OwnDrift(job[p], n) /\ AdminDrift(job[p], n) /\ CredDrift(job[p], n)
         /\ MailDrift(job[p], n)
    BY <1>0, <2>9, <2>4, <2>8 DEF OwnDrift, Deep, AdminDrift, Demoting, CredDrift, Stamps,
      MailDrift, Settling, Fits, OpFits
  <2>12. job' = [job EXCEPT ![p] = n]
    BY <2>6, <2>7 DEF Work
  <2> QED
    BY <2>10, <2>11, <2>12, <2>5 DEF Moved, Moves
<1>8. CASE GroupData(p)
  <2>1. PICK g : g = job[p].gate
    OBVIOUS
  <2>2. g \in Group
    BY <1>8, <1>0, <2>1 DEF Fits, GateFits, At, GroupData
  <2>3. End(p) \/ Work(p, [job[p] EXCEPT !.at = "done", !.hits = {g}])
    BY <1>8, <2>1 DEF Did, GroupData
  <2>4. job[p].at = "group_data"
    BY <1>8 DEF GroupData, At, Ask, AskAdmin, Browser, Begin
  <2>5. GateStep(p)
    BY <1>8 DEF GateStep
  <2>6. \/ End(p)
        \/ g \in Group /\ Work(p, [job[p] EXCEPT !.at = "done", !.hits = {g}])
    BY <2>1, <2>2, <2>3 DEF GroupData, At, Ask, AskAdmin, Refuse
  <2>7. CASE End(p)
    BY <2>7, <2>4, <2>5, EndMoves DEF Settling
  <2>8. CASE g \in Group /\ Work(p, [job[p] EXCEPT !.at = "done", !.hits = {g}])
    <3>1. PICK n : n = [job[p] EXCEPT !.at = "done", !.hits = {g}]
      OBVIOUS
    <3>2. {g} \in GroupSets
      BY <2>8 DEF GroupSets
    <3>3. /\ n \in Task /\ n.at = "done" /\ n.op = job[p].op /\ n.role = job[p].role
          /\ n.user = job[p].user /\ n.id = job[p].id /\ n.mail = job[p].mail
          /\ n.login = job[p].login /\ n.cred = job[p].cred /\ n.tok = job[p].tok
          /\ n.gate = job[p].gate /\ n.was = job[p].was /\ n.epoch = job[p].epoch
          /\ n.dead = job[p].dead /\ n.toks = job[p].toks /\ n.hits = {g}
      BY <1>0, <3>1, <3>2, Labels, Asks DEF Task
    <3>4. Fits(n)
      BY <1>0, <3>3, <2>4, <3>2 DEF Fits, OpFits, UserFits, IdFits, MailFits, CredFits,
        TokenFits, GateFits
    <3>5. /\ OwnDrift(job[p], n) /\ AdminDrift(job[p], n) /\ CredDrift(job[p], n)
          /\ MailDrift(job[p], n)
      BY <1>0, <3>3, <2>4, <3>2 DEF OwnDrift, Deep, AdminDrift, Demoting, CredDrift, Stamps,
        MailDrift, Settling, Fits, OpFits
    <3>6. job' = [job EXCEPT ![p] = n]
      BY <2>8, <3>1 DEF Work
    <3> QED
      BY <3>4, <3>5, <3>6, <2>5 DEF Moved, Moves
  <2> QED
    BY <2>6, <2>7, <2>8
<1>9. CASE Rename(p)
  <2>1. PICK g : g = job[p].gate
    OBVIOUS
  <2>2. g \in Group
    BY <1>9, <1>0, <2>1 DEF Fits, GateFits, At, Rename
  <2>3. \/ End(p) \/ Step(p, "group_data")
       \/ Work(p, [job[p] EXCEPT !.at = "done", !.hits = {g}])
    BY <1>9, <2>1 DEF Did, Rename
  <2>4. job[p].at = "rename"
    BY <1>9 DEF Rename, At, Ask, AskAdmin, Browser, Begin
  <2>5. GateStep(p)
    BY <1>9 DEF GateStep
  <2>6. \/ End(p)
        \/ g \in Group /\ Work(p, [job[p] EXCEPT !.at = "done", !.hits = {g}])
        \/ Step(p, "group_data")
    BY <2>1, <2>2, <2>3 DEF Rename, At, Ask, AskAdmin, Refuse
  <2>7. CASE End(p)
    BY <2>7, <2>4, <2>5, EndMoves DEF Settling
  <2>8. CASE g \in Group /\ Work(p, [job[p] EXCEPT !.at = "done", !.hits = {g}])
    <3>1. PICK n : n = [job[p] EXCEPT !.at = "done", !.hits = {g}]
      OBVIOUS
    <3>2. {g} \in GroupSets
      BY <2>8 DEF GroupSets
    <3>3. /\ n \in Task /\ n.at = "done" /\ n.op = job[p].op /\ n.role = job[p].role
          /\ n.user = job[p].user /\ n.id = job[p].id /\ n.mail = job[p].mail
          /\ n.login = job[p].login /\ n.cred = job[p].cred /\ n.tok = job[p].tok
          /\ n.gate = job[p].gate /\ n.was = job[p].was /\ n.epoch = job[p].epoch
          /\ n.dead = job[p].dead /\ n.toks = job[p].toks /\ n.hits = {g}
      BY <1>0, <3>1, <3>2, Labels, Asks DEF Task
    <3>4. Fits(n)
      BY <1>0, <3>3, <2>4, <3>2 DEF Fits, OpFits, UserFits, IdFits, MailFits, CredFits,
        TokenFits, GateFits
    <3>5. /\ OwnDrift(job[p], n) /\ AdminDrift(job[p], n) /\ CredDrift(job[p], n)
          /\ MailDrift(job[p], n)
      BY <1>0, <3>3, <2>4, <3>2 DEF OwnDrift, Deep, AdminDrift, Demoting, CredDrift, Stamps,
        MailDrift, Settling, Fits, OpFits
    <3>6. job' = [job EXCEPT ![p] = n]
      BY <2>8, <3>1 DEF Work
    <3> QED
      BY <3>4, <3>5, <3>6, <2>5 DEF Moved, Moves
  <2>9. CASE Step(p, "group_data")
    BY <1>0, <2>9, <2>4, <2>5, StepMoves DEF Edge
  <2> QED
    BY <2>6, <2>7, <2>8, <2>9
<1>10. CASE Drop(p)
  <2>1. PICK g : g = job[p].gate
    OBVIOUS
  <2>2. g \in Group
    BY <1>10, <1>0, <2>1 DEF Fits, GateFits, At, Drop
  <2>3. End(p) \/ Work(p, [job[p] EXCEPT !.at = "done", !.hits = {g}])
    BY <1>10, <2>1 DEF Did, Drop
  <2>4. job[p].at = "drop"
    BY <1>10 DEF Drop, At, Ask, AskAdmin, Browser, Begin
  <2>5. GateStep(p)
    BY <1>10 DEF GateStep
  <2>6. \/ End(p)
        \/ g \in Group /\ Work(p, [job[p] EXCEPT !.at = "done", !.hits = {g}])
    BY <2>1, <2>2, <2>3 DEF Drop, At, Ask, AskAdmin, Refuse
  <2>7. CASE End(p)
    BY <2>7, <2>4, <2>5, EndMoves DEF Settling
  <2>8. CASE g \in Group /\ Work(p, [job[p] EXCEPT !.at = "done", !.hits = {g}])
    <3>1. PICK n : n = [job[p] EXCEPT !.at = "done", !.hits = {g}]
      OBVIOUS
    <3>2. {g} \in GroupSets
      BY <2>8 DEF GroupSets
    <3>3. /\ n \in Task /\ n.at = "done" /\ n.op = job[p].op /\ n.role = job[p].role
          /\ n.user = job[p].user /\ n.id = job[p].id /\ n.mail = job[p].mail
          /\ n.login = job[p].login /\ n.cred = job[p].cred /\ n.tok = job[p].tok
          /\ n.gate = job[p].gate /\ n.was = job[p].was /\ n.epoch = job[p].epoch
          /\ n.dead = job[p].dead /\ n.toks = job[p].toks /\ n.hits = {g}
      BY <1>0, <3>1, <3>2, Labels, Asks DEF Task
    <3>4. Fits(n)
      BY <1>0, <3>3, <2>4, <3>2 DEF Fits, OpFits, UserFits, IdFits, MailFits, CredFits,
        TokenFits, GateFits
    <3>5. /\ OwnDrift(job[p], n) /\ AdminDrift(job[p], n) /\ CredDrift(job[p], n)
          /\ MailDrift(job[p], n)
      BY <1>0, <3>3, <2>4, <3>2 DEF OwnDrift, Deep, AdminDrift, Demoting, CredDrift, Stamps,
        MailDrift, Settling, Fits, OpFits
    <3>6. job' = [job EXCEPT ![p] = n]
      BY <2>8, <3>1 DEF Work
    <3> QED
      BY <3>4, <3>5, <3>6, <2>5 DEF Moved, Moves
  <2> QED
    BY <2>6, <2>7, <2>8
<1>11. CASE \E act \in {"rename", "group_data", "drop"} : ByRef(p, act)
  <2>1. PICK act \in {"rename", "group_data", "drop"} :
          ByRef(p, act)
    BY <1>11
  <2>2. job[p].at = "ready" /\ GateStep(p)
    BY <2>1 DEF ByRef, Ask, At, GateStep
  <2>3. PICK g \in Gates :
          \/ End(p)
          \/ g \in Group /\ Work(p, [job[p] EXCEPT !.at = act, !.op = "group", !.gate = g])
    BY <2>1, LookupFits DEF ByRef, Refuse
  <2>4. CASE End(p)
    BY <2>4, <2>2, EndMoves DEF Settling
  <2>5. CASE g \in Group /\ Work(p, [job[p] EXCEPT !.at = act, !.op = "group", !.gate = g])
    <3>1. PICK n : n = [job[p] EXCEPT !.at = act, !.op = "group", !.gate = g]
      OBVIOUS
    <3>2. /\ n \in Task /\ n.at = act /\ n.op = "group" /\ n.role = job[p].role
          /\ n.user = job[p].user /\ n.id = job[p].id /\ n.mail = job[p].mail
          /\ n.login = job[p].login /\ n.cred = job[p].cred /\ n.tok = job[p].tok
          /\ n.gate = g /\ n.was = job[p].was /\ n.epoch = job[p].epoch
          /\ n.dead = job[p].dead /\ n.toks = job[p].toks
      BY <1>0, <3>1, Labels, Asks DEF Task
    <3>3. Fits(n)
      BY <1>0, <3>2, <2>2, <2>5 DEF Fits, OpFits, UserFits, IdFits, MailFits, CredFits, TokenFits,
        GateFits
    <3>4. /\ OwnDrift(job[p], n) /\ AdminDrift(job[p], n) /\ CredDrift(job[p], n)
          /\ MailDrift(job[p], n)
      BY <1>0, <3>2, <2>2 DEF OwnDrift, Deep, AdminDrift, Demoting, CredDrift, Stamps,
        MailDrift, Settling, Fits, OpFits
    <3>5. job' = [job EXCEPT ![p] = n]
      BY <2>5, <3>1 DEF Work
    <3> QED
      BY <3>3, <3>4, <3>5, <2>2 DEF Moved, Moves
  <2> QED
    BY <2>3, <2>4, <2>5
<1> QED
  BY <1>1, <1>2, <1>3, <1>4, <1>5, <1>6, <1>7, <1>8, <1>9, <1>10, <1>11

(* Steps that create groups and routes                                     *)
LEMMA CreateMoves ==
  ASSUME Typed, NEW p \in Thread,
         \/ Make(p) \/ Into(p) \/ Alone(p) \/ Import(p) \/ ImportRoute(p) \/ NewRoute(p)
         \/ Implicit(p) \/ Decline(p) \/ Abandon(p) \/ Rollback(p) \/ Answer(p)
  PROVE  Moved(p)
<1>0. TasksFit /\ Fits(job[p]) /\ job[p] \in Task
  BY DEF Typed, TasksFit, Fits
<1>1. CASE Make(p)
  <2>1. PICK g : g = Smallest(Unmade)
    OBVIOUS
  <2>2. Unmade # {} => g \in Group
    BY <2>1, NextUnmade
  <2>3. \/ End(p)
       \/ /\ g \in Group
          /\ Work(p, [job[p] EXCEPT !.at = "done", !.op = "create", !.gate = g, !.hits = {g}])
    BY <1>1, <2>1, <2>2 DEF Make
  <2>4. job[p].at = "ready"
    BY <1>1 DEF Make, At, Ask, AskAdmin, Browser, Begin
  <2>5. GateStep(p)
    BY <1>1 DEF GateStep
  <2>6. \/ End(p)
        \/ g \in Group /\
             Work(p, [job[p] EXCEPT !.at = "done", !.op = "create", !.gate = g,
                        !.hits = {g}])
    BY <2>1, <2>2, <2>3 DEF Make, At, Ask, AskAdmin, Refuse
  <2>7. CASE End(p)
    BY <2>7, <2>4, <2>5, EndMoves DEF Settling
  <2>8. CASE g \in Group /\
               Work(p, [job[p] EXCEPT !.at = "done", !.op = "create", !.gate = g,
                          !.hits = {g}])
    <3>1. PICK n : n = [job[p] EXCEPT !.at = "done", !.op = "create", !.gate = g, !.hits = {g}]
      OBVIOUS
    <3>2. {g} \in GroupSets /\ g \in Gates
      BY <2>8 DEF GroupSets, Gates
    <3>3. /\ n \in Task /\ n.at = "done" /\ n.op = "create" /\ n.role = job[p].role
          /\ n.user = job[p].user /\ n.id = job[p].id /\ n.mail = job[p].mail
          /\ n.login = job[p].login /\ n.cred = job[p].cred /\ n.tok = job[p].tok
          /\ n.gate = g /\ n.was = job[p].was /\ n.epoch = job[p].epoch
          /\ n.dead = job[p].dead /\ n.toks = job[p].toks /\ n.hits = {g}
      BY <1>0, <3>1, <3>2, Labels, Asks DEF Task
    <3>4. Fits(n)
      BY <1>0, <3>3, <2>4, <3>2 DEF Fits, OpFits, UserFits, IdFits, MailFits, CredFits,
        TokenFits, GateFits
    <3>5. /\ OwnDrift(job[p], n) /\ AdminDrift(job[p], n) /\ CredDrift(job[p], n)
          /\ MailDrift(job[p], n)
      BY <1>0, <3>3, <2>4, <3>2 DEF OwnDrift, Deep, AdminDrift, Demoting, CredDrift, Stamps,
        MailDrift, Settling, Fits, OpFits
    <3>6. job' = [job EXCEPT ![p] = n]
      BY <2>8, <3>1 DEF Work
    <3> QED
      BY <3>4, <3>5, <3>6, <2>5 DEF Moved, Moves
  <2> QED
    BY <2>6, <2>7, <2>8
<1>2. CASE Into(p)
  <2>1. PICK nm \in Name, g \in Gates :
          \/ End(p)
          \/ Work(p, [job[p] EXCEPT !.at = "new_route", !.op = "create", !.name = nm, !.gate = g])
    BY <1>2, LookupFits DEF Into, Refuse
  <2>2. job[p].at = "ready"
    BY <1>2 DEF Into, At, Ask, AskAdmin, Browser, Begin
  <2>3. GateStep(p)
    BY <1>2 DEF GateStep
  <2>4. \/ End(p)
        \/ Work(p, [job[p] EXCEPT !.at = "new_route", !.op = "create", !.name = nm,
                     !.gate = g])
    BY <2>1 DEF Into, At, Ask, AskAdmin, Refuse
  <2>5. CASE End(p)
    BY <2>5, <2>2, <2>3, EndMoves DEF Settling
  <2>6. CASE Work(p, [job[p] EXCEPT !.at = "new_route", !.op = "create", !.name = nm,
                       !.gate = g])
    <3>1. PICK n : n = [job[p] EXCEPT !.at = "new_route", !.op = "create", !.name = nm,
                   !.gate = g]
      OBVIOUS
    <3>2. nm \in Named
      BY DEF Named
    <3>3. /\ n \in Task /\ n.at = "new_route" /\ n.op = "create" /\ n.role = job[p].role
          /\ n.user = job[p].user /\ n.id = job[p].id /\ n.mail = job[p].mail
          /\ n.login = job[p].login /\ n.cred = job[p].cred /\ n.tok = job[p].tok
          /\ n.gate = g /\ n.was = job[p].was /\ n.epoch = job[p].epoch
          /\ n.dead = job[p].dead /\ n.toks = job[p].toks /\ n.name = nm
      BY <1>0, <3>1, <3>2, Labels, Asks DEF Task
    <3>4. Fits(n)
      BY <1>0, <3>3, <2>2, <3>2 DEF Fits, OpFits, UserFits, IdFits, MailFits, CredFits,
        TokenFits, GateFits
    <3>5. /\ OwnDrift(job[p], n) /\ AdminDrift(job[p], n) /\ CredDrift(job[p], n)
          /\ MailDrift(job[p], n)
      BY <1>0, <3>3, <2>2, <3>2 DEF OwnDrift, Deep, AdminDrift, Demoting, CredDrift, Stamps,
        MailDrift, Settling, Fits, OpFits
    <3>6. job' = [job EXCEPT ![p] = n]
      BY <2>6, <3>1 DEF Work
    <3> QED
      BY <3>4, <3>5, <3>6, <2>3 DEF Moved, Moves
  <2> QED
    BY <2>4, <2>5, <2>6
<1>3. CASE Alone(p)
  <2>1. job[p].at = "ready"
    BY <1>3 DEF Alone, At, Ask, AskAdmin, Browser, Begin
  <2>2. Work(p, [job[p] EXCEPT !.at = "implicit", !.op = "create"])
    BY <1>3 DEF Alone, At, Ask, AskAdmin, Refuse
  <2>3. PICK n : n = [job[p] EXCEPT !.at = "implicit", !.op = "create"]
    OBVIOUS
  <2>4. /\ n \in Task /\ n.at = "implicit" /\ n.op = "create" /\ n.role = job[p].role
        /\ n.user = job[p].user /\ n.id = job[p].id /\ n.mail = job[p].mail
        /\ n.login = job[p].login /\ n.cred = job[p].cred /\ n.tok = job[p].tok
        /\ n.gate = job[p].gate /\ n.was = job[p].was /\ n.epoch = job[p].epoch
        /\ n.dead = job[p].dead /\ n.toks = job[p].toks
    BY <1>0, <2>3, Labels, Asks DEF Task
  <2>5. Fits(n)
    BY <1>0, <2>4, <2>1 DEF Fits, OpFits, UserFits, IdFits, MailFits, CredFits, TokenFits,
      GateFits
  <2>6. /\ OwnDrift(job[p], n) /\ AdminDrift(job[p], n) /\ CredDrift(job[p], n)
        /\ MailDrift(job[p], n) /\ ~ Gated(n)
    BY <1>0, <2>4, <2>1 DEF OwnDrift, Deep, AdminDrift, Demoting, CredDrift, Stamps, MailDrift,
      Settling, Gated, Fits, OpFits
  <2>7. job' = [job EXCEPT ![p] = n]
    BY <2>2, <2>3 DEF Work
  <2> QED
    BY <2>5, <2>6, <2>7 DEF Moved, Moves
<1>4. CASE Import(p)
  <2>1. PICK g : g = Smallest(Unmade)
    OBVIOUS
  <2>2. Unmade # {} /\ g = Smallest(Unmade)
    BY <1>4, <2>1 DEF Import
  <2>3. PICK nm \in Name :
          \/ End(p)
          \/ Work(p, [job[p] EXCEPT !.at = "import_route", !.op = "create", !.id = g,
                     !.name = nm, !.new = nm])
    BY <1>4, <2>1 DEF Import
  <2>4. job[p].at = "ready"
    BY <1>4 DEF Import, At, Ask, AskAdmin, Browser, Begin
  <2>5. \/ End(p)
        \/ Work(p, [job[p] EXCEPT !.at = "import_route", !.op = "create", !.id = g,
                     !.name = nm, !.new = nm])
    BY <2>1, <2>2, <2>3 DEF Import, At, Ask, AskAdmin, Refuse
  <2>6. CASE End(p)
    BY <2>6, <2>4, EndMoves DEF Settling
  <2>7. CASE Work(p, [job[p] EXCEPT !.at = "import_route", !.op = "create", !.id = g,
                       !.name = nm, !.new = nm])
    <3>1. PICK n : n = [job[p] EXCEPT !.at = "import_route", !.op = "create", !.id = g,
                   !.name = nm, !.new = nm]
      OBVIOUS
    <3>2. nm \in Named
      BY DEF Named
    <3>3. g \in Nat
      BY <2>2, NextUnmade
    <3>4. /\ n \in Task /\ n.at = "import_route" /\ n.op = "create" /\ n.role = job[p].role
          /\ n.user = job[p].user /\ n.id = g /\ n.mail = job[p].mail
          /\ n.login = job[p].login /\ n.cred = job[p].cred /\ n.tok = job[p].tok
          /\ n.gate = job[p].gate /\ n.was = job[p].was /\ n.epoch = job[p].epoch
          /\ n.dead = job[p].dead /\ n.toks = job[p].toks /\ n.name = nm
      BY <1>0, <3>1, <3>2, <3>3, Labels, Asks DEF Task
    <3>5. Fits(n)
      BY <1>0, <3>4, <2>4, <3>2, <3>3 DEF Fits, OpFits, UserFits, IdFits, MailFits, CredFits,
        TokenFits, GateFits
    <3>6. /\ OwnDrift(job[p], n) /\ AdminDrift(job[p], n) /\ CredDrift(job[p], n)
          /\ MailDrift(job[p], n) /\ ~ Gated(n)
      BY <1>0, <3>4, <2>4, <3>2, <3>3 DEF OwnDrift, Deep, AdminDrift, Demoting, CredDrift,
        Stamps, MailDrift, Settling, Gated, Fits, OpFits
    <3>7. job' = [job EXCEPT ![p] = n]
      BY <2>7, <3>1 DEF Work
    <3> QED
      BY <3>5, <3>6, <3>7 DEF Moved, Moves
  <2> QED
    BY <2>5, <2>6, <2>7
<1>5. CASE ImportRoute(p)
  <2>1. PICK g \in Gates :
          \/ End(p) \/ Step(p, "rollback")
          \/ Work(p, [job[p] EXCEPT !.at = "new_route", !.gate = g])
    BY <1>5, LookupFits DEF ImportRoute, Fail
  <2>2. job[p].at = "import_route"
    BY <1>5 DEF ImportRoute, At, Ask, AskAdmin, Browser, Begin
  <2>3. GateStep(p)
    BY <1>5 DEF GateStep
  <2>4. \/ End(p)
        \/ Step(p, "rollback")
        \/ Work(p, [job[p] EXCEPT !.at = "new_route", !.gate = g])
    BY <2>1 DEF ImportRoute, At, Ask, AskAdmin, Refuse
  <2>5. CASE End(p)
    BY <2>5, <2>2, <2>3, EndMoves DEF Settling
  <2>6. CASE Step(p, "rollback")
    BY <1>0, <2>6, <2>2, <2>3, StepMoves DEF Edge
  <2>7. CASE Work(p, [job[p] EXCEPT !.at = "new_route", !.gate = g])
    <3>1. PICK n : n = [job[p] EXCEPT !.at = "new_route", !.gate = g]
      OBVIOUS
    <3>2. /\ n \in Task /\ n.at = "new_route" /\ n.op = job[p].op /\ n.role = job[p].role
          /\ n.user = job[p].user /\ n.id = job[p].id /\ n.mail = job[p].mail
          /\ n.login = job[p].login /\ n.cred = job[p].cred /\ n.tok = job[p].tok
          /\ n.gate = g /\ n.was = job[p].was /\ n.epoch = job[p].epoch
          /\ n.dead = job[p].dead /\ n.toks = job[p].toks
      BY <1>0, <3>1, Labels, Asks DEF Task
    <3>3. Fits(n)
      BY <1>0, <3>2, <2>2 DEF Fits, OpFits, UserFits, IdFits, MailFits, CredFits, TokenFits,
        GateFits
    <3>4. /\ OwnDrift(job[p], n) /\ AdminDrift(job[p], n) /\ CredDrift(job[p], n)
          /\ MailDrift(job[p], n)
      BY <1>0, <3>2, <2>2 DEF OwnDrift, Deep, AdminDrift, Demoting, CredDrift, Stamps,
        MailDrift, Settling, Fits, OpFits
    <3>5. job' = [job EXCEPT ![p] = n]
      BY <2>7, <3>1 DEF Work
    <3> QED
      BY <3>3, <3>4, <3>5, <2>3 DEF Moved, Moves
  <2> QED
    BY <2>4, <2>5, <2>6, <2>7
<1>6. CASE NewRoute(p)
  <2>1. PICK g \in Gates :
          \/ End(p) \/ Step(p, "rollback")
          \/ g \in Group /\ Work(p, [job[p] EXCEPT !.at = "done", !.hits = {g}])
    BY <1>6, LookupFits DEF NewRoute, Did, Fail
  <2>2. job[p].at = "new_route"
    BY <1>6 DEF NewRoute, At, Ask, AskAdmin, Browser, Begin
  <2>3. GateStep(p)
    BY <1>6 DEF GateStep
  <2>4. \/ End(p)
        \/ Step(p, "rollback")
        \/ g \in Group /\ Work(p, [job[p] EXCEPT !.at = "done", !.hits = {g}])
    BY <2>1 DEF NewRoute, At, Ask, AskAdmin, Refuse
  <2>5. CASE End(p)
    BY <2>5, <2>2, <2>3, EndMoves DEF Settling
  <2>6. CASE Step(p, "rollback")
    BY <1>0, <2>6, <2>2, <2>3, StepMoves DEF Edge
  <2>7. CASE g \in Group /\ Work(p, [job[p] EXCEPT !.at = "done", !.hits = {g}])
    <3>1. PICK n : n = [job[p] EXCEPT !.at = "done", !.hits = {g}]
      OBVIOUS
    <3>2. {g} \in GroupSets /\ g \in Gates
      BY <2>7 DEF GroupSets, Gates
    <3>3. /\ n \in Task /\ n.at = "done" /\ n.op = job[p].op /\ n.role = job[p].role
          /\ n.user = job[p].user /\ n.id = job[p].id /\ n.mail = job[p].mail
          /\ n.login = job[p].login /\ n.cred = job[p].cred /\ n.tok = job[p].tok
          /\ n.gate = job[p].gate /\ n.was = job[p].was /\ n.epoch = job[p].epoch
          /\ n.dead = job[p].dead /\ n.toks = job[p].toks /\ n.hits = {g}
      BY <1>0, <3>1, <3>2, Labels, Asks DEF Task
    <3>4. Fits(n)
      BY <1>0, <3>3, <2>2, <3>2 DEF Fits, OpFits, UserFits, IdFits, MailFits, CredFits,
        TokenFits, GateFits
    <3>5. /\ OwnDrift(job[p], n) /\ AdminDrift(job[p], n) /\ CredDrift(job[p], n)
          /\ MailDrift(job[p], n)
      BY <1>0, <3>3, <2>2, <3>2 DEF OwnDrift, Deep, AdminDrift, Demoting, CredDrift, Stamps,
        MailDrift, Settling, Fits, OpFits
    <3>6. job' = [job EXCEPT ![p] = n]
      BY <2>7, <3>1 DEF Work
    <3> QED
      BY <3>4, <3>5, <3>6, <2>3 DEF Moved, Moves
  <2> QED
    BY <2>4, <2>5, <2>6, <2>7
<1>7. CASE Implicit(p)
  <2>1. PICK g : g = Smallest(Unmade)
    OBVIOUS
  <2>2. Unmade # {} /\ g = Smallest(Unmade)
    BY <1>7, <2>1 DEF Implicit
  <2>3. Work(p, [job[p] EXCEPT !.at = "done", !.gate = g, !.hits = {g}])
    BY <1>7, <2>1 DEF Implicit
  <2>4. job[p].at = "implicit"
    BY <1>7 DEF Implicit, At, Ask, AskAdmin, Browser, Begin
  <2>5. GateStep(p)
    BY <1>7 DEF GateStep
  <2>6. Work(p, [job[p] EXCEPT !.at = "done", !.gate = g, !.hits = {g}])
    BY <2>1, <2>2, <2>3 DEF Implicit, At, Ask, AskAdmin, Refuse
  <2>7. PICK n : n = [job[p] EXCEPT !.at = "done", !.gate = g, !.hits = {g}]
    OBVIOUS
  <2>8. {g} \in GroupSets /\ g \in Gates
    BY <2>2, NextUnmade DEF GroupSets, Gates
  <2>9. /\ n \in Task /\ n.at = "done" /\ n.op = job[p].op /\ n.role = job[p].role
        /\ n.user = job[p].user /\ n.id = job[p].id /\ n.mail = job[p].mail
        /\ n.login = job[p].login /\ n.cred = job[p].cred /\ n.tok = job[p].tok /\ n.gate = g
        /\ n.was = job[p].was /\ n.epoch = job[p].epoch /\ n.dead = job[p].dead
        /\ n.toks = job[p].toks /\ n.hits = {g}
    BY <1>0, <2>7, <2>8, Labels, Asks DEF Task
  <2>10. Fits(n)
    BY <1>0, <2>9, <2>4, <2>8 DEF Fits, OpFits, UserFits, IdFits, MailFits, CredFits, TokenFits,
      GateFits
  <2>11. /\ OwnDrift(job[p], n) /\ AdminDrift(job[p], n) /\ CredDrift(job[p], n)
         /\ MailDrift(job[p], n)
    BY <1>0, <2>9, <2>4, <2>8 DEF OwnDrift, Deep, AdminDrift, Demoting, CredDrift, Stamps,
      MailDrift, Settling, Fits, OpFits
  <2>12. job' = [job EXCEPT ![p] = n]
    BY <2>6, <2>7 DEF Work
  <2> QED
    BY <2>10, <2>11, <2>12, <2>5 DEF Moved, Moves
<1>8. CASE Decline(p)
  <2>1. job[p].at \in {"update_route", "route_data", "rename", "group_data", "new_route"}
    BY <1>8 DEF Decline
  <2>2. CASE End(p)
    BY <2>1, <2>2, EndMoves DEF Settling
  <2>3. CASE Step(p, "rollback")
    BY <1>0, <2>1, <2>3, StepMoves DEF Edge
  <2> QED
    BY <1>8, <2>2, <2>3 DEF Decline, Fail
<1>9. CASE Abandon(p)
  <2>1. job[p].at \in {"import_route", "new_route"} /\ End(p)
    BY <1>9 DEF Abandon
  <2> QED
    BY <2>1, EndMoves DEF Settling
<1>10. CASE Rollback(p)
  <2>1. job[p].at = "rollback"
    BY <1>10 DEF Rollback, At, Ask, AskAdmin, Browser, Begin
  <2>2. End(p)
    BY <1>10 DEF Rollback, At, Ask, AskAdmin, Refuse
  <2> QED
    BY <2>2, <2>1, EndMoves DEF Settling
<1>11. CASE Answer(p)
  <2>1. job[p].at = "done"
    BY <1>11 DEF Answer, At, Ask, AskAdmin, Browser, Begin
  <2>2. End(p)
    BY <1>11 DEF Answer, At, Ask, AskAdmin, Refuse
  <2> QED
    BY <2>2, <2>1, EndMoves DEF Settling
<1> QED
  BY <1>1, <1>2, <1>3, <1>4, <1>5, <1>6, <1>7, <1>8, <1>9, <1>10, <1>11

(* What any thread may do                                                  *)
Does(p) ==
  \/ Credentials(p) \/ SignIn(p) \/ Administration(p) \/ Tokens(p)
  \/ RouteCalls(p) \/ GroupCalls(p) \/ Creations(p) \/ Answer(p)

(* Every step but the one that signs out everywhere moves its own task only. *)
LEMMA EveryStepMoves ==
  ASSUME Typed, NEW p \in Thread, Does(p)
  PROVE  Moved(p) \/ BumpEpoch(p)
<1>1. CASE Credentials(p)
  BY <1>1, AuthMoves DEF Credentials, UiSignOutEverywhere
<1>2. CASE SignIn(p)
  BY <1>2, SignInMoves DEF SignIn
<1>3. CASE Administration(p)
  BY <1>3, AdminMoves DEF Administration, UiCreateUser, UiSetAdmin, UiDeleteUser
<1>4. CASE Tokens(p)
  BY <1>4, TokenMoves DEF Tokens, UiCreateToken, UiRenameToken, UiRevokeToken
<1>5. CASE RouteCalls(p)
  BY <1>5, RouteMoves DEF RouteCalls, ApiGetRoute, ApiRouteSource, ApiDryRun, ApiPatchRoute,
    ApiDeleteRoute, ApiGetRouteState, ApiSetRouteState, ApiClearRouteState, UiRouteDetail,
    UiSourceEditPage, UiDryRunPage, UiDryRun, UiRouteDelete, UiRouteState, UiRouteStateClear,
    UiRouteStateSet, UiSourceEdit, McpShowRoute, McpShowSource, McpDryRun, McpUpdateRoute,
    McpDeleteRoute, McpShowRouteState, McpSetRouteState, McpClearRouteState
<1>6. CASE GroupCalls(p)
  BY <1>6, GroupMoves DEF GroupCalls, ApiPatchGroup, ApiDeleteGroup, ApiRefreshGroup,
    ApiGroupState, ApiSetGroupState, ApiClearGroupState, ApiClearJournal, ApiExport,
    ApiListGroups, ApiListRoutes, UiHome, UiGroups, UiRoutes, UiUnmatched, UiUnmatchedDetail,
    UiLiveJournal, UiJournalEntry, UiGroupDetail, UiGroupRefresh, UiGroupEdit, UiGroupDelete,
    UiJournalClear, UiGroupMatch, UiGroupState, UiGroupStateClear, UiGroupStateSet, UiCallbacks,
    UiExport, McpUpdateGroup, McpDeleteGroup, McpRefreshGroup, McpClearJournal,
    McpClearGroupState, McpShowGroupState, McpSetGroupState, McpExport, McpListGroups,
    McpListRoutes, ApiJournal, ApiCallback, ApiUnmatched, ApiGetGroup, ApiMatch, McpListJournal,
    McpListCallbacks, McpShowCallback, McpShowUnmatched, McpListUnmatched, McpSummarize,
    McpShowGroup, McpFindRoute, Patch
<1>7. CASE Creations(p)
  BY <1>7, CreateMoves DEF Creations, ApiCreateGroup, UiGroupNew, McpCreateGroup,
    ApiCreateRoute, UiRouteNew, McpCreateRoute, ApiImport, UiImport, McpImport
<1>8. CASE Answer(p)
  BY <1>8, CreateMoves
<1> QED
  BY <1>1, <1>2, <1>3, <1>4, <1>5, <1>6, <1>7, <1>8 DEF Does

(* The steps that change nothing but a task                                *)
LEMMA Calm ==
  ASSUME NEW p,
         \/ Present(p) \/ TouchRead(p) \/ LoadUser(p) \/ TokenFind(p) \/ TokenRead(p)
         \/ SignOutEverywhere(p) \/ FindIndex(p) \/ FindUser(p) \/ Scan(p)
         \/ PasswordLogin(p) \/ Callback(p) \/ Identity(p) \/ Known(p) \/ CreateUser(p)
         \/ PatchUser(p) \/ DeleteUser(p) \/ MayPatch(p) \/ MayDelete(p)
         \/ PatchRead(p) \/ CheckOwned(p) \/ DeleteRead(p) \/ CascadeToken(p)
         \/ CreateToken(p) \/ TokenFree(p) \/ RenameToken(p) \/ RenameFind(p)
         \/ RevokeToken(p) \/ RevokeFind(p)
         \/ Shown(p) \/ PatchCore(p) \/ UpdateRoute(p) \/ RouteData(p) \/ Journal(p)
         \/ Unmatched(p) \/ ShownGroup(p) \/ Probing(p) \/ ListGroups(p)
         \/ ListRoutes(p) \/ Probe(p) \/ GroupData(p) \/ Into(p) \/ Alone(p)
         \/ ImportRoute(p) \/ Decline(p) \/ Abandon(p) \/ Answer(p)
         \/ \E act : BySlug(p, act) \/ ByRef(p, act)
  PROVE  Unmoved
<1>1. CASE Present(p)
  BY <1>1 DEF Present, Unmoved
<1>2. CASE TouchRead(p)
  BY <1>2 DEF TouchRead, Unmoved
<1>3. CASE LoadUser(p)
  BY <1>3 DEF LoadUser, Unmoved
<1>4. CASE TokenFind(p)
  BY <1>4 DEF TokenFind, Unmoved
<1>5. CASE TokenRead(p)
  BY <1>5 DEF TokenRead, Unmoved
<1>6. CASE SignOutEverywhere(p)
  BY <1>6 DEF SignOutEverywhere, Unmoved
<1>7. CASE FindIndex(p)
  BY <1>7 DEF FindIndex, Unmoved
<1>8. CASE FindUser(p)
  BY <1>8 DEF FindUser, Unmoved
<1>9. CASE Scan(p)
  BY <1>9 DEF Scan, Unmoved
<1>10. CASE PasswordLogin(p)
  BY <1>10 DEF PasswordLogin, Unmoved
<1>11. CASE Callback(p)
  BY <1>11 DEF Callback, Unmoved
<1>12. CASE Identity(p)
  BY <1>12 DEF Identity, Unmoved
<1>13. CASE Known(p)
  BY <1>13 DEF Known, Unmoved
<1>14. CASE CreateUser(p)
  BY <1>14 DEF CreateUser, Unmoved
<1>15. CASE PatchUser(p)
  BY <1>15 DEF PatchUser, Unmoved
<1>16. CASE DeleteUser(p)
  BY <1>16 DEF DeleteUser, Unmoved
<1>17. CASE MayPatch(p)
  BY <1>17 DEF MayPatch, Unmoved
<1>18. CASE MayDelete(p)
  BY <1>18 DEF MayDelete, Unmoved
<1>19. CASE PatchRead(p)
  BY <1>19 DEF PatchRead, Unmoved
<1>20. CASE CheckOwned(p)
  BY <1>20 DEF CheckOwned, Unmoved
<1>21. CASE DeleteRead(p)
  BY <1>21 DEF DeleteRead, Unmoved
<1>22. CASE CascadeToken(p)
  BY <1>22 DEF CascadeToken, Unmoved
<1>23. CASE CreateToken(p)
  BY <1>23 DEF CreateToken, Unmoved
<1>24. CASE TokenFree(p)
  BY <1>24 DEF TokenFree, Unmoved
<1>25. CASE RenameToken(p)
  BY <1>25 DEF RenameToken, Unmoved
<1>26. CASE RenameFind(p)
  BY <1>26 DEF RenameFind, Unmoved
<1>27. CASE RevokeToken(p)
  BY <1>27 DEF RevokeToken, Unmoved
<1>28. CASE RevokeFind(p)
  BY <1>28 DEF RevokeFind, Unmoved
<1>29. CASE Shown(p)
  BY <1>29 DEF Shown, Unmoved
<1>30. CASE PatchCore(p)
  BY <1>30 DEF PatchCore, Unmoved
<1>31. CASE UpdateRoute(p)
  BY <1>31 DEF UpdateRoute, Unmoved
<1>32. CASE RouteData(p)
  BY <1>32 DEF RouteData, Unmoved
<1>33. CASE Journal(p)
  BY <1>33 DEF Journal, Unmoved
<1>34. CASE Unmatched(p)
  BY <1>34 DEF Unmatched, Unmoved
<1>35. CASE ShownGroup(p)
  BY <1>35 DEF ShownGroup, Unmoved
<1>36. CASE Probing(p)
  BY <1>36 DEF Probing, Unmoved
<1>37. CASE ListGroups(p)
  BY <1>37 DEF ListGroups, Unmoved
<1>38. CASE ListRoutes(p)
  BY <1>38 DEF ListRoutes, Unmoved
<1>39. CASE Probe(p)
  BY <1>39 DEF Probe, Unmoved
<1>40. CASE GroupData(p)
  BY <1>40 DEF GroupData, Unmoved
<1>41. CASE Into(p)
  BY <1>41 DEF Into, Unmoved
<1>42. CASE Alone(p)
  BY <1>42 DEF Alone, Unmoved
<1>43. CASE ImportRoute(p)
  BY <1>43 DEF ImportRoute, Unmoved
<1>44. CASE Decline(p)
  BY <1>44 DEF Decline, Unmoved
<1>45. CASE Abandon(p)
  BY <1>45 DEF Abandon, Unmoved
<1>46. CASE Answer(p)
  BY <1>46 DEF Answer, Unmoved
<1>47. CASE \E act : BySlug(p, act) \/ ByRef(p, act)
  BY <1>47 DEF BySlug, ByRef, Unmoved
<1> QED
  BY <1>1, <1>2, <1>3, <1>4, <1>5, <1>6, <1>7, <1>8, <1>9, <1>10, <1>11, <1>12, <1>13, <1>14,
    <1>15, <1>16, <1>17, <1>18, <1>19, <1>20, <1>21, <1>22, <1>23, <1>24, <1>25, <1>26, <1>27,
    <1>28, <1>29, <1>30, <1>31, <1>32, <1>33, <1>34, <1>35, <1>36, <1>37, <1>38, <1>39, <1>40,
    <1>41, <1>42, <1>43, <1>44, <1>45, <1>46, <1>47

LEMMA OthersAreCalm ==
  ASSUME NEW p, Does(p)
  PROVE  Unmoved \/ Moving(p)
<1>1. CASE Credentials(p)
  BY <1>1, Calm DEF Credentials, UiSignOutEverywhere, Moving, AccountMove, CredentialMove,
    GroupMove
<1>2. CASE SignIn(p)
  BY <1>2, Calm DEF SignIn, Moving, AccountMove, CredentialMove, GroupMove
<1>3. CASE Administration(p)
  BY <1>3, Calm DEF Administration, UiCreateUser, UiSetAdmin, UiDeleteUser, Moving, AccountMove,
    CredentialMove, GroupMove
<1>4. CASE Tokens(p)
  BY <1>4, Calm DEF Tokens, UiCreateToken, UiRenameToken, UiRevokeToken, Moving, AccountMove,
    CredentialMove, GroupMove
<1>5. CASE RouteCalls(p)
  BY <1>5, Calm DEF RouteCalls, ApiGetRoute, ApiRouteSource, ApiDryRun, ApiPatchRoute,
    ApiDeleteRoute, ApiGetRouteState, ApiSetRouteState, ApiClearRouteState, UiRouteDetail,
    UiSourceEditPage, UiDryRunPage, UiDryRun, UiRouteDelete, UiRouteState, UiRouteStateClear,
    UiRouteStateSet, UiSourceEdit, McpShowRoute, McpShowSource, McpDryRun, McpUpdateRoute,
    McpDeleteRoute, McpShowRouteState, McpSetRouteState, McpClearRouteState, Moving,
    AccountMove, CredentialMove, GroupMove
<1>6. CASE GroupCalls(p)
  BY <1>6, Calm DEF GroupCalls, ApiPatchGroup, ApiDeleteGroup, ApiRefreshGroup, ApiGroupState,
    ApiSetGroupState, ApiClearGroupState, ApiClearJournal, ApiExport, ApiListGroups,
    ApiListRoutes, UiHome, UiGroups, UiRoutes, UiUnmatched, UiUnmatchedDetail, UiLiveJournal,
    UiJournalEntry, UiGroupDetail, UiGroupRefresh, UiGroupEdit, UiGroupDelete, UiJournalClear,
    UiGroupMatch, UiGroupState, UiGroupStateClear, UiGroupStateSet, UiCallbacks, UiExport,
    McpUpdateGroup, McpDeleteGroup, McpRefreshGroup, McpClearJournal, McpClearGroupState,
    McpShowGroupState, McpSetGroupState, McpExport, McpListGroups, McpListRoutes, ApiJournal,
    ApiCallback, ApiUnmatched, ApiGetGroup, ApiMatch, McpListJournal, McpListCallbacks,
    McpShowCallback, McpShowUnmatched, McpListUnmatched, McpSummarize, McpShowGroup,
    McpFindRoute, Patch, Moving, AccountMove, CredentialMove, GroupMove
<1>7. CASE Creations(p)
  BY <1>7, Calm DEF Creations, ApiCreateGroup, UiGroupNew, McpCreateGroup, ApiCreateRoute,
    UiRouteNew, McpCreateRoute, ApiImport, UiImport, McpImport, Moving, AccountMove,
    CredentialMove, GroupMove
<1>8. CASE Answer(p)
  BY <1>8, Calm
<1> QED
  BY <1>1, <1>2, <1>3, <1>4, <1>5, <1>6, <1>7, <1>8 DEF Does

(* What the steps of one kind leave alone                                  *)
LEMMA AccountMoveFrame ==
  ASSUME NEW p, AccountMove(p)
  PROVE  UNCHANGED <<credentials, issued, registry>>
BY DEF AccountMove, BumpEpoch, Heal, WriteUser, Claim, Enlist, Sync, Reindex, Link,
  PatchWrite, Unmail, Unlist, WipeUser, others, registry

LEMMA CredentialMoveFrame ==
  ASSUME NEW p, CredentialMove(p)
  PROVE  UNCHANGED <<accounts, excused, freed, registry>>
BY DEF CredentialMove, TouchWrite, TokenStamp, Logout, Mint, WriteToken, IndexHash,
  IndexName, IndexOwner, SetName, NameToken, DropOld, DropHash, DropName, Disown,
  DropToken, others, registry

LEMMA GroupMoveFrame ==
  ASSUME NEW p, GroupMove(p)
  PROVE  Untouched
BY DEF GroupMove, DeleteRoute, Rename, Drop, Make, Import, NewRoute, Implicit, Rollback

LEMMA CountAdminsFrame ==
  ASSUME NEW p, CountAdmins(p)
  PROVE  UNCHANGED <<accounts, credentials, issued, withdrawn, freed, registry>>
BY DEF CountAdmins

LEMMA AccountsKept ==
  ASSUME Typed, NEW p \in Thread, Does(p)
  PROVE  AccountsTyped'
<1>0. TasksFit /\ Fits(job[p]) /\ AccountsTyped
  BY DEF Typed, TasksFit
<1>1. CASE UNCHANGED accounts
  BY <1>0, <1>1 DEF AccountsTyped, accounts
<1>2. CASE BumpEpoch(p)
  <2>1. job[p].user \in User
    BY <1>0, <1>2 DEF BumpEpoch, At, Fits, UserFits
  <2> QED
    BY <1>0, <1>2, <2>1 DEF BumpEpoch, AccountsTyped, Account
<1>3. CASE Heal(p) \/ Reindex(p) \/ Link(p) \/ Unmail(p)
  <2>1. job[p].id \in Id \/ Unmail(p)
    BY <1>0, <1>3 DEF Heal, Reindex, Link, At, Fits, IdFits, Id, User
  <2>2. 0 \in Id
    BY AccountsAssumption DEF Id
  <2>3. UNCHANGED <<user, all>>
    BY <1>3 DEF Heal, Reindex, Link, Unmail
  <2>4. byEmail' \in [Email -> Id] /\ byIdentity' \in [Login -> Id]
    <3>1. CASE Heal(p)
      BY <1>0, <2>1, <3>1 DEF Heal, AccountsTyped, Unmail, At
    <3>2. CASE Reindex(p)
      <4>1. job[p].id \in User
        BY <1>0, <3>2 DEF Reindex, At, Fits, IdFits
      <4>2. PICK u \in User : byEmail' = [byEmail EXCEPT ![job[p].mail] = u]
        BY <4>1, <3>2 DEF Reindex, Indexable
      <4>3. u \in Id
        BY DEF Id, User
      <4> QED
        BY <1>0, <3>2, <4>2, <4>3 DEF Reindex, AccountsTyped
    <3>3. CASE Link(p)
      BY <1>0, <2>1, <3>3 DEF Link, AccountsTyped, Unmail, At
    <3>4. CASE Unmail(p)
      BY <1>0, <2>2, <3>4 DEF Unmail, AccountsTyped
    <3> QED
      BY <1>3, <3>1, <3>2, <3>3, <3>4
  <2> QED
    BY <1>0, <2>3, <2>4 DEF AccountsTyped
<1>4. CASE WriteUser(p)
  <2>1. job[p].mail \in Email /\ job[p].role \in BOOLEAN
    BY <1>0, <1>4 DEF WriteUser, At, Fits, MailFits, Task
  <2> QED
    BY <1>0, <1>4, <2>1 DEF WriteUser, AccountsTyped, Account
<1>5. CASE Claim(p) \/ Enlist(p)
  <2>1. job[p].id \in Id /\ job[p].id \in User
    BY <1>0, <1>5 DEF Claim, Enlist, At, Fits, IdFits, Id, User
  <2>2. CASE Claim(p)
    BY <1>0, <2>1, <2>2 DEF Claim, AccountsTyped
  <2>3. CASE Enlist(p)
    BY <1>0, <2>1, <2>3 DEF Enlist, AccountsTyped
  <2> QED
    BY <1>5, <2>2, <2>3
<1>6. CASE Sync(p) \/ PatchWrite(p)
  <2>1. job[p].role \in BOOLEAN
    BY <1>0 DEF Fits, Task
  <2>2. UNCHANGED <<byEmail, byIdentity, all>>
    BY <1>6 DEF Sync, PatchWrite
  <2>3. user' = user \/ user' = [user EXCEPT ![job[p].id].admin = job[p].role]
    BY <1>6 DEF Sync, PatchWrite
  <2> QED
    BY <1>0, <2>1, <2>2, <2>3 DEF AccountsTyped, Account
<1>7. CASE Unlist(p)
  BY <1>0, <1>7 DEF Unlist, AccountsTyped
<1>8. CASE WipeUser(p)
  <2>1. job[p].id \in User
    BY <1>0, <1>8 DEF WipeUser, At, Fits, IdFits
  <2>2. UNCHANGED <<byEmail, byIdentity, all>>
    BY <1>8 DEF WipeUser
  <2>3. user' = [user EXCEPT ![job[p].id].shape = "stub"]
    BY <1>8 DEF WipeUser
  <2> QED
    BY <1>0, <2>1, <2>2, <2>3 DEF AccountsTyped, Account
<1> QED
  BY <1>1, <1>2, <1>3, <1>4, <1>5, <1>6, <1>7, <1>8, OthersAreCalm, CredentialMoveFrame,
    GroupMoveFrame, CountAdminsFrame DEF Moving, AccountMove, Unmoved, Untouched


LEMMA CredentialsKept ==
  ASSUME Typed, NEW p \in Thread, Does(p)
  PROVE  CredentialsTyped'
<1>0. /\ TasksFit /\ Fits(job[p]) /\ job[p] \in Task /\ CredentialsTyped
      /\ 0 \in Id /\ None \in Named
  BY AccountsAssumption DEF Typed, TasksFit, Fits, Id, Named
<1>1. CASE UNCHANGED <<credentials, issued>>
  BY <1>0, <1>1 DEF CredentialsTyped, credentials
<1>2. CASE TouchWrite(p)
  <2>1. job[p].id \in User /\ job[p].id \in Id /\ job[p].epoch \in Nat
    BY <1>0, <1>2 DEF TouchWrite, At, Fits, IdFits, Task, User, Id
  <2>2. UNCHANGED <<token, byHash, byName, ofOwner, issued>>
    BY <1>2 DEF TouchWrite
  <2> QED
    BY <1>0, <1>2, <2>1, <2>2 DEF TouchWrite, CredentialsTyped, SessionRecord
<1>3. CASE Logout(p)
  <2>1. UNCHANGED <<token, byHash, byName, ofOwner, issued>>
    BY <1>3 DEF Logout
  <2>2. PICK c \in Cookie : session' = [session EXCEPT ![c] = NoSession]
    BY <1>3 DEF Logout
  <2>3. NoSession \in SessionRecord
    BY <1>0 DEF NoSession, SessionRecord
  <2> QED
    BY <1>0, <2>1, <2>2, <2>3 DEF CredentialsTyped
<1>4. CASE Mint(p)
  <2>1. job[p].id \in User /\ job[p].id \in Id /\ job[p].epoch \in Nat
    BY <1>0, <1>4 DEF Mint, At, Fits, IdFits, Task, User, Id
  <2>2. UNCHANGED <<token, byHash, byName, ofOwner>>
    BY <1>4 DEF Mint
  <2>3. PICK free : free = {k \in Cookie : <<"session", k>> \notin issued}
    OBVIOUS
  <2>4. free # {} /\ free \in SUBSET Nat /\ free \subseteq Cookie
    BY <1>4, <2>3 DEF Mint, Cookie
  <2>5. Smallest(free) \in Cookie
    BY <2>4, MinExists
  <2>6. /\ session' = [session EXCEPT ![Smallest(free)] =
                          [user |-> job[p].id, epoch |-> job[p].epoch]]
        /\ issued' = issued \cup {<<"session", Smallest(free)>>}
    BY <1>4, <2>3 DEF Mint
  <2> QED
    BY <1>0, <2>1, <2>2, <2>5, <2>6 DEF CredentialsTyped, SessionRecord, Credential
<1>5. CASE WriteToken(p)
  <2>1. UNCHANGED <<session, byHash, byName, ofOwner, issued>>
    BY <1>5 DEF WriteToken
  <2>2. PICK t : token' = [token EXCEPT ![t] =
                   [shape |-> "whole", owner |-> job[p].user, name |-> job[p].name]]
    BY <1>5 DEF WriteToken
  <2>3. job[p].user \in User /\ job[p].user \in Id /\ job[p].name \in Named
    BY <1>0, <1>5 DEF WriteToken, At, Fits, UserFits, Task, User, Id
  <2> QED
    BY <1>0, <2>1, <2>2, <2>3 DEF CredentialsTyped, TokenRecord
<1>6. CASE TokenStamp(p) \/ NameToken(p) \/ DropToken(p)
  <2>1. UNCHANGED <<session, byHash, byName, ofOwner, issued>>
    BY <1>6 DEF TokenStamp, NameToken, DropToken
  <2>2. PICK t \in Token, nm \in Named, s \in {"none", "stub"} :
          \/ token' = [token EXCEPT ![t].shape = IF @ = "whole" THEN @ ELSE "stub"]
          \/ token' = [token EXCEPT ![t].name = nm,
                                    ![t].shape = IF @ = "none" THEN "stub" ELSE @]
          \/ token' = [token EXCEPT ![t].shape = "none"]
    <3>1. CASE TokenStamp(p)
      BY <1>0, <3>1 DEF TokenStamp, At, Fits, CredFits
    <3>2. CASE NameToken(p)
      BY <1>0, <3>2 DEF NameToken, At, Fits, TokenFits, Task
    <3>3. CASE DropToken(p)
      BY <1>0, <3>3 DEF DropToken, At, Fits, TokenFits
    <3> QED
      BY <1>6, <3>1, <3>2, <3>3
  <2> QED
    BY <1>0, <2>1, <2>2 DEF CredentialsTyped, TokenRecord
<1>7. CASE IndexHash(p) \/ IndexOwner(p)
  <2>1. job[p].tok \in Token
    BY <1>0, <1>7 DEF IndexHash, IndexOwner, At, Fits, TokenFits
  <2>2. UNCHANGED <<session, token, byName>>
    BY <1>7 DEF IndexHash, IndexOwner
  <2>3. /\ byHash' \subseteq byHash \cup {job[p].tok}
        /\ ofOwner' \subseteq ofOwner \cup {job[p].tok}
        /\ issued' \subseteq issued \cup {<<"token", job[p].tok>>}
    BY <1>7 DEF IndexHash, IndexOwner
  <2> QED
    BY <1>0, <2>1, <2>2, <2>3 DEF CredentialsTyped, Credential
<1>8. CASE IndexName(p) \/ SetName(p) \/ DropOld(p) \/ DropName(p)
  <2>1. UNCHANGED <<session, token, byHash, ofOwner, issued>>
    BY <1>8 DEF IndexName, SetName, DropOld, DropName
  <2>2. PICK t : t = job[p].tok
    OBVIOUS
  <2>3. byName' \in [User \X TokenName -> Token \cup {0}]
    <3>1. CASE IndexName(p)
      <4>1. t \in Token
        BY <1>0, <2>2, <3>1 DEF IndexName, At, Fits, TokenFits
      <4> QED
        BY <1>0, <2>2, <3>1, <4>1 DEF IndexName, CredentialsTyped
    <3>2. CASE SetName(p)
      <4>1. t \in Token
        BY <1>0, <2>2, <3>2 DEF SetName, At, Fits, TokenFits
      <4> QED
        BY <1>0, <2>2, <3>2, <4>1 DEF SetName, CredentialsTyped
    <3>3. CASE DropOld(p)
      BY <1>0, <3>3 DEF DropOld, CredentialsTyped
    <3>4. CASE DropName(p)
      BY <1>0, <3>4 DEF DropName, CredentialsTyped
    <3> QED
      BY <1>8, <3>1, <3>2, <3>3, <3>4
  <2> QED
    BY <1>0, <2>1, <2>3 DEF CredentialsTyped
<1>9. CASE DropHash(p) \/ Disown(p)
  <2>1. UNCHANGED <<session, token, byName, issued>>
    BY <1>9 DEF DropHash, Disown
  <2>2. byHash' \subseteq byHash /\ ofOwner' \subseteq ofOwner
    BY <1>9 DEF DropHash, Disown
  <2> QED
    BY <1>0, <2>1, <2>2 DEF CredentialsTyped
<1> QED
  BY <1>1, <1>2, <1>3, <1>4, <1>5, <1>6, <1>7, <1>8, <1>9, OthersAreCalm, AccountMoveFrame,
    GroupMoveFrame, CountAdminsFrame DEF Moving, CredentialMove, Unmoved, Untouched

LEMMA GroupsKept ==
  ASSUME Typed, NEW p \in Thread, Does(p)
  PROVE  GroupsTyped'
<1>0. /\ TasksFit /\ Fits(job[p]) /\ GroupsTyped /\ 0 \in Id /\ User \subseteq Id
  BY AccountsAssumption DEF Typed, TasksFit, Id, User
<1>1. CASE UNCHANGED group
  BY <1>0, <1>1 DEF GroupsTyped
<1>2. CASE DeleteRoute(p)
  <2>1. PICK g : g = Lookup(job[p].name)
    OBVIOUS
  <2>2. UNCHANGED group \/ group' = [group EXCEPT ![g].routed = FALSE]
    BY <1>2, <2>1 DEF DeleteRoute
  <2> QED
    BY <1>0, <2>2 DEF GroupsTyped, GroupRecord
<1>3. CASE Drop(p) \/ Rollback(p)
  <2>1. PICK g : UNCHANGED group \/ group' = [group EXCEPT ![g].live = FALSE, ![g].routed = FALSE]
    <3>1. CASE Drop(p)
      BY <3>1 DEF Drop
    <3>2. CASE Rollback(p)
      BY <3>2 DEF Rollback
    <3> QED
      BY <1>3, <3>1, <3>2
  <2>2. \A h \in Group :
          \/ group'[h] = group[h]
          \/ group'[h] = [group[h] EXCEPT !.live = FALSE, !.routed = FALSE]
    BY <1>0, <2>1 DEF GroupsTyped
  <2>3. group' \in [Group -> GroupRecord]
    <3>1. DOMAIN group' = Group /\ group' = [h \in Group |-> group'[h]]
      BY <1>0, <2>1 DEF GroupsTyped
    <3>2. ASSUME NEW h \in Group PROVE group'[h] \in GroupRecord
      <4>1. group[h] \in GroupRecord
        BY <1>0 DEF GroupsTyped
      <4> QED
        BY <2>2, <4>1 DEF GroupRecord
    <3> QED
      BY <3>1, <3>2
  <2>4. \A h \in Group : /\ group'[h].live => group[h].live /\ group'[h].owner = group[h].owner
                         /\ group'[h].routed =>
                              group[h].routed /\ group'[h].maker = group[h].maker
    <3>1. SUFFICES ASSUME NEW h \in Group
                   PROVE  /\ group'[h].live => group[h].live
                          /\ group'[h].owner = group[h].owner
                          /\ group'[h].routed =>
                               group[h].routed /\ group'[h].maker = group[h].maker
      OBVIOUS
    <3>2. group[h] \in GroupRecord
      BY <1>0 DEF GroupsTyped
    <3> QED
      BY <2>2, <3>2 DEF GroupRecord
  <2> QED
    BY <1>0, <2>3, <2>4 DEF GroupsTyped
<1>4. CASE Rename(p)
  <2>1. PICK n \in Name :
          UNCHANGED group \/ group' = [group EXCEPT ![job[p].gate].name = n]
    BY <1>4 DEF Rename
  <2> QED
    BY <1>0, <2>1 DEF GroupsTyped, GroupRecord
<1>5. CASE Make(p) \/ Import(p)
  <2>1. job[p].user \in User
    BY <1>0, <1>5 DEF Make, Import, Ask, At, Fits, UserFits
  <2>2. PICK g : g = Smallest(Unmade)
    OBVIOUS
  <2>3. PICK n \in Name :
          \/ UNCHANGED group
          \/ group' = [group EXCEPT ![g] = [live |-> TRUE, name |-> n, owner |-> job[p].user,
                                            maker |-> 0, routed |-> FALSE]]
    <3>1. CASE Make(p)
      BY <2>2, <3>1 DEF Make
    <3>2. CASE Import(p)
      BY <2>2, <3>2 DEF Import
    <3> QED
      BY <1>5, <3>1, <3>2
  <2>4. PICK r : r = [live |-> TRUE, name |-> n, owner |-> job[p].user,
                      maker |-> 0, routed |-> FALSE]
    OBVIOUS
  <2>5. r \in GroupRecord /\ r.owner \in User /\ ~ r.routed
    BY <1>0, <2>1, <2>4 DEF GroupRecord
  <2> QED
    BY <1>0, <2>3, <2>4, <2>5 DEF GroupsTyped
<1>6. CASE Implicit(p)
  <2>1. job[p].user \in User
    BY <1>0, <1>6 DEF Implicit, At, Fits, UserFits
  <2>2. PICK g : g = Smallest(Unmade)
    OBVIOUS
  <2>3. PICK n \in Name :
          group' = [group EXCEPT ![g] = [live |-> TRUE, name |-> n, owner |-> job[p].user,
                                         maker |-> job[p].user, routed |-> TRUE]]
    BY <1>6, <2>2 DEF Implicit
  <2> QED
    BY <1>0, <2>1, <2>3 DEF GroupsTyped, GroupRecord
<1>7. CASE NewRoute(p)
  <2>1. job[p].user \in User
    BY <1>0, <1>7 DEF NewRoute, At, Fits, UserFits
  <2>2. PICK g : g = Lookup(job[p].name)
    OBVIOUS
  <2>3. \/ group' = [group EXCEPT ![g].maker = job[p].user, ![g].routed = TRUE]
        \/ UNCHANGED group
    BY <1>7, <2>2 DEF NewRoute, registry
  <2> QED
    BY <1>0, <2>1, <2>3 DEF GroupsTyped, GroupRecord
<1> QED
  BY <1>1, <1>2, <1>3, <1>4, <1>5, <1>6, <1>7, OthersAreCalm, AccountMoveFrame, CredentialMoveFrame,
    CountAdminsFrame DEF Moving, GroupMove, Unmoved, others, registry

(* A task moves, or dies with all sessions of its account                  *)
LEMMA TasksKept ==
  ASSUME Typed, NEW p \in Thread, Does(p)
  PROVE  TasksFit'
<1>0. TasksFit
  BY DEF Typed
<1>1. CASE Moved(p)
  BY <1>0, <1>1 DEF Moved, Moves, TasksFit, Fits
<1>2. CASE BumpEpoch(p)
  <2>1. ASSUME NEW q \in Thread PROVE job'[q] \in Task /\ Fits(job'[q])
    <3>1. \/ job'[q] = Idle \/ job'[q] = job[q] \/ job'[q] = [job[q] EXCEPT !.dead = TRUE]
      BY <1>2 DEF BumpEpoch
    <3>2. Fits(job[q]) /\ job[q] \in Task
      BY <1>0 DEF TasksFit
    <3>3. CASE job'[q] = [job[q] EXCEPT !.dead = TRUE]
      <4>1. PICK n : n = [job[q] EXCEPT !.dead = TRUE]
        OBVIOUS
      <4>2. /\ n \in Task /\ n.at = job[q].at /\ n.op = job[q].op /\ n.role = job[q].role
            /\ n.user = job[q].user /\ n.id = job[q].id /\ n.mail = job[q].mail
            /\ n.login = job[q].login /\ n.cred = job[q].cred /\ n.tok = job[q].tok
            /\ n.gate = job[q].gate /\ n.name = job[q].name
        BY <3>2, <4>1 DEF Task
      <4>3. Fits(n)
        BY <3>2, <4>2 DEF Fits, OpFits, UserFits, IdFits, MailFits, CredFits, TokenFits,
          GateFits
      <4> QED
        BY <3>3, <4>1, <4>2, <4>3
    <3> QED
      BY <3>1, <3>2, <3>3, IdleFits DEF Fits
  <2>2. job' = [q \in Thread |-> job'[q]]
    BY <1>2 DEF BumpEpoch
  <2> QED
    BY <2>1, <2>2 DEF TasksFit
<1> QED
  BY <1>1, <1>2, EveryStepMoves

LEMMA TypedKept ==
  ASSUME Typed, NEW p \in Thread, Does(p)
  PROVE  Typed'
BY AccountsKept, CredentialsKept, GroupsKept, TasksKept DEF Typed

LEMMA TypedInit ==
  ASSUME AccessInit
  PROVE  Typed
<1>1. /\ 0 \in Id /\ User \subseteq Id /\ None \in Mails /\ None \in Named
      /\ DOMAIN Seed \subseteq User
  BY AccountsAssumption DEF Id, User, Mails, Named
<1>2. AccountsTyped
  <2>1. /\ user \in [User -> Account]
        /\ \A u \in User : user[u].shape = "whole" => user[u].mail \in Email
    BY <1>1, AccountsAssumption DEF AccessInit, Init, Account, NoUser, Mails
  <2>2. byEmail \in [Email -> Id]
    BY <1>1 DEF AccessInit, Init
  <2>3. byIdentity \in [Login -> Id]
    BY <1>1, AccountsAssumption DEF AccessInit, Init
  <2> QED
    BY <1>1, <2>1, <2>2, <2>3 DEF AccessInit, Init, AccountsTyped
<1>3. CredentialsTyped
  <2>1. /\ session \in [Cookie -> SessionRecord]
        /\ \A c \in Cookie : session[c] = NoSession \/ session[c].user \in User
    BY <1>1 DEF AccessInit, Init, SessionRecord, NoSession
  <2>2. (CHOOSE n \in TokenName : TRUE) \in Named
    BY AccountsAssumption DEF Named
  <2>3. /\ token \in [Token -> TokenRecord]
        /\ \A t \in Token : token[t].shape = "whole" => token[t].owner \in User
    BY <1>1, <2>2 DEF AccessInit, Init, TokenRecord, NoToken
  <2>4. byHash \subseteq Token /\ ofOwner \subseteq Token
    BY DEF AccessInit, Init
  <2>5. byName \in [User \X TokenName -> Token \cup {0}]
    BY <2>4 DEF AccessInit, Init
  <2>6. issued \subseteq Credential
    BY <2>4 DEF AccessInit, Init, Credential
  <2> QED
    BY <2>1, <2>3, <2>4, <2>5, <2>6 DEF CredentialsTyped
<1>4. GroupsTyped
  BY <1>1, AccessAssumption DEF AccessInit, GroupsTyped, GroupRecord, NoGroup
<1>5. TasksFit
  BY IdleFits DEF AccessInit, Init, TasksFit, Fits
<1> QED
  BY <1>2, <1>3, <1>4, <1>5 DEF Typed

LEMMA TypedStutters ==
  ASSUME Typed, UNCHANGED avars
  PROVE  Typed'
BY DEF Typed, AccountsTyped, CredentialsTyped, GroupsTyped, TasksFit, avars, accounts,
  credentials, others, registry, control

-----------------------------------------------------------------------------
(* A live route has an owner                                               *)

(* An account that owns a route exists, and no deletion of it has looked for *)
(* routes, unless it creates routes while it is being deleted.             *)
OwnInv ==
  /\ OwnersExist
  /\ \A g \in Group, q \in Thread :
       Routed(g) /\ Deep(job[q]) /\ job[q].id = group[g].maker =>
         group[g].maker \in orphaning

LEMMA RoutesMade ==
  ASSUME NEW p \in Thread, Does(p), NEW g \in Group, Typed, Routed(g)'
  PROVE  \/ Routed(g) /\ group'[g].maker = group[g].maker
         \/ /\ NewRoute(p) \/ Implicit(p)
            /\ group'[g].maker = job[p].user
            /\ Leaving(job[p].user) => job[p].user \in orphaning'
<1>0. group \in [Group -> GroupRecord] /\ g # 0
  BY GroupsCounted DEF Typed, GroupsTyped
<1>1. CASE UNCHANGED group
  BY <1>0, <1>1 DEF Routed
<1>2. CASE DeleteRoute(p)
  <2>1. PICK h : h = Lookup(job[p].name)
    OBVIOUS
  <2>2. UNCHANGED group \/ group' = [group EXCEPT ![h].routed = FALSE]
    BY <1>2, <2>1 DEF DeleteRoute
  <2> QED
    BY <1>0, <2>2 DEF Routed, GroupRecord
<1>3. CASE Drop(p) \/ Rollback(p)
  <2>1. PICK h : UNCHANGED group \/ group' = [group EXCEPT ![h].live = FALSE, ![h].routed = FALSE]
    <3>1. CASE Drop(p)
      BY <3>1 DEF Drop
    <3>2. CASE Rollback(p)
      BY <3>2 DEF Rollback
    <3> QED
      BY <1>3, <3>1, <3>2
  <2> QED
    BY <1>0, <2>1 DEF Routed, GroupRecord
<1>4. CASE Rename(p)
  <2>1. PICK n \in Name :
          UNCHANGED group \/ group' = [group EXCEPT ![job[p].gate].name = n]
    BY <1>4 DEF Rename
  <2> QED
    BY <1>0, <2>1 DEF Routed, GroupRecord
<1>5. CASE Make(p) \/ Import(p)
  <2>1. PICK h : h = Smallest(Unmade)
    OBVIOUS
  <2>2. PICK n \in Name :
          \/ UNCHANGED group
          \/ group' = [group EXCEPT ![h] = [live |-> TRUE, name |-> n, owner |-> job[p].user,
                                            maker |-> 0, routed |-> FALSE]]
    <3>1. CASE Make(p)
      BY <2>1, <3>1 DEF Make
    <3>2. CASE Import(p)
      BY <2>1, <3>2 DEF Import
    <3> QED
      BY <1>5, <3>1, <3>2
  <2> QED
    BY <1>0, <2>2 DEF Routed, GroupRecord
<1>6. CASE Implicit(p)
  <2>1. PICK h : h = Smallest(Unmade)
    OBVIOUS
  <2>2. PICK n \in Name :
          group' = [group EXCEPT ![h] = [live |-> TRUE, name |-> n, owner |-> job[p].user,
                                         maker |-> job[p].user, routed |-> TRUE]]
    BY <1>6, <2>1 DEF Implicit
  <2>3. Leaving(job[p].user) => job[p].user \in orphaning'
    BY <1>6 DEF Implicit
  <2> QED
    BY <1>0, <1>6, <2>2, <2>3 DEF Routed, GroupRecord
<1>7. CASE NewRoute(p)
  <2>1. PICK h : h = Lookup(job[p].name)
    OBVIOUS
  <2>2. \/ /\ group' = [group EXCEPT ![h].maker = job[p].user, ![h].routed = TRUE]
           /\ Leaving(job[p].user) => job[p].user \in orphaning'
        \/ UNCHANGED group
    BY <1>7, <2>1 DEF NewRoute, registry
  <2> QED
    BY <1>0, <1>7, <2>2 DEF Routed, GroupRecord
<1> QED
  BY <1>1, <1>2, <1>3, <1>4, <1>5, <1>6, <1>7, OthersAreCalm, AccountMoveFrame,
    CredentialMoveFrame, CountAdminsFrame DEF Moving, GroupMove, Unmoved, others, registry

LEMMA OrphansStay ==
  ASSUME NEW p \in Thread, Does(p)
  PROVE  orphaning \subseteq orphaning'
<1>1. CASE UNCHANGED orphaning
  BY <1>1
<1>2. CASE NewRoute(p) \/ Implicit(p)
  BY <1>2 DEF NewRoute, Implicit, registry
<1> QED
  BY <1>1, <1>2, OthersAreCalm, AccountMoveFrame, CredentialMoveFrame, CountAdminsFrame
    DEF Moving, GroupMove, Unmoved, others, registry, DeleteRoute, Rename, Drop, Make, Import,
    Rollback

LEMMA WholeStays ==
  ASSUME Typed, NEW p \in Thread, Does(p), NEW u \in User, Whole(u)
  PROVE  \/ Whole(u)' /\ user'[u].mail = user[u].mail
         \/ WipeUser(p) /\ job[p].id = u
<1>0. user \in [User -> Account]
  BY DEF Typed, AccountsTyped
<1>1. CASE UNCHANGED user
  BY <1>1 DEF Whole
<1>2. CASE BumpEpoch(p)
  BY <1>0, <1>2 DEF BumpEpoch, Whole, Account
<1>3. CASE WriteUser(p)
  <2>1. PICK v : v = Smallest(Unborn)
    OBVIOUS
  <2>2. Unborn \in SUBSET Nat /\ Unborn # {}
    BY <1>3 DEF WriteUser, Unborn, User
  <2>3. user[v].shape = "none"
    BY <2>1, <2>2, MinExists DEF Unborn
  <2>4. user' = [user EXCEPT ![v] = [shape |-> "whole", mail |-> job[p].mail,
                                     admin |-> job[p].role, epoch |-> 0]]
    BY <1>3, <2>1 DEF WriteUser
  <2> QED
    BY <1>0, <2>3, <2>4 DEF Whole
<1>4. CASE Sync(p) \/ PatchWrite(p)
  <2>1. user' = user \/ user' = [user EXCEPT ![job[p].id].admin = job[p].role]
    BY <1>4 DEF Sync, PatchWrite
  <2> QED
    BY <1>0, <2>1 DEF Whole, Account
<1>5. CASE WipeUser(p)
  <2>1. user' = [user EXCEPT ![job[p].id].shape = "stub"]
    BY <1>5 DEF WipeUser
  <2> QED
    BY <1>0, <1>5, <2>1 DEF Whole, Account
<1> QED
  BY <1>1, <1>2, <1>3, <1>4, <1>5, OthersAreCalm, CredentialMoveFrame, GroupMoveFrame,
    CountAdminsFrame DEF Moving, AccountMove, Unmoved, Untouched, accounts, Heal, Claim,
    Enlist, Reindex, Link, Unmail, Unlist

(* A deletion becomes deep only where it looks for routes.                 *)
LEMMA DeepMoves ==
  ASSUME Typed, NEW p \in Thread, Does(p), NEW q \in Thread, Deep(job'[q])
  PROVE  \/ Deep(job[q]) /\ job'[q].id = job[q].id
         \/ /\ CheckOwned(p) /\ UNCHANGED group
            /\ \A g \in Group : Routed(g) => group[g].maker # job'[q].id
<1> DEFINE Goal ==
      \/ Deep(job[q]) /\ job'[q].id = job[q].id
      \/ /\ CheckOwned(p) /\ UNCHANGED group
         /\ \A g \in Group : Routed(g) => group[g].maker # job'[q].id
<1>0. TasksFit
  BY DEF Typed
<1>1. CASE BumpEpoch(p)
  <2>1. \/ job'[q] = Idle \/ job'[q] = job[q] \/ job'[q] = [job[q] EXCEPT !.dead = TRUE]
    BY <1>1 DEF BumpEpoch
  <2>2. job[q] \in Task
    BY <1>0 DEF TasksFit
  <2>3. \/ job'[q] = Idle \/ /\ job'[q].at = job[q].at /\ job'[q].op = job[q].op
                             /\ job'[q].id = job[q].id
    BY <2>1, <2>2 DEF Task
  <2> QED
    BY <2>3, IdleFields DEF Deep
<1>2. ASSUME NEW t, Moves(p, t) PROVE Goal
  <2>1. CASE q # p \/ OwnDrift(job[p], t)
    BY <1>0, <1>2, <2>1 DEF Moves, OwnDrift, TasksFit
  <2>2. CASE q = p /\ OwnStep(p)
    <3>1. Deep(t) /\ job'[q] = t
      BY <1>0, <1>2, <2>2 DEF Moves, TasksFit
    <3>2. ~ End(p)
      BY <1>0, <2>2, <3>1, IdleFields DEF Deep, End, Work, TasksFit
    <3>3. /\ Step(p, "delete_read") /\ Unmoved
          /\ \A g \in Group : Routed(g) => group[g].maker # job[p].id
      BY <2>2, <3>2 DEF OwnStep, CheckOwned, Refuse
    <3>4. job'[p].id = job[p].id
      BY <1>0, <3>3 DEF Step, Work, TasksFit, Task
    <3> QED
      BY <2>2, <3>3, <3>4 DEF OwnStep, Unmoved, others, registry
  <2> QED
    BY <1>2, <2>1, <2>2 DEF Moves
<1> QED
  BY <1>1, <1>2, EveryStepMoves DEF Moved

LEMMA OwnStutters ==
  ASSUME OwnInv, UNCHANGED avars
  PROVE  OwnInv'
BY DEF OwnInv, OwnersExist, Routed, Whole, avars, accounts, others, registry, control

LEMMA OwnKept ==
  ASSUME Typed, OwnInv, NEW p \in Thread, Does(p)
  PROVE  OwnInv'
<1>0. TasksFit /\ TasksFit' /\ GroupsTyped /\ GroupsTyped'
  BY TypedKept DEF Typed
<1>1. ASSUME NEW g \in Group, Routed(g)'
      PROVE  Whole(group[g].maker)' \/ group'[g].maker \in orphaning'
  <2>1. CASE Routed(g) /\ group'[g].maker = group[g].maker
    <3>1. group[g].maker \in User
      BY <1>0, <2>1 DEF GroupsTyped, Routed
    <3>2. CASE WipeUser(p) /\ job[p].id = group[g].maker
      <4>1. Deep(job[p])
        BY <1>0, <3>2 DEF WipeUser, At, TasksFit, Fits, OpFits, Deep
      <4> QED
        BY <2>1, <3>2, <4>1, OrphansStay DEF OwnInv
    <3> QED
      BY <2>1, <3>1, <3>2, WholeStays, OrphansStay DEF OwnInv, OwnersExist, Whole
  <2>2. CASE /\ NewRoute(p) \/ Implicit(p)
             /\ group'[g].maker = job[p].user
             /\ Leaving(job[p].user) => job[p].user \in orphaning'
    <3>1. UNCHANGED user
      BY <2>2 DEF NewRoute, Implicit, Untouched, accounts
    <3> QED
      BY <2>2, <3>1 DEF Leaving, Whole
  <2> QED
    BY <1>1, <2>1, <2>2, RoutesMade
<1>2. ASSUME NEW g \in Group, NEW q \in Thread,
             Routed(g)', Deep(job'[q]), job'[q].id = group'[g].maker
      PROVE  group'[g].maker \in orphaning'
  <2>1. CASE CheckOwned(p) /\ UNCHANGED group /\
               \A h \in Group : Routed(h) => group[h].maker # job'[q].id
    BY <1>2, <2>1 DEF Routed
  <2>2. CASE Deep(job[q]) /\ job'[q].id = job[q].id
    <3>1. CASE Routed(g) /\ group'[g].maker = group[g].maker
      BY <1>2, <2>2, <3>1, OrphansStay DEF OwnInv
    <3>2. CASE Leaving(job[p].user) => job[p].user \in orphaning'
      <4>1. CASE group'[g].maker = job[p].user
        BY <1>2, <2>2, <3>2, <4>1 DEF Leaving, Deep
      <4> QED
        BY <1>2, <3>1, <4>1, RoutesMade
    <3> QED
      BY <1>2, <3>1, <3>2, RoutesMade
  <2> QED
    BY <1>2, <2>1, <2>2, DeepMoves
<1> QED
  BY <1>1, <1>2 DEF OwnInv, OwnersExist

LEMMA OwnInit ==
  ASSUME AccessInit
  PROVE  OwnInv
<1>1. ASSUME NEW g \in Group, Routed(g) PROVE Whole(group[g].maker)
  BY <1>1, AccountsAssumption, AccessAssumption DEF AccessInit, Init, Routed, NoGroup, Whole, User
<1>2. ASSUME NEW q \in Thread PROVE ~ Deep(job[q])
  BY IdleFields DEF AccessInit, Init, Deep
<1> QED
  BY <1>1, <1>2 DEF OwnInv, OwnersExist

(* A live route has an owner with an account, for any number of threads and *)
(* accounts: an account that owns one is not deleted, unless it creates it *)
(* after the deletion has looked.  (auth.rs, delete_user; registry.rs)     *)
THEOREM RoutesHaveOwners == Spec => []OwnersExist
<1>1. AccessInit => Typed /\ OwnInv
  BY TypedInit, OwnInit
<1>2. Typed /\ OwnInv /\ [AccessNext]_avars => (Typed /\ OwnInv)'
  <2>1. CASE AccessNext
    BY <2>1, TypedKept, OwnKept DEF AccessNext, Does
  <2>2. CASE UNCHANGED avars
    BY <2>2, TypedStutters, OwnStutters
  <2> QED
    BY <2>1, <2>2
<1>3. OwnInv => OwnersExist
  BY DEF OwnInv
<1> QED
  BY <1>1, <1>2, <1>3, PTL DEF Spec

-----------------------------------------------------------------------------
(* One account per email                                                   *)

Coming(q) == job[q].at \in {"claim", "enlist"}

(* An account that has its email's index entry, or once had                *)
Claimed(u) == u \in all \/ \E q \in Thread : At(q, "enlist") /\ job[q].id = u

(* A deletion has taken the entry of the account away.                     *)
Going(u) == \E q \in Thread : job[q].at \in {"unlist", "wipe"} /\ job[q].id = u

(* An account that is being created is known to its thread alone.          *)
Reserved ==
  /\ \A u \in all : user[u].shape # "none"
  /\ \A q \in Thread : Coming(q) =>
       /\ user[job[q].id].shape # "none"
       /\ Whole(job[q].id) => user[job[q].id].mail = job[q].mail
       /\ job[q].id \notin all
       /\ \A r \in Thread : Coming(r) /\ job[r].id = job[q].id => r = q

(* No entry, no account but one that is going                              *)
Entered == \A u \in User :
  Claimed(u) /\ Whole(u) /\ user[u].mail \notin freed /\ byEmail[user[u].mail] = 0 => Going(u)

Single == \A u, v \in User :
  (/\ Claimed(u) /\ Claimed(v) /\ Whole(u) /\ Whole(v) /\ u # v
   /\ user[u].mail = user[v].mail /\ user[u].mail \notin freed)
  => Going(u) \/ Going(v)

EmailInv == Reserved /\ Entered /\ Single

LEMMA SettlingMoves ==
  ASSUME Typed, NEW p \in Thread, Does(p), NEW q \in Thread
  PROVE  \/ q = p /\ MailStep(p)
         \/ ~ Settling(job[q]) /\ ~ Settling(job'[q])
         \/ job'[q].at = job[q].at /\ job'[q].id = job[q].id /\ job'[q].mail = job[q].mail
<1>0. TasksFit
  BY DEF Typed
<1>1. CASE BumpEpoch(p)
  <2>1. CASE q = p
    BY <1>1, <2>1, IdleFields DEF BumpEpoch, At, Settling
  <2>2. CASE q # p
    <3>1. job'[q] = job[q] \/ job'[q] = [job[q] EXCEPT !.dead = TRUE]
      BY <1>1, <2>2 DEF BumpEpoch
    <3> QED
      BY <1>0, <3>1 DEF TasksFit, Task
  <2> QED
    BY <2>1, <2>2
<1>2. CASE Moved(p)
  BY <1>0, <1>2 DEF Moved, Moves, MailDrift, TasksFit
<1> QED
  BY <1>1, <1>2, EveryStepMoves

(* The steps that neither create nor delete accounts leave the emails be.  *)
LEMMA MailFrame ==
  ASSUME Typed, NEW p \in Thread, Does(p), ~ MailStep(p)
  PROVE  /\ all' = all /\ freed' = freed
         /\ \A u \in User : user'[u].shape = user[u].shape /\ user'[u].mail = user[u].mail
         /\ \A e \in Email : byEmail[e] # 0 => byEmail'[e] # 0
<1>0. AccountsTyped /\ TasksFit
  BY DEF Typed
<1>1. CASE UNCHANGED <<accounts, freed>>
  BY <1>1 DEF accounts
<1>2. CASE BumpEpoch(p)
  <2>1. UNCHANGED <<all, freed, byEmail>>
    BY <1>2 DEF BumpEpoch
  <2>2. user' = [user EXCEPT ![job[p].user].epoch = @ + 1]
    BY <1>2 DEF BumpEpoch
  <2> QED
    BY <1>0, <2>1, <2>2 DEF AccountsTyped, Account
<1>3. CASE Heal(p) \/ Reindex(p)
  <2>1. UNCHANGED <<user, all, freed>>
    BY <1>3 DEF Heal, Reindex, others
  <2>2. job[p].id # 0 /\ job[p].id \in User
    BY <1>0, <1>3 DEF Heal, Reindex, At, TasksFit, Fits, IdFits, User
  <2>3. PICK u \in User : byEmail' = [byEmail EXCEPT ![job[p].mail] = u]
    BY <1>3, <2>2 DEF Heal, Reindex, Indexable
  <2>4. u # 0
    BY DEF User
  <2> QED
    BY <1>0, <2>1, <2>3, <2>4 DEF AccountsTyped
<1>4. CASE Sync(p) \/ PatchWrite(p)
  <2>1. UNCHANGED <<byEmail, all, freed>>
    BY <1>4 DEF Sync, PatchWrite, others
  <2>2. user' = user \/ user' = [user EXCEPT ![job[p].id].admin = job[p].role]
    BY <1>4 DEF Sync, PatchWrite
  <2> QED
    BY <1>0, <2>1, <2>2 DEF AccountsTyped, Account
<1>5. CASE Link(p)
  BY <1>5 DEF Link, others
<1> QED
  BY <1>1, <1>2, <1>3, <1>4, <1>5, OthersAreCalm, CredentialMoveFrame, GroupMoveFrame,
    CountAdminsFrame DEF Moving, AccountMove, Unmoved, Untouched, others, MailStep

LEMMA EmailCalm ==
  ASSUME Typed, EmailInv, NEW p \in Thread, Does(p), ~ MailStep(p)
  PROVE  EmailInv'
<1>0. AccountsTyped /\ TasksFit
  BY DEF Typed
<1>1. \A q \in Thread :
        \/ ~ Settling(job[q]) /\ ~ Settling(job'[q])
        \/ job'[q].at = job[q].at /\ job'[q].id = job[q].id /\ job'[q].mail = job[q].mail
  BY SettlingMoves
<1>2. /\ all' = all /\ freed' = freed
      /\ \A u \in User : user'[u].shape = user[u].shape /\ user'[u].mail = user[u].mail
      /\ \A e \in Email : byEmail[e] # 0 => byEmail'[e] # 0
  BY MailFrame
<1>3. \A q \in Thread : Settling(job[q]) => job[q].id \in User
  BY <1>0 DEF TasksFit, Fits, IdFits, Settling
<1>4. all \subseteq User /\ \A u \in User : Whole(u) => user[u].mail \in Email
  BY <1>0 DEF AccountsTyped, Whole
<1>5. Reserved'
  BY <1>1, <1>2, <1>3, <1>4 DEF EmailInv, Reserved, Coming, Settling, Whole
<1>6. ASSUME NEW u \in User
      PROVE  /\ Claimed(u)' <=> Claimed(u)
             /\ Going(u)' <=> Going(u)
             /\ Whole(u)' <=> Whole(u)
  BY <1>1, <1>2 DEF Claimed, Going, Settling, At, Whole
<1>7. Entered'
  BY <1>2, <1>4, <1>6 DEF EmailInv, Entered
<1>8. Single'
  BY <1>2, <1>6 DEF EmailInv, Single
<1> QED
  BY <1>5, <1>7, <1>8 DEF EmailInv

LEMMA EmailWritten ==
  ASSUME Typed, EmailInv, NEW p \in Thread, WriteUser(p)
  PROVE  EmailInv'
<1>0. AccountsTyped /\ TasksFit
  BY DEF Typed
<1>1. PICK w : w = Smallest(Unborn)
  OBVIOUS
<1>2. w \in User /\ user[w].shape = "none"
  <2>1. Unborn \in SUBSET Nat /\ Unborn # {}
    BY DEF WriteUser, Unborn, User
  <2> QED
    BY <1>1, <2>1, MinExists DEF Unborn
<1>3. UNCHANGED <<byEmail, all, freed>>
  BY DEF WriteUser, others
<1>4. /\ user' = [user EXCEPT ![w] = [shape |-> "whole", mail |-> job[p].mail,
                                      admin |-> job[p].role, epoch |-> 0]]
      /\ job' = [job EXCEPT ![p] = [job[p] EXCEPT !.at = "claim", !.id = w,
                                      !.was = job[p].role, !.epoch = 0]]
  BY <1>1 DEF WriteUser, Work
<1>5. /\ user'[w].shape = "whole" /\ user'[w].mail = job[p].mail
      /\ \A u \in User : u # w => user'[u] = user[u]
  BY <1>0, <1>2, <1>4 DEF AccountsTyped
<1>6. /\ job'[p].at = "claim" /\ job'[p].id = w /\ job'[p].mail = job[p].mail
      /\ \A q \in Thread : q # p => job'[q] = job[q]
  BY <1>0, <1>4 DEF TasksFit, Task
<1>7. job[p].at = "write_user"
  BY DEF WriteUser, At
<1>8. /\ w \notin all /\ \A q \in Thread : Coming(q) => job[q].id # w
      /\ all \subseteq User /\ \A q \in Thread : Coming(q) => job[q].id \in User
  BY <1>0, <1>2 DEF EmailInv, Reserved, AccountsTyped, TasksFit, Fits, IdFits, Coming
<1>9. Reserved'
  BY <1>3, <1>5, <1>6, <1>7, <1>8 DEF EmailInv, Reserved, Coming, Whole
<1>10. ASSUME NEW u \in User, Claimed(u)'
       PROVE  u # w /\ Claimed(u) /\ user'[u] = user[u]
  BY <1>3, <1>5, <1>6, <1>7, <1>8, <1>10 DEF Claimed, At, Coming
<1>11. ASSUME NEW u \in User, Going(u) PROVE Going(u)'
  BY <1>6, <1>7, <1>11 DEF Going
<1>12. Entered' /\ Single'
  BY <1>3, <1>10, <1>11 DEF EmailInv, Entered, Single, Whole
<1> QED
  BY <1>9, <1>12 DEF EmailInv

LEMMA EmailClaimed ==
  ASSUME Typed, EmailInv, NEW p \in Thread, Claim(p)
  PROVE  EmailInv'
<1>0. AccountsTyped /\ TasksFit
  BY DEF Typed
<1>1. UNCHANGED <<user, all, freed>> /\ job[p].at = "claim"
  BY DEF Claim, others, At
<1>2. /\ job[p].id \in User /\ job[p].mail \in Email /\ all \subseteq User
      /\ \A u \in User : Whole(u) => user[u].mail \in Email
  BY <1>0, <1>1 DEF AccountsTyped, TasksFit, Fits, IdFits, MailFits, Whole
<1>3. CASE byEmail[job[p].mail] = 0
  <2>1. /\ byEmail' = [byEmail EXCEPT ![job[p].mail] = job[p].id]
        /\ job' = [job EXCEPT ![p] = [job[p] EXCEPT !.at = "enlist"]]
    BY <1>3 DEF Claim, Step, Work
  <2>2. /\ job'[p].at = "enlist" /\ job'[p].id = job[p].id /\ job'[p].mail = job[p].mail
        /\ \A q \in Thread : q # p => job'[q] = job[q]
    BY <1>0, <2>1 DEF TasksFit, Task
  <2>3. /\ byEmail'[job[p].mail] # 0
        /\ \A e \in Email : e # job[p].mail => byEmail'[e] = byEmail[e]
    BY <1>0, <1>2, <2>1 DEF AccountsTyped, User
  <2>4. Reserved'
    BY <1>1, <2>2 DEF EmailInv, Reserved, Coming, Whole
  <2>5. ASSUME NEW u \in User, Claimed(u)'
        PROVE  Claimed(u) \/ u = job[p].id
    BY <1>1, <2>2, <2>5 DEF Claimed, At
  <2>6. ASSUME NEW u \in User, Going(u) PROVE Going(u)'
    BY <1>1, <2>2, <2>6 DEF Going
  <2>7. Whole(job[p].id) => user[job[p].id].mail = job[p].mail
    BY <1>1 DEF EmailInv, Reserved, Coming
  <2>8. Entered'
    BY <1>1, <1>2, <2>3, <2>5, <2>6, <2>7 DEF EmailInv, Entered, Whole
  <2>9. Single'
    BY <1>1, <1>2, <1>3, <2>5, <2>6, <2>7 DEF EmailInv, Entered, Single, Whole
  <2> QED
    BY <2>4, <2>8, <2>9 DEF EmailInv
<1>4. CASE byEmail[job[p].mail] # 0
  <2>1. UNCHANGED byEmail /\ job' = [job EXCEPT ![p] = Idle]
    BY <1>4 DEF Claim, End, Work
  <2>2. job'[p].at = "idle" /\ \A q \in Thread : q # p => job'[q] = job[q]
    BY <1>0, <2>1, IdleFields DEF TasksFit
  <2>3. Reserved'
    BY <1>1, <2>2 DEF EmailInv, Reserved, Coming, Whole
  <2>4. ASSUME NEW u \in User PROVE (Claimed(u)' => Claimed(u)) /\ (Going(u) => Going(u)')
    BY <1>1, <2>2 DEF Claimed, Going, At
  <2>5. Entered' /\ Single'
    BY <1>1, <2>1, <2>4 DEF EmailInv, Entered, Single, Whole
  <2> QED
    BY <2>3, <2>5 DEF EmailInv
<1> QED
  BY <1>3, <1>4

LEMMA EmailEnlisted ==
  ASSUME Typed, EmailInv, NEW p \in Thread, Enlist(p)
  PROVE  EmailInv'
<1>0. AccountsTyped /\ TasksFit
  BY DEF Typed
<1>1. UNCHANGED <<user, byEmail, freed>> /\ job[p].at = "enlist"
  BY DEF Enlist, others, At
<1>2. all' = all \cup {job[p].id}
  BY DEF Enlist
<1>3. ~ Settling(job'[p]) /\ \A q \in Thread : q # p => job'[q] = job[q]
  <2>1. CASE End(p)
    BY <1>0, <2>1, IdleFields DEF End, Work, TasksFit, Settling
  <2>2. CASE Step(p, "link")
    BY <1>0, <2>2 DEF Step, Work, TasksFit, Task, Settling
  <2> QED
    BY <2>1, <2>2 DEF Enlist
<1>4. Coming(p) /\ ~ Coming(p)'
  BY <1>1, <1>3 DEF Coming, Settling
<1>5. ASSUME NEW q \in Thread, Coming(q)' PROVE q # p /\ Coming(q) /\ job'[q] = job[q]
  BY <1>3, <1>4, <1>5 DEF Coming
<1>6. Reserved'
  BY <1>1, <1>2, <1>4, <1>5 DEF EmailInv, Reserved, Whole
<1>7. ASSUME NEW u \in User PROVE (Claimed(u)' => Claimed(u)) /\ (Going(u) => Going(u)')
  BY <1>1, <1>2, <1>3, <1>5 DEF Claimed, Going, At, Settling
<1>8. Entered' /\ Single'
  BY <1>1, <1>7 DEF EmailInv, Entered, Single, Whole
<1> QED
  BY <1>6, <1>8 DEF EmailInv

LEMMA EmailFreed ==
  ASSUME Typed, EmailInv, NEW p \in Thread, Unmail(p)
  PROVE  EmailInv'
<1>0. AccountsTyped /\ TasksFit
  BY DEF Typed
<1>1. UNCHANGED <<user, all>> /\ job[p].at = "unmail"
  BY DEF Unmail, At
<1>2. /\ byEmail' = [byEmail EXCEPT ![job[p].mail] = 0]
      /\ job' = [job EXCEPT ![p] = [job[p] EXCEPT !.at = "unlist"]]
  BY DEF Unmail, Step, Work
<1>3. /\ freed \subseteq freed'
      /\ \A v \in User : v # job[p].id /\ Held(v, job[p].mail) => job[p].mail \in freed'
  BY DEF Unmail
<1>4. /\ job'[p].at = "unlist" /\ job'[p].id = job[p].id
      /\ \A q \in Thread : q # p => job'[q] = job[q]
  BY <1>0, <1>2 DEF TasksFit, Task
<1>5. \A e \in Email : e # job[p].mail => byEmail'[e] = byEmail[e]
  BY <1>0, <1>2 DEF AccountsTyped
<1>6. Reserved'
  BY <1>1, <1>4 DEF EmailInv, Reserved, Coming, Whole
<1>7. ASSUME NEW u \in User PROVE (Claimed(u)' => Claimed(u)) /\ (Going(u) => Going(u)')
  BY <1>1, <1>4 DEF Claimed, Going, At
<1>8. ASSUME NEW u \in User, Claimed(u), Whole(u), u # job[p].id, user[u].mail = job[p].mail
      PROVE  user[u].mail \in freed'
  BY <1>3, <1>8 DEF Held, Claimed
<1>9. \A u \in User : Whole(u) => user[u].mail \in Email
  BY <1>0 DEF AccountsTyped, Whole
<1>10. ASSUME NEW u \in User, Claimed(u)', Whole(u)', user'[u].mail \notin freed',
              byEmail'[user'[u].mail] = 0
       PROVE  Going(u)'
  <2>1. Claimed(u) /\ Whole(u) /\ user[u].mail \in Email
    BY <1>1, <1>7, <1>9, <1>10 DEF Whole
  <2>2. CASE user[u].mail = job[p].mail
    <3>1. u = job[p].id
      BY <1>1, <1>8, <1>10, <2>1, <2>2
    <3> QED
      BY <1>4, <3>1 DEF Going
  <2>3. CASE user[u].mail # job[p].mail
    BY <1>1, <1>3, <1>5, <1>7, <1>10, <2>1, <2>3 DEF EmailInv, Entered
  <2> QED
    BY <2>2, <2>3
<1>11. Single'
  BY <1>1, <1>3, <1>7 DEF EmailInv, Single, Whole
<1> QED
  BY <1>6, <1>10, <1>11 DEF EmailInv, Entered

LEMMA EmailUnlisted ==
  ASSUME Typed, EmailInv, NEW p \in Thread, Unlist(p)
  PROVE  EmailInv'
<1>0. TasksFit
  BY DEF Typed
<1>1. UNCHANGED <<user, byEmail, freed>> /\ job[p].at = "unlist" /\ all' = all \ {job[p].id}
  BY DEF Unlist, others, At
<1>2. job' = [job EXCEPT ![p] = [job[p] EXCEPT !.at = "wipe"]]
  BY DEF Unlist, Step, Work
<1>3. /\ job'[p].at = "wipe" /\ job'[p].id = job[p].id
      /\ \A q \in Thread : q # p => job'[q] = job[q]
  BY <1>0, <1>2 DEF TasksFit, Task
<1>4. Reserved'
  BY <1>1, <1>3 DEF EmailInv, Reserved, Coming, Whole
<1>5. ASSUME NEW u \in User PROVE (Claimed(u)' => Claimed(u)) /\ (Going(u) => Going(u)')
  BY <1>1, <1>3 DEF Claimed, Going, At
<1>6. Entered' /\ Single'
  BY <1>1, <1>5 DEF EmailInv, Entered, Single, Whole
<1> QED
  BY <1>4, <1>6 DEF EmailInv

LEMMA EmailWiped ==
  ASSUME Typed, EmailInv, NEW p \in Thread, WipeUser(p)
  PROVE  EmailInv'
<1>0. AccountsTyped /\ TasksFit
  BY DEF Typed
<1>1. UNCHANGED <<all, byEmail, freed>> /\ job[p].at = "wipe"
  BY DEF WipeUser, At
<1>2. /\ user' = [user EXCEPT ![job[p].id].shape = "stub"]
      /\ job' = [job EXCEPT ![p] = Idle]
  BY DEF WipeUser, End, Work
<1>3. job[p].id \in User /\ all \subseteq User
  BY <1>0, <1>1 DEF TasksFit, Fits, IdFits, AccountsTyped
<1>4. /\ user'[job[p].id].shape = "stub"
      /\ \A u \in User : u # job[p].id => user'[u] = user[u]
  BY <1>0, <1>2, <1>3 DEF AccountsTyped, Account
<1>5. job'[p].at = "idle" /\ \A q \in Thread : q # p => job'[q] = job[q]
  BY <1>0, <1>2, IdleFields DEF TasksFit
<1>6. \A q \in Thread : Coming(q) => job[q].id \in User
  BY <1>0 DEF TasksFit, Fits, IdFits, Coming
<1>7. Reserved'
  BY <1>1, <1>3, <1>4, <1>5, <1>6 DEF EmailInv, Reserved, Coming, Whole
<1>8. ASSUME NEW u \in User, Whole(u)'
      PROVE  /\ u # job[p].id /\ user'[u] = user[u]
             /\ Claimed(u)' => Claimed(u)
             /\ Going(u) => Going(u)'
  BY <1>1, <1>4, <1>5, <1>8 DEF Claimed, Going, At, Whole
<1>9. Entered' /\ Single'
  BY <1>1, <1>8 DEF EmailInv, Entered, Single, Whole
<1> QED
  BY <1>7, <1>9 DEF EmailInv

LEMMA EmailInit ==
  ASSUME AccessInit
  PROVE  EmailInv
<1>1. \A q \in Thread : ~ Settling(job[q]) /\ ~ Coming(q)
  BY IdleFields DEF AccessInit, Init, Settling, Coming
<1>2. /\ all = DOMAIN Seed /\ DOMAIN Seed \subseteq User
      /\ \A u \in DOMAIN Seed : /\ user[u].shape = "whole" /\ user[u].mail = Seed[u].mail
                                /\ Seed[u].mail \in Email
  BY AccountsAssumption DEF AccessInit, Init, User
<1>3. \A u \in User : Claimed(u) => u \in DOMAIN Seed
  BY <1>1, <1>2 DEF Claimed, At, Settling
<1>4. \A e \in Email : (\E u \in DOMAIN Seed : Seed[u].mail = e) => byEmail[e] # 0
  BY <1>2 DEF AccessInit, Init, User
<1>5. Reserved
  BY <1>1, <1>2 DEF Reserved
<1>6. Entered
  BY <1>2, <1>3, <1>4 DEF Entered
<1>7. \A u, v \in DOMAIN Seed : Seed[u].mail = Seed[v].mail => u = v
  BY AccountsAssumption
<1>8. ASSUME NEW u \in User, NEW v \in User, Claimed(u), Claimed(v), user[u].mail = user[v].mail
      PROVE  u = v
  BY <1>2, <1>3, <1>7, <1>8
<1>9. Single
  BY <1>8 DEF Single
<1> QED
  BY <1>5, <1>6, <1>9 DEF EmailInv

LEMMA EmailStutters ==
  ASSUME EmailInv, UNCHANGED avars
  PROVE  EmailInv'
BY DEF EmailInv, Reserved, Entered, Single, Claimed, Going, Coming, At, Whole, avars, accounts,
  others, control

(* However creations, first sign-ins, deletions and repairs of the index   *)
(* interleave, and however many there are, no two accounts that can be     *)
(* listed have one email, but for one that is being deleted, or an email   *)
(* whose entry a second deletion has freed.  (auth.rs)                     *)
THEOREM EmailsAreClaimed == Spec => []OneAccountPerEmailUnlessFreed
<1>1. AccessInit => Typed /\ EmailInv
  BY TypedInit, EmailInit
<1>2. Typed /\ EmailInv /\ [AccessNext]_avars => (Typed /\ EmailInv)'
  <2>1. ASSUME Typed, EmailInv, NEW p \in Thread, Does(p) PROVE EmailInv'
    BY <2>1, EmailCalm, EmailWritten, EmailClaimed, EmailEnlisted, EmailFreed,
      EmailUnlisted, EmailWiped DEF MailStep
  <2>2. CASE AccessNext
    BY <2>1, <2>2, TypedKept DEF AccessNext, Does
  <2>3. CASE UNCHANGED avars
    BY <2>3, TypedStutters, EmailStutters
  <2> QED
    BY <2>2, <2>3
<1>3. Typed /\ EmailInv => OneAccountPerEmailUnlessFreed
  <2>1. ASSUME TasksFit, NEW u, Going(u)
        PROVE  \E q \in Thread : job[q].op = "delete_user" /\ job[q].id = u
    BY <2>1 DEF Going, TasksFit, Fits, OpFits
  <2> QED
    BY <2>1 DEF EmailInv, Single, Claimed, OneAccountPerEmailUnlessFreed, Typed, AccountsTyped
<1> QED
  BY <1>1, <1>2, <1>3, PTL DEF Spec

-----------------------------------------------------------------------------
(* The last administrator                                                  *)

(* Administrators no demotion or deletion is about to take away            *)
Safe == {a \in Admins : \A q \in Thread : Demoting(job[q]) => job[q].id # a}

AdminInv == excused \/ Safe # {}

(* Who becomes the target of a demotion or a deletion                      *)
LEMMA DemotingMoves ==
  ASSUME Typed, NEW p \in Thread, Does(p), NEW q \in Thread, Demoting(job'[q])
  PROVE  \/ Demoting(job[q]) /\ job'[q].id = job[q].id
         \/ q = p /\ AdminStep(p)
<1>0. TasksFit
  BY DEF Typed
<1>1. CASE BumpEpoch(p)
  <2>1. \/ job'[q] = Idle \/ job'[q] = job[q] \/ job'[q] = [job[q] EXCEPT !.dead = TRUE]
    BY <1>1 DEF BumpEpoch
  <2>2. \/ job'[q] = Idle
        \/ /\ job'[q].at = job[q].at /\ job'[q].op = job[q].op /\ job'[q].id = job[q].id
           /\ job'[q].role = job[q].role /\ job'[q].was = job[q].was
    BY <1>0, <2>1 DEF TasksFit, Task
  <2> QED
    BY <2>2, IdleFields DEF Demoting
<1>2. CASE Moved(p)
  BY <1>0, <1>2 DEF Moved, Moves, AdminDrift, TasksFit
<1> QED
  BY <1>1, <1>2, EveryStepMoves

(* A look-up takes aim at somebody who is no administrator.                *)
LEMMA AimMissesAdmins ==
  ASSUME Typed, NEW p \in Thread, FindUser(p) \/ Scan(p), Demoting(job'[p])
  PROVE  job'[p].id \notin Admins
<1>0. TasksFit /\ job[p] \in Task
  BY DEF Typed, TasksFit
<1>1. ASSUME End(p) PROVE FALSE
  BY <1>0, <1>1, IdleFields DEF End, Work, TasksFit, Demoting
<1>2. ASSUME NEW l \in {"sync", "link", "may_patch", "may_delete", "heal"}, NEW u,
             Work(p, [job[p] EXCEPT !.at = l, !.id = u, !.was = user[u].admin,
                                    !.epoch = user[u].epoch])
      PROVE  job'[p].id \notin Admins
  <2>1. /\ job'[p].at = l /\ job'[p].id = u /\ job'[p].was = user[u].admin
    BY <1>0, <1>2 DEF Work, TasksFit, Task
  <2>2. ~ user[u].admin
    BY <2>1 DEF Demoting
  <2> QED
    BY <2>1, <2>2 DEF Admins
<1>3. CASE FindUser(p)
  <2>1. OnFound(p) \in {"sync", "link", "may_patch", "may_delete", "end"}
    BY DEF OnFound
  <2> QED
    BY <1>1, <1>2, <1>3, <2>1 DEF FindUser, Found
<1>4. CASE Scan(p)
  <2>1. CASE Missing(p)
    <3>1. CASE OnMissing(job[p].op) = "end"
      BY <1>1, <2>1, <3>1 DEF Missing
    <3>2. CASE OnMissing(job[p].op) \in {"write_user", "find"}
      <4>1. job'[p].at \in {"write_user", "find"}
        BY <1>0, <2>1, <3>2 DEF Missing, Work, TasksFit, Task
      <4> QED
        BY <4>1 DEF Demoting
    <3> QED
      BY <3>1, <3>2 DEF OnMissing
  <2>2. CASE \E u \in all :
               Work(p, [job[p] EXCEPT !.at = "heal", !.id = u, !.was = user[u].admin,
                                      !.epoch = user[u].epoch])
    BY <1>2, <2>2
  <2> QED
    BY <1>1, <1>4, <2>1, <2>2 DEF Scan
<1> QED
  BY <1>3, <1>4

(* An administrator stays one unless a demotion or a deletion aims at him, *)
(* or a sign-in takes the role away.                                       *)
LEMMA AdminsStay ==
  ASSUME Typed, NEW p \in Thread, Does(p), NEW a \in Admins
  PROVE  \/ a \in Admins'
         \/ Demoting(job[p]) /\ job[p].id = a
         \/ excused'
<1>0. AccountsTyped /\ TasksFit
  BY DEF Typed
<1>1. a \in User /\ a \in all /\ Whole(a) /\ user[a].admin
  BY <1>0 DEF Admins, AccountsTyped
<1>2. CASE a \in all' /\ user'[a].shape = user[a].shape /\ user'[a].admin = user[a].admin
  BY <1>1, <1>2 DEF Admins, Whole
<1>3. CASE UNCHANGED <<user, all>>
  BY <1>1, <1>2, <1>3
<1>4. CASE BumpEpoch(p)
  <2>1. UNCHANGED all /\ user' = [user EXCEPT ![job[p].user].epoch = @ + 1]
    BY <1>4 DEF BumpEpoch
  <2> QED
    BY <1>0, <1>1, <1>2, <2>1 DEF AccountsTyped, Account
<1>5. CASE WriteUser(p)
  <2>1. PICK w : w = Smallest(Unborn)
    OBVIOUS
  <2>2. Unborn \in SUBSET Nat /\ Unborn # {}
    BY <1>5 DEF WriteUser, Unborn, User
  <2>3. user[w].shape = "none" /\ w # a
    BY <1>1, <2>1, <2>2, MinExists DEF Unborn, Whole
  <2>4. /\ UNCHANGED all
        /\ user' = [user EXCEPT ![w] = [shape |-> "whole", mail |-> job[p].mail,
                                        admin |-> job[p].role, epoch |-> 0]]
    BY <1>5, <2>1 DEF WriteUser
  <2> QED
    BY <1>0, <1>1, <1>2, <2>3, <2>4 DEF AccountsTyped
<1>6. CASE Enlist(p)
  BY <1>1, <1>2, <1>6 DEF Enlist
<1>7. CASE Sync(p)
  <2>1. CASE job[p].was = job[p].role
    BY <1>3, <1>7, <2>1 DEF Sync
  <2>2. CASE job[p].was /\ ~ job[p].role
    BY <1>7, <2>2 DEF Sync
  <2>3. CASE ~ job[p].was /\ job[p].role
    <3>1. UNCHANGED all /\ user' = [user EXCEPT ![job[p].id].admin = TRUE]
      BY <1>0, <1>7, <2>3 DEF Sync, TasksFit, Task
    <3> QED
      BY <1>0, <1>1, <3>1 DEF AccountsTyped, Account, Admins, Whole
  <2>4. job[p].was \in BOOLEAN /\ job[p].role \in BOOLEAN
    BY <1>0 DEF TasksFit, Task
  <2> QED
    BY <2>1, <2>2, <2>3, <2>4
<1>8. CASE PatchWrite(p)
  <2>1. /\ UNCHANGED all /\ user' = [user EXCEPT ![job[p].id].admin = job[p].role]
        /\ job[p].at = "patch_write"
    BY <1>8 DEF PatchWrite, At
  <2>2. job[p].op = "patch_user" /\ job[p].role \in BOOLEAN
    BY <1>0, <2>1 DEF TasksFit, Fits, OpFits, Task
  <2>3. CASE job[p].id # a
    BY <1>0, <1>1, <1>2, <2>1, <2>3 DEF AccountsTyped, Account
  <2>4. CASE ~ job[p].role
    BY <2>1, <2>2, <2>3, <2>4 DEF Demoting
  <2>5. CASE job[p].role /\ job[p].id = a
    BY <1>0, <1>1, <2>1, <2>5 DEF AccountsTyped, Account, Admins, Whole
  <2> QED
    BY <2>2, <2>3, <2>4, <2>5
<1>9. CASE Unlist(p) \/ WipeUser(p)
  <2>1. CASE job[p].id = a
    BY <1>0, <1>9, <2>1 DEF Unlist, WipeUser, At, TasksFit, Fits, OpFits, Demoting
  <2>2. CASE job[p].id # a
    <3>1. CASE Unlist(p)
      BY <1>1, <1>2, <2>2, <3>1 DEF Unlist
    <3>2. CASE WipeUser(p)
      <4>1. UNCHANGED all /\ user' = [user EXCEPT ![job[p].id].shape = "stub"]
        BY <3>2 DEF WipeUser
      <4> QED
        BY <1>0, <1>1, <1>2, <2>2, <4>1 DEF AccountsTyped, Account
    <3> QED
      BY <1>9, <3>1, <3>2
  <2> QED
    BY <2>1, <2>2
<1>10. CASE Heal(p) \/ Claim(p) \/ Reindex(p) \/ Link(p) \/ Unmail(p)
  BY <1>3, <1>10 DEF Heal, Claim, Reindex, Link, Unmail
<1> QED
  BY <1>3, <1>4, <1>5, <1>6, <1>7, <1>8, <1>9, <1>10, OthersAreCalm, CredentialMoveFrame,
    GroupMoveFrame, CountAdminsFrame DEF Moving, AccountMove, Unmoved, Untouched, accounts

LEMMA ExcuseStays ==
  ASSUME NEW p \in Thread, Does(p), excused
  PROVE  excused'
<1>1. CASE UNCHANGED excused
  BY <1>1
<1>2. CASE Sync(p) \/ CountAdmins(p)
  BY <1>2 DEF Sync, CountAdmins
<1> QED
  BY <1>1, <1>2, OthersAreCalm, CredentialMoveFrame, GroupMoveFrame DEF Moving, AccountMove,
    Unmoved, Untouched, others, BumpEpoch, Heal, WriteUser, Claim, Enlist, Reindex, Link,
    PatchWrite, Unmail, Unlist, WipeUser

(* count_admins wants two of them: one is left when the other goes.        *)
LEMMA AnotherAdmin ==
  ASSUME Typed, Enough(Cardinality(Admins)), NEW u
  PROVE  \E a \in Admins : a # u
<1>1. SUFFICES ASSUME Admins \subseteq {u} PROVE FALSE
  OBVIOUS
<1>2. IsFiniteSet({u}) /\ Cardinality({u}) = 1
  BY FS_Singleton
<1>3. Cardinality(Admins) <= 1 /\ Cardinality(Admins) \in Nat
  BY <1>1, <1>2, FS_Subset, FS_CardinalityType
<1> QED
  BY <1>3 DEF Enough

LEMMA AdminCounted ==
  ASSUME Typed, NEW p \in Thread, CountAdmins(p), AdminInv
  PROVE  AdminInv'
<1>0. TasksFit
  BY DEF Typed
<1>1. Admins' = Admins
  BY CountAdminsFrame DEF Admins, Whole, accounts
<1>2. CASE excused'
  BY <1>2 DEF AdminInv
<1>3. CASE ~ excused'
  <2>1. ~ excused /\ \A q \in Thread : q # p => ~ Demoting(job[q])
    BY <1>3 DEF CountAdmins, Removing, Demoting
  <2>2. \A q \in Thread : q # p => job'[q] = job[q]
    BY <1>0 DEF CountAdmins, Refuse, End, Step, Work, TasksFit
  <2>3. CASE Refuse(p)
    <3>1. ~ Demoting(job'[p])
      BY <1>0, <2>3, IdleFields DEF Refuse, End, Work, TasksFit, Demoting
    <3> QED
      BY <1>1, <2>1, <2>2, <3>1 DEF AdminInv, Safe
  <2>4. CASE ~ Refuse(p)
    <3>1. PICK a \in Admins : a # job[p].id
      BY <2>4, AnotherAdmin DEF CountAdmins
    <3>2. job'[p].id = job[p].id
      BY <1>0, <2>4 DEF CountAdmins, Step, Work, TasksFit, Task
    <3> QED
      BY <1>1, <2>1, <2>2, <3>1, <3>2 DEF AdminInv, Safe
  <2> QED
    BY <2>3, <2>4
<1> QED
  BY <1>2, <1>3

LEMMA AdminKept ==
  ASSUME Typed, AdminInv, NEW p \in Thread, Does(p)
  PROVE  AdminInv'
<1>1. CASE excused
  BY <1>1, ExcuseStays DEF AdminInv
<1>2. CASE CountAdmins(p)
  BY <1>2, AdminCounted
<1>3. CASE ~ excused /\ ~ excused' /\ ~ CountAdmins(p)
  <2>1. PICK a \in Admins : \A q \in Thread : Demoting(job[q]) => job[q].id # a
    BY <1>3 DEF AdminInv, Safe
  <2>2. a \in Admins'
    BY <1>3, <2>1, AdminsStay
  <2>3. ASSUME NEW q \in Thread, Demoting(job'[q]) PROVE job'[q].id # a
    BY <1>3, <2>1, <2>3, DemotingMoves, AimMissesAdmins DEF AdminStep
  <2> QED
    BY <2>2, <2>3 DEF AdminInv, Safe
<1> QED
  BY <1>1, <1>2, <1>3 DEF AdminInv

LEMMA AdminStutters ==
  ASSUME AdminInv, UNCHANGED avars
  PROVE  AdminInv'
BY DEF AdminInv, Safe, Admins, Whole, avars, accounts, others, control

(* If there is an administrator at the start there is one as long as no two *)
(* demotions or deletions overlap past the count and no sign-in takes the  *)
(* role away.  (auth.rs, count_admins)                                     *)
THEOREM AnAdminIsLeft ==
  ASSUME \E u \in DOMAIN Seed : Seed[u].admin
  PROVE  Spec => []LastAdmin
<1>1. AccessInit => Typed /\ AdminInv
  <2>1. SUFFICES ASSUME AccessInit PROVE AdminInv
    BY TypedInit
  <2>2. PICK u \in DOMAIN Seed : Seed[u].admin
    OBVIOUS
  <2>3. u \in Admins
    BY <2>1, <2>2, AccountsAssumption DEF AccessInit, Init, Admins, Whole, User
  <2>4. \A q \in Thread : ~ Demoting(job[q])
    BY <2>1, IdleFields DEF AccessInit, Init, Demoting
  <2> QED
    BY <2>3, <2>4 DEF AdminInv, Safe
<1>2. Typed /\ AdminInv /\ [AccessNext]_avars => (Typed /\ AdminInv)'
  <2>1. CASE AccessNext
    BY <2>1, TypedKept, AdminKept DEF AccessNext, Does
  <2>2. CASE UNCHANGED avars
    BY <2>2, TypedStutters, AdminStutters
  <2> QED
    BY <2>1, <2>2
<1>3. AdminInv => LastAdmin
  BY DEF AdminInv, Safe, LastAdmin
<1> QED
  BY <1>1, <1>2, <1>3, PTL DEF Spec

-----------------------------------------------------------------------------
(* Owners only                                                             *)

Asker(q, owner) == job[q].admin \/ owner = job[q].user

(* What a thread that was let in has seen stays true until it answers.     *)
Entitled(q) ==
  /\ job[q].at \in {"update_route", "route_data", "delete_route"} /\ job[q].gate \in Group =>
       Asker(q, group[job[q].gate].maker)
  /\ job[q].at \in {"rename", "group_data", "drop"} /\ job[q].op = "group" =>
       Asker(q, group[job[q].gate].owner)
  /\ job[q].at \in {"rename", "group_data", "drop"} /\ job[q].op = "journal" =>
       Asker(q, group[job[q].gate].maker)
  /\ job[q].at \in {"probe", "new_route"} /\ job[q].gate \in Group =>
       Asker(q, group[job[q].gate].owner)
  /\ job[q].at = "done" => \A g \in job[q].hits :
       Asker(q, OwnerOf(q, g)) \/ (job[q].op \in {"route", "create", "probe"} /\ g # job[q].gate)

(* A group that was not made has no owner, nor has its route.              *)
Blank == \A g \in Group :
  group[g].name = None => ~ group[g].live /\ group[g].owner = 0 /\ group[g].maker = 0

GateInv == Blank /\ \A q \in Thread : Entitled(q)

(* Groups and routes never change hands.                                   *)
LEMMA HandsKept ==
  ASSUME Typed, Blank, NEW p \in Thread, Does(p), NEW h \in Group
  PROVE  /\ group[h].owner # 0 => group'[h].owner = group[h].owner
         /\ group[h].maker # 0 => group'[h].maker = group[h].maker
         /\ group'[h].name = None =>
              ~ group'[h].live /\ group'[h].owner = 0 /\ group'[h].maker = 0
<1>0. GroupsTyped /\ None \notin Name
  BY AccessAssumption DEF Typed
<1>1. CASE UNCHANGED group
  BY <1>1 DEF Blank
<1>2. CASE DeleteRoute(p)
  <2>1. PICK g : g = Lookup(job[p].name)
    OBVIOUS
  <2>2. UNCHANGED group \/ group' = [group EXCEPT ![g].routed = FALSE]
    BY <1>2, <2>1 DEF DeleteRoute
  <2> QED
    BY <1>0, <2>2 DEF GroupsTyped, GroupRecord, Blank
<1>3. CASE Drop(p) \/ Rollback(p)
  <2>1. PICK g : UNCHANGED group \/ group' = [group EXCEPT ![g].live = FALSE, ![g].routed = FALSE]
    <3>1. CASE Drop(p)
      BY <3>1 DEF Drop
    <3>2. CASE Rollback(p)
      BY <3>2 DEF Rollback
    <3> QED
      BY <1>3, <3>1, <3>2
  <2> QED
    BY <1>0, <2>1 DEF GroupsTyped, GroupRecord, Blank
<1>4. CASE Rename(p)
  <2>1. PICK n \in Name :
          UNCHANGED group \/ group' = [group EXCEPT ![job[p].gate].name = n]
    BY <1>4 DEF Rename
  <2> QED
    BY <1>0, <2>1 DEF GroupsTyped, GroupRecord, Blank
<1>5. ASSUME Unmade # {}, NEW r, r.name \in Name, group' = [group EXCEPT ![Smallest(Unmade)] = r]
      PROVE  /\ group[h].owner # 0 => group'[h].owner = group[h].owner
             /\ group[h].maker # 0 => group'[h].maker = group[h].maker
             /\ group'[h].name = None =>
                  ~ group'[h].live /\ group'[h].owner = 0 /\ group'[h].maker = 0
  <2>1. PICK g : g = Smallest(Unmade)
    OBVIOUS
  <2>2. g \in Group /\ group[g].name = None
    BY <1>5, <2>1, NextUnmade DEF Unmade
  <2>3. group'[g].name # None /\ \A i \in Group : i # g => group'[i] = group[i]
    BY <1>0, <1>5, <2>1, <2>2 DEF GroupsTyped
  <2> QED
    BY <2>2, <2>3 DEF Blank
<1>6. CASE Make(p) \/ Import(p)
  <2>1. PICK n \in Name :
          \/ UNCHANGED group
          \/ /\ Unmade # {}
             /\ group' = [group EXCEPT ![Smallest(Unmade)] = [live |-> TRUE, name |-> n,
                            owner |-> job[p].user, maker |-> 0, routed |-> FALSE]]
    <3>1. CASE Make(p)
      BY <3>1 DEF Make
    <3>2. CASE Import(p)
      BY <3>2 DEF Import
    <3> QED
      BY <1>6, <3>1, <3>2
  <2>2. PICK r : r = [live |-> TRUE, name |-> n, owner |-> job[p].user, maker |-> 0,
                      routed |-> FALSE]
    OBVIOUS
  <2>3. r.name \in Name
    BY <2>2
  <2> QED
    BY <1>1, <1>5, <2>1, <2>2, <2>3
<1>7. CASE Implicit(p)
  <2>1. PICK n \in Name :
          /\ Unmade # {}
          /\ group' = [group EXCEPT ![Smallest(Unmade)] = [live |-> TRUE, name |-> n,
                         owner |-> job[p].user, maker |-> job[p].user, routed |-> TRUE]]
    BY <1>7 DEF Implicit
  <2>2. PICK r : r = [live |-> TRUE, name |-> n, owner |-> job[p].user,
                      maker |-> job[p].user, routed |-> TRUE]
    OBVIOUS
  <2>3. r.name \in Name
    BY <2>2
  <2> QED
    BY <1>5, <2>1, <2>2, <2>3
<1>8. CASE NewRoute(p)
  <2>1. PICK g : g = Lookup(job[p].name)
    OBVIOUS
  <2>2. \/ /\ g # 0 /\ group[g].maker = 0
           /\ group' = [group EXCEPT ![g].maker = job[p].user, ![g].routed = TRUE]
        \/ UNCHANGED group
    BY <1>8, <2>1 DEF NewRoute, registry
  <2>3. g # 0 => g \in Group /\ group[g].live
    BY <2>1, LookupFits
  <2> QED
    BY <1>0, <2>2, <2>3 DEF GroupsTyped, GroupRecord, Blank
<1> QED
  BY <1>1, <1>2, <1>3, <1>4, <1>6, <1>7, <1>8, OthersAreCalm, AccountMoveFrame,
    CredentialMoveFrame, CountAdminsFrame DEF Moving, GroupMove, Unmoved, others, registry

(* What a thread was let in for stays good while it does not move.         *)
LEMMA EntitledStays ==
  ASSUME Typed, Blank, NEW p \in Thread, Does(p), NEW q \in Thread, Entitled(q),
         /\ job'[q].at = job[q].at /\ job'[q].op = job[q].op /\ job'[q].user = job[q].user
         /\ job'[q].admin = job[q].admin /\ job'[q].gate = job[q].gate
         /\ job'[q].hits = job[q].hits
  PROVE  Entitled(q)'
<1>1. Fits(job[q]) /\ job[q].hits \subseteq Group
  BY DEF Typed, TasksFit, Task, GroupSets
<1>2. Gated(job[q]) => job[q].user # 0
  BY <1>1 DEF Fits, UserFits, Gated, User
<1>3. ASSUME NEW h \in Group, Gated(job[q])
      PROVE  /\ Asker(q, group[h].owner) => Asker(q, group[h].owner)'
             /\ Asker(q, group[h].maker) => Asker(q, group[h].maker)'
             /\ Asker(q, OwnerOf(q, h)) => Asker(q, OwnerOf(q, h))'
  BY <1>2, <1>3, HandsKept DEF Asker, OwnerOf
<1>4. job[q].at \in {"rename", "group_data", "drop"} => job[q].gate \in Group
  BY <1>1 DEF Fits, GateFits
<1> QED
  BY <1>1, <1>3, <1>4 DEF Entitled, Gated

LEMMA EntitledByGate ==
  ASSUME Typed, GateInv, NEW p \in Thread, Does(p), GateStep(p), Gated(job'[p])
  PROVE  Entitled(p)'
<1>0. /\ TasksFit /\ job \in [Thread -> Task] /\ job[p] \in Task /\ Fits(job[p])
      /\ GroupsTyped /\ Entitled(p)
  BY DEF Typed, TasksFit, GateInv
<1>1. ~ End(p) /\ ~ Step(p, "rollback")
  BY <1>0, IdleFields DEF End, Step, Work, Gated, Task
<1>2. ASSUME NEW h \in Group, job[p].user # 0
      PROVE  /\ group[h].owner = job[p].user => group'[h].owner = job[p].user
             /\ group[h].maker = job[p].user => group'[h].maker = job[p].user
  BY <1>2, HandsKept DEF GateInv
<1>3. CASE Shown(p)
  <2>1. PICK g \in Group :
          /\ May(p, group[g].maker)
          /\ Work(p, [job[p] EXCEPT !.at = "done", !.op = "route", !.gate = g, !.hits = {g}])
    BY <1>3, <1>1, LookupFits DEF Shown, Refuse, Routed
  <2>2. /\ job'[p].at = "done" /\ job'[p].op = "route" /\ job'[p].gate = g
        /\ job'[p].hits = {g} /\ job'[p].user = job[p].user /\ job'[p].admin = job[p].admin
    BY <1>0, <2>1 DEF Work, Step, Task
  <2>3. UNCHANGED group
    BY <1>3 DEF Shown, Unmoved, others, registry
  <2> QED
    BY <2>1, <2>2, <2>3 DEF Entitled, Asker, OwnerOf, May
<1>4. CASE ShownGroup(p)
  <2>1. PICK g \in Group :
          /\ May(p, group[g].owner)
          /\ Work(p, [job[p] EXCEPT !.at = "done", !.op = "group", !.gate = g, !.hits = {g}])
    BY <1>4, <1>1, LookupFits DEF ShownGroup, Refuse
  <2>2. /\ job'[p].at = "done" /\ job'[p].op = "group" /\ job'[p].gate = g
        /\ job'[p].hits = {g} /\ job'[p].user = job[p].user /\ job'[p].admin = job[p].admin
    BY <1>0, <2>1 DEF Work, Step, Task
  <2>3. UNCHANGED group
    BY <1>4 DEF ShownGroup, Unmoved, others, registry
  <2> QED
    BY <2>1, <2>2, <2>3 DEF Entitled, Asker, OwnerOf, May
<1>5. CASE Unmatched(p)
  <2>1. PICK g \in Group :
          /\ May(p, group[g].owner)
          /\ Work(p, [job[p] EXCEPT !.at = "done", !.op = "group", !.gate = g, !.hits = {g}])
    BY <1>5, <1>1, LookupFits DEF Unmatched, Refuse, May
  <2>2. /\ job'[p].at = "done" /\ job'[p].op = "group" /\ job'[p].gate = g
        /\ job'[p].hits = {g} /\ job'[p].user = job[p].user /\ job'[p].admin = job[p].admin
    BY <1>0, <2>1 DEF Work, Step, Task
  <2>3. UNCHANGED group
    BY <1>5 DEF Unmatched, Unmoved, others, registry
  <2> QED
    BY <2>1, <2>2, <2>3 DEF Entitled, Asker, OwnerOf, May
<1>6. CASE ListGroups(p)
  <2>1. PICK gs : gs = {g \in Group : group[g].live /\ May(p, group[g].owner)}
    OBVIOUS
  <2>2. Work(p, [job[p] EXCEPT !.at = "done", !.op = "groups", !.hits = gs]) /\ UNCHANGED group
    BY <1>6, <2>1 DEF ListGroups, Unmoved, others, registry
  <2>3. /\ job'[p].at = "done" /\ job'[p].op = "groups" /\ job'[p].hits = gs
        /\ job'[p].user = job[p].user /\ job'[p].admin = job[p].admin
    BY <1>0, <2>2 DEF Work, Task
  <2> QED
    BY <2>1, <2>2, <2>3 DEF Entitled, Asker, OwnerOf, May
<1>7. CASE ListRoutes(p)
  <2>1. PICK gs : gs = {g \in Group : Routed(g) /\ May(p, group[g].maker)}
    OBVIOUS
  <2>2. Work(p, [job[p] EXCEPT !.at = "done", !.op = "routes", !.hits = gs]) /\ UNCHANGED group
    BY <1>7, <2>1 DEF ListRoutes, Unmoved, others, registry
  <2>3. /\ job'[p].at = "done" /\ job'[p].op = "routes" /\ job'[p].hits = gs
        /\ job'[p].user = job[p].user /\ job'[p].admin = job[p].admin
    BY <1>0, <2>2 DEF Work, Task
  <2> QED
    BY <2>1, <2>2, <2>3 DEF Entitled, Asker, OwnerOf, May
<1>8. CASE \E act \in {"update_route", "delete_route", "route_data", "patch_route"} : BySlug(p, act)
  <2>1. PICK act \in {"update_route", "delete_route", "route_data", "patch_route"} : BySlug(p, act)
    BY <1>8
  <2>2. PICK n \in Name, g \in Group :
          /\ May(p, group[g].maker)
          /\ Work(p, [job[p] EXCEPT !.at = act, !.op = "route", !.name = n, !.gate = g])
    BY <2>1, <1>1, LookupFits DEF BySlug, Refuse, Routed
  <2>3. /\ job'[p].at = act /\ job'[p].op = "route" /\ job'[p].gate = g
        /\ job'[p].user = job[p].user /\ job'[p].admin = job[p].admin
    BY <1>0, <2>2 DEF Work, Task
  <2>4. UNCHANGED group
    BY <2>1 DEF BySlug, Unmoved, others, registry
  <2> QED
    BY <2>1, <2>2, <2>3, <2>4 DEF Entitled, Asker, OwnerOf, May
<1>9. CASE \E act \in {"rename", "group_data", "drop"} : ByRef(p, act)
  <2>1. PICK act \in {"rename", "group_data", "drop"} : ByRef(p, act)
    BY <1>9
  <2>2. PICK g \in Group :
          /\ May(p, group[g].owner)
          /\ Work(p, [job[p] EXCEPT !.at = act, !.op = "group", !.gate = g])
    BY <2>1, <1>1, LookupFits DEF ByRef, Refuse
  <2>3. /\ job'[p].at = act /\ job'[p].op = "group" /\ job'[p].gate = g
        /\ job'[p].user = job[p].user /\ job'[p].admin = job[p].admin
    BY <1>0, <2>2 DEF Work, Task
  <2>4. UNCHANGED group
    BY <2>1 DEF ByRef, Unmoved, others, registry
  <2> QED
    BY <2>1, <2>2, <2>3, <2>4 DEF Entitled, Asker, OwnerOf, May
<1>10. CASE Journal(p)
  <2>1. PICK g \in Group :
          /\ May(p, group[g].maker)
          /\ Work(p, [job[p] EXCEPT !.at = "group_data", !.op = "journal", !.gate = g])
    BY <1>10, <1>1, LookupFits DEF Journal, Refuse, May
  <2>2. /\ job'[p].at = "group_data" /\ job'[p].op = "journal" /\ job'[p].gate = g
        /\ job'[p].user = job[p].user /\ job'[p].admin = job[p].admin
    BY <1>0, <2>1 DEF Work, Step, Task
  <2>3. UNCHANGED group
    BY <1>10 DEF Journal, Unmoved, others, registry
  <2> QED
    BY <2>1, <2>2, <2>3 DEF Entitled, Asker, OwnerOf, May
<1>11. CASE Probing(p)
  <2>1. PICK n \in Name, g \in Group :
          /\ May(p, group[g].owner)
          /\ Work(p, [job[p] EXCEPT !.at = "probe", !.op = "probe", !.name = n, !.gate = g])
    BY <1>11, <1>1, LookupFits DEF Probing, Refuse
  <2>2. /\ job'[p].at = "probe" /\ job'[p].op = "probe" /\ job'[p].gate = g
        /\ job'[p].user = job[p].user /\ job'[p].admin = job[p].admin
    BY <1>0, <2>1 DEF Work, Step, Task
  <2>3. UNCHANGED group
    BY <1>11 DEF Probing, Unmoved, others, registry
  <2> QED
    BY <2>1, <2>2, <2>3 DEF Entitled, Asker, OwnerOf, May
<1>12. CASE Into(p)
  <2>1. PICK n \in Name, g \in Group :
          /\ May(p, group[g].owner)
          /\ Work(p, [job[p] EXCEPT !.at = "new_route", !.op = "create", !.name = n, !.gate = g])
    BY <1>12, <1>1, LookupFits DEF Into, Refuse
  <2>2. /\ job'[p].at = "new_route" /\ job'[p].op = "create" /\ job'[p].gate = g
        /\ job'[p].user = job[p].user /\ job'[p].admin = job[p].admin
    BY <1>0, <2>1 DEF Work, Step, Task
  <2>3. UNCHANGED group
    BY <1>12 DEF Into, Unmoved, others, registry
  <2> QED
    BY <2>1, <2>2, <2>3 DEF Entitled, Asker, OwnerOf, May
<1>13. CASE ImportRoute(p)
  <2>1. PICK g \in Group :
          /\ May(p, group[g].owner)
          /\ Work(p, [job[p] EXCEPT !.at = "new_route", !.gate = g])
    BY <1>13, <1>1, LookupFits DEF ImportRoute, Refuse, Fail
  <2>2. /\ job'[p].at = "new_route" /\ job'[p].gate = g /\ job'[p].user = job[p].user
        /\ job'[p].admin = job[p].admin
    BY <1>0, <2>1 DEF Work, Step, Task
  <2>3. UNCHANGED group
    BY <1>13 DEF ImportRoute, Unmoved, others, registry
  <2> QED
    BY <2>1, <2>2, <2>3 DEF Entitled, Asker, OwnerOf, May
<1>14. CASE PatchCore(p)
  <2>1. PICK g \in Group :
          /\ May(p, group[g].maker)
          /\ Work(p, [job[p] EXCEPT !.at = "update_route", !.gate = g])
    BY <1>14, <1>1, LookupFits DEF PatchCore, Refuse, Routed
  <2>2. /\ job'[p].at = "update_route" /\ job'[p].gate = g /\ job'[p].user = job[p].user
        /\ job'[p].admin = job[p].admin
    BY <1>0, <2>1 DEF Work, Step, Task
  <2>3. UNCHANGED group
    BY <1>14 DEF PatchCore, Unmoved, others, registry
  <2> QED
    BY <2>1, <2>2, <2>3 DEF Entitled, Asker, OwnerOf, May
<1>15. CASE UpdateRoute(p)
  <2>1. PICK g \in Group : Work(p, [job[p] EXCEPT !.at = "done", !.hits = {g}])
    BY <1>15, <1>1, LookupFits DEF UpdateRoute, Refuse, Routed, Did
  <2>2. /\ job'[p].at = "done" /\ job'[p].hits = {g} /\ job'[p].op = job[p].op
        /\ job'[p].gate = job[p].gate /\ job'[p].user = job[p].user
        /\ job'[p].admin = job[p].admin
    BY <1>0, <2>1 DEF Work, Step, Task
  <2>3. job[p].at = "update_route" /\ job[p].op = "route" /\ job[p].user # 0
    BY <1>0, <1>15 DEF UpdateRoute, At, Fits, OpFits, UserFits, User
  <2>4. g = job[p].gate => Asker(p, group[g].maker)
    BY <1>0, <2>3 DEF Entitled
  <2> QED
    BY <1>2, <2>2, <2>3, <2>4 DEF Entitled, Asker, OwnerOf
<1>16. CASE RouteData(p)
  <2>1. PICK g \in Group : Work(p, [job[p] EXCEPT !.at = "done", !.hits = {g}])
    BY <1>16, <1>1, LookupFits DEF RouteData, Refuse, Routed, Did
  <2>2. /\ job'[p].at = "done" /\ job'[p].hits = {g} /\ job'[p].op = job[p].op
        /\ job'[p].gate = job[p].gate /\ job'[p].user = job[p].user
        /\ job'[p].admin = job[p].admin
    BY <1>0, <2>1 DEF Work, Step, Task
  <2>3. job[p].at = "route_data" /\ job[p].op = "route" /\ job[p].user # 0
    BY <1>0, <1>16 DEF RouteData, At, Fits, OpFits, UserFits, User
  <2>4. g = job[p].gate => Asker(p, group[g].maker)
    BY <1>0, <2>3 DEF Entitled
  <2> QED
    BY <1>2, <2>2, <2>3, <2>4 DEF Entitled, Asker, OwnerOf
<1>17. CASE DeleteRoute(p)
  <2>1. PICK g \in Group : Work(p, [job[p] EXCEPT !.at = "done", !.hits = {g}])
    BY <1>17, <1>1, LookupFits DEF DeleteRoute, Refuse, Routed, Did
  <2>2. /\ job'[p].at = "done" /\ job'[p].hits = {g} /\ job'[p].op = job[p].op
        /\ job'[p].gate = job[p].gate /\ job'[p].user = job[p].user
        /\ job'[p].admin = job[p].admin
    BY <1>0, <2>1 DEF Work, Step, Task
  <2>3. job[p].at = "delete_route" /\ job[p].op = "route" /\ job[p].user # 0
    BY <1>0, <1>17 DEF DeleteRoute, At, Fits, OpFits, UserFits, User
  <2>4. g = job[p].gate => Asker(p, group[g].maker)
    BY <1>0, <2>3 DEF Entitled
  <2> QED
    BY <1>2, <2>2, <2>3, <2>4 DEF Entitled, Asker, OwnerOf
<1>18. CASE GroupData(p)
  <2>1. PICK g : g = job[p].gate
    OBVIOUS
  <2>2. /\ g \in Group /\ job[p].at = "group_data" /\ job[p].op \in {"group", "journal"}
        /\ job[p].user # 0
    BY <1>0, <1>18, <2>1 DEF GroupData, At, Fits, GateFits, OpFits, UserFits, User
  <2>3. \/ Asker(p, group[g].owner) /\ job[p].op = "group"
        \/ Asker(p, group[g].maker) /\ job[p].op = "journal"
    BY <1>0, <2>1, <2>2 DEF Entitled
  <2>4. Work(p, [job[p] EXCEPT !.at = "done", !.hits = {g}])
    BY <1>18, <1>1, <2>1 DEF GroupData, Did
  <2>5. CASE Work(p, [job[p] EXCEPT !.at = "done", !.hits = {g}])
    <3>1. /\ job'[p].at = "done" /\ job'[p].hits = {g} /\ job'[p].op = job[p].op
          /\ job'[p].user = job[p].user /\ job'[p].admin = job[p].admin
      BY <1>0, <2>5 DEF Work, Task
    <3> QED
      BY <1>2, <2>2, <2>3, <3>1 DEF Entitled, Asker, OwnerOf
  <2> QED
    BY <2>4, <2>5
<1>19. CASE Drop(p)
  <2>1. PICK g : g = job[p].gate
    OBVIOUS
  <2>2. /\ g \in Group /\ job[p].at = "drop" /\ job[p].op \in {"group", "journal"}
        /\ job[p].user # 0
    BY <1>0, <1>19, <2>1 DEF Drop, At, Fits, GateFits, OpFits, UserFits, User
  <2>3. \/ Asker(p, group[g].owner) /\ job[p].op = "group"
        \/ Asker(p, group[g].maker) /\ job[p].op = "journal"
    BY <1>0, <2>1, <2>2 DEF Entitled
  <2>4. Work(p, [job[p] EXCEPT !.at = "done", !.hits = {g}])
    BY <1>19, <1>1, <2>1 DEF Drop, Did
  <2>5. CASE Work(p, [job[p] EXCEPT !.at = "done", !.hits = {g}])
    <3>1. /\ job'[p].at = "done" /\ job'[p].hits = {g} /\ job'[p].op = job[p].op
          /\ job'[p].user = job[p].user /\ job'[p].admin = job[p].admin
      BY <1>0, <2>5 DEF Work, Task
    <3> QED
      BY <1>2, <2>2, <2>3, <3>1 DEF Entitled, Asker, OwnerOf
  <2> QED
    BY <2>4, <2>5
<1>20. CASE Rename(p)
  <2>1. PICK g : g = job[p].gate
    OBVIOUS
  <2>2. /\ g \in Group /\ job[p].at = "rename" /\ job[p].op \in {"group", "journal"}
        /\ job[p].user # 0
    BY <1>0, <1>20, <2>1 DEF Rename, At, Fits, GateFits, OpFits, UserFits, User
  <2>3. \/ Asker(p, group[g].owner) /\ job[p].op = "group"
        \/ Asker(p, group[g].maker) /\ job[p].op = "journal"
    BY <1>0, <2>1, <2>2 DEF Entitled
  <2>4. Work(p, [job[p] EXCEPT !.at = "done", !.hits = {g}]) \/ Step(p, "group_data")
    BY <1>20, <1>1, <2>1 DEF Rename, Did
  <2>5. CASE Work(p, [job[p] EXCEPT !.at = "done", !.hits = {g}])
    <3>1. /\ job'[p].at = "done" /\ job'[p].hits = {g} /\ job'[p].op = job[p].op
          /\ job'[p].user = job[p].user /\ job'[p].admin = job[p].admin
      BY <1>0, <2>5 DEF Work, Task
    <3> QED
      BY <1>2, <2>2, <2>3, <3>1 DEF Entitled, Asker, OwnerOf
  <2>6. CASE Step(p, "group_data")
    <3>1. /\ job'[p].at = "group_data" /\ job'[p].gate = g /\ job'[p].op = job[p].op
          /\ job'[p].user = job[p].user /\ job'[p].admin = job[p].admin
      BY <1>0, <2>1, <2>6 DEF Step, Work, Task
    <3> QED
      BY <1>2, <2>2, <2>3, <3>1 DEF Entitled, Asker
  <2> QED
    BY <2>4, <2>5, <2>6
<1>21. CASE Probe(p)
  <2>1. PICK gs : gs = {Lookup(job[p].name)} \ {0}
    OBVIOUS
  <2>2. Work(p, [job[p] EXCEPT !.at = "done", !.hits = gs]) /\ UNCHANGED group
    BY <1>21, <2>1 DEF Probe, Did, Unmoved, others, registry
  <2>3. /\ job'[p].at = "done" /\ job'[p].hits = gs /\ job'[p].op = job[p].op
        /\ job'[p].gate = job[p].gate /\ job'[p].user = job[p].user
        /\ job'[p].admin = job[p].admin
    BY <1>0, <2>2 DEF Work, Task
  <2>4. /\ job[p].at = "probe" /\ job[p].op = "probe"
        /\ job[p].gate \in Group => Asker(p, group[job[p].gate].owner)
    BY <1>0, <1>21 DEF Probe, At, Fits, OpFits, Entitled
  <2>5. gs \subseteq Group
    BY <2>1, LookupFits
  <2> QED
    BY <2>2, <2>3, <2>4, <2>5 DEF Entitled, Asker, OwnerOf
<1>22. CASE NewRoute(p)
  <2>1. PICK g \in Group : Work(p, [job[p] EXCEPT !.at = "done", !.hits = {g}])
    BY <1>22, <1>1, LookupFits DEF NewRoute, Refuse, Did, Fail
  <2>2. /\ job'[p].at = "done" /\ job'[p].hits = {g} /\ job'[p].op = job[p].op
        /\ job'[p].gate = job[p].gate /\ job'[p].user = job[p].user
        /\ job'[p].admin = job[p].admin
    BY <1>0, <2>1 DEF Work, Step, Task
  <2>3. job[p].at = "new_route" /\ job[p].op = "create" /\ job[p].user # 0
    BY <1>0, <1>22 DEF NewRoute, At, Fits, OpFits, UserFits, User
  <2>4. g = job[p].gate => Asker(p, group[g].owner)
    BY <1>0, <2>3 DEF Entitled
  <2> QED
    BY <1>2, <2>2, <2>3, <2>4 DEF Entitled, Asker, OwnerOf
<1>23. CASE Implicit(p)
  <2>1. PICK g : g = Smallest(Unmade)
    OBVIOUS
  <2>2. PICK n \in Name :
          /\ Unmade # {}
          /\ group' = [group EXCEPT ![g] = [live |-> TRUE, name |-> n, owner |-> job[p].user,
                         maker |-> job[p].user, routed |-> TRUE]]
          /\ Work(p, [job[p] EXCEPT !.at = "done", !.gate = g, !.hits = {g}])
    BY <1>23, <1>1, <2>1 DEF Implicit
  <2>3. g \in Group
    BY <2>1, <2>2, NextUnmade
  <2>4. /\ job'[p].at = "done" /\ job'[p].op = "create" /\ job'[p].hits = {g}
        /\ job'[p].user = job[p].user /\ job'[p].admin = job[p].admin
    BY <1>0, <1>23, <2>2 DEF Implicit, At, Fits, OpFits, Work, Task
  <2>5. group'[g].owner = job[p].user
    BY <1>0, <2>2, <2>3 DEF GroupsTyped
  <2> QED
    BY <2>4, <2>5 DEF Entitled, Asker, OwnerOf
<1>24. CASE Make(p)
  <2>1. PICK g : g = Smallest(Unmade)
    OBVIOUS
  <2>2. PICK n \in Name :
          /\ Unmade # {}
          /\ group' = [group EXCEPT ![g] = [live |-> TRUE, name |-> n, owner |-> job[p].user,
                         maker |-> 0, routed |-> FALSE]]
          /\ Work(p, [job[p] EXCEPT !.at = "done", !.op = "create", !.gate = g, !.hits = {g}])
    BY <1>24, <1>1, <2>1 DEF Make
  <2>3. g \in Group
    BY <2>1, <2>2, NextUnmade
  <2>4. /\ job'[p].at = "done" /\ job'[p].op = "create" /\ job'[p].hits = {g}
        /\ job'[p].user = job[p].user /\ job'[p].admin = job[p].admin
    BY <1>0, <1>24, <2>2 DEF Make, At, Fits, OpFits, Work, Task
  <2>5. group'[g].owner = job[p].user
    BY <1>0, <2>2, <2>3 DEF GroupsTyped
  <2> QED
    BY <2>4, <2>5 DEF Entitled, Asker, OwnerOf
<1> QED
  BY <1>3, <1>4, <1>5, <1>6, <1>7, <1>8, <1>9, <1>10, <1>11, <1>12, <1>13, <1>14, <1>15, <1>16,
    <1>17, <1>18, <1>19, <1>20, <1>21, <1>22, <1>23, <1>24 DEF GateStep

LEMMA GateKept ==
  ASSUME Typed, GateInv, NEW p \in Thread, Does(p)
  PROVE  GateInv'
<1>0. TasksFit
  BY DEF Typed
<1>1. Blank'
  BY HandsKept DEF GateInv, Blank
<1>2. ASSUME NEW q \in Thread PROVE Entitled(q)'
  <2>1. CASE BumpEpoch(p)
    <3>1. \/ job'[q] = Idle \/ job'[q] = job[q] \/ job'[q] = [job[q] EXCEPT !.dead = TRUE]
      BY <2>1 DEF BumpEpoch
    <3>2. CASE job'[q] = Idle
      BY <3>2, IdleFields DEF Entitled
    <3>3. CASE job'[q] = job[q] \/ job'[q] = [job[q] EXCEPT !.dead = TRUE]
      BY <1>0, <3>3, EntitledStays DEF TasksFit, Task, GateInv
    <3> QED
      BY <3>1, <3>2, <3>3
  <2>2. CASE Moved(p)
    <3>1. CASE q # p
      BY <1>0, <2>2, <3>1, EntitledStays DEF Moved, Moves, TasksFit, GateInv
    <3>2. CASE q = p /\ ~ Gated(job'[p])
      BY <3>2 DEF Entitled, Gated
    <3>3. CASE q = p /\ Gated(job'[p])
      BY <1>0, <2>2, <3>3, EntitledByGate DEF Moved, Moves, TasksFit
    <3> QED
      BY <3>1, <3>2, <3>3
  <2> QED
    BY <2>1, <2>2, EveryStepMoves
<1> QED
  BY <1>1, <1>2 DEF GateInv

LEMMA GateInit ==
  ASSUME AccessInit
  PROVE  GateInv
<1>1. Blank
  BY AccessAssumption DEF AccessInit, Blank, NoGroup
<1>2. \A q \in Thread : Entitled(q)
  BY IdleFields DEF AccessInit, Init, Entitled
<1> QED
  BY <1>1, <1>2 DEF GateInv

LEMMA GateStutters ==
  ASSUME GateInv, UNCHANGED avars
  PROVE  GateInv'
BY DEF GateInv, Blank, Entitled, Asker, OwnerOf, avars, others, registry, control

(* Through whichever front end, whoever else is at work: nobody but the    *)
(* owner or an administrator reads or changes a group or a route, unless a *)
(* name led to another group when the gate looked at it.  (api.rs, ui/mod.rs, *)
(* mcp/tools)                                                              *)
THEOREM OwnersOnly == Spec => []OwnersOnlyUnlessRebound
<1>1. AccessInit => Typed /\ GateInv
  BY TypedInit, GateInit
<1>2. Typed /\ GateInv /\ [AccessNext]_avars => (Typed /\ GateInv)'
  <2>1. CASE AccessNext
    BY <2>1, TypedKept, GateKept DEF AccessNext, Does
  <2>2. CASE UNCHANGED avars
    BY <2>2, TypedStutters, GateStutters
  <2> QED
    BY <2>1, <2>2
<1>3. GateInv => OwnersOnlyUnlessRebound
  BY DEF GateInv, Entitled, Asker, OwnersOnlyUnlessRebound, At
<1> QED
  BY <1>1, <1>2, <1>3, PTL DEF Spec

-----------------------------------------------------------------------------
(* What was withdrawn lets nobody in                                       *)

(* The parts of CredDrift                                                  *)
CredStay(o, t) == t.cred \in {o.cred, None}

StampStay(o, t) ==
  /\ t.at # "touch_write"
  /\ Stamps(t) => Stamps(o) /\ t.id = o.id /\ t.epoch = o.epoch

TokStay(o, t) ==
  /\ t.tok \in {o.tok, 0} /\ t.toks \subseteq o.toks
  /\ t.at \notin {"index_hash", "index_name", "index_owner", "drop_name", "disown",
                  "drop_token"}
  /\ o.at \notin {"index_hash", "index_name", "index_owner"}

DeadStay(o, t) ==
  t.dead => /\ o.dead /\ (Stamps(o) => Stamps(t))
            /\ o.at \notin {"touch_read", "touch_write", "load_user", "token_find",
                            "token_read"}

(* and the steps that do not keep to one of them                           *)
StampStep(p) == TouchRead(p) \/ FindUser(p) \/ Scan(p) \/ Known(p) \/ WriteUser(p)

TokStep(p) ==
  \/ DeleteRead(p) \/ CascadeToken(p) \/ WriteToken(p) \/ IndexHash(p) \/ IndexName(p)
  \/ IndexOwner(p) \/ RenameFind(p) \/ RevokeFind(p) \/ DropHash(p) \/ DropName(p)
  \/ Disown(p)

DeadStep(p) ==
  \/ Present(p) \/ TouchRead(p) \/ TouchWrite(p) \/ LoadUser(p) \/ TokenFind(p)
  \/ TokenRead(p)

Stays(p) ==
  /\ CredStay(job[p], job'[p]) \/ Present(p)
  /\ StampStay(job[p], job'[p]) \/ StampStep(p)
  /\ TokStay(job[p], job'[p]) \/ TokStep(p)
  /\ DeadStay(job[p], job'[p]) \/ DeadStep(p)

LEMMA EndStays ==
  ASSUME NEW p, job'[p] = Idle,
         job[p].at \in {"index_hash", "index_name", "index_owner"} => TokStep(p)
  PROVE  Stays(p)
BY IdleFields DEF Stays, CredStay, StampStay, TokStay, DeadStay, Stamps

LEMMA StepTaken ==
  ASSUME TasksFit, NEW p \in Thread, NEW l, Step(p, l)
  PROVE  /\ job'[p].at = l
         /\ job'[p].op = job[p].op /\ job'[p].cred = job[p].cred
         /\ job'[p].dead = job[p].dead /\ job'[p].id = job[p].id
         /\ job'[p].epoch = job[p].epoch /\ job'[p].tok = job[p].tok
         /\ job'[p].toks = job[p].toks
BY DEF TasksFit, Step, Work, Task

LEMMA EndTaken ==
  ASSUME TasksFit, NEW p \in Thread, End(p)
  PROVE  job'[p] = Idle
BY DEF TasksFit, End, Work

LEMMA CredDriftStays ==
  ASSUME NEW p, CredDrift(job[p], job'[p])
  PROVE  Stays(p)
BY DEF CredDrift, Stays, CredStay, StampStay, TokStay, DeadStay


LEMMA LetInStays ==
  ASSUME TasksFit, NEW p \in Thread,
         \/ Present(p) \/ TouchRead(p) \/ TouchWrite(p) \/ LoadUser(p) \/ TokenFind(p)
         \/ TokenRead(p)
  PROVE  Stays(p)
<1>0. job[p] \in Task
  BY DEF TasksFit, Fits
<1>1. CASE Present(p)
  <2>0. PICK cred \in issued :
          Begin(p, [Idle EXCEPT !.cred = cred, !.dead = cred \in withdrawn,
                     !.at = IF cred[1] = "session" THEN "touch_read" ELSE "token_find"])
    BY <1>1 DEF Present
  <2>1. PICK d, l : /\ job'[p] = [Idle EXCEPT !.cred = cred, !.dead = d, !.at = l]
                    /\ l \in {"touch_read", "token_find"}
    <3>1. PICK d : d = (cred \in withdrawn)
      OBVIOUS
    <3>2. PICK l : l = IF cred[1] = "session" THEN "touch_read" ELSE "token_find"
      OBVIOUS
    <3>3. job' = [job EXCEPT ![p] = [Idle EXCEPT !.cred = cred, !.dead = d, !.at = l]]
      BY <2>0, <3>1, <3>2, Zenon DEF Begin
    <3> QED
      BY <3>2, <3>3 DEF TasksFit
  <2>2. job[p].at = "idle"
    BY <1>1 DEF Present, Begin, At
  <2>3. /\ job'[p].op = None /\ job'[p].at \in {"touch_read", "token_find"}
        /\ job'[p].tok = 0 /\ job'[p].toks = {}
    BY <2>1, IdleFields DEF Task
  <2>4. ~ Stamps(job'[p])
    BY <2>3 DEF Stamps
  <2> QED
    BY <1>1, <2>2, <2>3, <2>4 DEF Stays, StampStay, TokStay, DeadStep
<1>2. CASE TouchRead(p)
  <2>1. job[p].at = "touch_read"
    BY <1>2 DEF TouchRead, At
  <2>2. CASE End(p)
    BY <2>1, <2>2, EndTaken, EndStays
  <2>3. CASE ~ End(p)
    <3>1. PICK i, e : Work(p, [job[p] EXCEPT !.at = "touch_write", !.id = i, !.epoch = e])
      BY <1>2, <2>3 DEF TouchRead
    <3>2. /\ job'[p].at = "touch_write" /\ job'[p].cred = job[p].cred
          /\ job'[p].tok = job[p].tok /\ job'[p].toks = job[p].toks
      BY <1>0, <3>1 DEF Work, Task, TasksFit
    <3> QED
      BY <1>2, <2>1, <3>2 DEF Stays, CredStay, TokStay, StampStep, DeadStep
  <2> QED
    BY <2>2, <2>3
<1>3. CASE TouchWrite(p)
  <2>1. job[p].at = "touch_write" /\ Step(p, "load_user")
    BY <1>3 DEF TouchWrite, At
  <2>2. /\ job'[p].at = "load_user" /\ job'[p].cred = job[p].cred
        /\ job'[p].tok = job[p].tok /\ job'[p].toks = job[p].toks
    BY <2>1, StepTaken
  <2> QED
    BY <1>3, <2>1, <2>2 DEF Stays, CredStay, StampStay, Stamps, TokStay, DeadStep
<1>4. CASE LoadUser(p)
  <2>1. job[p].at = "load_user"
    BY <1>4 DEF LoadUser, At
  <2>2. CASE End(p)
    BY <2>1, <2>2, EndTaken, EndStays
  <2>3. CASE ~ End(p)
    <3>1. PICK u, a, l :
            /\ Work(p, [Idle EXCEPT !.cred = job[p].cred, !.dead = job[p].dead, !.user = u,
                                    !.admin = a, !.at = l])
            /\ l \in {"stamp", "ready"}
      BY <1>4, <2>3 DEF LoadUser
    <3>2. /\ job'[p].at \in {"stamp", "ready"} /\ job'[p].cred = job[p].cred
          /\ job'[p].tok = 0 /\ job'[p].toks = {}
      BY <3>1, IdleFields DEF Work, Task, TasksFit
    <3> QED
      BY <1>4, <2>1, <3>2 DEF Stays, CredStay, StampStay, Stamps, TokStay, DeadStep
  <2> QED
    BY <2>2, <2>3
<1>5. CASE TokenFind(p)
  <2>1. job[p].at = "token_find"
    BY <1>5 DEF TokenFind, At
  <2>2. CASE End(p)
    BY <2>1, <2>2, EndTaken, EndStays
  <2>3. CASE Step(p, "token_read")
    <3>1. /\ job'[p].at = "token_read" /\ job'[p].cred = job[p].cred
          /\ job'[p].tok = job[p].tok /\ job'[p].toks = job[p].toks
      BY <2>3, StepTaken
    <3> QED
      BY <1>5, <2>1, <3>1 DEF Stays, CredStay, StampStay, Stamps, TokStay, DeadStep
  <2> QED
    BY <1>5, <2>2, <2>3 DEF TokenFind
<1>6. CASE TokenRead(p)
  <2>1. job[p].at = "token_read"
    BY <1>6 DEF TokenRead, At
  <2>2. CASE End(p)
    BY <2>1, <2>2, EndTaken, EndStays
  <2>3. CASE ~ End(p)
    <3>1. PICK i : Work(p, [job[p] EXCEPT !.at = "load_user", !.id = i])
      BY <1>6, <2>3 DEF TokenRead
    <3>2. /\ job'[p].at = "load_user" /\ job'[p].cred = job[p].cred
          /\ job'[p].tok = job[p].tok /\ job'[p].toks = job[p].toks
      BY <1>0, <3>1 DEF Work, Task, TasksFit
    <3> QED
      BY <1>6, <2>1, <3>2 DEF Stays, CredStay, StampStay, Stamps, TokStay, DeadStep
  <2> QED
    BY <2>2, <2>3
<1> QED
  BY <1>1, <1>2, <1>3, <1>4, <1>5, <1>6

LEMMA StampedStays ==
  ASSUME TasksFit, NEW p \in Thread,
         FindUser(p) \/ Scan(p) \/ Known(p) \/ WriteUser(p)
  PROVE  Stays(p) /\ job'[p].at # "touch_write"
<1>0. job[p] \in Task
  BY DEF TasksFit, Fits
<1>1. job[p].at \in {"find_user", "scan", "known", "write_user"}
  BY DEF FindUser, Scan, Known, WriteUser, At
<1>2. ~ Stamps(job[p])
  BY <1>1 DEF Stamps
<1>3. ASSUME End(p) PROVE Stays(p) /\ job'[p].at # "touch_write"
  BY <1>1, <1>3, EndTaken, EndStays, IdleFields
<1>4. ASSUME NEW n, Work(p, n),
             n.at \in {"sync", "link", "may_patch", "may_delete", "heal", "write_user", "find",
                       "claim"},
             n.cred = job[p].cred, n.dead = job[p].dead, n.tok = job[p].tok,
             n.toks = job[p].toks
      PROVE Stays(p) /\ job'[p].at # "touch_write"
  <2>1. job'[p] = n
    BY <1>4 DEF Work, TasksFit
  <2> QED
    BY <1>1, <1>2, <1>4, <2>1 DEF Stays, CredStay, TokStay, DeadStay, StampStep
<1>5. ASSUME NEW u, NEW l, l \in {"sync", "link", "may_patch", "may_delete", "heal", "claim"},
             NEW w, NEW e, Work(p, [job[p] EXCEPT !.at = l, !.id = u, !.was = w, !.epoch = e])
      PROVE Stays(p) /\ job'[p].at # "touch_write"
  <2>1. PICK n : n = [job[p] EXCEPT !.at = l, !.id = u, !.was = w, !.epoch = e]
    OBVIOUS
  <2>2. /\ n.at = l /\ n.cred = job[p].cred /\ n.dead = job[p].dead /\ n.tok = job[p].tok
        /\ n.toks = job[p].toks
    BY <1>0, <2>1 DEF Task
  <2> QED
    BY <1>4, <1>5, <2>1, <2>2
<1>6. CASE FindUser(p)
  <2>1. CASE End(p)
    BY <1>3, <2>1
  <2>2. CASE ~ End(p)
    <3>1. PICK u, l : u = job[p].id /\ l = OnFound(p)
      OBVIOUS
    <3>2. /\ l \in {"sync", "link", "may_patch", "may_delete"}
          /\ Work(p, [job[p] EXCEPT !.at = l, !.id = u, !.was = user[u].admin,
                                    !.epoch = user[u].epoch])
      BY <1>6, <2>2, <3>1 DEF FindUser, Found, OnFound
    <3> QED
      BY <1>5, <3>2
  <2> QED
    BY <2>1, <2>2
<1>7. CASE Scan(p)
  <2>1. \/ End(p) \/ Missing(p)
        \/ \E u \in all : Work(p, [job[p] EXCEPT !.at = "heal", !.id = u,
                                    !.was = user[u].admin, !.epoch = user[u].epoch])
    BY <1>7 DEF Scan
  <2>2. CASE End(p)
    BY <1>3, <2>2
  <2>3. CASE Missing(p) /\ ~ End(p)
    <3>1. PICK l : l = OnMissing(job[p].op)
      OBVIOUS
    <3>2. PICK o : o = IF job[p].op = "sign_in" THEN "join" ELSE job[p].op
      OBVIOUS
    <3>3. /\ l \in {"write_user", "find"}
          /\ Work(p, [job[p] EXCEPT !.at = l, !.op = o])
      BY <1>0, <2>3, <3>1, <3>2 DEF Missing, OnMissing, Task
    <3>4. PICK n : n = [job[p] EXCEPT !.at = l, !.op = o]
      OBVIOUS
    <3>5. /\ n.at = l /\ n.cred = job[p].cred /\ n.dead = job[p].dead /\ n.tok = job[p].tok
          /\ n.toks = job[p].toks
      BY <1>0, <3>4 DEF Task
    <3> QED
      BY <1>4, <3>3, <3>4, <3>5
  <2>4. ASSUME NEW u \in all, Work(p, [job[p] EXCEPT !.at = "heal", !.id = u,
                                    !.was = user[u].admin, !.epoch = user[u].epoch])
        PROVE Stays(p) /\ job'[p].at # "touch_write"
    BY <1>5, <2>4
  <2> QED
    BY <2>1, <2>2, <2>3, <2>4
<1>8. CASE Known(p)
  <2>1. CASE End(p)
    BY <1>3, <2>1
  <2>2. CASE ~ End(p)
    <3>1. PICK n : /\ Work(p, n)
                   /\ n = [job[p] EXCEPT !.at = "sync", !.op = "return",
                             !.was = user[job[p].id].admin, !.epoch = user[job[p].id].epoch,
                             !.mail = user[job[p].id].mail]
      BY <1>8, <2>2 DEF Known
    <3>2. /\ n.at = "sync" /\ n.cred = job[p].cred /\ n.dead = job[p].dead
          /\ n.tok = job[p].tok /\ n.toks = job[p].toks
      BY <1>0, <3>1 DEF Task
    <3> QED
      BY <1>4, <3>1, <3>2
  <2> QED
    BY <2>1, <2>2
<1>9. CASE WriteUser(p)
  <2>1. PICK u : Work(p, [job[p] EXCEPT !.at = "claim", !.id = u, !.was = job[p].role,
                                        !.epoch = 0])
    BY <1>9 DEF WriteUser
  <2> QED
    BY <1>5, <2>1
<1> QED
  BY <1>6, <1>7, <1>8, <1>9

(* A deletion takes a token from those it has to go through,               *)
Takes(p, t, nm, ts) ==
  /\ t \in job[p].toks /\ ts \subseteq job[p].toks
  /\ Work(p, [job[p] EXCEPT !.at = "drop_hash", !.tok = t, !.name = nm, !.toks = ts])

(* or passes over one.                                                     *)
Passes(p, ts) == ts \subseteq job[p].toks /\ Work(p, [job[p] EXCEPT !.toks = ts])

LEMMA CascadeGoes ==
  ASSUME Typed, NEW p \in Thread, CascadeToken(p)
  PROVE  \/ End(p) \/ Step(p, "unmail")
         \/ \E t, nm, ts : Takes(p, t, nm, ts)
         \/ \E ts : Passes(p, ts)
<1>1. CASE Step(p, "unmail")
  BY <1>1
<1>2. CASE ~ Step(p, "unmail")
  <2>1. PICK t \in job[p].toks :
          CASE token[t].shape = "whole" ->
                 Work(p, [job[p] EXCEPT !.at = "drop_hash", !.tok = t,
                            !.name = token[t].name, !.toks = @ \ {t}])
            [] token[t].shape = "none" -> Work(p, [job[p] EXCEPT !.toks = @ \ {t}])
            [] token[t].shape = "stub" -> End(p)
    BY <1>2 DEF CascadeToken
  <2>2. PICK nm, ts : nm = token[t].name /\ ts = job[p].toks \ {t}
    OBVIOUS
  <2>3. job[p].toks \in SUBSET Token
    BY DEF Typed, TasksFit, Fits, Task, TokSets
  <2>4. token[t].shape \in {"none", "whole", "stub"}
    BY <2>3 DEF Typed, CredentialsTyped, TokenRecord
  <2>5. CASE token[t].shape = "whole"
    <3>1. Takes(p, t, nm, ts)
      BY <2>1, <2>2, <2>5 DEF Takes
    <3> QED
      BY <3>1
  <2>6. CASE token[t].shape = "none"
    <3>1. Passes(p, ts)
      BY <2>1, <2>2, <2>6 DEF Passes
    <3> QED
      BY <3>1
  <2>7. CASE token[t].shape = "stub"
    BY <2>1, <2>7
  <2> QED
    BY <2>4, <2>5, <2>6, <2>7
<1> QED
  BY <1>1, <1>2

LEMMA TokenStepsStay ==
  ASSUME Typed, NEW p \in Thread, TokStep(p)
  PROVE  Stays(p)
<1>0. job[p] \in Task /\ TasksFit
  BY DEF Typed, TasksFit, Fits
<1>1. /\ job[p].at \notin {"touch_read", "touch_write", "load_user", "token_find", "token_read"}
      /\ ~ Stamps(job[p])
  BY DEF TokStep, DeleteRead, CascadeToken, WriteToken, IndexHash, IndexName, IndexOwner,
    RenameFind, RevokeFind, DropHash, DropName, Disown, At, Stamps
<1>2. ASSUME End(p) PROVE Stays(p)
  BY <1>0, <1>1, <1>2, EndTaken, EndStays
<1>3. ASSUME NEW n, Work(p, n), n.cred = job[p].cred, n.dead = job[p].dead,
             n.at \in {"cascade", "drop_hash", "index_hash", "index_name", "index_owner",
                       "set_name", "drop_name", "disown", "drop_token", "unmail"}
      PROVE Stays(p)
  <2>1. job'[p] = n
    BY <1>0, <1>3 DEF Work, TasksFit
  <2> QED
    BY <1>1, <1>3, <2>1 DEF Stays, CredStay, StampStay, DeadStay, Stamps
<1>4. ASSUME NEW l, Step(p, l),
             l \in {"index_name", "index_owner", "drop_name", "disown", "drop_token", "unmail"}
      PROVE Stays(p)
  <2>1. PICK n : n = [job[p] EXCEPT !.at = l]
    OBVIOUS
  <2>2. n.at = l /\ n.cred = job[p].cred /\ n.dead = job[p].dead
    BY <1>0, <2>1 DEF Task
  <2> QED
    BY <1>3, <1>4, <2>1, <2>2 DEF Step
<1>5. CASE DeleteRead(p)
  <2>1. \/ End(p)
        \/ \E s : Work(p, [job[p] EXCEPT !.at = "cascade", !.toks = s])
    BY <1>5 DEF DeleteRead
  <2>2. ASSUME NEW s, Work(p, [job[p] EXCEPT !.at = "cascade", !.toks = s]) PROVE Stays(p)
    <3>1. PICK n : n = [job[p] EXCEPT !.at = "cascade", !.toks = s]
      OBVIOUS
    <3>2. n.at = "cascade" /\ n.cred = job[p].cred /\ n.dead = job[p].dead
      BY <1>0, <3>1 DEF Task
    <3> QED
      BY <1>3, <2>2, <3>1, <3>2
  <2> QED
    BY <1>2, <2>1, <2>2
<1>6. ASSUME NEW l, NEW t, NEW m, NEW s,
             Work(p, [job[p] EXCEPT !.at = l, !.tok = t, !.name = m, !.toks = s]),
             l \in {"cascade", "drop_hash", "index_hash", "set_name"}
      PROVE Stays(p)
  <2>1. PICK n : n = [job[p] EXCEPT !.at = l, !.tok = t, !.name = m, !.toks = s]
    OBVIOUS
  <2>2. n.at = l /\ n.cred = job[p].cred /\ n.dead = job[p].dead
    BY <1>0, <2>1 DEF Task
  <2> QED
    BY <1>3, <1>6, <2>1, <2>2
<1>7. CASE CascadeToken(p)
  <2>1. CASE End(p)
    BY <1>2, <2>1
  <2>2. CASE Step(p, "unmail")
    BY <1>4, <2>2
  <2>3. ASSUME NEW t, NEW nm, NEW ts, Takes(p, t, nm, ts) PROVE Stays(p)
    BY <1>6, <2>3 DEF Takes
  <2>4. ASSUME NEW ts, Passes(p, ts) PROVE Stays(p)
    <3>1. PICK n : n = [job[p] EXCEPT !.toks = ts]
      OBVIOUS
    <3>2. n.at = "cascade" /\ n.cred = job[p].cred /\ n.dead = job[p].dead
      BY <1>0, <1>7, <3>1 DEF Task, CascadeToken, At
    <3> QED
      BY <1>3, <2>4, <3>1, <3>2 DEF Passes
  <2> QED
    BY <1>7, <2>1, <2>2, <2>3, <2>4, CascadeGoes
<1>8. CASE WriteToken(p)
  <2>1. PICK t : Work(p, [job[p] EXCEPT !.at = "index_hash", !.tok = t])
    BY <1>8 DEF WriteToken
  <2>2. PICK n : n = [job[p] EXCEPT !.at = "index_hash", !.tok = t]
    OBVIOUS
  <2>3. n.at = "index_hash" /\ n.cred = job[p].cred /\ n.dead = job[p].dead
    BY <1>0, <2>2 DEF Task
  <2> QED
    BY <1>3, <2>1, <2>2, <2>3
<1>9. CASE IndexHash(p) \/ IndexName(p) \/ DropHash(p) \/ DropName(p) \/ Disown(p)
  BY <1>4, <1>9 DEF IndexHash, IndexName, DropHash, DropName, Disown
<1>10. CASE IndexOwner(p)
  BY <1>2, <1>10 DEF IndexOwner
<1>11. CASE RenameFind(p)
  <2>1. End(p) \/ \E t : Work(p, [job[p] EXCEPT !.at = "set_name", !.tok = t])
    BY <1>11 DEF RenameFind, HoldNamed
  <2>2. ASSUME NEW t, Work(p, [job[p] EXCEPT !.at = "set_name", !.tok = t]) PROVE Stays(p)
    <3>1. PICK n : n = [job[p] EXCEPT !.at = "set_name", !.tok = t]
      OBVIOUS
    <3>2. n.at = "set_name" /\ n.cred = job[p].cred /\ n.dead = job[p].dead
      BY <1>0, <3>1 DEF Task
    <3> QED
      BY <1>3, <2>2, <3>1, <3>2
  <2> QED
    BY <1>2, <2>1, <2>2
<1>12. CASE RevokeFind(p)
  <2>1. End(p) \/ \E t, m : Work(p, [job[p] EXCEPT !.at = "drop_hash", !.tok = t, !.name = m])
    BY <1>12 DEF RevokeFind
  <2>2. ASSUME NEW t, NEW m, Work(p, [job[p] EXCEPT !.at = "drop_hash", !.tok = t, !.name = m])
        PROVE Stays(p)
    <3>1. PICK n : n = [job[p] EXCEPT !.at = "drop_hash", !.tok = t, !.name = m]
      OBVIOUS
    <3>2. n.at = "drop_hash" /\ n.cred = job[p].cred /\ n.dead = job[p].dead
      BY <1>0, <3>1 DEF Task
    <3> QED
      BY <1>3, <2>2, <3>1, <3>2
  <2> QED
    BY <1>2, <2>1, <2>2
<1> QED
  BY <1>5, <1>7, <1>8, <1>9, <1>10, <1>11, <1>12 DEF TokStep

(* Every step but a sign-out everywhere stays, in its four parts.          *)
LEMMA EveryStepStays ==
  ASSUME Typed, NEW p \in Thread, Does(p), ~ BumpEpoch(p)
  PROVE  /\ Stays(p) /\ Fits(job'[p])
         /\ \A q \in Thread \ {p} : job'[q] = job[q]
<1>1. PICK t : Moves(p, t)
  BY EveryStepMoves DEF Moved
<1>2. /\ job'[p] = t /\ Fits(t) /\ \A q \in Thread \ {p} : job'[q] = job[q]
      /\ CredDrift(job[p], t) \/ CredStep(p)
  BY <1>1 DEF Moves, Typed, TasksFit
<1>3. CASE CredDrift(job[p], t)
  BY <1>2, <1>3, CredDriftStays
<1>4. CASE CredStep(p)
  BY <1>2, <1>4, LetInStays, StampedStays, TokenStepsStay DEF CredStep, TokStep, Typed
<1> QED
  BY <1>2, <1>3, <1>4

LEMMA BumpMoves ==
  ASSUME Typed, NEW p \in Thread, BumpEpoch(p)
  PROVE  /\ job'[p] = Idle
         /\ \A q \in Thread \ {p} :
              /\ job'[q].at = job[q].at /\ job'[q].op = job[q].op
              /\ job'[q].cred = job[q].cred /\ job'[q].id = job[q].id
              /\ job'[q].epoch = job[q].epoch /\ job'[q].tok = job[q].tok
              /\ job'[q].toks = job[q].toks
              /\ job'[q].dead => job[q].dead \/ (Stamps(job[q]) /\ job[q].id = job[p].user)
<1>1. job'[p] = Idle
  BY DEF BumpEpoch
<1>2. ASSUME NEW q \in Thread \ {p}
      PROVE  /\ job'[q].at = job[q].at /\ job'[q].op = job[q].op
             /\ job'[q].cred = job[q].cred /\ job'[q].id = job[q].id
             /\ job'[q].epoch = job[q].epoch /\ job'[q].tok = job[q].tok
             /\ job'[q].toks = job[q].toks
             /\ job'[q].dead => job[q].dead \/ (Stamps(job[q]) /\ job[q].id = job[p].user)
  <2>1. job[q] \in Task
    BY DEF Typed, TasksFit, Fits
  <2>2. job'[q] = IF Stamping(q, job[p].user) THEN [job[q] EXCEPT !.dead = TRUE] ELSE job[q]
    BY DEF BumpEpoch
  <2>3. Stamping(q, job[p].user) => Stamps(job[q]) /\ job[q].id = job[p].user
    BY DEF Stamping, Stamps
  <2> QED
    BY <2>1, <2>2, <2>3 DEF Task
<1> QED
  BY <1>1, <1>2

(* An account that was created ages: its epoch does not fall, and what is  *)
(* left of a deleted one stays that.                                       *)
LEMMA UsersAge ==
  ASSUME Typed, NEW p \in Thread, Does(p), NEW u \in User, user[u].shape # "none"
  PROVE  /\ user'[u].shape # "none" /\ user[u].epoch <= user'[u].epoch
         /\ user[u].shape = "stub" => user'[u].shape = "stub"
         /\ BumpEpoch(p) /\ u = job[p].user => user[u].epoch < user'[u].epoch
         /\ WipeUser(p) /\ u = job[p].id => user'[u].shape = "stub"
<1>0. user \in [User -> Account] /\ user[u] \in Account /\ user[u].epoch \in Nat
  BY DEF Typed, AccountsTyped, Account
<1>1. CASE UNCHANGED user /\ ~ BumpEpoch(p) /\ ~ WipeUser(p)
  BY <1>0, <1>1
<1>2. CASE BumpEpoch(p)
  <2>1. user' = [user EXCEPT ![job[p].user].epoch = @ + 1]
    BY <1>2 DEF BumpEpoch
  <2>2. user'[u] = user[u] \/ (u = job[p].user /\ user'[u] = [user[u] EXCEPT !.epoch = @ + 1])
    BY <1>0, <2>1
  <2>3. u = job[p].user => user'[u] = [user[u] EXCEPT !.epoch = @ + 1]
    BY <1>0, <2>1
  <2>4. ~ WipeUser(p)
    BY <1>2 DEF BumpEpoch, WipeUser, At
  <2> QED
    BY <1>0, <2>2, <2>3, <2>4 DEF Account
<1>3. CASE WriteUser(p)
  <2>1. PICK v : v = Smallest(Unborn)
    OBVIOUS
  <2>2. Unborn \in SUBSET Nat /\ Unborn # {}
    BY <1>3 DEF WriteUser, Unborn, User
  <2>3. user[v].shape = "none"
    BY <2>1, <2>2, MinExists DEF Unborn
  <2>4. user' = [user EXCEPT ![v] = [shape |-> "whole", mail |-> job[p].mail,
                                     admin |-> job[p].role, epoch |-> 0]]
    BY <1>3, <2>1 DEF WriteUser
  <2>5. user'[u] = user[u]
    BY <1>0, <2>3, <2>4
  <2>6. ~ BumpEpoch(p) /\ ~ WipeUser(p)
    BY <1>3 DEF BumpEpoch, WipeUser, WriteUser, At
  <2> QED
    BY <1>0, <2>5, <2>6
<1>4. CASE Sync(p) \/ PatchWrite(p)
  <2>1. user' = user \/ user' = [user EXCEPT ![job[p].id].admin = job[p].role]
    BY <1>4 DEF Sync, PatchWrite
  <2>2. ~ BumpEpoch(p) /\ ~ WipeUser(p)
    BY <1>4 DEF BumpEpoch, WipeUser, Sync, PatchWrite, At
  <2>3. user'[u].shape = user[u].shape /\ user'[u].epoch = user[u].epoch
    BY <1>0, <2>1 DEF Account
  <2> QED
    BY <1>0, <2>2, <2>3
<1>5. CASE WipeUser(p)
  <2>1. user' = [user EXCEPT ![job[p].id].shape = "stub"]
    BY <1>5 DEF WipeUser
  <2>2. ~ BumpEpoch(p)
    BY <1>5 DEF BumpEpoch, WipeUser, At
  <2>3. user'[u] = user[u] \/ user'[u] = [user[u] EXCEPT !.shape = "stub"]
    BY <1>0, <2>1
  <2>4. u = job[p].id => user'[u] = [user[u] EXCEPT !.shape = "stub"]
    BY <1>0, <2>1
  <2> QED
    BY <1>0, <2>2, <2>3, <2>4 DEF Account
<1> QED
  BY <1>1, <1>2, <1>3, <1>4, <1>5, OthersAreCalm, CredentialMoveFrame, GroupMoveFrame,
    CountAdminsFrame DEF Moving, AccountMove, Unmoved, Untouched, accounts, Heal, Claim,
    Enlist, Reindex, Link, Unmail, Unlist

(* A sign-in mints session c.                                              *)
Mints(p, c) ==
  /\ Mint(p) /\ job[p].at = "mint" /\ c \in Cookie /\ <<"session", c>> \notin issued
  /\ session' = [session EXCEPT ![c] = [user |-> job[p].id, epoch |-> job[p].epoch]]
  /\ issued' = issued \cup {<<"session", c>>}
  /\ withdrawn' = IF job[p].dead THEN withdrawn \cup {<<"session", c>>} ELSE withdrawn

LEMMA MintMints ==
  ASSUME NEW p, Mint(p)
  PROVE  \E c : Mints(p, c)
<1>1. PICK free : free = {k \in Cookie : <<"session", k>> \notin issued}
  OBVIOUS
<1>2. free # {} /\ free \in SUBSET Nat
  BY <1>1 DEF Mint, Cookie
<1>3. PICK c : c = Smallest(free)
  OBVIOUS
<1>4. c \in free
  BY <1>2, <1>3, MinExists
<1>5. Mints(p, c)
  BY <1>1, <1>3, <1>4 DEF Mint, Mints, At
<1> QED
  BY <1>5

(* What may become of a session                                            *)
LEMMA SessionMoves ==
  ASSUME Typed, NEW p \in Thread, Does(p), NEW c \in Cookie
  PROVE  \/ session'[c] = session[c]
         \/ /\ TouchWrite(p) /\ job[p].cred = <<"session", c>>
            /\ session'[c] = [user |-> job[p].id, epoch |-> job[p].epoch]
         \/ Logout(p) /\ session'[c] = NoSession
         \/ Mints(p, c) /\ session'[c] = [user |-> job[p].id, epoch |-> job[p].epoch]
<1>0. session \in [Cookie -> SessionRecord] /\ Fits(job[p])
  BY DEF Typed, CredentialsTyped, TasksFit
<1>1. CASE UNCHANGED session
  BY <1>1
<1>2. CASE TouchWrite(p)
  <2>1. PICK d : d = job[p].cred[2]
    OBVIOUS
  <2>2. job[p].cred = <<"session", d>> /\ d \in Cookie
    BY <1>0, <1>2, <2>1 DEF TouchWrite, At, Fits, CredFits
  <2>3. session' = [session EXCEPT ![d] = [user |-> job[p].id, epoch |-> job[p].epoch]]
    BY <1>2, <2>1 DEF TouchWrite
  <2> QED
    BY <1>0, <1>2, <2>2, <2>3
<1>3. CASE Logout(p)
  <2>1. PICK d \in Cookie : session' = [session EXCEPT ![d] = NoSession]
    BY <1>3 DEF Logout
  <2> QED
    BY <1>0, <1>3, <2>1
<1>4. CASE Mint(p)
  <2>1. PICK d : Mints(p, d)
    BY <1>4, MintMints
  <2> QED
    BY <1>0, <2>1 DEF Mints
<1> QED
  BY <1>1, <1>2, <1>3, <1>4, OthersAreCalm, AccountMoveFrame, GroupMoveFrame, CountAdminsFrame
  DEF Moving, CredentialMove, Unmoved, Untouched, credentials, TokenStamp, WriteToken,
    IndexHash, IndexName, IndexOwner, SetName, NameToken, DropOld, DropHash, DropName, Disown,
    DropToken

(* What was issued stays issued.                                           *)
LEMMA IssuedGrows ==
  ASSUME Typed, NEW p \in Thread, Does(p)
  PROVE  /\ issued \subseteq issued'
         /\ \A t \in Token : <<"token", t>> \in issued' =>
              <<"token", t>> \in issued \/ (IndexOwner(p) /\ job[p].tok = t)
<1>1. CASE UNCHANGED issued
  BY <1>1
<1>2. CASE Mint(p)
  <2>1. PICK c : Mints(p, c)
    BY <1>2, MintMints
  <2> QED
    BY <2>1 DEF Mints
<1>3. CASE IndexOwner(p)
  BY <1>3 DEF IndexOwner
<1> QED
  BY <1>1, <1>2, <1>3, OthersAreCalm, AccountMoveFrame, GroupMoveFrame, CountAdminsFrame
  DEF Moving, CredentialMove, Unmoved, Untouched, TokenStamp, WriteToken, TouchWrite, Logout,
    IndexHash, IndexName, SetName, NameToken, DropOld, DropHash, DropName, Disown,
    DropToken

(* What may withdraw a session                                             *)
LEMMA SessionsWithdrawn ==
  ASSUME Typed, NEW p \in Thread, Does(p), NEW c \in Cookie,
         <<"session", c>> \in withdrawn'
  PROVE  \/ <<"session", c>> \in withdrawn
         \/ /\ Logout(p) /\ <<"session", c>> \in issued /\ session'[c] = NoSession
            /\ \A q \in Thread : ~ (At(q, "touch_write") /\ job[q].cred = <<"session", c>>)
         \/ BumpEpoch(p) /\ session[c].user = job[p].user
         \/ WipeUser(p) /\ <<"session", c>> \in issued /\ session[c].user = job[p].id
         \/ Mints(p, c) /\ job[p].dead
<1>0. session \in [Cookie -> SessionRecord]
  BY DEF Typed, CredentialsTyped
<1>1. CASE UNCHANGED withdrawn
  BY <1>1
<1>2. CASE Logout(p)
  <2>1. PICK d \in Cookie :
          /\ <<"session", d>> \in issued
          /\ session' = [session EXCEPT ![d] = NoSession]
          /\ withdrawn' = IF \E q \in Thread : At(q, "touch_write")
                                             /\ job[q].cred = <<"session", d>>
                          THEN withdrawn ELSE withdrawn \cup {<<"session", d>>}
    BY <1>2 DEF Logout
  <2>2. CASE withdrawn' = withdrawn
    BY <2>2
  <2>3. CASE c # d
    BY <2>1, <2>3
  <2>4. CASE c = d /\ withdrawn' # withdrawn
    BY <1>0, <1>2, <2>1, <2>4
  <2> QED
    BY <2>2, <2>3, <2>4
<1>3. CASE BumpEpoch(p)
  <2>1. withdrawn' = withdrawn \cup ({"session"} \X {d \in Cookie : session[d].user = job[p].user})
    BY <1>3 DEF BumpEpoch
  <2> QED
    BY <1>3, <2>1
<1>4. CASE WipeUser(p)
  <2>1. withdrawn' = withdrawn \cup {k \in issued :
          IF k[1] = "session" THEN session[k[2]].user = job[p].id
                              ELSE token[k[2]].owner = job[p].id}
    BY <1>4 DEF WipeUser
  <2> QED
    BY <1>4, <2>1
<1>5. CASE Mint(p)
  <2>1. PICK d : Mints(p, d)
    BY <1>5, MintMints
  <2> QED
    BY <2>1 DEF Mints
<1>6. CASE DropToken(p)
  <2>1. withdrawn' = withdrawn \cup {<<"token", job[p].tok>>}
    BY <1>6 DEF DropToken
  <2> QED
    BY <2>1
<1> QED
  BY <1>1, <1>2, <1>3, <1>4, <1>5, <1>6, OthersAreCalm, GroupMoveFrame, CountAdminsFrame
  DEF Moving, AccountMove, CredentialMove, Unmoved, Untouched, others, TokenStamp, WriteToken,
    IndexHash, IndexName, IndexOwner, SetName, NameToken, DropOld, DropHash, DropName, Disown,
    TouchWrite, Heal, Claim, Enlist, Reindex, Link, Unmail, Unlist, Sync, PatchWrite, WriteUser

(* What may withdraw a token                                               *)
LEMMA TokensWithdrawn ==
  ASSUME Typed, NEW p \in Thread, Does(p), NEW t \in Token,
         <<"token", t>> \in withdrawn'
  PROVE  \/ <<"token", t>> \in withdrawn
         \/ DropToken(p) /\ job[p].at = "drop_token" /\ job[p].tok = t
         \/ WipeUser(p) /\ <<"token", t>> \in issued /\ token[t].owner = job[p].id
<1>1. CASE UNCHANGED withdrawn
  BY <1>1
<1>2. CASE Logout(p)
  <2>1. PICK d : withdrawn' = withdrawn \/ withdrawn' = withdrawn \cup {<<"session", d>>}
    BY <1>2 DEF Logout
  <2> QED
    BY <2>1
<1>3. CASE BumpEpoch(p)
  <2>1. withdrawn' = withdrawn \cup ({"session"} \X {d \in Cookie : session[d].user = job[p].user})
    BY <1>3 DEF BumpEpoch
  <2> QED
    BY <2>1
<1>4. CASE WipeUser(p)
  <2>1. withdrawn' = withdrawn \cup {k \in issued :
          IF k[1] = "session" THEN session[k[2]].user = job[p].id
                              ELSE token[k[2]].owner = job[p].id}
    BY <1>4 DEF WipeUser
  <2> QED
    BY <1>4, <2>1
<1>5. CASE Mint(p)
  <2>1. PICK d : Mints(p, d)
    BY <1>5, MintMints
  <2> QED
    BY <2>1 DEF Mints
<1>6. CASE DropToken(p)
  <2>1. withdrawn' = withdrawn \cup {<<"token", job[p].tok>>} /\ job[p].at = "drop_token"
    BY <1>6 DEF DropToken, At
  <2> QED
    BY <1>6, <2>1
<1> QED
  BY <1>1, <1>2, <1>3, <1>4, <1>5, <1>6, OthersAreCalm, GroupMoveFrame, CountAdminsFrame
  DEF Moving, AccountMove, CredentialMove, Unmoved, Untouched, others, TokenStamp, WriteToken,
    IndexHash, IndexName, IndexOwner, SetName, NameToken, DropOld, DropHash, DropName, Disown,
    TouchWrite, Heal, Claim, Enlist, Reindex, Link, Unmail, Unlist, Sync, PatchWrite, WriteUser

(* A new token was nobody's.                                               *)
Writes(p, t) ==
  /\ WriteToken(p) /\ job[p].at = "write_token" /\ t \in Token
  /\ <<"token", t>> \notin issued
  /\ \A q \in Thread : job[q].tok # t
  /\ token' = [token EXCEPT ![t] =
                 [shape |-> "whole", owner |-> job[p].user, name |-> job[p].name]]
  /\ Work(p, [job[p] EXCEPT !.at = "index_hash", !.tok = t])

LEMMA WriteWrites ==
  ASSUME NEW p, WriteToken(p)
  PROVE  \E t : Writes(p, t)
<1>1. PICK unused : unused = {k \in Token : <<"token", k>> \notin issued
                                           /\ \A q \in Thread : job[q].tok # k}
  OBVIOUS
<1>2. unused # {} /\ unused \in SUBSET Nat
  <2>1. unused # {}
    BY <1>1, Zenon DEF WriteToken
  <2>2. unused \subseteq Token
    BY <1>1
  <2> QED
    BY <2>1, <2>2 DEF Token
<1>3. PICK t : t = Smallest(unused)
  OBVIOUS
<1>4. t \in unused
  BY <1>2, <1>3, MinExists
<1>5. Writes(p, t)
  BY <1>1, <1>3, <1>4 DEF WriteToken, Writes, At
<1> QED
  BY <1>5

LEMMA OwnersStay ==
  ASSUME Typed, NEW p \in Thread, Does(p), NEW t \in Token
  PROVE  token'[t].owner = token[t].owner \/ Writes(p, t)
<1>0. token \in [Token -> TokenRecord]
  BY DEF Typed, CredentialsTyped
<1>1. CASE UNCHANGED token
  BY <1>1
<1>2. CASE WriteToken(p)
  <2>1. PICK k : Writes(p, k)
    BY <1>2, WriteWrites
  <2> QED
    BY <1>0, <2>1 DEF Writes
<1>3. CASE TokenStamp(p)
  <2>1. PICK k, s : token' = [token EXCEPT ![k].shape = s]
    BY <1>0, <1>3 DEF TokenStamp
  <2> QED
    BY <1>0, <2>1 DEF TokenRecord
<1>4. CASE NameToken(p)
  <2>1. PICK k, n, s : token' = [token EXCEPT ![k].name = n, ![k].shape = s]
    BY <1>0, <1>4 DEF NameToken
  <2> QED
    BY <1>0, <2>1 DEF TokenRecord
<1>5. CASE DropToken(p)
  <2>1. token' = [token EXCEPT ![job[p].tok].shape = "none"]
    BY <1>5 DEF DropToken
  <2> QED
    BY <1>0, <2>1 DEF TokenRecord
<1> QED
  BY <1>1, <1>2, <1>3, <1>4, <1>5, OthersAreCalm, AccountMoveFrame, GroupMoveFrame,
    CountAdminsFrame
  DEF Moving, CredentialMove, Unmoved, Untouched, credentials, Mint, TouchWrite, Logout,
    IndexHash, IndexName, IndexOwner, SetName, DropOld, DropHash, DropName, Disown

(* What comes into the indexes of tokens                                   *)
LEMMA TokenIndexesMove ==
  ASSUME Typed, NEW p \in Thread, Does(p)
  PROVE  /\ \A t \in byHash' : t \in byHash \/ (IndexHash(p) /\ t = job[p].tok)
         /\ \A t \in ofOwner' : t \in ofOwner \/ (IndexOwner(p) /\ t = job[p].tok)
         /\ \A k \in User \X TokenName :
              \/ byName'[k] = byName[k] \/ byName'[k] = 0
              \/ (IndexName(p) \/ SetName(p)) /\ byName'[k] = job[p].tok
<1>0. byName \in [User \X TokenName -> Token \cup {0}]
  BY DEF Typed, CredentialsTyped
<1>1. CASE UNCHANGED <<byHash, byName, ofOwner>>
  BY <1>1
<1>2. CASE IndexHash(p)
  BY <1>2 DEF IndexHash
<1>3. CASE IndexName(p)
  BY <1>0, <1>3 DEF IndexName
<1>4. CASE IndexOwner(p)
  BY <1>4 DEF IndexOwner
<1>5. CASE SetName(p)
  BY <1>0, <1>5 DEF SetName
<1>6. CASE DropOld(p)
  BY <1>0, <1>6 DEF DropOld
<1>7. CASE DropHash(p)
  BY <1>7 DEF DropHash
<1>8. CASE DropName(p)
  BY <1>0, <1>8 DEF DropName
<1>9. CASE Disown(p)
  BY <1>9 DEF Disown
<1> QED
  BY <1>1, <1>2, <1>3, <1>4, <1>5, <1>6, <1>7, <1>8, <1>9, OthersAreCalm, AccountMoveFrame,
    GroupMoveFrame, CountAdminsFrame
  DEF Moving, CredentialMove, Unmoved, Untouched, credentials, Mint, TouchWrite, Logout,
    TokenStamp, WriteToken, NameToken, DropToken

(* A session of u with epoch e lets nobody in, and never will.             *)
Void(u, e) ==
  /\ u \in User
  /\ user[u].shape = "stub" \/ (user[u].shape = "whole" /\ e < user[u].epoch)

(* No epoch comes from the future.                                         *)
Dated(u, e) == u \in User /\ user[u].shape # "none" /\ e <= user[u].epoch

(* Thread q is about to write session c back.                              *)
Touches(q, c) == At(q, "touch_write") /\ job[q].cred = <<"session", c>>

(* Only what was handed out is presented, or withdrawn.                    *)
Given ==
  /\ \A c \in Cookie : <<"session", c>> \notin issued => session[c] = NoSession
  /\ \A q \in Thread : job[q].cred \in issued \cup {None}
  /\ \A c \in Cookie : <<"session", c>> \in withdrawn => <<"session", c>> \in issued

Stamped ==
  /\ \A c \in Cookie : session[c] # NoSession => Dated(session[c].user, session[c].epoch)
  /\ \A q \in Thread :
       At(q, "touch_write") \/ Stamps(job[q]) => Dated(job[q].id, job[q].epoch)

(* A session is of one account as long as anybody has it in hand.          *)
Touched == \A c \in Cookie, q \in Thread : Touches(q, c) =>
  /\ session[c] # NoSession => session[c].user = job[q].id
  /\ \A r \in Thread : Touches(r, c) => job[r].id = job[q].id

(* A withdrawn session stays void, and so does what is written into it.    *)
Voided == \A c \in Cookie : <<"session", c>> \in withdrawn =>
  /\ session[c] = NoSession \/ Void(session[c].user, session[c].epoch)
  /\ \A q \in Thread : Touches(q, c) => Void(job[q].id, job[q].epoch)

LEMMA VoidStays ==
  ASSUME Typed, NEW p \in Thread, Does(p), NEW u, NEW e \in Nat, Void(u, e)
  PROVE  Void(u, e)'
<1>1. /\ user[u] \in Account /\ user'[u] \in Account /\ user[u].epoch \in Nat
      /\ user'[u].epoch \in Nat
  BY TypedKept DEF Typed, AccountsTyped, Account, Void
<1>2. user'[u].shape \in {"none", "whole", "stub"}
  BY <1>1 DEF Account
<1> QED
  BY <1>1, <1>2, UsersAge DEF Void

LEMMA DatedStays ==
  ASSUME Typed, NEW p \in Thread, Does(p), NEW u, NEW e \in Nat, Dated(u, e)
  PROVE  Dated(u, e)'
<1>1. user[u].epoch \in Nat /\ user'[u].epoch \in Nat
  BY TypedKept DEF Typed, AccountsTyped, Account, Dated
<1> QED
  BY <1>1, UsersAge DEF Dated

(* Who presents what                                                       *)
LEMMA CredMoves ==
  ASSUME Typed, NEW p \in Thread, Does(p), NEW q \in Thread
  PROVE  \/ job'[q].cred \in {job[q].cred, None}
         \/ q = p /\ Present(p) /\ job'[p].cred \in issued
<1>1. CASE BumpEpoch(p)
  BY <1>1, BumpMoves, IdleFields
<1>2. CASE ~ BumpEpoch(p)
  <2>1. CASE Present(p) /\ q = p
    <3>1. PICK cred \in issued :
            Begin(p, [Idle EXCEPT !.cred = cred, !.dead = cred \in withdrawn,
                       !.at = IF cred[1] = "session" THEN "touch_read" ELSE "token_find"])
      BY <2>1 DEF Present
    <3>2. PICK d, l : /\ d = (cred \in withdrawn)
                      /\ l = IF cred[1] = "session" THEN "touch_read" ELSE "token_find"
      OBVIOUS
    <3>3. job' = [job EXCEPT ![p] = [Idle EXCEPT !.cred = cred, !.dead = d, !.at = l]]
      BY <3>1, <3>2, Zenon DEF Begin
    <3>4. job'[p].cred = cred
      BY <3>3, IdleFields DEF Typed, TasksFit, Task
    <3> QED
      BY <2>1, <3>4
  <2>2. CASE ~ (Present(p) /\ q = p)
    BY <1>2, <2>2, EveryStepStays DEF Stays, CredStay
  <2> QED
    BY <2>1, <2>2
<1> QED
  BY <1>1, <1>2

(* Who comes to write a session back                                       *)
LEMMA TouchMoves ==
  ASSUME Typed, NEW p \in Thread, Does(p), NEW q \in Thread, job'[q].at = "touch_write"
  PROVE  \/ /\ q # p /\ job[q].at = "touch_write" /\ job'[q].cred = job[q].cred
            /\ job'[q].id = job[q].id /\ job'[q].epoch = job[q].epoch
         \/ \E c \in Cookie :
              /\ q = p /\ TouchRead(p) /\ job'[p].cred = <<"session", c>>
              /\ job[p].cred = <<"session", c>> /\ session[c] # NoSession
              /\ job'[p].id = session[c].user /\ job'[p].epoch = session[c].epoch
              /\ job'[p].dead = job[p].dead
<1>1. CASE BumpEpoch(p)
  BY <1>1, BumpMoves, IdleFields
<1>2. CASE ~ BumpEpoch(p) /\ q # p
  BY <1>2, EveryStepStays
<1>3. CASE ~ BumpEpoch(p) /\ q = p
  <2>0. TasksFit /\ Fits(job[p]) /\ job[p] \in Task
    BY DEF Typed, TasksFit, Fits
  <2>1. StampStep(p)
    BY <1>3, EveryStepStays DEF Stays, StampStay
  <2>2. CASE TouchRead(p)
    <3>1. PICK c : c = job[p].cred[2]
      OBVIOUS
    <3>2. job[p].cred = <<"session", c>> /\ c \in Cookie
      BY <2>0, <2>2, <3>1 DEF TouchRead, At, Fits, CredFits
    <3>3. ~ End(p)
      BY <1>3, <2>0, EndTaken, IdleFields
    <3>4. /\ session[c] # NoSession
          /\ Work(p, [job[p] EXCEPT !.at = "touch_write", !.id = session[c].user,
                                    !.epoch = session[c].epoch])
      BY <2>2, <3>1, <3>3 DEF TouchRead
    <3>5. PICK n : n = [job[p] EXCEPT !.at = "touch_write", !.id = session[c].user,
                                      !.epoch = session[c].epoch]
      OBVIOUS
    <3>6. /\ n.cred = job[p].cred /\ n.id = session[c].user /\ n.epoch = session[c].epoch
          /\ n.dead = job[p].dead
      BY <2>0, <3>5 DEF Task
    <3>7. job'[p] = n
      BY <2>0, <3>4, <3>5 DEF Work, TasksFit
    <3> QED
      BY <1>3, <2>2, <3>2, <3>4, <3>6, <3>7
  <2>3. CASE FindUser(p) \/ Scan(p) \/ Known(p) \/ WriteUser(p)
    BY <1>3, <2>0, <2>3, StampedStays
  <2> QED
    BY <2>1, <2>2, <2>3 DEF StampStep
<1> QED
  BY <1>1, <1>2, <1>3

(* Who comes to hold an account and its epoch                              *)
LEMMA StampMoves ==
  ASSUME Typed, NEW p \in Thread, Does(p), NEW q \in Thread, Stamps(job'[q])
  PROVE  \/ /\ Stamps(job[q])
            /\ job'[q].id = job[q].id /\ job'[q].epoch = job[q].epoch
         \/ q = p /\ Dated(job[q].id, job[q].epoch)'
<1>0. /\ TasksFit /\ Fits(job[p]) /\ job[p] \in Task
      /\ user \in [User -> Account] /\ all \subseteq User
  BY DEF Typed, TasksFit, Fits, AccountsTyped
<1>1. CASE BumpEpoch(p)
  <2>1. q # p
    BY <1>1, BumpMoves, IdleFields DEF Stamps
  <2> QED
    BY <1>1, <2>1, BumpMoves DEF Stamps
<1>2. CASE ~ BumpEpoch(p) /\ q # p
  BY <1>2, EveryStepStays
<1>3. CASE ~ BumpEpoch(p) /\ q = p /\ StampStay(job[p], job'[p])
  BY <1>3 DEF StampStay
<1>4. ASSUME q = p, NEW n, Work(p, n), user' = user, Whole(n.id), n.id \in User,
             n.epoch = user[n.id].epoch
      PROVE  Dated(job[q].id, job[q].epoch)'
  <2>1. job'[p] = n
    BY <1>0, <1>4 DEF Work, TasksFit
  <2>2. user[n.id].epoch \in Nat
    BY <1>0, <1>4 DEF Account
  <2> QED
    BY <1>4, <2>1, <2>2 DEF Dated, Whole
<1>5. ~ End(p) \/ q # p
  BY <1>0, EndTaken, IdleFields DEF Stamps
<1>6. CASE ~ BumpEpoch(p) /\ q = p /\ StampStep(p)
  <2>1. CASE TouchRead(p)
    <3>1. PICK i, e : Work(p, [job[p] EXCEPT !.at = "touch_write", !.id = i, !.epoch = e])
      BY <1>5, <1>6, <2>1 DEF TouchRead
    <3>2. job'[p].at = "touch_write"
      BY <1>0, <3>1 DEF Work, Task, TasksFit
    <3> QED
      BY <1>6, <3>2 DEF Stamps
  <2>2. CASE FindUser(p)
    <3>1. PICK u, l : u = job[p].id /\ l = OnFound(p)
      OBVIOUS
    <3>2. /\ Whole(u) /\ user' = user
          /\ Work(p, [job[p] EXCEPT !.at = l, !.id = u, !.was = user[u].admin,
                                    !.epoch = user[u].epoch])
      BY <1>5, <1>6, <2>2, <3>1 DEF FindUser, Found, accounts
    <3>3. u \in User
      BY <1>0, <2>2, <3>1 DEF FindUser, At, Fits, IdFits
    <3>4. PICK n : n = [job[p] EXCEPT !.at = l, !.id = u, !.was = user[u].admin,
                                      !.epoch = user[u].epoch]
      OBVIOUS
    <3>5. n.id = u /\ n.epoch = user[u].epoch
      BY <1>0, <3>4 DEF Task
    <3> QED
      BY <1>4, <1>6, <3>2, <3>3, <3>4, <3>5
  <2>3. CASE Scan(p)
    <3>1. \/ Missing(p)
          \/ \E u \in all : /\ Whole(u)
                            /\ Work(p, [job[p] EXCEPT !.at = "heal", !.id = u,
                                         !.was = user[u].admin, !.epoch = user[u].epoch])
      BY <1>5, <1>6, <2>3 DEF Scan
    <3>2. CASE Missing(p)
      <4>1. PICK l : l = OnMissing(job[p].op)
        OBVIOUS
      <4>2. PICK o : o = IF job[p].op = "sign_in" THEN "join" ELSE job[p].op
        OBVIOUS
      <4>3. l \in {"write_user", "find"} /\ Work(p, [job[p] EXCEPT !.at = l, !.op = o])
        BY <1>0, <1>5, <1>6, <3>2, <4>1, <4>2 DEF Missing, OnMissing, Task
      <4>4. job'[p].at = l
        BY <1>0, <4>3 DEF Work, Task, TasksFit
      <4> QED
        BY <1>6, <4>3, <4>4 DEF Stamps
    <3>3. ASSUME NEW u \in all, Whole(u),
                 Work(p, [job[p] EXCEPT !.at = "heal", !.id = u, !.was = user[u].admin,
                                        !.epoch = user[u].epoch])
          PROVE  Dated(job[q].id, job[q].epoch)'
      <4>1. PICK n : n = [job[p] EXCEPT !.at = "heal", !.id = u, !.was = user[u].admin,
                                        !.epoch = user[u].epoch]
        OBVIOUS
      <4>2. n.id = u /\ n.epoch = user[u].epoch
        BY <1>0, <4>1 DEF Task
      <4>3. user' = user
        BY <2>3 DEF Scan, accounts
      <4> QED
        BY <1>0, <1>4, <1>6, <3>3, <4>1, <4>2, <4>3
    <3> QED
      BY <1>6, <3>1, <3>2, <3>3
  <2>4. CASE Known(p)
    <3>1. PICK n : /\ Work(p, n)
                   /\ n = [job[p] EXCEPT !.at = "sync", !.op = "return",
                             !.was = user[job[p].id].admin, !.epoch = user[job[p].id].epoch,
                             !.mail = user[job[p].id].mail]
      BY <1>5, <1>6, <2>4 DEF Known
    <3>2. n.id = job[p].id /\ n.epoch = user[job[p].id].epoch
      BY <1>0, <3>1 DEF Task
    <3>3. Whole(job[p].id) /\ user' = user
      BY <1>5, <1>6, <2>4 DEF Known, accounts
    <3>4. job[p].id \in User
      BY <1>0, <2>4 DEF Known, At, Fits, IdFits
    <3> QED
      BY <1>4, <1>6, <3>1, <3>2, <3>3, <3>4
  <2>5. CASE WriteUser(p)
    <3>1. PICK u : u = Smallest(Unborn)
      OBVIOUS
    <3>2. Unborn # {} /\ Unborn \in SUBSET Nat /\ Unborn \subseteq User
      BY <2>5 DEF WriteUser, Unborn, User
    <3>3. u \in User
      BY <3>1, <3>2, MinExists
    <3>4. /\ user' = [user EXCEPT ![u] = [shape |-> "whole", mail |-> job[p].mail,
                                          admin |-> job[p].role, epoch |-> 0]]
          /\ Work(p, [job[p] EXCEPT !.at = "claim", !.id = u, !.was = job[p].role,
                                    !.epoch = 0])
      BY <2>5, <3>1 DEF WriteUser
    <3>5. job'[p].id = u /\ job'[p].epoch = 0
      BY <1>0, <3>4 DEF Work, Task, TasksFit
    <3>6. user'[u].shape = "whole" /\ user'[u].epoch = 0
      BY <1>0, <3>3, <3>4
    <3> QED
      BY <1>6, <3>3, <3>5, <3>6 DEF Dated
  <2> QED
    BY <1>6, <2>1, <2>2, <2>3, <2>4, <2>5 DEF StampStep
<1>7. ~ BumpEpoch(p) /\ q = p => StampStay(job[p], job'[p]) \/ StampStep(p)
  BY EveryStepStays DEF Stays
<1> QED
  BY <1>1, <1>2, <1>3, <1>6, <1>7

LEMMA GivenKept ==
  ASSUME Typed, NEW p \in Thread, Does(p), Given
  PROVE  Given'
<1>0. TasksFit /\ Fits(job[p]) /\ CredentialsTyped /\ 0 \notin User
  BY DEF Typed, TasksFit, User
<1>1. issued \subseteq issued'
  BY IssuedGrows
<1>2. ASSUME NEW c \in Cookie, <<"session", c>> \notin issued'
      PROVE  session'[c] = NoSession
  <2>1. <<"session", c>> \notin issued /\ session[c] = NoSession
    BY <1>1, <1>2 DEF Given
  <2>2. ~ (TouchWrite(p) /\ job[p].cred = <<"session", c>>)
    <3>1. job[p].cred \in issued \cup {None} /\ <<"session", c>> # None
      BY AccountsAssumption DEF Given, Credential
    <3> QED
      BY <2>1, <3>1
  <2>3. ~ Mints(p, c)
    BY <1>2 DEF Mints
  <2> QED
    BY <2>1, <2>2, <2>3, SessionMoves
<1>3. ASSUME NEW q \in Thread PROVE job'[q].cred \in issued' \cup {None}
  BY <1>1, CredMoves DEF Given
<1>4. ASSUME NEW c \in Cookie, <<"session", c>> \in withdrawn'
      PROVE  <<"session", c>> \in issued'
  <2>1. CASE BumpEpoch(p) /\ session[c].user = job[p].user
    <3>1. job[p].user \in User
      BY <1>0, <2>1 DEF BumpEpoch, At, Fits, UserFits
    <3>2. session[c] # NoSession
      BY <1>0, <2>1, <3>1 DEF NoSession
    <3> QED
      BY <1>1, <3>2 DEF Given
  <2>2. Mints(p, c) => <<"session", c>> \in issued'
    BY DEF Mints
  <2> QED
    BY <1>1, <1>4, <2>1, <2>2, SessionsWithdrawn DEF Given
<1> QED
  BY <1>2, <1>3, <1>4 DEF Given

(* What was left of a deleted account                                      *)
Stub(u) == u \in User /\ user[u].shape = "stub"

(* A call with a withdrawn credential, or one that mints a session that    *)
(* is withdrawn already, does not get past the next look at the account.   *)
Fated(q) ==
  \/ job[q].at \in {"touch_read", "token_find"} /\ job[q].cred \in withdrawn
  \/ job[q].at = "touch_write" /\ Void(job[q].id, job[q].epoch)
  \/ At(q, "load_user") /\ job[q].cred[1] = "session" /\ Void(job[q].id, job[q].epoch)
  \/ At(q, "load_user") /\ job[q].cred[1] = "token" /\ Stub(job[q].id)
  \/ At(q, "token_read") /\ Stub(token[job[q].cred[2]].owner)
  \/ Stamps(job[q]) /\ Void(job[q].id, job[q].epoch)

Doomed == \A q \in Thread : job[q].dead => Fated(q)

LEMMA EpochsNat ==
  ASSUME Typed
  PROVE  /\ \A c \in Cookie : session[c].epoch \in Nat /\ session[c].user \in Id
         /\ \A q \in Thread : job[q].epoch \in Nat
         /\ 0 \notin User /\ User \subseteq Nat
BY DEF Typed, CredentialsTyped, SessionRecord, TasksFit, Fits, Task, User

LEMMA StampedKept ==
  ASSUME Typed, NEW p \in Thread, Does(p), Stamped
  PROVE  Stamped'
<1>0. TasksFit /\ Fits(job[p])
  BY DEF Typed, TasksFit
<1>1. ASSUME NEW c \in Cookie, session'[c] # NoSession
      PROVE  Dated(session[c].user, session[c].epoch)'
  <2>1. CASE session'[c] = session[c]
    <3>1. Dated(session[c].user, session[c].epoch)
      BY <1>1, <2>1 DEF Stamped
    <3>2. PICK u, e : u = session[c].user /\ e = session[c].epoch
      OBVIOUS
    <3>3. e \in Nat
      BY <3>2, EpochsNat
    <3>4. Dated(u, e)'
      BY <3>1, <3>2, <3>3, DatedStays
    <3> QED
      BY <2>1, <3>2, <3>4 DEF Dated
  <2>2. ASSUME session'[c] = [user |-> job[p].id, epoch |-> job[p].epoch],
               At(p, "touch_write") \/ Stamps(job[p])
        PROVE  Dated(session[c].user, session[c].epoch)'
    <3>1. PICK u, e : u = job[p].id /\ e = job[p].epoch
      OBVIOUS
    <3>2. e \in Nat
      BY <3>1, EpochsNat
    <3>3. Dated(u, e)'
      BY <2>2, <3>1, <3>2, DatedStays DEF Stamped
    <3>4. session'[c].user = u /\ session'[c].epoch = e
      BY <2>2, <3>1
    <3> QED
      BY <3>3, <3>4 DEF Dated
  <2>3. TouchWrite(p) => At(p, "touch_write")
    BY DEF TouchWrite
  <2>4. Mints(p, c) => Stamps(job[p])
    BY <1>0 DEF Mints, Stamps, Fits, OpFits
  <2> QED
    BY <1>1, <2>1, <2>2, <2>3, <2>4, SessionMoves
<1>2. ASSUME NEW q \in Thread, job'[q].at = "touch_write" \/ Stamps(job'[q])
      PROVE  Dated(job[q].id, job[q].epoch)'
  <2>1. ASSUME job'[q].id = job[q].id, job'[q].epoch = job[q].epoch,
               At(q, "touch_write") \/ Stamps(job[q])
        PROVE  Dated(job[q].id, job[q].epoch)'
    <3>1. PICK u, e : u = job[q].id /\ e = job[q].epoch
      OBVIOUS
    <3>2. e \in Nat
      BY <3>1, EpochsNat
    <3>3. Dated(u, e)'
      BY <2>1, <3>1, <3>2, DatedStays DEF Stamped
    <3> QED
      BY <2>1, <3>1, <3>3 DEF Dated
  <2>2. ASSUME NEW c \in Cookie, session[c] # NoSession, job'[q].id = session[c].user,
               job'[q].epoch = session[c].epoch
        PROVE  Dated(job[q].id, job[q].epoch)'
    <3>1. PICK u, e : u = session[c].user /\ e = session[c].epoch
      OBVIOUS
    <3>2. e \in Nat
      BY <3>1, EpochsNat
    <3>3. Dated(u, e)'
      BY <2>2, <3>1, <3>2, DatedStays DEF Stamped
    <3> QED
      BY <2>2, <3>1, <3>3 DEF Dated
  <2>3. CASE job'[q].at = "touch_write"
    BY <2>1, <2>2, <2>3, TouchMoves DEF At
  <2>4. CASE Stamps(job'[q])
    BY <2>1, <2>4, StampMoves
  <2> QED
    BY <1>2, <2>3, <2>4
<1> QED
  BY <1>1, <1>2 DEF Stamped, At

LEMMA TouchesAnIssued ==
  ASSUME Given, NEW q \in Thread, NEW c \in Cookie, Touches(q, c)
  PROVE  <<"session", c>> \in issued
BY AccountsAssumption DEF Given, Touches, Credential

(* Who has session c in hand after a step                                  *)
LEMMA TouchesMove ==
  ASSUME Typed, NEW p \in Thread, Does(p), NEW q \in Thread, NEW c \in Cookie, Touches(q, c)'
  PROVE  \/ /\ q # p /\ Touches(q, c)
            /\ job'[q].id = job[q].id /\ job'[q].epoch = job[q].epoch
         \/ /\ q = p /\ TouchRead(p) /\ At(p, "touch_read")
            /\ job[p].cred = <<"session", c>> /\ session[c] # NoSession
            /\ job'[p].id = session[c].user /\ job'[p].epoch = session[c].epoch
<1>1. job'[q].at = "touch_write" /\ job'[q].cred = <<"session", c>>
  BY DEF Touches, At
<1>2. TouchRead(p) => At(p, "touch_read")
  BY DEF TouchRead
<1> QED
  BY <1>1, <1>2, TouchMoves DEF Touches, At

LEMMA TouchedKept ==
  ASSUME Typed, NEW p \in Thread, Does(p), Given, Touched
  PROVE  Touched'
<1> SUFFICES ASSUME NEW c \in Cookie, NEW q \in Thread, Touches(q, c)'
             PROVE  /\ session'[c] # NoSession => session'[c].user = job'[q].id
                    /\ \A r \in Thread : Touches(r, c)' => job'[r].id = job'[q].id
  BY DEF Touched
<1>0. session[c] # NoSession /\ Touches(q, c) => session[c].user = job[q].id
  BY DEF Touched
<1>1. ASSUME session'[c] # NoSession PROVE session'[c].user = job'[q].id
  <2>1. CASE session'[c] = session[c]
    BY <1>0, <1>1, <2>1, TouchesMove
  <2>2. CASE /\ TouchWrite(p) /\ job[p].cred = <<"session", c>>
             /\ session'[c] = [user |-> job[p].id, epoch |-> job[p].epoch]
    <3>1. Touches(p, c) /\ ~ At(p, "touch_read")
      BY <2>2 DEF TouchWrite, Touches, At
    <3>2. Touches(q, c) /\ job'[q].id = job[q].id
      BY <3>1, TouchesMove
    <3> QED
      BY <2>2, <3>1, <3>2 DEF Touched
  <2>3. ASSUME Mints(p, c) PROVE FALSE
    <3>1. ~ At(p, "touch_read") /\ <<"session", c>> \notin issued
      BY <2>3 DEF Mints, At
    <3>2. Touches(q, c)
      BY <3>1, TouchesMove
    <3> QED
      BY <3>1, <3>2, TouchesAnIssued
  <2> QED
    BY <1>1, <2>1, <2>2, <2>3, SessionMoves
<1>2. ASSUME NEW r \in Thread, Touches(r, c)' PROVE job'[r].id = job'[q].id
  <2>1. CASE Touches(q, c) /\ Touches(r, c) /\ q # p /\ r # p
    BY <1>2, <2>1, TouchesMove DEF Touched
  <2>2. CASE q # p /\ r = p
    BY <1>0, <1>2, <2>2, TouchesMove
  <2>3. CASE q = p /\ r # p
    <3>1. Touches(r, c) /\ job'[r].id = job[r].id
      BY <1>2, <2>3, TouchesMove
    <3>2. session[c] # NoSession /\ job'[q].id = session[c].user
      BY <2>3, TouchesMove
    <3> QED
      BY <3>1, <3>2 DEF Touched
  <2> QED
    BY <1>2, <2>1, <2>2, <2>3, TouchesMove
<1> QED
  BY <1>1, <1>2

(* An epoch that goes up and a wipe leave no session of the account good.  *)
LEMMA VoidedByStep ==
  ASSUME Typed, NEW p \in Thread, Does(p), NEW u, NEW e \in Nat, Dated(u, e),
         (BumpEpoch(p) /\ u = job[p].user) \/ (WipeUser(p) /\ u = job[p].id)
  PROVE  Void(u, e)'
<1>1. /\ user[u] \in Account /\ user'[u] \in Account /\ user[u].epoch \in Nat
      /\ user'[u].epoch \in Nat
  BY TypedKept DEF Typed, AccountsTyped, Account, Dated
<1>2. user'[u].shape \in {"none", "whole", "stub"}
  BY <1>1 DEF Account
<1> QED
  BY <1>1, <1>2, UsersAge DEF Void, Dated

LEMMA VoidedKept ==
  ASSUME Typed, NEW p \in Thread, Does(p), Given, Stamped, Touched, Voided, Doomed
  PROVE  Voided'
<1> SUFFICES ASSUME NEW c \in Cookie, <<"session", c>> \in withdrawn'
             PROVE  /\ \/ session'[c] = NoSession
                       \/ Void(session[c].user, session[c].epoch)'
                    /\ \A q \in Thread : Touches(q, c)' => Void(job[q].id, job[q].epoch)'
  BY DEF Voided
<1>0. /\ \A d \in Cookie : session[d].epoch \in Nat
      /\ \A q \in Thread : job[q].epoch \in Nat
      /\ 0 \notin User /\ Fits(job[p])
  BY EpochsNat DEF Typed, TasksFit
<1> DEFINE Gone(u, e) == Void(u, e)'
(* what was void stays void, whoever has it in hand *)
<1>1. ASSUME NEW q \in Thread, Touches(q, c)', NEW u, NEW e, Gone(u, e),
             job'[q].id = u, job'[q].epoch = e
      PROVE  Void(job[q].id, job[q].epoch)'
  BY <1>1 DEF Void
<1>2. ASSUME NEW u, NEW e, Gone(u, e), session'[c].user = u, session'[c].epoch = e
      PROVE  Void(session[c].user, session[c].epoch)'
  BY <1>2 DEF Void
<1>3. ASSUME NEW u, NEW e \in Nat, Void(u, e) PROVE Gone(u, e)
  BY <1>3, VoidStays
<1> HIDE DEF Gone
<1>4. CASE <<"session", c>> \in withdrawn
  <2>1. session[c] # NoSession => Gone(session[c].user, session[c].epoch)
    BY <1>0, <1>3, <1>4 DEF Voided
  <2>2. \A q \in Thread : Touches(q, c) => Gone(job[q].id, job[q].epoch)
    BY <1>0, <1>3, <1>4 DEF Voided
  <2>3. session'[c] = NoSession \/ Void(session[c].user, session[c].epoch)'
    <3>1. TouchWrite(p) /\ job[p].cred = <<"session", c>> => Touches(p, c)
      BY DEF TouchWrite, Touches
    <3>2. ~ Mints(p, c)
      BY <1>4 DEF Mints, Given
    <3>3. CASE session'[c] = session[c]
      BY <1>2, <2>1, <3>3
    <3>4. CASE /\ TouchWrite(p) /\ job[p].cred = <<"session", c>>
               /\ session'[c] = [user |-> job[p].id, epoch |-> job[p].epoch]
      <4>1. session'[c].user = job[p].id /\ session'[c].epoch = job[p].epoch
        BY <3>4
      <4> QED
        BY <1>2, <2>2, <3>1, <3>4, <4>1
    <3> QED
      BY <3>2, <3>3, <3>4, SessionMoves
  <2>4. ASSUME NEW q \in Thread, Touches(q, c)' PROVE Void(job[q].id, job[q].epoch)'
    BY <1>1, <2>1, <2>2, <2>4, TouchesMove
  <2> QED
    BY <2>3, <2>4
<1>5. CASE /\ Logout(p) /\ session'[c] = NoSession
           /\ \A q \in Thread : ~ (At(q, "touch_write") /\ job[q].cred = <<"session", c>>)
  <2>1. ~ At(p, "touch_read")
    BY <1>5 DEF Logout, Begin, At
  <2>2. \A q \in Thread : ~ Touches(q, c)'
    BY <1>5, <2>1, TouchesMove DEF Touches
  <2> QED
    BY <1>5, <2>2
<1>6. ASSUME NEW u \in User, session[c].user = u,
             (BumpEpoch(p) /\ u = job[p].user) \/ (WipeUser(p) /\ u = job[p].id)
      PROVE  /\ \/ session'[c] = NoSession
                \/ Void(session[c].user, session[c].epoch)'
             /\ \A q \in Thread : Touches(q, c)' => Void(job[q].id, job[q].epoch)'
  <2>1. session[c] # NoSession
    BY <1>0, <1>6 DEF NoSession
  <2>2. ~ At(p, "touch_read")
    BY <1>6 DEF BumpEpoch, WipeUser, At
  <2>3. session' = session
    BY <1>6 DEF BumpEpoch, WipeUser, credentials
  <2>4. ASSUME NEW e \in Nat, Dated(u, e) PROVE Gone(u, e)
    BY <1>6, <2>4, VoidedByStep DEF Gone
  <2>5. Gone(u, session[c].epoch)
    BY <1>0, <1>6, <2>1, <2>4 DEF Stamped
  <2>6. Void(session[c].user, session[c].epoch)'
    BY <1>2, <1>6, <2>3, <2>5
  <2>7. ASSUME NEW q \in Thread, Touches(q, c)' PROVE Void(job[q].id, job[q].epoch)'
    <3>1. Touches(q, c) /\ job'[q].id = job[q].id /\ job'[q].epoch = job[q].epoch
      BY <2>2, <2>7, TouchesMove
    <3>2. job[q].id = u
      BY <1>6, <2>1, <3>1 DEF Touched
    <3>3. Dated(u, job[q].epoch)
      BY <3>1, <3>2 DEF Stamped, Touches
    <3>4. Gone(u, job[q].epoch)
      BY <1>0, <2>4, <3>3
    <3> QED
      BY <1>1, <2>7, <3>1, <3>2, <3>4
  <2> QED
    BY <2>6, <2>7
<1>7. BumpEpoch(p) => job[p].user \in User
  BY <1>0 DEF BumpEpoch, At, Fits, UserFits
<1>8. WipeUser(p) => job[p].id \in User
  BY <1>0 DEF WipeUser, At, Fits, IdFits
<1>9. CASE Mints(p, c) /\ job[p].dead
  <2>1. Stamps(job[p]) /\ Void(job[p].id, job[p].epoch)
    BY <1>9 DEF Mints, Doomed, Fated, At
  <2>2. Gone(job[p].id, job[p].epoch)
    BY <1>0, <1>3, <2>1
  <2>3. session'[c] = [user |-> job[p].id, epoch |-> job[p].epoch]
    BY <1>9 DEF Mints, Typed, CredentialsTyped
  <2>4. session'[c].user = job[p].id /\ session'[c].epoch = job[p].epoch
    BY <2>3
  <2>6. Void(session[c].user, session[c].epoch)'
    BY <1>2, <2>2, <2>4
  <2>5. \A q \in Thread : ~ Touches(q, c)'
    BY <1>9, TouchesMove, TouchesAnIssued DEF Mints, At
  <2> QED
    BY <2>5, <2>6
<1> QED
  BY <1>4, <1>5, <1>6, <1>7, <1>8, <1>9, SessionsWithdrawn

(* A token was handed out, or is about to be and can be found already.     *)
Seen(t) ==
  \/ <<"token", t>> \in issued
  \/ \E q \in Thread : job[q].at \in {"index_name", "index_owner"} /\ job[q].tok = t

(* Whatever leads to a token leads to one that was seen; one that is being *)
(* written is only its writer's.                                           *)
Sighted ==
  /\ \A t \in byHash \cup ofOwner : Seen(t)
  /\ \A k \in User \X TokenName : byName[k] # 0 => Seen(byName[k])
  /\ \A t \in Token : <<"token", t>> \in withdrawn => Seen(t)
  /\ \A q \in Thread : \A t \in job[q].toks : Seen(t)
  /\ \A q \in Thread : job[q].tok # 0 /\ job[q].at # "index_hash" => Seen(job[q].tok)
  /\ \A q \in Thread : job[q].at = "index_hash" =>
       ~ Seen(job[q].tok) /\ \A r \in Thread \ {q} : job[r].tok # job[q].tok

(* What a deletion of a token has behind it                                *)
Unhashed == \A q \in Thread :
  job[q].at \in {"drop_name", "disown", "drop_token"} => job[q].tok \notin byHash

(* A revoked token leads nowhere, or to what was left of an account.       *)
Revoked == \A t \in Token :
  <<"token", t>> \in withdrawn => t \notin byHash \/ Stub(token[t].owner)

LEMMA StubStays ==
  ASSUME Typed, NEW p \in Thread, Does(p), NEW u, Stub(u)
  PROVE  Stub(u)'
BY UsersAge DEF Stub

(* What becomes of a thread with a token in hand                           *)
LEMMA TokMoves ==
  ASSUME Typed, NEW p \in Thread, Does(p), NEW q \in Thread
  PROVE  \/ q # p /\ job'[q].at = job[q].at /\ job'[q].tok = job[q].tok
                  /\ job'[q].toks = job[q].toks
         \/ q = p /\ TokStay(job[p], job'[p])
         \/ q = p /\ TokStep(p)
<1>1. CASE BumpEpoch(p)
  <2>1. job[p].at = "bump"
    BY <1>1 DEF BumpEpoch, At
  <2> QED
    BY <1>1, <2>1, BumpMoves, IdleFields DEF TokStay
<1>2. CASE ~ BumpEpoch(p)
  BY <1>2, EveryStepStays DEF Stays
<1> QED
  BY <1>1, <1>2

LEMMA TokStepMoves ==
  ASSUME Typed, NEW p \in Thread, TokStep(p)
  PROVE  \/ /\ job'[p].at \notin {"index_hash", "index_name", "index_owner", "drop_name",
                                  "disown", "drop_token"}
            /\ job[p].at \notin {"index_hash", "index_name", "index_owner"}
            /\ \/ job'[p].tok \in {job[p].tok, 0} \cup job[p].toks
               \/ \E k \in User \X TokenName : job'[p].tok = byName[k]
            /\ job'[p].toks \subseteq job[p].toks \cup ofOwner
         \/ /\ Writes(p, job'[p].tok) /\ job'[p].at = "index_hash"
            /\ job'[p].toks = job[p].toks
         \/ /\ IndexHash(p) /\ job[p].at = "index_hash" /\ job'[p].at = "index_name"
            /\ job'[p].tok = job[p].tok /\ job'[p].toks = job[p].toks
         \/ /\ IndexName(p) /\ job[p].at = "index_name" /\ job'[p].at = "index_owner"
            /\ job'[p].tok = job[p].tok /\ job'[p].toks = job[p].toks
         \/ IndexOwner(p) /\ job[p].at = "index_owner" /\ job'[p] = Idle
         \/ /\ DropHash(p) /\ job[p].at = "drop_hash" /\ job'[p].at = "drop_name"
            /\ job'[p].tok = job[p].tok /\ job'[p].toks = job[p].toks
         \/ /\ job[p].at \in {"drop_name", "disown"} /\ job'[p].at \in {"disown", "drop_token"}
            /\ job'[p].tok = job[p].tok /\ job'[p].toks = job[p].toks
<1>0. job[p] \in Task /\ TasksFit /\ Fits(job[p])
  BY DEF Typed, TasksFit, Fits
<1>1. CASE DeleteRead(p)
  <2>1. job[p].at = "delete_read"
    BY <1>1 DEF DeleteRead, At
  <2>2. CASE End(p)
    BY <1>0, <2>1, <2>2, EndTaken, IdleFields
  <2>3. CASE ~ End(p)
    <3>1. PICK s : /\ s = {t \in ofOwner : token[t].owner = job[p].id}
                   /\ Work(p, [job[p] EXCEPT !.at = "cascade", !.toks = s])
      BY <1>1, <2>3 DEF DeleteRead
    <3>2. PICK n : n = [job[p] EXCEPT !.at = "cascade", !.toks = s]
      OBVIOUS
    <3>3. n.at = "cascade" /\ n.tok = job[p].tok /\ n.toks = s
      BY <1>0, <3>2 DEF Task
    <3>4. job'[p] = n
      BY <1>0, <3>1, <3>2 DEF Work, TasksFit
    <3> QED
      BY <2>1, <3>1, <3>3, <3>4
  <2> QED
    BY <2>2, <2>3
<1>2. CASE CascadeToken(p)
  <2>1. job[p].at = "cascade"
    BY <1>2 DEF CascadeToken, At
  <2>2. CASE End(p)
    BY <1>0, <2>1, <2>2, EndTaken, IdleFields
  <2>3. CASE Step(p, "unmail")
    BY <1>0, <2>1, <2>3, StepTaken
  <2>4. ASSUME NEW t, NEW nm, NEW ts, Takes(p, t, nm, ts)
        PROVE  /\ job'[p].at = "drop_hash" /\ job'[p].tok \in job[p].toks
               /\ job'[p].toks \subseteq job[p].toks
    <3>1. PICK n : n = [job[p] EXCEPT !.at = "drop_hash", !.tok = t, !.name = nm, !.toks = ts]
      OBVIOUS
    <3>2. n.at = "drop_hash" /\ n.tok = t /\ n.toks = ts
      BY <1>0, <3>1 DEF Task
    <3>3. job'[p] = n
      BY <1>0, <2>4, <3>1 DEF Takes, Work, TasksFit
    <3> QED
      BY <2>4, <3>2, <3>3 DEF Takes
  <2>5. ASSUME NEW ts, Passes(p, ts)
        PROVE  /\ job'[p].at = "cascade" /\ job'[p].tok = job[p].tok
               /\ job'[p].toks \subseteq job[p].toks
    <3>1. PICK n : n = [job[p] EXCEPT !.toks = ts]
      OBVIOUS
    <3>2. n.at = job[p].at /\ n.tok = job[p].tok /\ n.toks = ts
      BY <1>0, <3>1 DEF Task
    <3>3. job'[p] = n
      BY <1>0, <2>5, <3>1 DEF Passes, Work, TasksFit
    <3> QED
      BY <2>1, <2>5, <3>2, <3>3 DEF Passes
  <2> QED
    BY <1>2, <2>1, <2>2, <2>3, <2>4, <2>5, CascadeGoes
<1>3. CASE WriteToken(p)
  <2>1. PICK t : Writes(p, t)
    BY <1>3, WriteWrites
  <2>2. PICK n : n = [job[p] EXCEPT !.at = "index_hash", !.tok = t]
    OBVIOUS
  <2>3. n.at = "index_hash" /\ n.tok = t /\ n.toks = job[p].toks
    BY <1>0, <2>2 DEF Task
  <2>4. job'[p] = n
    BY <1>0, <2>1, <2>2 DEF Writes, Work, TasksFit
  <2> QED
    BY <2>1, <2>3, <2>4
<1>4. CASE IndexHash(p)
  <2>1. job[p].at = "index_hash" /\ Step(p, "index_name")
    BY <1>4 DEF IndexHash, At
  <2> QED
    BY <1>0, <1>4, <2>1, StepTaken
<1>5. CASE IndexName(p)
  <2>1. job[p].at = "index_name" /\ Step(p, "index_owner")
    BY <1>5 DEF IndexName, At
  <2> QED
    BY <1>0, <1>5, <2>1, StepTaken
<1>6. CASE IndexOwner(p)
  <2>1. job[p].at = "index_owner" /\ End(p)
    BY <1>6 DEF IndexOwner, At
  <2> QED
    BY <1>0, <1>6, <2>1, EndTaken
<1>7. CASE RenameFind(p)
  <2>1. /\ job[p].at = "rename_find"
        /\ <<job[p].user, job[p].name>> \in User \X TokenName
    BY <1>0, <1>7 DEF RenameFind, At, Fits, UserFits, TokenFits
  <2>2. CASE End(p)
    BY <1>0, <2>1, <2>2, EndTaken, IdleFields
  <2>3. CASE ~ End(p)
    <3>1. PICK t : /\ t = byName[<<job[p].user, job[p].name>>]
                   /\ Work(p, [job[p] EXCEPT !.at = "set_name", !.tok = t])
      BY <1>7, <2>3 DEF RenameFind, HoldNamed
    <3>2. job'[p].at = "set_name" /\ job'[p].tok = t /\ job'[p].toks = job[p].toks
      BY <1>0, <3>1 DEF Work, Task, TasksFit
    <3> QED
      BY <2>1, <3>1, <3>2
  <2> QED
    BY <2>2, <2>3
<1>8. CASE RevokeFind(p)
  <2>1. /\ job[p].at = "revoke_find"
        /\ <<job[p].user, job[p].name>> \in User \X TokenName
    BY <1>0, <1>8 DEF RevokeFind, At, Fits, UserFits, TokenFits
  <2>2. CASE End(p)
    BY <1>0, <2>1, <2>2, EndTaken, IdleFields
  <2>3. CASE ~ End(p)
    <3>1. PICK t, m : /\ t = byName[<<job[p].user, job[p].name>>]
                      /\ Work(p, [job[p] EXCEPT !.at = "drop_hash", !.tok = t, !.name = m])
      BY <1>8, <2>3 DEF RevokeFind
    <3>2. job'[p].at = "drop_hash" /\ job'[p].tok = t /\ job'[p].toks = job[p].toks
      BY <1>0, <3>1 DEF Work, Task, TasksFit
    <3> QED
      BY <2>1, <3>1, <3>2
  <2> QED
    BY <2>2, <2>3
<1>9. CASE DropHash(p)
  <2>1. job[p].at = "drop_hash" /\ Step(p, "drop_name")
    BY <1>9 DEF DropHash, At
  <2> QED
    BY <1>0, <1>9, <2>1, StepTaken
<1>10. CASE DropName(p)
  <2>1. job[p].at = "drop_name" /\ Step(p, "disown")
    BY <1>10 DEF DropName, At
  <2> QED
    BY <1>0, <2>1, StepTaken
<1>11. CASE Disown(p)
  <2>1. job[p].at = "disown" /\ Step(p, "drop_token")
    BY <1>11 DEF Disown, At
  <2> QED
    BY <1>0, <2>1, StepTaken
<1> QED
  BY <1>1, <1>2, <1>3, <1>4, <1>5, <1>6, <1>7, <1>8, <1>9, <1>10, <1>11 DEF TokStep

(* The same for any thread                                                 *)
LEMMA HandMoves ==
  ASSUME Typed, NEW p \in Thread, Does(p), NEW q \in Thread
  PROVE  \/ /\ q # p \/ job'[p].at \in {"disown", "drop_token"}
            /\ q = p => job[p].at \in {"drop_name", "disown"}
            /\ q # p => job'[q].at = job[q].at
            /\ job'[q].tok = job[q].tok /\ job'[q].toks = job[q].toks
         \/ /\ q = p
            /\ job'[p].at \notin {"index_hash", "index_name", "index_owner", "drop_name",
                                  "disown", "drop_token"}
            /\ job[p].at \notin {"index_hash", "index_name", "index_owner"}
            /\ \/ job'[p].tok \in {job[p].tok, 0} \cup job[p].toks
               \/ \E k \in User \X TokenName : job'[p].tok = byName[k]
            /\ job'[p].toks \subseteq job[p].toks \cup ofOwner
         \/ /\ q = p /\ Writes(p, job'[p].tok) /\ job'[p].at = "index_hash"
            /\ job'[p].toks = job[p].toks
         \/ /\ q = p /\ IndexHash(p) /\ job[p].at = "index_hash" /\ job'[p].at = "index_name"
            /\ job'[p].tok = job[p].tok /\ job'[p].toks = job[p].toks
         \/ /\ q = p /\ IndexName(p) /\ job[p].at = "index_name" /\ job'[p].at = "index_owner"
            /\ job'[p].tok = job[p].tok /\ job'[p].toks = job[p].toks
         \/ q = p /\ IndexOwner(p) /\ job[p].at = "index_owner" /\ job'[p] = Idle
         \/ /\ q = p /\ DropHash(p) /\ job[p].at = "drop_hash" /\ job'[p].at = "drop_name"
            /\ job'[p].tok = job[p].tok /\ job'[p].toks = job[p].toks
<1>1. CASE q = p /\ TokStay(job[p], job'[p])
  BY <1>1 DEF TokStay
<1>2. CASE q = p /\ TokStep(p)
  BY <1>2, TokStepMoves
<1> QED
  BY <1>1, <1>2, TokMoves

LEMMA SeenStays ==
  ASSUME Typed, NEW p \in Thread, Does(p), NEW t, Seen(t)
  PROVE  Seen(t)'
<1>1. CASE <<"token", t>> \in issued
  BY <1>1, IssuedGrows DEF Seen
<1>2. ASSUME NEW q \in Thread, job[q].at \in {"index_name", "index_owner"}, job[q].tok = t
      PROVE  Seen(t)'
  <2>1. CASE q = p /\ IndexOwner(p)
    <3>1. issued' = issued \cup {<<"token", t>>}
      BY <1>2, <2>1 DEF IndexOwner
    <3> QED
      BY <3>1 DEF Seen
  <2>2. CASE job'[q].at \in {"index_name", "index_owner"} /\ job'[q].tok = t
    BY <2>2 DEF Seen
  <2>3. ~ (q = p /\ Writes(p, job'[p].tok))
    BY <1>2 DEF Writes
  <2> QED
    BY <1>2, <2>1, <2>2, <2>3, HandMoves
<1> QED
  BY <1>1, <1>2 DEF Seen

(* A token comes in sight when its hash is written.                        *)
LEMMA SeenMoves ==
  ASSUME Typed, NEW p \in Thread, Does(p), NEW t \in Token, Seen(t)'
  PROVE  Seen(t) \/ (IndexHash(p) /\ job[p].at = "index_hash" /\ job[p].tok = t)
<1>1. CASE <<"token", t>> \in issued'
  <2>1. IndexOwner(p) => job[p].at = "index_owner"
    BY DEF IndexOwner, At
  <2> QED
    BY <1>1, <2>1, IssuedGrows DEF Seen
<1>2. ASSUME NEW q \in Thread, job'[q].at \in {"index_name", "index_owner"}, job'[q].tok = t
      PROVE  Seen(t) \/ (IndexHash(p) /\ job[p].at = "index_hash" /\ job[p].tok = t)
  <2>1. job'[q] = Idle => FALSE
    BY <1>2, IdleFields
  <2> QED
    BY <1>2, <2>1, HandMoves DEF Seen
<1> QED
  BY <1>1, <1>2 DEF Seen

LEMMA SightedKept ==
  ASSUME Typed, NEW p \in Thread, Does(p), Sighted
  PROVE  Sighted'
<1>0. /\ TasksFit /\ Fits(job[p]) /\ 0 \notin Token /\ byHash' \subseteq Token
      /\ ofOwner' \subseteq Token /\ byName' \in [User \X TokenName -> Token \cup {0}]
      /\ byName \in [User \X TokenName -> Token \cup {0}]
  BY TypedKept DEF Typed, TasksFit, CredentialsTyped, Token
<1>a. \A q \in Thread : /\ job[q].tok \in Token \cup {0} /\ job'[q].tok \in Token \cup {0}
                        /\ job[q].toks \subseteq Token /\ job'[q].toks \subseteq Token
  <2>1. \A q \in Thread : job[q] \in Task /\ job'[q] \in Task
    BY TypedKept DEF Typed, TasksFit, Fits
  <2> QED
    BY <2>1 DEF Task, Toks, TokSets
<1>b. \A t : Seen(t) => Seen(t)'
  BY SeenStays
<1>1. ASSUME NEW t \in byHash' \cup ofOwner' PROVE Seen(t)'
  <2>1. CASE t \in byHash \cup ofOwner
    BY <1>b, <2>1 DEF Sighted
  <2>2. CASE IndexHash(p) /\ t = job[p].tok
    <3>1. Step(p, "index_name")
      BY <2>2 DEF IndexHash
    <3>2. job'[p].at = "index_name" /\ job'[p].tok = t
      BY <1>0, <2>2, <3>1, StepTaken
    <3> QED
      BY <3>2 DEF Seen
  <2>3. CASE IndexOwner(p) /\ t = job[p].tok
    BY <2>3 DEF IndexOwner, Seen
  <2> QED
    BY <1>1, <2>1, <2>2, <2>3, TokenIndexesMove
<1>2. ASSUME NEW k \in User \X TokenName, byName'[k] # 0 PROVE Seen(byName[k])'
  <2>1. CASE byName'[k] = byName[k]
    BY <1>b, <1>2, <2>1 DEF Sighted, Seen
  <2>2. CASE (IndexName(p) \/ SetName(p)) /\ byName'[k] = job[p].tok
    <3>1. job[p].at \in {"index_name", "set_name"} /\ job[p].tok \in Token
      BY <1>0, <2>2 DEF IndexName, SetName, At, Fits, TokenFits
    <3>2. Seen(job[p].tok)
      BY <1>0, <3>1 DEF Sighted
    <3> QED
      BY <1>b, <2>2, <3>2 DEF Seen
  <2> QED
    BY <1>2, <2>1, <2>2, TokenIndexesMove
<1>3. ASSUME NEW t \in Token, <<"token", t>> \in withdrawn' PROVE Seen(t)'
  <2>1. CASE <<"token", t>> \in withdrawn
    BY <1>b, <2>1 DEF Sighted
  <2>2. CASE DropToken(p) /\ job[p].at = "drop_token" /\ job[p].tok = t
    BY <1>0, <1>b, <2>2 DEF Sighted
  <2>3. CASE <<"token", t>> \in issued
    BY <1>b, <2>3 DEF Seen
  <2> QED
    BY <1>3, <2>1, <2>2, <2>3, TokensWithdrawn
<1>4. ASSUME NEW q \in Thread, NEW t \in job'[q].toks PROVE Seen(t)'
  <2>1. t \in job[q].toks \/ t \in ofOwner
    BY <1>4, HandMoves, IdleFields
  <2> QED
    BY <1>b, <2>1 DEF Sighted
<1>5. ASSUME NEW q \in Thread, job'[q].tok # 0, job'[q].at # "index_hash"
      PROVE  Seen(job[q].tok)'
  <2>1. CASE q # p /\ job'[q].tok = job[q].tok /\ job'[q].at = job[q].at
    BY <1>b, <1>5, <2>1 DEF Sighted, Seen
  <2>2. CASE /\ q = p /\ job[p].at # "index_hash"
             /\ job'[p].tok \in {job[p].tok} \cup job[p].toks
    BY <1>b, <1>5, <2>2 DEF Sighted, Seen
  <2>3. ASSUME q = p, NEW k \in User \X TokenName, job'[p].tok = byName[k]
        PROVE  Seen(job[q].tok)'
    BY <1>b, <1>5, <2>3 DEF Sighted, Seen
  <2>4. CASE q = p /\ IndexHash(p) /\ job'[p].at = "index_name"
    BY <2>4 DEF Seen
  <2> QED
    BY <1>5, <2>1, <2>2, <2>3, <2>4, HandMoves, IdleFields
<1>6. ASSUME NEW q \in Thread, job'[q].at = "index_hash"
      PROVE  ~ Seen(job[q].tok)' /\ \A r \in Thread \ {q} : job'[r].tok # job'[q].tok
  <2>0. job'[q].tok \in Token
    <3>1. Fits(job'[q])
      BY TypedKept DEF Typed, TasksFit
    <3> QED
      BY <1>6, <3>1 DEF Fits, TokenFits
  <2>1. CASE q # p /\ job'[q].tok = job[q].tok /\ job[q].at = "index_hash"
    <3>1. ~ Seen(job[q].tok) /\ job[p].tok # job[q].tok
      BY <2>1 DEF Sighted
    <3>0. PICK t \in Token : t = job'[q].tok
      BY <2>0
    <3>2. ~ Seen(t)'
      BY <2>1, <3>0, <3>1, SeenMoves
    <3>3. ASSUME NEW r \in Thread \ {q} PROVE job'[r].tok # job'[q].tok
      <4>1. job[r].tok # job[q].tok
        BY <2>1, <3>3 DEF Sighted
      <4>2. \A h \in job[r].toks : h # job[q].tok
        BY <3>1 DEF Sighted
      <4>3. \A k \in User \X TokenName : byName[k] # job[q].tok
        BY <1>0, <2>0, <2>1, <3>1 DEF Sighted
      <4>4. ~ Writes(p, job[q].tok)
        BY DEF Writes
      <4> QED
        BY <1>0, <2>0, <2>1, <4>1, <4>2, <4>3, <4>4, HandMoves, IdleFields
    <3> QED
      BY <3>0, <3>2, <3>3 DEF Seen
  <2>2. CASE q = p /\ Writes(p, job'[p].tok)
    <3>1. ~ Seen(job'[p].tok)
      BY <2>2 DEF Writes, Seen
    <3>2. ~ IndexHash(p)
      BY <2>2 DEF Writes, IndexHash, At
    <3>0. PICK t \in Token : t = job'[q].tok
      BY <2>0
    <3>3. ~ Seen(t)'
      BY <2>2, <3>0, <3>1, <3>2, SeenMoves
    <3>4. ASSUME NEW r \in Thread \ {q} PROVE job'[r].tok # job'[q].tok
      <4>1. job'[r].tok = job[r].tok
        BY <2>2, <3>4, HandMoves
      <4> QED
        BY <2>2, <4>1 DEF Writes
    <3> QED
      BY <2>2, <3>0, <3>3, <3>4 DEF Seen
  <2> QED
    BY <1>6, <2>1, <2>2, HandMoves, IdleFields
<1> QED
  BY <1>1, <1>2, <1>3, <1>4, <1>5, <1>6 DEF Sighted, Seen

LEMMA UnhashedKept ==
  ASSUME Typed, NEW p \in Thread, Does(p), Sighted, Unhashed
  PROVE  Unhashed'
<1> SUFFICES ASSUME NEW q \in Thread, job'[q].at \in {"drop_name", "disown", "drop_token"}
             PROVE  job'[q].tok \notin byHash'
  BY DEF Unhashed
<1>0. TasksFit /\ Fits(job[p]) /\ Fits(job[q]) /\ 0 \notin Token
  BY DEF Typed, TasksFit, Token
<1>1. CASE /\ job[q].at \in {"drop_name", "disown", "drop_token"}
           /\ job'[q].tok = job[q].tok
  <2>1. job[q].tok \in Token
    BY <1>0, <1>1 DEF Fits, TokenFits
  <2>2. Seen(job[q].tok) /\ job[q].tok \notin byHash
    BY <1>0, <1>1, <2>1 DEF Sighted, Unhashed
  <2>3. IndexHash(p) => job[p].tok # job[q].tok
    BY <2>2 DEF Sighted, IndexHash, At
  <2> QED
    BY <1>1, <2>2, <2>3, TokenIndexesMove
<1>2. CASE q = p /\ DropHash(p) /\ job'[p].tok = job[p].tok
  BY <1>2 DEF DropHash
<1> QED
  BY <1>1, <1>2, HandMoves, IdleFields

LEMMA RevokedKept ==
  ASSUME Typed, NEW p \in Thread, Does(p), Sighted, Unhashed, Revoked
  PROVE  Revoked'
<1> SUFFICES ASSUME NEW t \in Token, <<"token", t>> \in withdrawn'
             PROVE  t \notin byHash' \/ Stub(token[t].owner)'
  BY DEF Revoked
<1>0. TasksFit /\ Fits(job[p]) /\ user \in [User -> Account]
  BY DEF Typed, TasksFit, AccountsTyped
<1>1. CASE <<"token", t>> \in withdrawn
  <2>1. Seen(t)
    BY <1>1 DEF Sighted
  <2>2. CASE t \notin byHash
    <3>1. IndexHash(p) => job[p].tok # t
      BY <2>1 DEF Sighted, IndexHash, At
    <3> QED
      BY <2>2, <3>1, TokenIndexesMove
  <2>3. CASE Stub(token[t].owner)
    <3>1. PICK u : u = token[t].owner
      OBVIOUS
    <3>2. Stub(u)'
      BY <2>3, <3>1, StubStays
    <3>3. ~ Writes(p, t)
      BY <2>1 DEF Writes, Seen
    <3>4. token'[t].owner = u
      BY <3>1, <3>3, OwnersStay
    <3> QED
      BY <3>2, <3>4 DEF Stub
  <2> QED
    BY <1>1, <2>2, <2>3 DEF Revoked
<1>2. CASE DropToken(p) /\ job[p].at = "drop_token" /\ job[p].tok = t
  <2>1. t \notin byHash
    BY <1>2 DEF Unhashed
  <2> QED
    BY <1>2, <2>1 DEF DropToken
<1>3. CASE WipeUser(p) /\ token[t].owner = job[p].id
  <2>1. job[p].id \in User
    BY <1>0, <1>3 DEF WipeUser, At, Fits, IdFits
  <2>2. user' = [user EXCEPT ![job[p].id].shape = "stub"] /\ token' = token
    BY <1>3 DEF WipeUser, credentials
  <2>3. user'[job[p].id].shape = "stub"
    BY <1>0, <2>1, <2>2 DEF Account
  <2> QED
    BY <1>3, <2>1, <2>2, <2>3 DEF Stub
<1> QED
  BY <1>1, <1>2, <1>3, TokensWithdrawn

LEMMA WithdrawnGrows ==
  ASSUME Typed, NEW p \in Thread, Does(p)
  PROVE  withdrawn \subseteq withdrawn'
<1>1. CASE UNCHANGED withdrawn
  BY <1>1
<1>2. CASE Logout(p)
  <2>1. PICK d : withdrawn' = withdrawn \/ withdrawn' = withdrawn \cup {<<"session", d>>}
    BY <1>2 DEF Logout
  <2> QED
    BY <2>1
<1>3. CASE BumpEpoch(p)
  BY <1>3 DEF BumpEpoch
<1>4. CASE WipeUser(p)
  BY <1>4 DEF WipeUser
<1>5. CASE Mint(p)
  <2>1. PICK d : Mints(p, d)
    BY <1>5, MintMints
  <2> QED
    BY <2>1 DEF Mints
<1>6. CASE DropToken(p)
  BY <1>6 DEF DropToken
<1> QED
  BY <1>1, <1>2, <1>3, <1>4, <1>5, <1>6, OthersAreCalm, GroupMoveFrame, CountAdminsFrame
  DEF Moving, AccountMove, CredentialMove, Unmoved, Untouched, others, TokenStamp, WriteToken,
    IndexHash, IndexName, IndexOwner, SetName, NameToken, DropOld, DropHash, DropName, Disown,
    TouchWrite, Heal, Claim, Enlist, Reindex, Link, Unmail, Unlist, Sync, PatchWrite, WriteUser

LEMMA FatedStays ==
  ASSUME Typed, NEW p \in Thread, Does(p), Given, NEW q \in Thread, Fated(q),
         job'[q].at = job[q].at, job'[q].op = job[q].op, job'[q].cred = job[q].cred,
         job'[q].id = job[q].id, job'[q].epoch = job[q].epoch
  PROVE  Fated(q)'
<1>0. Fits(job[q])
  BY DEF Typed, TasksFit
<1>1. PICK u, e : u = job[q].id /\ e = job[q].epoch
  OBVIOUS
<1>2. e \in Nat
  BY <1>1, EpochsNat
<1>3. CASE job[q].at \in {"touch_read", "token_find"} /\ job[q].cred \in withdrawn
  BY <1>3, WithdrawnGrows DEF Fated
<1>4. CASE Void(u, e) /\ (\/ job[q].at = "touch_write" \/ Stamps(job[q])
                          \/ At(q, "load_user") /\ job[q].cred[1] = "session")
  <2>1. Void(u, e)'
    BY <1>2, <1>4, VoidStays
  <2>2. Void(job[q].id, job[q].epoch)'
    BY <1>1, <2>1 DEF Void
  <2> QED
    BY <1>4, <2>2 DEF Fated, Stamps, At
<1>5. CASE At(q, "load_user") /\ job[q].cred[1] = "token" /\ Stub(u)
  <2>1. Stub(u)'
    BY <1>5, StubStays
  <2> QED
    BY <1>1, <1>5, <2>1 DEF Fated, Stub, At
<1>6. CASE At(q, "token_read") /\ Stub(token[job[q].cred[2]].owner)
  <2>1. PICK t, v : t = job[q].cred[2] /\ v = token[t].owner
    OBVIOUS
  <2>2. t \in Token /\ job[q].cred = <<"token", t>>
    BY <1>0, <1>6, <2>1 DEF At, Fits, CredFits
  <2>3. <<"token", t>> \in issued
    BY <2>2, AccountsAssumption DEF Given, Credential
  <2>4. token'[t].owner = v
    BY <2>1, <2>2, <2>3, OwnersStay DEF Writes
  <2>5. Stub(v)'
    BY <1>6, <2>1, StubStays
  <2>6. Stub(token[job[q].cred[2]].owner)'
    BY <2>1, <2>4, <2>5 DEF Stub
  <2> QED
    BY <1>6, <2>6 DEF Fated, At
<1> QED
  BY <1>1, <1>3, <1>4, <1>5, <1>6 DEF Fated

(* The steps at which a credential is looked at                            *)
LEMMA DeadStepFated ==
  ASSUME Typed, NEW p \in Thread, Does(p), Given, Voided, Revoked, Doomed, DeadStep(p),
         job'[p].dead
  PROVE  Fated(p)'
<1>0. TasksFit /\ Fits(job[p]) /\ job[p] \in Task
  BY DEF Typed, TasksFit, Fits
<1>e. ~ End(p)
  BY <1>0, EndTaken, IdleFields
<1>n. /\ \A d \in Cookie : session[d].epoch \in Nat
      /\ job[p].epoch \in Nat
  BY EpochsNat
<1>1. CASE Present(p)
  <2>1. PICK cred \in issued :
          Begin(p, [Idle EXCEPT !.cred = cred, !.dead = cred \in withdrawn,
                     !.at = IF cred[1] = "session" THEN "touch_read" ELSE "token_find"])
    BY <1>1 DEF Present
  <2>2. PICK d : d = (cred \in withdrawn)
    OBVIOUS
  <2>3. PICK l : l = IF cred[1] = "session" THEN "touch_read" ELSE "token_find"
    OBVIOUS
  <2>4. job' = [job EXCEPT ![p] = [Idle EXCEPT !.cred = cred, !.dead = d, !.at = l]]
    BY <2>1, <2>2, <2>3, Zenon DEF Begin
  <2>5. job'[p].cred = cred /\ job'[p].dead = d /\ job'[p].at = l
    BY <1>0, <2>4, IdleFields DEF TasksFit, Task
  <2>6. job'[p].cred \in withdrawn'
    BY <2>2, <2>5, WithdrawnGrows
  <2> QED
    BY <2>3, <2>5, <2>6 DEF Fated
<1>2. CASE TouchRead(p)
  <2>1. PICK c : c = job[p].cred[2]
    OBVIOUS
  <2>2. c \in Cookie /\ job[p].cred = <<"session", c>> /\ job[p].at = "touch_read"
    BY <1>0, <1>2, <2>1 DEF TouchRead, At, Fits, CredFits
  <2>3. PICK u, e : u = session[c].user /\ e = session[c].epoch
    OBVIOUS
  <2>4. /\ session[c] # NoSession
        /\ Work(p, [job[p] EXCEPT !.at = "touch_write", !.id = u, !.epoch = e])
    BY <1>2, <1>e, <2>1, <2>3 DEF TouchRead
  <2>5. /\ job'[p].at = "touch_write" /\ job'[p].id = u /\ job'[p].epoch = e
        /\ job'[p].dead = job[p].dead
    BY <1>0, <2>4 DEF Work, TasksFit, Task
  <2>6. job[p].cred \in withdrawn
    BY <2>2, <2>5 DEF Doomed, Fated, At, Stamps
  <2>7. Void(u, e) /\ e \in Nat
    BY <1>n, <2>2, <2>3, <2>4, <2>6 DEF Voided
  <2>8. Void(u, e)'
    BY <2>7, VoidStays
  <2> QED
    BY <2>5, <2>8 DEF Fated, Void
<1>3. CASE TouchWrite(p)
  <2>1. job[p].at = "touch_write" /\ Step(p, "load_user")
    BY <1>3 DEF TouchWrite, At
  <2>2. PICK u, e : u = job[p].id /\ e = job[p].epoch
    OBVIOUS
  <2>3. /\ job'[p].at = "load_user" /\ job'[p].id = u /\ job'[p].epoch = e
        /\ job'[p].dead = job[p].dead /\ job'[p].cred = job[p].cred
    BY <1>0, <2>1, <2>2, StepTaken
  <2>4. Void(u, e) /\ e \in Nat
    BY <1>n, <2>1, <2>2, <2>3 DEF Doomed, Fated, At, Stamps
  <2>5. Void(u, e)'
    BY <2>4, VoidStays
  <2>6. job[p].cred[1] = "session"
    BY <1>0, <2>1 DEF Fits, CredFits
  <2> QED
    BY <2>3, <2>5, <2>6 DEF Fated, Void, At
<1>4. CASE LoadUser(p)
  <2>1. PICK u : u = job[p].id
    OBVIOUS
  <2>2. job[p].at = "load_user" /\ Whole(u) /\ EpochMatches(p, u)
    BY <1>4, <1>e, <2>1 DEF LoadUser, At
  <2>3. job[p].dead
    <3>1. PICK a, l :
            Work(p, [Idle EXCEPT !.cred = job[p].cred, !.dead = job[p].dead, !.user = u,
                                 !.admin = a, !.at = l])
      BY <1>4, <1>e, <2>1 DEF LoadUser
    <3>2. job'[p].dead = job[p].dead
      BY <1>0, <3>1, IdleFields DEF Work, TasksFit, Task
    <3> QED
      BY <3>2
  <2>4. \/ job[p].cred[1] = "session" /\ Void(u, job[p].epoch)
        \/ job[p].cred[1] = "token" /\ Stub(u)
    BY <2>1, <2>2, <2>3 DEF Doomed, Fated, At, Stamps
  <2>5. CASE job[p].cred[1] = "token" /\ Stub(u)
    BY <2>2, <2>5 DEF Stub, Whole
  <2>6. CASE job[p].cred[1] = "session" /\ Void(u, job[p].epoch)
    <3>1. job[p].epoch = user[u].epoch /\ job[p].epoch < user[u].epoch
      BY <2>2, <2>6 DEF EpochMatches, Void, Whole
    <3> QED
      BY <1>n, <3>1
  <2> QED
    BY <2>4, <2>5, <2>6
<1>5. CASE TokenFind(p)
  <2>1. PICK t : t = job[p].cred[2]
    OBVIOUS
  <2>2. t \in Token /\ job[p].cred = <<"token", t>> /\ job[p].at = "token_find"
    BY <1>0, <1>5, <2>1 DEF TokenFind, At, Fits, CredFits
  <2>3. t \in byHash /\ Step(p, "token_read") /\ token' = token /\ user' = user
    BY <1>5, <1>e, <2>1 DEF TokenFind, accounts, credentials
  <2>4. job'[p].at = "token_read" /\ job'[p].cred = job[p].cred /\ job'[p].dead = job[p].dead
    BY <1>0, <2>3, StepTaken
  <2>5. job[p].cred \in withdrawn
    BY <2>2, <2>4 DEF Doomed, Fated, At, Stamps
  <2>6. Stub(token[t].owner)
    BY <2>2, <2>3, <2>5 DEF Revoked
  <2>7. Stub(token[t].owner)'
    BY <2>3, <2>6 DEF Stub
  <2> QED
    BY <2>2, <2>4, <2>7 DEF Fated, Stub, At
<1>6. CASE TokenRead(p)
  <2>1. PICK t, u : t = job[p].cred[2] /\ u = token[t].owner
    OBVIOUS
  <2>2. job[p].cred = <<"token", t>> /\ job[p].at = "token_read"
    BY <1>0, <1>6, <2>1 DEF TokenRead, At, Fits, CredFits
  <2>3. Work(p, [job[p] EXCEPT !.at = "load_user", !.id = u]) /\ user' = user
    BY <1>6, <1>e, <2>1 DEF TokenRead, accounts
  <2>4. /\ job'[p].at = "load_user" /\ job'[p].id = u /\ job'[p].cred = job[p].cred
        /\ job'[p].dead = job[p].dead
    BY <1>0, <2>3 DEF Work, TasksFit, Task
  <2>5. Stub(u)
    BY <2>1, <2>2, <2>4 DEF Doomed, Fated, At, Stamps
  <2> QED
    BY <2>2, <2>3, <2>4, <2>5 DEF Fated, Stub, At
<1> QED
  BY <1>1, <1>2, <1>3, <1>4, <1>5, <1>6 DEF DeadStep

LEMMA DoomedKept ==
  ASSUME Typed, NEW p \in Thread, Does(p), Given, Stamped, Voided, Revoked, Doomed
  PROVE  Doomed'
<1> SUFFICES ASSUME NEW q \in Thread, job'[q].dead PROVE Fated(q)'
  BY DEF Doomed
<1>0. TasksFit /\ Fits(job[p]) /\ job[q].epoch \in Nat
  BY EpochsNat DEF Typed, TasksFit
<1>1. CASE BumpEpoch(p)
  <2>1. q # p
    BY <1>1, BumpMoves, IdleFields
  <2>2. CASE job[q].dead
    BY <1>1, <2>1, <2>2, BumpMoves, FatedStays DEF Doomed
  <2>3. CASE Stamps(job[q]) /\ job[q].id = job[p].user
    <3>1. PICK u, e : u = job[q].id /\ e = job[q].epoch
      OBVIOUS
    <3>2. Dated(u, e) /\ e \in Nat
      BY <1>0, <2>3, <3>1 DEF Stamped
    <3>3. Void(u, e)'
      BY <1>1, <2>3, <3>1, <3>2, VoidedByStep
    <3>4. job'[q].id = u /\ job'[q].epoch = e /\ Stamps(job'[q])
      BY <1>1, <2>1, <2>3, <3>1, BumpMoves DEF Stamps
    <3> QED
      BY <3>3, <3>4 DEF Fated, Void, Stamps
  <2> QED
    BY <1>1, <2>1, <2>2, <2>3, BumpMoves
<1>2. CASE ~ BumpEpoch(p) /\ q # p
  <2>1. job'[q] = job[q]
    BY <1>2, EveryStepStays
  <2> QED
    BY <2>1, FatedStays DEF Doomed
<1>3. CASE ~ BumpEpoch(p) /\ q = p /\ DeadStay(job[p], job'[p])
  <2>1. job[p].dead /\ Stamps(job[p]) /\ Void(job[p].id, job[p].epoch) /\ Stamps(job'[p])
    BY <1>3 DEF DeadStay, Doomed, Fated, At
  <2>2. ~ StampStep(p)
    BY <1>3, <2>1 DEF DeadStay, StampStep, TouchRead, FindUser, Scan, Known, WriteUser, At,
      Stamps
  <2>3. job'[p].id = job[p].id /\ job'[p].epoch = job[p].epoch
    BY <1>3, <2>1, <2>2, EveryStepStays DEF Stays, StampStay
  <2>4. PICK u, e : u = job[p].id /\ e = job[p].epoch
    OBVIOUS
  <2>5. Void(u, e)'
    BY <1>0, <1>3, <2>1, <2>4, VoidStays
  <2> QED
    BY <1>3, <2>1, <2>3, <2>4, <2>5 DEF Fated, Void, Stamps
<1>4. CASE ~ BumpEpoch(p) /\ q = p /\ DeadStep(p)
  BY <1>4, DeadStepFated
<1> QED
  BY <1>1, <1>2, <1>3, <1>4, EveryStepStays DEF Stays

WithdrawnInv ==
  Given /\ Stamped /\ Touched /\ Voided /\ Sighted /\ Unhashed /\ Revoked /\ Doomed

LEMMA WithdrawnKept ==
  ASSUME Typed, NEW p \in Thread, Does(p), WithdrawnInv
  PROVE  WithdrawnInv'
BY GivenKept, StampedKept, TouchedKept, VoidedKept, SightedKept, UnhashedKept, RevokedKept,
  DoomedKept DEF WithdrawnInv

LEMMA WithdrawnInit ==
  ASSUME AccessInit
  PROVE  WithdrawnInv
<1>1. /\ job = [p \in Thread |-> Idle] /\ withdrawn = {}
      /\ session = [c \in Cookie |->
           IF c \in DOMAIN Seed THEN [user |-> c, epoch |-> 0] ELSE NoSession]
      /\ issued = ({"session"} \X (DOMAIN Seed \cap Cookie)) \cup ({"token"} \X byHash)
      /\ byHash = DOMAIN Seed \cap Token /\ ofOwner = byHash
      /\ byName = [on \in User \X TokenName |->
           IF on[1] \in byHash /\ token[on[1]].name = on[2] THEN on[1] ELSE 0]
  BY DEF AccessInit, Init
<1>2. \A q \in Thread :
        /\ job[q].at = "idle" /\ job[q].cred = None /\ job[q].tok = 0 /\ job[q].toks = {}
        /\ ~ job[q].dead /\ ~ Stamps(job[q])
  BY <1>1, IdleFields DEF Stamps
<1>3. Given
  BY <1>1, <1>2 DEF Given
<1>4. ASSUME NEW c \in Cookie, session[c] # NoSession
      PROVE  Dated(session[c].user, session[c].epoch)
  <2>1. c \in DOMAIN Seed /\ session[c].user = c /\ session[c].epoch = 0
    BY <1>1, <1>4
  <2>2. c \in User
    BY <2>1, AccountsAssumption DEF User
  <2>3. user[c].shape = "whole" /\ user[c].epoch = 0
    BY <2>1, <2>2 DEF AccessInit, Init
  <2> QED
    BY <2>1, <2>2, <2>3 DEF Dated
<1>5. Stamped
  BY <1>2, <1>4 DEF Stamped, At
<1>6. Touched /\ Voided /\ Unhashed /\ Revoked /\ Doomed
  BY <1>1, <1>2 DEF Touched, Touches, Voided, Unhashed, Revoked, Doomed, At
<1>7. \A t \in byHash : Seen(t)
  BY <1>1 DEF Seen
<1>8. \A k \in User \X TokenName : byName[k] # 0 => byName[k] \in byHash
  BY <1>1
<1>9. Sighted
  BY <1>1, <1>2, <1>7, <1>8 DEF Sighted
<1> QED
  BY <1>3, <1>5, <1>6, <1>9 DEF WithdrawnInv

LEMMA WithdrawnStutters ==
  ASSUME WithdrawnInv, UNCHANGED avars
  PROVE  WithdrawnInv'
<1>1. UNCHANGED <<user, session, token, byHash, byName, ofOwner, issued, job, withdrawn>>
  BY DEF avars, accounts, credentials, others, control
<1>2. Given'
  BY <1>1 DEF WithdrawnInv, Given
<1>3. Stamped' /\ Touched' /\ Voided'
  BY <1>1 DEF WithdrawnInv, Stamped, Touched, Touches, Voided, Void, Dated, At
<1>4. Sighted'
  BY <1>1 DEF WithdrawnInv, Sighted, Seen
<1>5. Unhashed' /\ Revoked' /\ Doomed'
  BY <1>1 DEF WithdrawnInv, Unhashed, Revoked, Doomed, Fated, Stub, Void, At
<1> QED
  BY <1>2, <1>3, <1>4, <1>5 DEF WithdrawnInv

(* A session that was signed out, a revoked token, what is left of a       *)
(* deleted account never let a later request in, however touches, sign-ins *)
(* and stamps interleave with the withdrawal.  (auth.rs, session.rs)       *)
THEOREM WithdrawnStayOut == Spec => []Withdrawn
<1>1. AccessInit => Typed /\ WithdrawnInv
  BY TypedInit, WithdrawnInit
<1>2. Typed /\ WithdrawnInv /\ [AccessNext]_avars => (Typed /\ WithdrawnInv)'
  <2>1. CASE AccessNext
    BY <2>1, TypedKept, WithdrawnKept DEF AccessNext, Does
  <2>2. CASE UNCHANGED avars
    BY <2>2, TypedStutters, WithdrawnStutters
  <2> QED
    BY <2>1, <2>2
<1>3. WithdrawnInv => Withdrawn
  BY DEF WithdrawnInv, Doomed, Fated, Withdrawn, At, Stamps
<1> QED
  BY <1>1, <1>2, <1>3, PTL DEF Spec

=============================================================================
