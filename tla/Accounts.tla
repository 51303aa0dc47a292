------------------------------ MODULE Accounts -------------------------------
(***************************************************************************)
(* Accounts of one workspace: registration, invitations, login with a      *)
(* password, an external identity or a second factor, sessions, API keys,  *)
(* roles, and the erasure of an account.                                   *)
(*                                                                         *)
(* A request reads the rows it needs, hashes or checks something slow, and *)
(* commits; an UPDATE writes the columns the request changed, whatever has *)
(* become of the row.  Passwords and codes of the second factor are right  *)
(* whenever they are given.  An account has one backup code at a time,     *)
(* known by the number of the request that made it.                        *)
(***************************************************************************)
EXTENDS Naturals, FiniteSets

CONSTANTS
  User,        \* accounts; one is registered under an e-mail address of its own
  Invitation,  \* invitations
  Slot,        \* requests that can be under way together
  Role,        \* roles an invitation can give, besides owner and viewer
  MaxAsked     \* bound on requests

ASSUME AccountsAssumption == MaxAsked \in Nat /\ User # {} /\ Slot # {}

Roles == Role \cup {"owner", "viewer"}
Number == 0..MaxAsked

\* users: secret: totp_secret is set; codes: the backup codes that are left.
UserRow ==
  [status: {"none", "active", "deleted"}, mfa: BOOLEAN, secret: BOOLEAN, codes: SUBSET Number]

\* user_sessions and api_keys: a session with the scope "mfa:pending" is good
\* for the second factor only; alone: no request overlapped with its own.
Credential ==
  [no: Number, kind: {"session", "pending", "key"}, user: User, live: BOOLEAN, alone: BOOLEAN]

VARIABLES
  user,        \* users
  member,      \* workspace_memberships: the role, or "none" or "deleted"
  invitation,  \* workspace_invitations
  credentials, \* user_sessions and api_keys
  request,     \* requests under way
  joined,      \* history: accounts made with an invitation
  uses,        \* history: backup codes that were accepted
  begun        \* requests begun

accountVars == <<user, member, invitation, credentials, request, joined, uses, begun>>

Kind ==
  {"idle", "register", "external", "login", "challenge", "setup", "confirm", "disable",
   "key", "erase"}

NoRow == [status |-> "none", mfa |-> FALSE, secret |-> FALSE, codes |-> {}]
Active(mfa) == [status |-> "active", mfa |-> mfa, secret |-> mfa,
                codes |-> IF mfa THEN {0} ELSE {}]

Some(S) == CHOOSE x \in S : TRUE
NoRequest ==
  [kind |-> "idle", no |-> 0, user |-> Some(User), mem |-> NoRow, first |-> FALSE,
   with |-> {}, seen |-> {}, backup |-> FALSE, alone |-> TRUE]

\* A workspace without accounts, or with an owner who may have a second factor
\* and is logged in.
AccountsInit ==
  /\ \/ /\ user = [u \in User |-> NoRow] /\ member = [u \in User |-> "none"]
        /\ credentials = {}
     \/ \E o \in User, mfa \in BOOLEAN :
          /\ user = [u \in User |-> IF u = o THEN Active(mfa) ELSE NoRow]
          /\ member = [u \in User |-> IF u = o THEN "owner" ELSE "none"]
          /\ credentials = {[no |-> 0, kind |-> "session", user |-> o, live |-> TRUE,
                             alone |-> TRUE]}
  /\ invitation = [i \in Invitation |-> [status |-> "none", role |-> "viewer"]]
  /\ request = [s \in Slot |-> NoRequest]
  /\ joined = {} /\ uses = {} /\ begun = 0

-----------------------------------------------------------------------------
(* Plausible slips in the definitions below, used to see that the          *)
(* properties notice them; no specification refers to one.                 *)

LiveSessions(u) == {c \in credentials : c.user = u /\ c.live /\ c.kind # "key"}
StillPending(i) == invitation[i].status # "revoked"
CodesKept(row, mem) == [row EXCEPT !.codes = mem.codes]

-----------------------------------------------------------------------------
(* Helpers.                                                                *)

Live(u) == {c \in credentials : c.user = u /\ c.live}
LoggedIn(u) == \E c \in Live(u) : c.kind = "session"
Pending(i) == invitation[i].status = "pending"

\* membership rows, deleted ones included
NoMembers == \A u \in User : member[u] = "none"

Revoked(cs) == {IF c \in cs THEN [c EXCEPT !.live = FALSE] ELSE c : c \in credentials}
New(s, kind) ==
  [no |-> request[s].no, kind |-> kind, user |-> request[s].user, live |-> TRUE,
   alone |-> request[s].alone]

\* A request that holds what it read; it and those under way overlap.
BeginRequest(s, r) ==
  /\ request[s].kind = "idle"
  /\ begun < MaxAsked
  /\ begun' = begun + 1
  /\ LET others == {t \in Slot : request[t].kind # "idle"}
     IN  request' = [t \in Slot |->
           IF t = s THEN [r EXCEPT !.no = begun', !.mem = user[r.user], !.alone = (others = {})]
           ELSE IF t \in others THEN [request[t] EXCEPT !.alone = FALSE] ELSE request[t]]

Read(s, r) ==
  /\ BeginRequest(s, r)
  /\ UNCHANGED <<user, member, invitation, credentials, joined, uses>>

Of(kind, u) == [NoRequest EXCEPT !.kind = kind, !.user = u]
End(s) == request' = [request EXCEPT ![s] = NoRequest]

CodesUsed(r) ==
  IF r.backup THEN {[code |-> c, no |-> r.no, alone |-> r.alone] : c \in r.mem.codes} ELSE {}

\* consume_backup_code: the codes left of those that were loaded.
CodeSpent(row, mem) == [row EXCEPT !.codes = {}]

-----------------------------------------------------------------------------
(* Registration.                                                           *)

\* register_user: with an invitation, or where registration is open.
StartRegister(s, u, with) ==
  /\ user[u].status = "none"
  /\ \A i \in with : Pending(i)
  /\ Read(s, [Of("register", u) EXCEPT !.with = with, !.first = NoMembers])

\* The e-mail address is unique.
Register(s) ==
  LET r == request[s]
      role == IF r.with # {} THEN invitation[Some(r.with)].role
              ELSE IF r.first THEN "owner" ELSE "viewer"
  IN  /\ r.kind = "register"
      /\ End(s)
      /\ IF user[r.user].status # "none"
           THEN UNCHANGED <<user, member, invitation, credentials, joined>>
           ELSE /\ user' = [user EXCEPT ![r.user] = Active(FALSE)]
                /\ member' = [member EXCEPT ![r.user] = role]
                /\ invitation' = [i \in Invitation |->
                     IF i \in r.with THEN [invitation[i] EXCEPT !.status = "accepted"]
                     ELSE invitation[i]]
                /\ credentials' = credentials \cup {New(s, "session")}
                /\ joined' = joined \cup
                     {[invitation |-> i, user |-> r.user, alone |-> r.alone] : i \in r.with}
      /\ UNCHANGED <<uses, begun>>

\* _upsert_external_user, once LDAP or the OIDC provider has vouched for the
\* user.  An erased account has no e-mail address to be found by.
StartExternal(s, u) ==
  /\ user[u].status \in {"none", "active"}
  /\ Read(s, [Of("external", u) EXCEPT !.first = NoMembers])

External(s) ==
  LET r == request[s]
      insert == r.mem.status = "none"
  IN  /\ r.kind = "external"
      /\ End(s)
      /\ IF insert /\ user[r.user].status # "none"
           THEN UNCHANGED <<user, member, credentials>>
           ELSE /\ user' = IF insert THEN [user EXCEPT ![r.user] = Active(FALSE)] ELSE user
                /\ member' = IF insert
                     THEN [member EXCEPT ![r.user] = IF r.first THEN "owner" ELSE "viewer"]
                     ELSE member
                /\ credentials' = credentials \cup {New(s, "session")}
      /\ UNCHANGED <<invitation, joined, uses, begun>>

-----------------------------------------------------------------------------
(* Login, and the second factor.                                           *)

StartLogin(s, u) == user[u].status = "active" /\ Read(s, Of("login", u))

Login(s) ==
  /\ request[s].kind = "login"
  /\ End(s)
  /\ credentials' = credentials \cup {New(s, IF request[s].mem.mfa THEN "pending" ELSE "session")}
  /\ UNCHANGED <<user, member, invitation, joined, uses, begun>>

\* complete_mfa_challenge, with a code of the moment or the backup code.
StartChallenge(s, c, backup) ==
  /\ c \in credentials /\ c.kind = "pending" /\ c.live
  /\ user[c.user].mfa /\ user[c.user].secret
  /\ backup => user[c.user].codes # {}
  /\ Read(s, [Of("challenge", c.user) EXCEPT !.seen = {c.no}, !.backup = backup])

Challenge(s) ==
  LET r == request[s]
  IN  /\ r.kind = "challenge"
      /\ End(s)
      /\ user' = IF r.backup THEN [user EXCEPT ![r.user] = CodeSpent(@, r.mem)] ELSE user
      /\ credentials' =
           Revoked({c \in credentials : c.no \in r.seen}) \cup {New(s, "session")}
      /\ uses' = uses \cup CodesUsed(r)
      /\ UNCHANGED <<member, invitation, joined, begun>>

\* setup_mfa, confirm_mfa and disable_mfa, for one who is logged in.
StartSetup(s, u) == LoggedIn(u) /\ Read(s, Of("setup", u))

Setup(s) ==
  /\ request[s].kind = "setup"
  /\ End(s)
  /\ user' = [user EXCEPT ![request[s].user].secret = TRUE, ![request[s].user].codes = {request[s].no}]
  /\ UNCHANGED <<member, invitation, credentials, joined, uses, begun>>

StartConfirm(s, u) == LoggedIn(u) /\ user[u].secret /\ Read(s, Of("confirm", u))

Confirm(s) ==
  LET r == request[s]
  IN  /\ r.kind = "confirm"
      /\ End(s)
      /\ user' = IF r.mem.mfa THEN user ELSE [user EXCEPT ![r.user].mfa = TRUE]
      /\ UNCHANGED <<member, invitation, credentials, joined, uses, begun>>

StartDisable(s, u, backup) ==
  /\ LoggedIn(u) /\ user[u].mfa /\ user[u].secret
  /\ backup => user[u].codes # {}
  /\ Read(s, [Of("disable", u) EXCEPT !.backup = backup])

Disable(s) ==
  LET r == request[s]
  IN  /\ r.kind = "disable"
      /\ End(s)
      /\ user' = [user EXCEPT ![r.user].mfa = FALSE, ![r.user].secret = FALSE,
                              ![r.user].codes = IF r.mem.codes = {} THEN @ ELSE {}]
      /\ uses' = uses \cup CodesUsed(r)
      /\ UNCHANGED <<member, invitation, credentials, joined, begun>>

-----------------------------------------------------------------------------
(* API keys, and the erasure of an account.                                *)

StartKey(s, u) == LoggedIn(u) /\ Read(s, Of("key", u))

CreateKey(s) ==
  /\ request[s].kind = "key"
  /\ End(s)
  /\ credentials' = credentials \cup {New(s, "key")}
  /\ UNCHANGED <<user, member, invitation, joined, uses, begun>>

\* One's own account, with any session, or by an owner that of another.
MayErase(u) ==
  \/ \E c \in Live(u) : c.kind # "key"
  \/ user[u].status # "none" /\ \E o \in User \ {u} : LoggedIn(o) /\ member[o] = "owner"

StartErase(s, u) ==
  /\ MayErase(u)
  /\ Read(s, [Of("erase", u) EXCEPT !.seen = {c.no : c \in Live(u)}])

\* erase_user: the credentials it found, the memberships and the user row.
Erase(s) ==
  LET r == request[s]
  IN  /\ r.kind = "erase"
      /\ End(s)
      /\ credentials' = Revoked({c \in credentials : c.no \in r.seen /\ c.user = r.user})
      /\ member' = [member EXCEPT ![r.user] = "none"]
      /\ user' = [user EXCEPT ![r.user] =
                    [status |-> "deleted",
                     mfa |-> IF r.mem.mfa THEN FALSE ELSE @.mfa,
                     secret |-> IF r.mem.secret THEN FALSE ELSE @.secret,
                     codes |-> IF r.mem.codes # {} THEN {} ELSE @.codes]]
      /\ UNCHANGED <<invitation, joined, uses, begun>>

-----------------------------------------------------------------------------
(* What one statement does.                                                *)

\* Logging out, and revoking a key.
Revoke(c) ==
  /\ c \in credentials /\ c.live
  /\ c.kind = "key" => \E o \in User : LoggedIn(o) /\ member[o] = "owner"
  /\ begun < MaxAsked /\ begun' = begun + 1
  /\ credentials' = Revoked({c})
  /\ UNCHANGED <<user, member, invitation, request, joined, uses>>

Invite(i, role) ==
  /\ \E o \in User : LoggedIn(o) /\ member[o] = "owner"
  /\ invitation[i].status = "none"
  /\ begun < MaxAsked /\ begun' = begun + 1
  /\ invitation' = [invitation EXCEPT ![i] = [status |-> "pending", role |-> role]]
  /\ UNCHANGED <<user, member, credentials, request, joined, uses>>

RevokeInvitation(i) ==
  /\ Pending(i)
  /\ begun < MaxAsked /\ begun' = begun + 1
  /\ invitation' = [invitation EXCEPT ![i].status = "revoked"]
  /\ UNCHANGED <<user, member, credentials, request, joined, uses>>

\* update_member_role, and remove_member of another.
ChangeRole(o, u, role) ==
  /\ LoggedIn(o) /\ member[o] = "owner" /\ member[u] \in Roles
  /\ role = "deleted" => o # u
  /\ begun < MaxAsked /\ begun' = begun + 1
  /\ member' = [member EXCEPT ![u] = role]
  /\ UNCHANGED <<user, invitation, credentials, request, joined, uses>>

AccountsNext ==
  \/ \E s \in Slot :
       \/ Register(s) \/ External(s) \/ Login(s) \/ Challenge(s) \/ Setup(s) \/ Confirm(s)
       \/ Disable(s) \/ CreateKey(s) \/ Erase(s)
       \/ \E u \in User :
            \/ \E with \in {{}} \cup {{i} : i \in Invitation} : StartRegister(s, u, with)
            \/ StartExternal(s, u) \/ StartLogin(s, u) \/ StartSetup(s, u) \/ StartConfirm(s, u)
            \/ StartKey(s, u) \/ StartErase(s, u)
            \/ \E backup \in BOOLEAN : StartDisable(s, u, backup)
       \/ \E c \in credentials, backup \in BOOLEAN : StartChallenge(s, c, backup)
  \/ \E c \in credentials : Revoke(c)
  \/ \E i \in Invitation : RevokeInvitation(i) \/ \E role \in Role : Invite(i, role)
  \/ \E o, u \in User, role \in Roles \cup {"deleted"} : ChangeRole(o, u, role)

AccountsSpec == AccountsInit /\ [][AccountsNext]_accountVars

-----------------------------------------------------------------------------
(* Properties.                                                             *)

AccountsTypeOK ==
  /\ user \in [User -> UserRow]
  /\ member \in [User -> Roles \cup {"none", "deleted"}]
  /\ invitation \in [Invitation -> [status: {"none", "pending", "accepted", "revoked"}, role: Roles]]
  /\ credentials \subseteq Credential
  /\ request \in [Slot -> [kind: Kind, no: Number, user: User, mem: UserRow, first: BOOLEAN,
                           with: SUBSET Invitation, seen: SUBSET Number, backup: BOOLEAN,
                           alone: BOOLEAN]]
  /\ joined \subseteq [invitation: Invitation, user: User, alone: BOOLEAN]
  /\ uses \subseteq [code: Number, no: Number, alone: BOOLEAN]
  /\ begun \in Number

\* roadmap.md:158: erasure "revokes all sessions and API keys".  Nothing looks
\* at the status of the user a session or a key belongs to (auth.py:112,170), so
\* whatever was granted before must have been found, and with it all by which
\* more could be granted.  Only what overlapped with another request may have
\* been missed.
ErasureIsComplete ==
  \A c \in credentials : (c.live /\ user[c.user].status = "deleted") =>
    \E k \in credentials : k.user = c.user /\ ~ k.alone

\* An invitation makes one account: no registration that overlapped with no
\* other request was let in by an invitation that let in another (auth.py:331).
InvitationServesOne ==
  \A j, k \in joined : (j.invitation = k.invitation /\ j.user # k.user) => ~ j.alone

\* auth_mfa.py:4: backup codes "are single-use": none that a request running by
\* itself accepted is accepted another time, whatever set-up, challenges and
\* disabling come in between.
BackupCodeOnce == \A a, b \in uses : (a.code = b.code /\ a.no # b.no) => ~ a.alone

\* What is for one use serves one: both of the above (auth.py
\* verify_invitation, auth_mfa.py consume_backup_code).
SingleUse == InvitationServesOne /\ BackupCodeOnce
=============================================================================
