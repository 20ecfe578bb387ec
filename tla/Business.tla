------------------------------ MODULE Business ------------------------------
(***************************************************************************)
(* One business and the people who run it: identities, sessions, password  *)
(* and invitation links, memberships, the settings, activation and deletion*)
(* of the tenant, its Mercado Pago account, and the row that lists it in   *)
(* the public directory.  A request is authorized in transactions of its   *)
(* own, then reads and checks, then writes; every transaction runs at READ *)
(* COMMITTED, so another one may commit between any two of these steps.    *)
(***************************************************************************)
EXTENDS Integers, FiniteSets, SequencesExt

CONSTANTS Users,        \* people with an email address
          Elsewhere,    \* the ones who also belong to another business
          Slots,        \* requests that may be under way at once
          MaxBegins     \* requests, of every kind

ASSUME BusinessAssumption ==
    /\ Elsewhere \subseteq Users /\ IsFiniteSet(Users) /\ Users # {}
    /\ MaxBegins \in Nat

Roles == {"owner", "admin", "employee"}
Challenges == {"verify", "reset"}
Unspent == {"young", "old", "expired"}
Live == {"young", "old"}

VARIABLES user,      \* users: status, the number of the current password, and which
                     \* row of this email it is
          session,   \* user_sessions, with the password each was opened with
          link,      \* challenges and handoffs, in the order they were issued
          member,    \* tenant_memberships of this business
          tenant,    \* tenants, tenant_settings and the primary location
          account,   \* integration_accounts: Mercado Pago
          item,      \* some item of the menu is active
          listed,    \* public_search_tenants.is_publicly_eligible
          oauth,     \* authorizations begun at Mercado Pago and not come back
          calls,     \* requests under way
          serial,    \* membership ids given out
          claimed,   \* the provisioning key has been used
          memberGap, \* a membership write overlapped another one
          listGap,   \* the listing was written by an overtaken transaction, or
                     \* the menu emptied since it was written
          begun

vars == <<user, session, link, member, tenant, account, item, listed, oauth,
          calls, serial, claimed, memberGap, listGap, begun>>

people == <<user, session, link>>
shop == <<tenant, account, item, listed, listGap>>
staff == <<member, serial, memberGap>>
trade == <<oauth, claimed>>

NoCall == [op |-> "none", phase |-> "free", who |-> "none", on |-> "none",
           id |-> 0, via |-> 0, gen |-> 0, arg |-> "none", ver |-> 0, pw |-> 0, seen |-> FALSE,
           crossed |-> FALSE]
NoUser == [st |-> "none", pw |-> 0, gen |-> 0]
NewUser(u, st) == [st |-> st, pw |-> 0, gen |-> user[u].gen]
NoMember == [role |-> "none", id |-> 0]
NoTenant == [st |-> "none", ver |-> 0, sales |-> FALSE, place |-> FALSE]
NoAccount == [st |-> "none", ver |-> 0]

Exists == tenant.st \in {"onboarding", "active"}
Members == {u \in Users : member[u].role # "none"}
Owners == {u \in Users : member[u].role = "owner"}

Free(s) == calls' = [calls EXCEPT ![s] = NoCall]
Begin(s, c) == calls[s] = NoCall /\ calls' = [calls EXCEPT ![s] = c]
Step(s, c) == calls' = [calls EXCEPT ![s] = c]
At(s, phase) == calls[s].phase = phase

\* The calls once s has committed: the ones exposed to its write were overtaken.
Overtaking(s, exposed(_)) ==
    calls' = [t \in Slots |->
        IF t = s THEN NoCall
        ELSE IF exposed(calls[t]) THEN [calls[t] EXCEPT !.crossed = TRUE]
        ELSE calls[t]]

----------------------------------------------------------------------------
(* Identities, sessions and links *)

Open(u, pw, raced) ==
    Append(session, [user |-> u, pw |-> pw, live |-> TRUE, raced |-> raced])

Issue(ls, kind, u, got) ==
    Append(ls, [kind |-> kind, user |-> u, st |-> "young", got |-> got, uses |-> 0])

\* The mail with a reset link, and the one with a verification code, are sent
\* after the commit: each arrives or is lost.
ResetMail == BOOLEAN
VerificationMail == BOOLEAN

\* update(...).set({consumedAt}).where(user, isNull(consumedAt)), by kind.
Consume(ls, kinds, u) ==
    [l \in DOMAIN ls |->
        IF ls[l].kind \in kinds /\ ls[l].user = u /\ ls[l].st \in Unspent
        THEN [ls[l] EXCEPT !.st = "spent"] ELSE ls[l]]

MayBegin == begun < MaxBegins /\ begun' = begun + 1

\* The row of the user the call began with is still there.
Known(c, users) == users[c.who].st # "none" /\ users[c.who].gen = c.gen

\* findCredentialByEmail, as far as a login asks.
Credential(u) == user[u].st = "active"

\* SessionService.create up to verifyPassword: the credential read and compared.
Login(s, u) ==
    /\ MayBegin
    /\ Credential(u)
    /\ Begin(s, [NoCall EXCEPT !.op = "login", !.phase = "hashing", !.who = u,
                               !.gen = user[u].gen, !.pw = user[u].pw])
    /\ UNCHANGED <<people, staff, shop, trade>>

\* SessionRepository.insertSession, in a transaction of its own.
InsertSession(s) ==
    /\ calls[s].op = "login"
    /\ session' = IF Known(calls[s], user)
                  THEN Open(calls[s].who, calls[s].pw, calls[s].crossed) ELSE session
    /\ Free(s)
    /\ UNCHANGED <<user, link, staff, shop, trade, begun>>

\* PasswordRecoveryService.request; the mail may be lost after the commit.
RequestReset(u, got) ==
    /\ MayBegin
    /\ user[u].st = "active"
    /\ \A l \in DOMAIN link :
          ~(link[l].kind = "reset" /\ link[l].user = u /\ link[l].st = "young")
    /\ link' = Issue(Consume(link, {"reset"}, u), "reset", u, got)
    /\ UNCHANGED <<user, session, staff, shop, trade, calls>>

\* Ten minutes pass, then the half hour the link is good for.
Age(l) ==
    /\ link[l].st \in Live
    /\ link' = [link EXCEPT ![l].st = IF @ = "young" THEN "old" ELSE "expired"]
    /\ UNCHANGED <<user, session, staff, shop, trade, calls, begun>>

\* The select by digest with which the three uses of a link begin.
FollowLink(s, l, op) ==
    LET k == link[l]
    IN  /\ MayBegin
        /\ k.got /\ k.st \in Live
        /\ CASE op = "reset"   -> k.kind = "reset"
             [] op = "confirm" -> k.kind \in Challenges
             [] op = "consume" -> /\ k.kind = "handoff"
                                  /\ user[k.user].st = "active"
                                  /\ k.user \in Members
        /\ Begin(s, [NoCall EXCEPT !.op = op, !.phase = "found", !.who = k.user, !.id = l])
        /\ UNCHANGED <<people, staff, shop, trade>>

\* Slip: the update names the link and not that it is unspent.
SlipSpendable(s) == TRUE

\* where(eq(id), isNull(consumedAt)), and for a reset still not expired.
Spendable(s) ==
    link[calls[s].id].st \in IF calls[s].op = "reset" THEN Live ELSE Unspent

Spent(l) == [link EXCEPT ![l].st = "spent", ![l].uses = @ + 1]

\* Slip: the sessions stay open.
SlipRevokeSessions(u) == session

\* update(userSessions).set({revokedAt}).where(userId)
RevokeSessions(u) ==
    [i \in DOMAIN session |->
        IF session[i].user = u THEN [session[i] EXCEPT !.live = FALSE]
        ELSE session[i]]

\* PasswordRecoveryService.reset, from the consuming update to the commit.  A
\* login that has compared the old password is overtaken.
Reset(s) ==
    LET u == calls[s].who
    IN  /\ calls[s].op = "reset" /\ Spendable(s) /\ user[u].st = "active"
        /\ user' = [user EXCEPT ![u].pw = @ + 1]
        /\ session' = RevokeSessions(u)
        /\ link' = Consume(Spent(calls[s].id), {"reset"}, u)
        /\ Overtaking(s, LAMBDA c : c.phase = "hashing" /\ c.who = u)
        /\ UNCHANGED <<staff, shop, trade, begun>>

\* IdentityVerificationService.confirm: a challenge of any purpose activates.
Confirm(s) ==
    /\ calls[s].op = "confirm" /\ Spendable(s)
    /\ user' = [user EXCEPT ![calls[s].who].st = "active"]
    /\ link' = Spent(calls[s].id)
    /\ Free(s)
    /\ UNCHANGED <<session, staff, shop, trade, begun>>

\* OnboardingHandoffService.consume
ConsumeHandoff(s) ==
    LET u == calls[s].who
    IN  /\ calls[s].op = "consume" /\ Spendable(s)
        /\ link' = Spent(calls[s].id)
        /\ session' = Open(u, user[u].pw, FALSE)
        /\ Free(s)
        /\ UNCHANGED <<user, staff, shop, trade, begun>>

\* InvalidPasswordResetTokenError and its two fellows.
LinkRefused(s) ==
    /\ At(s, "found")
    /\ ~Spendable(s) \/ (calls[s].op = "reset" /\ user[calls[s].who].st # "active")
    /\ Free(s)
    /\ UNCHANGED <<people, staff, shop, trade, begun>>

----------------------------------------------------------------------------
(* How the business comes to be *)

\* The wizard is not sent without a confirmed location; the body of a
\* provisioning request has none.
WizardPlace == TRUE
ProvisionedPlace == FALSE

NewTenant(place) == [st |-> "onboarding", ver |-> 1, sales |-> FALSE, place |-> place]
Join(u, role) == [member EXCEPT ![u] = [role |-> role, id |-> serial + 1]]

\* PublicRegistrationService.register up to the comparison of the password, or
\* with the session the request came with.
Register(s, u) ==
    /\ MayBegin
    /\ tenant.st = "none"
    /\ Begin(s, [NoCall EXCEPT !.op = "register", !.phase = "hashing", !.who = u,
                               !.gen = user[u].gen, !.pw = user[u].pw, !.arg = user[u].st])
    /\ UNCHANGED <<people, staff, shop, trade>>

\* The rest of register.  A slug or an email taken meanwhile, or an identity
\* that is gone, fails an insert.
CreateBusiness(s) ==
    LET c == calls[s]
        ok == /\ tenant.st = "none"
              /\ IF c.arg = "none" THEN user[c.who].st = "none" ELSE Known(c, user)
    IN  /\ c.op = "register"
        /\ IF ok
           THEN /\ user' = IF c.arg = "none"
                           THEN [user EXCEPT ![c.who] = NewUser(c.who, "active")]
                           ELSE user
                /\ tenant' = NewTenant(WizardPlace)
                /\ member' = Join(c.who, "owner")
                /\ serial' = serial + 1
                /\ session' = Open(c.who, c.pw, c.crossed)
           ELSE UNCHANGED <<user, tenant, member, serial, session>>
        /\ Free(s)
        /\ UNCHANGED <<link, account, item, listed, listGap, memberGap, trade,
                       begun>>

\* The challenge and the handoff that go with an owner; the mail may be lost.
Credentials(ls, u, st, got) ==
    LET verified == st = "active"
        told == IF verified THEN ls
                ELSE Issue(Consume(ls, Challenges, u), "verify", u, got)
    IN  Issue(told, "handoff", u, TRUE)

\* DatabaseProvisioningRepository.provision with a key not used before.
Provision(u, got) ==
    LET st == IF user[u].st = "none" THEN "pending" ELSE user[u].st
    IN  /\ MayBegin
        /\ ~claimed /\ tenant.st = "none"
        /\ user' = [user EXCEPT ![u].st = st]
        /\ tenant' = NewTenant(ProvisionedPlace)
        /\ member' = Join(u, "owner")
        /\ serial' = serial + 1
        /\ link' = Credentials(link, u, st, got)
        /\ claimed' = TRUE
        /\ UNCHANGED <<session, account, item, listed, listGap, memberGap, oauth,
                       calls>>

\* rotateCredentialsAndLoad: the same key again finds some membership.
ReplayProvision(u, got) ==
    /\ MayBegin
    /\ claimed /\ Exists /\ u \in Members
    /\ link' = Credentials(Consume(link, {"handoff"}, u), u, user[u].st, got)
    /\ UNCHANGED <<user, session, staff, shop, trade, calls>>

----------------------------------------------------------------------------
(* Requests made with a session *)

MemberOps == {"addMember", "changeRole", "deleteMember"}
OwnerOps == MemberOps \cup {"activate", "deleteTenant", "connect", "disconnect"}
Patches == {"salesOn", "salesOff", "place", "other"}

\* The roles a route asks for: requireOwner or requireOwnerOrAdmin.
Allowed(op) == IF op \in OwnerOps THEN {"owner"} ELSE {"owner", "admin"}

Request(op) == [NoCall EXCEPT !.op = op, !.phase = "sent"]

\* MemberManager: an invitation, a role, a removal, named by membership id.
Invitation(u, r) == [Request("addMember") EXCEPT !.on = u, !.arg = r]
RoleChange(u, r) == [Request("changeRole") EXCEPT !.on = u, !.id = member[u].id, !.arg = r]
Removal(u) == [Request("deleteMember") EXCEPT !.on = u, !.id = member[u].id]

MemberRequests == {Invitation(u, r) : u \in Users, r \in Roles}
                      \cup {RoleChange(u, r) : u \in Members, r \in Roles}
                      \cup {Removal(u) : u \in Members}

\* TenantSettingsPanel, and the sales switch of the same route, with the version
\* of the row the form was drawn from.
Patch(p, v) == [Request("update") EXCEPT !.arg = p, !.ver = v]
SettingsRequests == {Patch(p, v) : p \in Patches, v \in 1..tenant.ver}

\* MercadoPagoIntegrationPanel
AccountRequests ==
    {Request("connect")} \cup {[Request("disconnect") EXCEPT !.ver = v] : v \in 1..account.ver}

\* TenantActivationPanel, DangerZone, and what the other screens offer.
ActivationRequests == {Request("activate")}
DeletionRequests == {Request("deleteTenant")}
OtherRequests == {Request(op) : op \in {"publish", "withdraw", "logout"}}

Send(s, i) ==
    /\ MayBegin
    /\ Exists
    /\ \E r \in MemberRequests \cup SettingsRequests \cup AccountRequests
                  \cup ActivationRequests \cup DeletionRequests \cup OtherRequests :
          Begin(s, [r EXCEPT !.via = i])
    /\ UNCHANGED <<people, staff, shop, trade>>

\* findSessionByDigest: the session together with its user.
Identity(i) == [live |-> session[i].live, status |-> user[session[i].user].st]

\* SessionService.resolve
Resolves(i) == Identity(i) = [live |-> TRUE, status |-> "active"]

\* findLiveMembership
LiveMembership(u) == Exists /\ member[u].role # "none"

\* SessionService.authorizeTenant, and the role guard of the route.
Admits(u, op) == LiveMembership(u) /\ member[u].role \in Allowed(op)

\* administrativeTenantContext; logging out takes no membership.
Authorize(s) ==
    LET c == calls[s]
        u == session[c.via].user
        ok == Resolves(c.via) /\ (c.op = "logout" \/ Admits(u, c.op))
    IN  /\ At(s, "sent")
        /\ IF ok
           THEN Step(s, [c EXCEPT !.phase = "authorized", !.who = u, !.gen = user[u].gen])
           ELSE Free(s)
        /\ UNCHANGED <<people, staff, shop, trade, begun>>

\* revokeSession
Closed(i) == [session EXCEPT ![i].live = FALSE]

\* SessionService.revoke
Logout(s) ==
    /\ At(s, "authorized") /\ calls[s].op = "logout"
    /\ session' = Closed(calls[s].via)
    /\ Free(s)
    /\ UNCHANGED <<user, link, staff, shop, trade, begun>>

----------------------------------------------------------------------------
(* Members *)

\* Slip: the last owner may leave.
SlipLastOwner(c) == c.on = c.who /\ member[c.on].role = "owner" /\ Cardinality(Owners) < 1

\* countActiveOwners() <= 1, asked only of an owner acting on himself.
LastOwner(c) == c.on = c.who /\ member[c.on].role = "owner" /\ Cardinality(Owners) <= 1

\* MemberService: what each operation reads before it writes.
CheckMember(s) ==
    LET c == calls[s]
        ok == IF c.op = "addMember" THEN c.on \notin Members
              ELSE member[c.on].id = c.id /\ ~LastOwner(c)
    IN  /\ At(s, "authorized") /\ c.op \in MemberOps
        /\ IF ok THEN Step(s, [c EXCEPT !.phase = "checked"]) ELSE Free(s)
        /\ UNCHANGED <<people, staff, shop, trade, begun>>

MemberCommit(s) ==
    /\ memberGap' = (memberGap \/ calls[s].crossed)
    /\ Overtaking(s, LAMBDA c : c.phase \in {"authorized", "checked"} /\ c.op \in MemberOps)

\* addMember: a new identity, if the email is new, and MemberRepository.create,
\* which rewrites the role of a membership made meanwhile.
AddMember(s) ==
    LET c == calls[s]
    IN  /\ At(s, "checked") /\ c.op = "addMember"
        /\ Exists /\ Known(c, user)
        /\ user' = IF user[c.on].st = "none"
                   THEN [user EXCEPT ![c.on] = NewUser(c.on, "active")]
                   ELSE user
        /\ IF c.on \in Members
           THEN member' = [member EXCEPT ![c.on].role = c.arg] /\ UNCHANGED serial
           ELSE member' = Join(c.on, c.arg) /\ serial' = serial + 1
        /\ MemberCommit(s)
        /\ UNCHANGED <<session, link, shop, trade, begun>>

\* changeRole: the update may find the membership gone.
ChangeRole(s) ==
    LET c == calls[s]
    IN  /\ At(s, "checked") /\ c.op = "changeRole"
        /\ Exists /\ Known(c, user)
        /\ member' = IF member[c.on].id = c.id
                     THEN [member EXCEPT ![c.on].role = c.arg] ELSE member
        /\ MemberCommit(s)
        /\ UNCHANGED <<people, serial, shop, trade, begun>>

\* deleteUserIfUnassigned: no membership of any business is left.
Unassigned(u, members) == u \notin Elsewhere /\ members[u] = NoMember

Without(c) ==
    IF member[c.on].id = c.id THEN [member EXCEPT ![c.on] = NoMember] ELSE member

\* deleteMember, with what goes with the user's row.
DeleteMember(s) ==
    LET c == calls[s]
        left == Without(c)
        goes == Unassigned(c.on, left)
        kept == IF goes THEN [user EXCEPT ![c.on] = [NoUser EXCEPT !.gen = user[c.on].gen + 1]]
                ELSE user
    IN  /\ At(s, "checked") /\ c.op = "deleteMember"
        /\ Exists /\ Known(c, kept)
        /\ member' = left
        /\ user' = kept
        /\ session' = IF goes THEN RevokeSessions(c.on) ELSE session
        /\ link' = IF goes THEN Consume(link, Challenges \cup {"handoff"}, c.on)
                   ELSE link
        /\ MemberCommit(s)
        /\ UNCHANGED <<serial, shop, trade, begun>>

\* A foreign key rolls the transaction back: the tenant is gone, or the actor
\* whom the audit event names, maybe by this very request.
MemberFails(s) ==
    LET c == calls[s]
    IN  /\ At(s, "checked") /\ c.op \in MemberOps
        /\ \/ ~Exists \/ ~Known(c, user)
           \/ c.op = "deleteMember" /\ c.on = c.who /\ Unassigned(c.on, Without(c))
        /\ Free(s)
        /\ UNCHANGED <<people, staff, shop, trade, begun>>

----------------------------------------------------------------------------
(* Settings, activation, Mercado Pago and the public listing *)

\* activationReady: unlike fetchTenantReadiness it asks no confirmed address.
ActivationReady(c) ==
    item /\ account.st = "active" /\ Known(c, user) /\ user[c.who].st = "active"

\* fetchTenantReadiness().orderingAvailable and a confirmed location.
Eligible(t, a, i) ==
    t.st = "active" /\ t.sales /\ t.place /\ i /\ a.st = "active"

Row(op) == CASE op \in {"update", "activate"}      -> "settings"
             [] op \in {"complete", "disconnect"}  -> "account"
             [] OTHER                              -> "none"

\* TenantSettingsService.update and activate: the rows they leave. A patch sets a
\* place and never clears it: locationSchema takes only confirmed coordinates.
Patched(patch) ==
    [tenant EXCEPT !.ver = @ + 1,
                   !.sales = (@ \/ patch = "salesOn") /\ patch # "salesOff",
                   !.place = @ \/ patch = "place"]

Activated == [tenant EXCEPT !.ver = @ + 1, !.st = "active", !.sales = TRUE]

\* saveMercadoPago and revokeMercadoPago
Saved == [st |-> "active", ver |-> account.ver + 1]
Revoked == [st |-> "revoked", ver |-> account.ver + 1]

\* The rows as the transaction of call c leaves them.
TenantAfter(c) ==
    CASE c.op = "activate" -> Activated
      [] c.op = "update"   -> Patched(c.arg)
      [] OTHER             -> tenant

AccountAfter(c) ==
    CASE c.op = "complete"   -> Saved
      [] c.op = "disconnect" -> Revoked
      [] OTHER               -> account

\* MercadoPagoIntegrationService.startOAuth: the state names the membership.
Connect(s) ==
    /\ At(s, "authorized") /\ calls[s].op = "connect"
    /\ oauth' = oauth \cup {[user |-> calls[s].who, id |-> member[calls[s].who].id]}
    /\ Free(s)
    /\ UNCHANGED <<people, staff, shop, claimed, begun>>

\* Mercado Pago answers the exchange of the code with tokens, or refuses it.
Exchange == BOOLEAN

\* completeOAuth: the code is exchanged before the transaction begins.
CompleteOAuth(s, o) ==
    /\ MayBegin
    /\ oauth' = oauth \ {o}
    /\ \E tokens \in Exchange :
          IF tokens
          THEN Begin(s, [NoCall EXCEPT !.op = "complete", !.phase = "authorized",
                                       !.who = o.user, !.id = o.id])
          ELSE UNCHANGED calls
    /\ UNCHANGED <<people, staff, shop, claimed>>

\* assertMembershipStillActive: the membership the state names, whatever its role.
StillMember(c) == member[c.who].id = c.id

ShopOps == {"update", "activate", "complete", "disconnect", "publish", "withdraw"}

\* What each operation reads and refuses before it writes.
CheckShop(s) ==
    LET c == calls[s]
        ok == CASE c.op = "complete"   -> StillMember(c)
                [] c.op = "disconnect" -> account.st # "none" /\ account.ver = c.ver
                [] c.op = "activate" \/ c.arg = "salesOn" -> ActivationReady(c)
                [] OTHER               -> TRUE
    IN  /\ At(s, "authorized") /\ c.op \in ShopOps
        /\ IF ok /\ Exists
           THEN Step(s, [c EXCEPT !.phase = "checked",
                                  !.ver = IF c.op = "complete" THEN account.ver ELSE @])
           ELSE Free(s)
        /\ UNCHANGED <<people, staff, shop, trade, begun>>

\* The row's update waits for the transaction that holds it.
Unlocked(s) ==
    \A t \in Slots \ {s} :
        At(t, "written") => Row(calls[t].op) # Row(calls[s].op)

\* The version the update names, and the insert of an account already there.
Applies(c) ==
    CASE c.op = "update"     -> tenant.ver = c.ver
      [] c.op = "disconnect" -> account.ver = c.ver
      [] c.op = "complete"   -> c.ver = 0 => account.st = "none"
      [] OTHER               -> TRUE

\* The write, its row locked, and the reads of syncTenantEligibility, which see
\* it and whatever else has been committed.
Write(s) ==
    LET c == calls[s]
    IN  /\ At(s, "checked") /\ Row(c.op) # "none"
        /\ Unlocked(s)
        /\ IF Exists /\ Applies(c)
           THEN Step(s, [c EXCEPT !.phase = "written", !.crossed = FALSE,
                                  !.seen = Eligible(TenantAfter(c), AccountAfter(c), item)])
           ELSE Free(s)
        /\ UNCHANGED <<people, staff, shop, trade, begun>>

\* An item is published, or the last one withdrawn; only the first is followed
\* by a copy of the eligibility, in another transaction.
StoreItem(s) ==
    LET on == calls[s].op = "publish"
    IN  /\ At(s, "checked") /\ calls[s].op \in {"publish", "withdraw"}
        /\ item' = (on /\ Exists)
        /\ listGap' = (listGap \/ ~on)
        /\ calls' = [t \in Slots |->
              IF t = s THEN IF on /\ Exists
                            THEN [calls[t] EXCEPT !.phase = "stored"] ELSE NoCall
              ELSE [calls[t] EXCEPT !.crossed = @ \/ At(t, "written")]]
        /\ UNCHANGED <<people, staff, tenant, account, listed, trade, begun>>

\* syncItem, which copies nothing for an item of an inactive category or when
\* its reads fail.
SyncItem(s) ==
    /\ At(s, "stored")
    /\ \/ /\ Exists
          /\ Step(s, [calls[s] EXCEPT !.phase = "written", !.crossed = FALSE,
                                      !.seen = Eligible(tenant, account, item)])
       \/ Free(s)
    /\ UNCHANGED <<people, staff, shop, trade, begun>>

\* Slip: the account is revoked and the listing left as it was.
SlipSyncs(c) == c.op # "disconnect" /\ (c.op = "update" => c.arg # "other")

\* A settings patch without sales or location does not touch the listing.
Syncs(c) == c.op = "update" => c.arg # "other"

\* upsertSearchTenant and the commit.
Commit(s) ==
    LET c == calls[s]
    IN  /\ At(s, "written") /\ Exists
        /\ tenant' = TenantAfter(c)
        /\ account' = AccountAfter(c)
        /\ listed' = IF Syncs(c) THEN c.seen ELSE listed
        /\ listGap' = IF Syncs(c) THEN c.crossed ELSE listGap
        /\ Overtaking(s, LAMBDA d : d.phase = "written")
        /\ UNCHANGED <<people, staff, item, trade, begun>>

\* TenantDeletionService.deleteTenant, waiting for the rows others hold; the
\* identities stay, whether or not they belong to a business.
DeleteTenant(s) ==
    /\ At(s, "authorized") /\ calls[s].op = "deleteTenant"
    /\ \A t \in Slots : At(t, "written") => Row(calls[t].op) = "none"
    /\ tenant' = [NoTenant EXCEPT !.st = IF Exists THEN "gone" ELSE tenant.st]
    /\ member' = [u \in Users |-> NoMember]
    /\ link' = [l \in DOMAIN link |->
          IF link[l].kind = "handoff" THEN [link[l] EXCEPT !.st = "spent"] ELSE link[l]]
    /\ account' = NoAccount
    /\ item' = FALSE
    /\ listed' = FALSE
    /\ listGap' = FALSE
    /\ Free(s)
    /\ UNCHANGED <<user, session, serial, memberGap, trade, begun>>

\* The copy of an item finds no tenant.
SyncFails(s) ==
    /\ At(s, "written") /\ ~Exists
    /\ Free(s)
    /\ UNCHANGED <<people, staff, shop, trade, begun>>

----------------------------------------------------------------------------

\* Nobody has a business yet, or one is open and run by all of its people.
Init ==
    /\ \/ /\ user = [u \in Users |->
                IF u \in Elsewhere THEN [NoUser EXCEPT !.st = "active"] ELSE NoUser]
          /\ session = <<>>
          /\ member = [u \in Users |-> NoMember]
          /\ serial = 0
          /\ tenant = NoTenant /\ account = NoAccount
          /\ item = FALSE /\ listed = FALSE
       \/ /\ user = [u \in Users |-> [NoUser EXCEPT !.st = "active"]]
          /\ session = SetToSeq([user : Users, pw : {0}, live : {TRUE}, raced : {FALSE}])
          /\ member = [u \in Users |-> [role |-> "owner", id |-> 1]]
          /\ serial = 1
          /\ tenant = [st |-> "active", ver |-> 1, sales |-> TRUE, place |-> TRUE]
          /\ account = [st |-> "active", ver |-> 1]
          /\ item = TRUE /\ listed = TRUE
    /\ link = <<>>
    /\ oauth = {} /\ claimed = FALSE
    /\ calls = [s \in Slots |-> NoCall]
    /\ memberGap = FALSE /\ listGap = FALSE
    /\ begun = 0

IdentityNext ==
    \/ \E u \in Users, got \in ResetMail : RequestReset(u, got)
    \/ \E u \in Users, got \in VerificationMail :
          Provision(u, got) \/ ReplayProvision(u, got)
    \/ \E l \in DOMAIN link : Age(l)
    \/ \E s \in Slots :
          \/ \E u \in Users : Login(s, u) \/ Register(s, u)
          \/ \E l \in DOMAIN link, op \in {"reset", "confirm", "consume"} :
                FollowLink(s, l, op)
          \/ InsertSession(s) \/ CreateBusiness(s)
          \/ Reset(s) \/ Confirm(s) \/ ConsumeHandoff(s) \/ LinkRefused(s)

RequestNext ==
    \E s \in Slots :
        \/ \E i \in DOMAIN session : Send(s, i)
        \/ Authorize(s) \/ Logout(s)
        \/ CheckMember(s) \/ AddMember(s) \/ ChangeRole(s) \/ DeleteMember(s)
        \/ MemberFails(s)
        \/ Connect(s) \/ \E o \in oauth : CompleteOAuth(s, o)
        \/ CheckShop(s) \/ Write(s) \/ StoreItem(s) \/ SyncItem(s)
        \/ Commit(s) \/ SyncFails(s) \/ DeleteTenant(s)

Next == IdentityNext \/ RequestNext

Spec == Init /\ [][Next]_vars

----------------------------------------------------------------------------
(* Properties *)

\* The type of every variable.
TypeOK ==
    /\ \A u \in Users : user[u].st \in {"none", "pending", "active"}
    /\ \A i \in DOMAIN session : session[i].user \in Users
    /\ \A u \in Users : member[u].role \in Roles \cup {"none"} /\ member[u].id <= serial
    /\ \A u \in Members : user[u].st # "none"
    /\ Members # {} => Exists
    /\ tenant.st \in {"none", "onboarding", "active", "gone"}
    /\ account.st # "none" => Exists
    /\ listed \in BOOLEAN /\ item \in BOOLEAN

\* A business that exists has an owner, unless two requests about its members
\* overlapped: the owners are counted in one statement and removed in another
\* (member.service.ts, changeRole and deleteMember).
OwnerlessNeedsCrossing == Exists /\ Owners = {} => memberGap

\* After a password reset no session opened with an older password is live,
\* unless its login had compared that password before the reset committed
\* (password-recovery.service.ts revokes the sessions it can see).
OldPasswordNeedsRace ==
    \A i \in DOMAIN session :
        session[i].live /\ session[i].pw # user[session[i].user].pw
            => session[i].raced

\* A link opens one thing once: the step that uses it is the step that spends
\* it, whatever other request holds the same link, and a spent link stays spent
\* (the isNull(consumedAt) of the three consuming updates).
LinkSpentOnce ==
    [][\A l \in DOMAIN link :
          /\ link'[l].uses # link[l].uses
                => link[l].st \in Unspent /\ link'[l].st = "spent"
          /\ link[l].st = "spent" => link'[l].st = "spent"]_vars

\* The directory lists a business only while it is active, sells, has a place
\* and a menu and can be paid, unless the menu has been emptied since (syncItem
\* deletes the entry and returns) or the listing was written by a transaction
\* that another one overtook after its reads (search-sync.service.ts).
ListedIsOpen == listed => Eligible(tenant, account, item) \/ listGap

\* Members are users of a business that exists, and it has an owner.
MembersAgree == TypeOK /\ OwnerlessNeedsCrossing
============================================================================
