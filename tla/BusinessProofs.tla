--------------------------- MODULE BusinessProofs ---------------------------
(***************************************************************************)
(* Proofs about Business for every number of people and requests.  What a  *)
(* request has read and checked holds until it writes, or it is marked as  *)
(* crossed by the commit that changed it: this is one invariant for        *)
(* passwords (PeopleCall), one for owners (MemberCall) and one for the     *)
(* directory (ShopCall).                                                   *)
(***************************************************************************)
EXTENDS Business, FiniteSetTheorems, SequenceTheorems, TLAPS

(* The rows, with their fields. *)
UserRow    == [st : {"none", "pending", "active"}, pw : Nat, gen : Nat]
SessionRow == [user : Users, pw : Nat, live : BOOLEAN, raced : BOOLEAN]
LinkRow    == [kind : Challenges \cup {"handoff"}, user : Users,
               st : Unspent \cup {"spent"}, got : BOOLEAN, uses : Nat]
MemberRow  == [role : Roles \cup {"none"}, id : Nat]
TenantRow  == [st : {"none", "onboarding", "active", "gone"}, ver : Nat,
               sales : BOOLEAN, place : BOOLEAN]
AccountRow == [st : {"none", "active", "revoked"}, ver : Nat]

(* The requests under way. *)
LinkOps   == {"reset", "confirm", "consume"}
PlainOps  == OwnerOps \cup {"update", "complete", "publish", "withdraw", "logout"}
Args      == Roles \cup Patches \cup {"none", "pending", "active"}
Call == [op : {"none", "login", "register"} \cup LinkOps \cup PlainOps,
         phase : {"free", "hashing", "found", "sent", "authorized", "checked", "stored",
                  "written"},
         who : Users \cup {"none"}, on : Users \cup {"none"}, id : Nat, via : Nat,
         gen : Nat, arg : Args, ver : Nat, pw : Nat, seen : BOOLEAN, crossed : BOOLEAN]

Typed ==
    /\ user \in [Users -> UserRow]
    /\ session \in Seq(SessionRow)
    /\ link \in Seq(LinkRow)
    /\ member \in [Users -> MemberRow] /\ serial \in Nat
    /\ tenant \in TenantRow /\ account \in AccountRow
    /\ item \in BOOLEAN /\ listed \in BOOLEAN
    /\ oauth \in SUBSET [user : Users, id : Nat]
    /\ calls \in [Slots -> Call]
    /\ memberGap \in BOOLEAN /\ listGap \in BOOLEAN

(* Which phase an operation can be in, and what its request names. *)
CallShaped(c) ==
    /\ c.phase = "free" => c = NoCall
    /\ c.op \in {"login", "register"} <=> c.phase = "hashing"
    /\ c.op \in LinkOps <=> c.phase = "found"
    /\ c.phase \notin {"free", "sent"} => c.who \in Users
    /\ c.phase = "sent" \/ c.op = "logout" => c.via \in DOMAIN session
    /\ c.op \in MemberOps => c.phase \in {"sent", "authorized", "checked"} /\ c.on \in Users
    /\ c.op \in {"addMember", "changeRole"} => c.arg \in Roles
    /\ c.op = "changeRole" => c.id # 0
    /\ c.phase = "stored" => c.op = "publish"
    /\ c.phase = "written" => c.op \in ShopOps \ {"withdraw"}

CallsShaped == \A s \in Slots : CallShaped(calls[s])

(* Sessions and unspent links are of people whose row is there. *)
PeopleAgree ==
    /\ \A u \in Users : user[u].st = "none" => user[u].pw = 0
    /\ \A i \in DOMAIN session : session[i].live => user[session[i].user].st # "none"
    /\ \A l \in DOMAIN link : link[l].st \in Unspent => user[link[l].user].st # "none"

(* A request that compared a password holds the password the row still has, or was *)
(* crossed by the reset; a request that follows a link names the link's user.      *)
PeopleCall(c) ==
    /\ c.phase = "hashing" =>
         /\ c.gen <= user[c.who].gen
         /\ c.gen = user[c.who].gen => c.pw = user[c.who].pw \/ c.crossed
         /\ c.op = "register" /\ c.arg = "none" => c.pw = 0
    /\ c.phase = "found" => c.id \in DOMAIN link /\ link[c.id].user = c.who

PeopleCalls == \A s \in Slots : PeopleCall(calls[s])

(* Members are people, of a business that exists. *)
RolesAgree ==
    /\ \A u \in Users : member[u].role # "none" => user[u].st # "none" /\ Exists
    /\ \A u \in Users : member[u].id <= serial /\ (member[u].id = 0 <=> member[u].role = "none")

(* A request about members that nobody crossed is an owner's, and what it checked holds. *)
MemberCall(c) ==
    c.op \in MemberOps /\ c.phase \in {"authorized", "checked"} =>
        /\ tenant.st # "none"
        /\ Exists /\ ~ c.crossed =>
             /\ member[c.who].role = "owner"
             /\ c.phase = "checked" => IF c.op = "addMember" THEN c.on \notin Members
                                       ELSE ~ LastOwner(c)

MemberCalls == \A s \in Slots : MemberCall(calls[s])

(* A transaction that has read for the listing saw what its commit leaves, or was *)
(* crossed by another one.                                                       *)
ShopCall(c) ==
    c.phase = "written" =>
        /\ tenant.st # "none"
        /\ Exists /\ c.seen /\ ~ c.crossed => Eligible(TenantAfter(c), AccountAfter(c), item)

ShopCalls == \A s \in Slots : ShopCall(calls[s])

AccountNeedsTenant == account.st # "none" => Exists

Inv ==
    /\ Typed
    /\ CallsShaped
    /\ PeopleAgree
    /\ PeopleCalls
    /\ OldPasswordNeedsRace
    /\ RolesAgree
    /\ MemberCalls
    /\ OwnerlessNeedsCrossing
    /\ ShopCalls
    /\ AccountNeedsTenant
    /\ ListedIsOpen

-----------------------------------------------------------------------------

(* Shapes of calls *)

LEMMA NoCallShape == NoCall \in Call
BY DEF NoCall, Call, Args

(* The fields a step writes keep the shape of a call. *)
LEMMA CallMarked ==
    ASSUME NEW q \in Call, NEW v \in BOOLEAN
    PROVE  [q EXCEPT !.crossed = v] \in Call
BY DEF Call

LEMMA CallPhases ==
    ASSUME NEW q \in Call, NEW p \in {"checked", "stored", "sent"}, NEW n \in Nat,
           NEW op \in {"none", "login", "register"} \cup LinkOps \cup PlainOps
    PROVE  /\ [q EXCEPT !.phase = p] \in Call
           /\ [q EXCEPT !.op = op, !.phase = p] \in Call
           /\ [q EXCEPT !.phase = p, !.ver = n] \in Call
           /\ [q EXCEPT !.via = n] \in Call
<1>1. [q EXCEPT !.phase = p] \in Call
  BY DEF Call
<1>2. [q EXCEPT !.op = op, !.phase = p] \in Call
  BY DEF Call
<1>3. [q EXCEPT !.phase = p, !.ver = n] \in Call
  BY DEF Call
<1>4. [q EXCEPT !.via = n] \in Call
  BY DEF Call
<1> QED BY <1>1, <1>2, <1>3, <1>4

LEMMA CallAuthorized ==
    ASSUME NEW q \in Call, NEW u \in Users, NEW n \in Nat
    PROVE  /\ [q EXCEPT !.phase = "authorized", !.who = u, !.gen = n] \in Call
           /\ [q EXCEPT !.op = "complete", !.phase = "authorized", !.who = u, !.id = n] \in Call
<1>1. [q EXCEPT !.phase = "authorized", !.who = u, !.gen = n] \in Call
  BY DEF Call
<1>2. [q EXCEPT !.op = "complete", !.phase = "authorized", !.who = u, !.id = n] \in Call
  BY DEF Call, PlainOps
<1> QED BY <1>1, <1>2

LEMMA CallWritten ==
    ASSUME NEW q \in Call, NEW b \in BOOLEAN
    PROVE  [q EXCEPT !.phase = "written", !.crossed = FALSE, !.seen = b] \in Call
BY DEF Call

LEMMA CallHashing ==
    ASSUME NEW q \in Call, NEW u \in Users, NEW g \in Nat, NEW p \in Nat, NEW a \in Args
    PROVE  /\ [q EXCEPT !.op = "login", !.phase = "hashing", !.who = u, !.gen = g,
                        !.pw = p] \in Call
           /\ [q EXCEPT !.op = "register", !.phase = "hashing", !.who = u, !.gen = g,
                        !.pw = p, !.arg = a] \in Call
<1>1. [q EXCEPT !.op = "login", !.phase = "hashing", !.who = u, !.gen = g, !.pw = p] \in Call
  BY DEF Call
<1>2. [q EXCEPT !.op = "register", !.phase = "hashing", !.who = u, !.gen = g,
                !.pw = p, !.arg = a] \in Call
  BY DEF Call
<1> QED BY <1>1, <1>2

LEMMA CallFound ==
    ASSUME NEW q \in Call, NEW op \in LinkOps, NEW u \in Users, NEW l \in Nat
    PROVE  [q EXCEPT !.op = op, !.phase = "found", !.who = u, !.id = l] \in Call
BY DEF Call

LEMMA CallNames ==
    ASSUME NEW q \in Call, NEW u \in Users, NEW n \in Nat, NEW a \in Args
    PROVE  /\ [q EXCEPT !.on = u, !.arg = a] \in Call
           /\ [q EXCEPT !.on = u, !.id = n, !.arg = a] \in Call
           /\ [q EXCEPT !.on = u, !.id = n] \in Call
           /\ [q EXCEPT !.arg = a, !.ver = n] \in Call
           /\ [q EXCEPT !.ver = n] \in Call
<1>1. [q EXCEPT !.on = u, !.arg = a] \in Call
  BY DEF Call
<1>2. [q EXCEPT !.on = u, !.id = n, !.arg = a] \in Call
  BY DEF Call
<1>3. [q EXCEPT !.on = u, !.id = n] \in Call
  BY DEF Call
<1>4. [q EXCEPT !.arg = a, !.ver = n] \in Call
  BY DEF Call
<1>5. [q EXCEPT !.ver = n] \in Call
  BY DEF Call
<1> QED BY <1>1, <1>2, <1>3, <1>4, <1>5

-----------------------------------------------------------------------------

(* Tables kept as sequences *)

(* Rewriting rows leaves a table with the same rows. *)
LEMMA RowsRewritten ==
    ASSUME NEW R, NEW q \in Seq(R), NEW f, f = [i \in DOMAIN q |-> f[i]],
           \A i \in DOMAIN q : f[i] \in R
    PROVE  f \in Seq(R) /\ DOMAIN f = DOMAIN q
<1>1. PICK n \in Nat : q \in [1 .. n -> R]
  BY SeqDef
<1>2. f \in [1 .. n -> R]
  BY <1>1
<1> QED BY <1>1, <1>2, SeqDef

(* A new row comes after the others. *)
LEMMA RowAppended ==
    ASSUME NEW R, NEW q \in Seq(R), NEW e \in R
    PROVE  /\ Append(q, e) \in Seq(R)
           /\ DOMAIN q \subseteq DOMAIN Append(q, e)
           /\ \A i \in DOMAIN q : Append(q, e)[i] = q[i]
           /\ \A i \in DOMAIN Append(q, e) \ DOMAIN q : Append(q, e)[i] = e
<1>1. /\ Append(q, e) \in Seq(R) /\ Len(Append(q, e)) = Len(q) + 1
      /\ \A i \in 1 .. Len(q) : Append(q, e)[i] = q[i]
      /\ Append(q, e)[Len(q) + 1] = e
  BY AppendProperties
<1>2. Len(q) \in Nat /\ DOMAIN q = 1 .. Len(q)
  BY LenProperties
<1>3. DOMAIN Append(q, e) = 1 .. Len(q) + 1
  BY <1>1, LenProperties
<1> QED BY <1>1, <1>2, <1>3

(* Rows have the fields of their table. *)
LEMMA RowTyped ==
    ASSUME NEW R, NEW q \in Seq(R), NEW i \in DOMAIN q
    PROVE  q[i] \in R
BY LenProperties, ElementOfSeq

(* A step of the links, where the new ones are of people of W. *)
LinksFrom(p, q, W) ==
    /\ q \in Seq(LinkRow) /\ DOMAIN p \subseteq DOMAIN q
    /\ \A l \in DOMAIN p :
         /\ q[l].user = p[l].user
         /\ q[l].st \in Unspent => p[l].st \in Unspent
         /\ q[l].uses # p[l].uses => p[l].st \in Unspent /\ q[l].st = "spent"
         /\ p[l].st = "spent" => q[l].st = "spent"
    /\ \A l \in DOMAIN q \ DOMAIN p : q[l].user \in W

(* Two steps of the links make one. *)
LEMMA LinksCompose ==
    ASSUME NEW p, NEW q, NEW r, NEW W, LinksFrom(p, q, W), LinksFrom(q, r, W)
    PROVE  LinksFrom(p, r, W)
<1>1. r \in Seq(LinkRow) /\ DOMAIN p \subseteq DOMAIN r
  BY DEF LinksFrom
<1>2. ASSUME NEW l \in DOMAIN p
      PROVE  /\ r[l].user = p[l].user
             /\ r[l].st \in Unspent => p[l].st \in Unspent
             /\ r[l].uses # p[l].uses => p[l].st \in Unspent /\ r[l].st = "spent"
             /\ p[l].st = "spent" => r[l].st = "spent"
  BY <1>2, l \in DOMAIN q DEF LinksFrom
<1>3. ASSUME NEW l \in DOMAIN r \ DOMAIN p PROVE r[l].user \in W
  BY <1>3 DEF LinksFrom
<1> QED BY <1>1, <1>2, <1>3 DEF LinksFrom

(* A link issued is a new one. *)
LEMMA LinkIssued ==
    ASSUME NEW ls \in Seq(LinkRow), NEW kind \in Challenges \cup {"handoff"}, NEW u \in Users,
           NEW got \in BOOLEAN, NEW W, u \in W
    PROVE  LinksFrom(ls, Issue(ls, kind, u, got), W)
<1> DEFINE e == [kind |-> kind, user |-> u, st |-> "young", got |-> got, uses |-> 0]
<1>1. e \in LinkRow /\ e.user = u
  BY DEF LinkRow, Unspent
<1>2. Issue(ls, kind, u, got) = Append(ls, e)
  BY DEF Issue
<1> HIDE DEF e
<1>3. /\ Append(ls, e) \in Seq(LinkRow)
      /\ DOMAIN ls \subseteq DOMAIN Append(ls, e)
      /\ \A i \in DOMAIN ls : Append(ls, e)[i] = ls[i]
      /\ \A i \in DOMAIN Append(ls, e) \ DOMAIN ls : Append(ls, e)[i] = e
  BY <1>1, RowAppended
<1> QED BY <1>1, <1>2, <1>3 DEF LinksFrom

(* The links that an update finds are spent, and no other changes. *)
LEMMA LinksConsumed ==
    ASSUME NEW ls \in Seq(LinkRow), NEW kinds, NEW u, NEW W
    PROVE  /\ LinksFrom(ls, Consume(ls, kinds, u), W)
           /\ DOMAIN Consume(ls, kinds, u) = DOMAIN ls
           /\ \A l \in DOMAIN ls :
                ls[l].kind \in kinds /\ ls[l].user = u => Consume(ls, kinds, u)[l].st = "spent"
<1> DEFINE f == Consume(ls, kinds, u)
<1>1. f = [l \in DOMAIN ls |-> f[l]]
  BY DEF Consume
<1>2. ASSUME NEW l \in DOMAIN ls
      PROVE  /\ f[l] \in LinkRow
             /\ f[l] = ls[l] \/ (f[l] = [ls[l] EXCEPT !.st = "spent"] /\ ls[l].st \in Unspent)
             /\ ls[l].kind \in kinds /\ ls[l].user = u => f[l].st = "spent"
  <2>1. ls[l] \in LinkRow
    BY RowTyped
  <2>2. f[l] = IF ls[l].kind \in kinds /\ ls[l].user = u /\ ls[l].st \in Unspent
               THEN [ls[l] EXCEPT !.st = "spent"] ELSE ls[l]
    BY DEF Consume
  <2>3. [ls[l] EXCEPT !.st = "spent"] \in LinkRow /\ [ls[l] EXCEPT !.st = "spent"].st = "spent"
    BY <2>1 DEF LinkRow
  <2>4. ls[l].st \notin Unspent => ls[l].st = "spent"
    BY <2>1 DEF LinkRow
  <2> QED BY <2>1, <2>2, <2>3, <2>4
<1> HIDE DEF f
<1>3. f \in Seq(LinkRow) /\ DOMAIN f = DOMAIN ls
  BY <1>1, <1>2, RowsRewritten
<1>4. ASSUME NEW l \in DOMAIN ls
      PROVE  /\ f[l].user = ls[l].user
             /\ f[l].uses = ls[l].uses
             /\ f[l].st \in Unspent => ls[l].st \in Unspent
             /\ ls[l].st = "spent" => f[l].st = "spent"
  <2>1. ls[l] \in LinkRow
    BY RowTyped
  <2> QED BY <1>2, <2>1 DEF LinkRow, Unspent
<1>5. LinksFrom(ls, f, W)
  BY <1>3, <1>4 DEF LinksFrom
<1> QED BY <1>2, <1>3, <1>5 DEF f

(* The link that is used is unspent before and spent after. *)
LEMMA LinkSpent ==
    ASSUME Typed, NEW l \in DOMAIN link, link[l].st \in Unspent, NEW W
    PROVE  LinksFrom(link, Spent(l), W)
<1> DEFINE r == [link[l] EXCEPT !.st = "spent", !.uses = @ + 1]
<1>1. link \in Seq(LinkRow) /\ link[l] \in LinkRow
  BY RowTyped DEF Typed
<1>2. r \in LinkRow /\ r.user = link[l].user /\ r.st = "spent"
  <2>1. ASSUME NEW q \in LinkRow, NEW n \in Nat
        PROVE  [q EXCEPT !.st = "spent", !.uses = n] \in LinkRow
    BY DEF LinkRow
  <2>2. link[l].uses + 1 \in Nat
    BY <1>1 DEF LinkRow
  <2>3. r = [link[l] EXCEPT !.st = "spent", !.uses = link[l].uses + 1]
    OBVIOUS
  <2>4. r \in LinkRow
    BY <1>1, <2>1, <2>2, <2>3
  <2>5. r.user = link[l].user /\ r.st = "spent"
    BY <1>1 DEF LinkRow
  <2> QED BY <2>4, <2>5
<1>3. Spent(l) = [link EXCEPT ![l] = r]
  BY DEF Spent
<1> HIDE DEF r
<1>4. DOMAIN link = 1 .. Len(link)
  BY <1>1, LenProperties
<1>5. /\ Spent(l) \in Seq(LinkRow)
      /\ \A j \in DOMAIN link : Spent(l)[j] = IF j = l THEN r ELSE link[j]
  BY <1>1, <1>2, <1>3, <1>4, ExceptSeq
<1>6. DOMAIN Spent(l) = DOMAIN link
  BY <1>3
<1> QED BY <1>2, <1>5, <1>6 DEF LinksFrom

(* A row already there is as it was or closed. *)
Held(i) ==
    session'[i] = session[i] \/ session'[i] = [session[i] EXCEPT !.live = FALSE]

(* A session opened is a new row. *)
LEMMA SessionOpened ==
    ASSUME Typed, NEW u \in Users, NEW pw \in Nat, NEW raced \in BOOLEAN,
           session' = Open(u, pw, raced)
    PROVE  /\ session' \in Seq(SessionRow) /\ DOMAIN session \subseteq DOMAIN session'
           /\ \A i \in DOMAIN session : Held(i)
           /\ \A i \in DOMAIN session' \ DOMAIN session :
                 session'[i] = [user |-> u, pw |-> pw, live |-> TRUE, raced |-> raced]
<1> DEFINE e == [user |-> u, pw |-> pw, live |-> TRUE, raced |-> raced]
<1>1. e \in SessionRow
  BY DEF SessionRow
<1>2. session' = Append(session, e)
  BY DEF Open
<1> HIDE DEF e
<1>3. /\ Append(session, e) \in Seq(SessionRow)
      /\ DOMAIN session \subseteq DOMAIN Append(session, e)
      /\ \A i \in DOMAIN session : Append(session, e)[i] = session[i]
      /\ \A i \in DOMAIN Append(session, e) \ DOMAIN session : Append(session, e)[i] = e
  BY <1>1, RowAppended DEF Typed
<1> QED BY <1>2, <1>3 DEF Held, e

(* Revoking closes the sessions of one person. *)
LEMMA SessionsRevoked ==
    ASSUME Typed, NEW u, session' = RevokeSessions(u)
    PROVE  /\ session' \in Seq(SessionRow) /\ DOMAIN session' = DOMAIN session
           /\ \A i \in DOMAIN session : Held(i)
           /\ \A i \in DOMAIN session' : session'[i].user = u => ~ session'[i].live
<1>1. session' = [i \in DOMAIN session |-> session'[i]]
  BY DEF RevokeSessions
<1>2. ASSUME NEW i \in DOMAIN session
      PROVE  /\ session'[i] \in SessionRow
             /\ Held(i)
             /\ session'[i].user = u => ~ session'[i].live
  <2>1. session[i] \in SessionRow
    BY RowTyped DEF Typed
  <2>2. session'[i] = IF session[i].user = u THEN [session[i] EXCEPT !.live = FALSE]
                      ELSE session[i]
    BY DEF RevokeSessions
  <2>3. /\ [session[i] EXCEPT !.live = FALSE] \in SessionRow
        /\ [session[i] EXCEPT !.live = FALSE].live = FALSE
    BY <2>1 DEF SessionRow
  <2> QED BY <2>1, <2>2, <2>3 DEF Held
<1>3. session' \in Seq(SessionRow) /\ DOMAIN session' = DOMAIN session
  BY <1>1, <1>2, RowsRewritten DEF Typed
<1> QED BY <1>2, <1>3

(* Logging out closes one session. *)
LEMMA SessionClosed ==
    ASSUME Typed, NEW i \in DOMAIN session, session' = Closed(i)
    PROVE  /\ session' \in Seq(SessionRow) /\ DOMAIN session' = DOMAIN session
           /\ \A j \in DOMAIN session : Held(j)
<1> DEFINE r == [session[i] EXCEPT !.live = FALSE]
<1>1. session \in Seq(SessionRow) /\ session[i] \in SessionRow
  BY RowTyped DEF Typed
<1>2. r \in SessionRow
  BY <1>1 DEF SessionRow
<1>3. session' = [session EXCEPT ![i] = r]
  BY DEF Closed
<1>4. DOMAIN session = 1 .. Len(session)
  BY <1>1, LenProperties
<1> HIDE DEF r
<1>5. session' \in Seq(SessionRow)
  BY <1>1, <1>2, <1>3, <1>4, ExceptSeq
<1>6. DOMAIN session' = DOMAIN session
  BY <1>3
<1>7. ASSUME NEW j \in DOMAIN session PROVE Held(j)
  BY <1>3, <1>7 DEF Held, r
<1> QED BY <1>5, <1>6, <1>7

-----------------------------------------------------------------------------

(* Which actions write what *)

LEMMA ActionsOfPeople ==
    ASSUME Next
    PROVE  \/ UNCHANGED people
           \/ \E u \in Users, got \in BOOLEAN :
                 RequestReset(u, got) \/ Provision(u, got) \/ ReplayProvision(u, got)
           \/ \E l \in DOMAIN link : Age(l)
           \/ \E s \in Slots :
                 \/ InsertSession(s) \/ CreateBusiness(s) \/ Reset(s) \/ Confirm(s)
                 \/ ConsumeHandoff(s) \/ Logout(s) \/ AddMember(s) \/ DeleteMember(s)
                 \/ DeleteTenant(s)
<1>1. ASSUME IdentityNext, ~ UNCHANGED people
      PROVE  \/ \E u \in Users, got \in BOOLEAN :
                   RequestReset(u, got) \/ Provision(u, got) \/ ReplayProvision(u, got)
             \/ \E l \in DOMAIN link : Age(l)
             \/ \E s \in Slots : \/ InsertSession(s) \/ CreateBusiness(s) \/ Reset(s)
                                 \/ Confirm(s) \/ ConsumeHandoff(s)
  BY <1>1 DEF IdentityNext, ResetMail, VerificationMail, Login, Register, FollowLink, LinkRefused
<1>2. ASSUME RequestNext, ~ UNCHANGED people
      PROVE  \E s \in Slots :
                Logout(s) \/ AddMember(s) \/ DeleteMember(s) \/ DeleteTenant(s)
  BY <1>2 DEF RequestNext, Send, Authorize, CheckMember, ChangeRole, MemberFails, Connect,
              CompleteOAuth, CheckShop, Write, StoreItem, SyncItem, Commit, SyncFails
<1> QED BY <1>1, <1>2 DEF Next

LEMMA ActionsOfStaff ==
    ASSUME Next
    PROVE  \/ UNCHANGED staff
           \/ \E u \in Users, got \in BOOLEAN : Provision(u, got)
           \/ \E s \in Slots : \/ CreateBusiness(s) \/ AddMember(s) \/ ChangeRole(s)
                               \/ DeleteMember(s) \/ DeleteTenant(s)
<1>1. ASSUME IdentityNext, ~ UNCHANGED staff
      PROVE  \/ \E u \in Users, got \in BOOLEAN : Provision(u, got)
             \/ \E s \in Slots : CreateBusiness(s)
  BY <1>1 DEF IdentityNext, ResetMail, VerificationMail, Login, Register, FollowLink, LinkRefused,
              RequestReset, ReplayProvision, Age, InsertSession, Reset, Confirm, ConsumeHandoff
<1>2. ASSUME RequestNext, ~ UNCHANGED staff
      PROVE  \E s \in Slots :
                AddMember(s) \/ ChangeRole(s) \/ DeleteMember(s) \/ DeleteTenant(s)
  BY <1>2 DEF RequestNext, Send, Authorize, Logout, CheckMember, MemberFails, Connect,
              CompleteOAuth, CheckShop, Write, StoreItem, SyncItem, Commit, SyncFails
<1> QED BY <1>1, <1>2 DEF Next

LEMMA ActionsOfShop ==
    ASSUME Next
    PROVE  \/ UNCHANGED shop
           \/ \E u \in Users, got \in BOOLEAN : Provision(u, got)
           \/ \E s \in Slots : CreateBusiness(s) \/ StoreItem(s) \/ Commit(s) \/ DeleteTenant(s)
<1>1. ASSUME IdentityNext, ~ UNCHANGED shop
      PROVE  \/ \E u \in Users, got \in BOOLEAN : Provision(u, got)
             \/ \E s \in Slots : CreateBusiness(s)
  BY <1>1 DEF IdentityNext, ResetMail, VerificationMail, Login, Register, FollowLink, LinkRefused,
              RequestReset, ReplayProvision, Age, InsertSession, Reset, Confirm, ConsumeHandoff
<1>2. ASSUME RequestNext, ~ UNCHANGED shop
      PROVE  \E s \in Slots : StoreItem(s) \/ Commit(s) \/ DeleteTenant(s)
  BY <1>2, ZenonT(60) DEF RequestNext, Send, Authorize, Logout, CheckMember, MemberFails, AddMember, ChangeRole,
              DeleteMember, Connect, CompleteOAuth, CheckShop, Write, SyncItem, SyncFails
<1> QED BY <1>1, <1>2 DEF Next

-----------------------------------------------------------------------------

(* What a step does to the links *)

Present == {u \in Users : user[u].st # "none"}

LEMMA LinksSame ==
    ASSUME Typed, NEW W
    PROVE  LinksFrom(link, link, W)
<1>1. link \in Seq(LinkRow)
  BY DEF Typed
<1> QED BY <1>1 DEF LinksFrom

(* Time passing. *)
LEMMA LinkAged ==
    ASSUME Typed, NEW l \in DOMAIN link, Age(l), NEW W
    PROVE  LinksFrom(link, link', W)
<1> DEFINE st == IF link[l].st = "young" THEN "old" ELSE "expired"
           r == [link[l] EXCEPT !.st = st]
<1>1. link \in Seq(LinkRow) /\ link[l] \in LinkRow
  BY RowTyped DEF Typed
<1>2. r \in LinkRow /\ r.user = link[l].user /\ r.uses = link[l].uses
  BY <1>1 DEF LinkRow, Unspent
<1>3. link[l].st \in Unspent /\ link[l].st # "spent"
  BY DEF Age, Live, Unspent
<1>4. link' = [link EXCEPT ![l] = r]
  BY DEF Age
<1> HIDE DEF r
<1>5. DOMAIN link = 1 .. Len(link)
  BY <1>1, LenProperties
<1>6. /\ link' \in Seq(LinkRow)
      /\ \A j \in DOMAIN link : link'[j] = IF j = l THEN r ELSE link[j]
  BY <1>1, <1>2, <1>4, <1>5, ExceptSeq
<1>7. DOMAIN link' = DOMAIN link
  BY <1>4
<1> QED BY <1>2, <1>3, <1>6, <1>7 DEF LinksFrom

(* The deletion of the tenant drops its handoffs. *)
LEMMA HandoffsDropped ==
    ASSUME Typed, NEW s \in Slots, DeleteTenant(s), NEW W
    PROVE  LinksFrom(link, link', W)
<1>1. link' = [l \in DOMAIN link |-> link'[l]]
  BY DEF DeleteTenant
<1>2. ASSUME NEW l \in DOMAIN link
      PROVE  /\ link'[l] \in LinkRow
             /\ link'[l].user = link[l].user
             /\ link'[l].uses = link[l].uses
             /\ link'[l].st \in Unspent => link[l].st \in Unspent
             /\ link[l].st = "spent" => link'[l].st = "spent"
  <2>1. link[l] \in LinkRow
    BY RowTyped DEF Typed
  <2>2. link'[l] = link[l] \/ link'[l] = [link[l] EXCEPT !.st = "spent"]
    BY DEF DeleteTenant
  <2>3. [link[l] EXCEPT !.st = "spent"] \in LinkRow
    BY <2>1 DEF LinkRow
  <2>4. "spent" \notin Unspent
    BY DEF Unspent
  <2> QED BY <2>1, <2>2, <2>3, <2>4 DEF LinkRow
<1>3. link' \in Seq(LinkRow) /\ DOMAIN link' = DOMAIN link
  BY <1>1, <1>2, RowsRewritten DEF Typed
<1> QED BY <1>2, <1>3 DEF LinksFrom

(* The challenge and the handoff issued with an owner are the owner's. *)
LEMMA CredentialsIssued ==
    ASSUME NEW ls \in Seq(LinkRow), NEW u \in Users, NEW st, NEW got \in BOOLEAN,
           NEW W, u \in W
    PROVE  LinksFrom(ls, Credentials(ls, u, st, got), W)
<1> DEFINE cs == Consume(ls, Challenges, u)
           told == IF st = "active" THEN ls ELSE Issue(cs, "verify", u, got)
<1>0. LinksFrom(ls, cs, W)
  BY LinksConsumed
<1>1. LinksFrom(ls, cs, W) /\ cs \in Seq(LinkRow)
  BY <1>0 DEF LinksFrom
<1>2. LinksFrom(cs, Issue(cs, "verify", u, got), W)
  BY <1>1, LinkIssued DEF Challenges
<1>3. LinksFrom(ls, Issue(cs, "verify", u, got), W)
  BY <1>1, <1>2, LinksCompose
<1>4. LinksFrom(ls, ls, W)
  BY DEF LinksFrom
<1>5. LinksFrom(ls, told, W) /\ told \in Seq(LinkRow)
  BY <1>3, <1>4 DEF LinksFrom
<1>6. LinksFrom(told, Issue(told, "handoff", u, TRUE), W)
  BY <1>5, LinkIssued
<1>7. Credentials(ls, u, st, got) = Issue(told, "handoff", u, TRUE)
  BY DEF Credentials
<1> HIDE DEF told
<1> QED BY <1>5, <1>6, <1>7, LinksCompose

(* A link is of the same person for ever, spent once, and issued to people who are there. *)
LEMMA LinksMove ==
    ASSUME Inv, Next
    PROVE  LinksFrom(link, link', Present')
<1> USE DEF Inv
<1>t. Typed /\ link \in Seq(LinkRow)
  BY DEF Typed
<1>0. CASE UNCHANGED people
  BY <1>0, LinksSame DEF people
<1>1. ASSUME NEW u \in Users, NEW got \in BOOLEAN, RequestReset(u, got)
      PROVE  LinksFrom(link, link', Present')
  <2>1. u \in Present'
    BY <1>1 DEF RequestReset, Present
  <2>2. LinksFrom(link, Consume(link, {"reset"}, u), Present')
    BY <1>t, LinksConsumed
  <2>3. Consume(link, {"reset"}, u) \in Seq(LinkRow)
    BY <2>2 DEF LinksFrom
  <2>4. LinksFrom(Consume(link, {"reset"}, u), link', Present')
    BY <1>1, <2>1, <2>3, LinkIssued DEF RequestReset, Challenges
  <2> QED BY <2>2, <2>4, LinksCompose
<1>2. ASSUME NEW u \in Users, NEW got \in BOOLEAN, Provision(u, got)
      PROVE  LinksFrom(link, link', Present')
  <2>1. u \in Present'
    BY <1>2 DEF Provision, Present, Typed, UserRow
  <2> QED BY <1>t, <1>2, <2>1, CredentialsIssued DEF Provision
<1>3. ASSUME NEW u \in Users, NEW got \in BOOLEAN, ReplayProvision(u, got)
      PROVE  LinksFrom(link, link', Present')
  <2>1. u \in Present'
    BY <1>3 DEF ReplayProvision, Present, RolesAgree, Members
  <2>2. LinksFrom(link, Consume(link, {"handoff"}, u), Present')
    BY <1>t, LinksConsumed
  <2>3. Consume(link, {"handoff"}, u) \in Seq(LinkRow)
    BY <2>2 DEF LinksFrom
  <2>4. LinksFrom(Consume(link, {"handoff"}, u), link', Present')
    BY <1>3, <2>1, <2>3, CredentialsIssued DEF ReplayProvision
  <2> QED BY <2>2, <2>4, LinksCompose
<1>4. ASSUME NEW l \in DOMAIN link, Age(l) PROVE LinksFrom(link, link', Present')
  BY <1>t, <1>4, LinkAged
<1>5. ASSUME NEW s \in Slots,
             Reset(s) \/ Confirm(s) \/ ConsumeHandoff(s)
      PROVE  LinksFrom(link, link', Present')
  <2> DEFINE l == calls[s].id
  <2>1. calls[s].op \in LinkOps /\ Spendable(s)
    BY <1>5 DEF Reset, Confirm, ConsumeHandoff, LinkOps
  <2>2. calls[s].phase = "found" /\ l \in DOMAIN link
    BY <2>1 DEF CallsShaped, CallShaped, PeopleCalls, PeopleCall
  <2>3. link[l].st \in Unspent
    BY <2>1 DEF Spendable, Live, Unspent
  <2>4. LinksFrom(link, Spent(l), Present') /\ Spent(l) \in Seq(LinkRow)
    BY <1>t, <2>2, <2>3, LinkSpent DEF LinksFrom
  <2>5. link' = Spent(l) \/ link' = Consume(Spent(l), {"reset"}, calls[s].who)
    BY <1>5 DEF Reset, Confirm, ConsumeHandoff
  <2>6. LinksFrom(Spent(l), Consume(Spent(l), {"reset"}, calls[s].who), Present')
    BY <2>4, LinksConsumed
  <2> QED BY <2>4, <2>5, <2>6, LinksCompose
<1>6. ASSUME NEW s \in Slots, DeleteMember(s) PROVE LinksFrom(link, link', Present')
  <2>1. \/ link' = link
        \/ link' = Consume(link, Challenges \cup {"handoff"}, calls[s].on)
    BY <1>6 DEF DeleteMember
  <2> QED BY <1>t, <2>1, LinksSame, LinksConsumed
<1>7. ASSUME NEW s \in Slots, DeleteTenant(s) PROVE LinksFrom(link, link', Present')
  BY <1>t, <1>7, HandoffsDropped
<1>8. ASSUME NEW s \in Slots,
             InsertSession(s) \/ CreateBusiness(s) \/ Logout(s) \/ AddMember(s)
      PROVE  LinksFrom(link, link', Present')
  <2>1. link' = link
    BY <1>8 DEF InsertSession, CreateBusiness, Logout, AddMember
  <2> QED BY <1>t, <2>1, LinksSame
<1> QED BY <1>0, <1>1, <1>2, <1>3, <1>4, <1>5, <1>6, <1>7, <1>8, ActionsOfPeople

-----------------------------------------------------------------------------

(* What a step does to people and their sessions *)

LoggedOut(u) == \A i \in DOMAIN session : session[i].user = u => ~ session[i].live
Linkless(u) == \A l \in DOMAIN link : link[l].user = u => link[l].st = "spent"
Overtaken(u) == \A s \in Slots : calls[s].phase = "hashing" /\ calls[s].who = u => calls[s].crossed

(* A row changes by an activation, by being made, by a reset or by a deletion, *)
(* and the last two close what was open.                                       *)
UserMoved(u) ==
    \/ user'[u] = user[u]
    \/ user[u].st # "none" /\ user'[u] = [user[u] EXCEPT !.st = "active"]
    \/ /\ user[u].st = "none"
       /\ user'[u].st # "none" /\ user'[u].pw = 0 /\ user'[u].gen = user[u].gen
    \/ /\ user[u].st # "none" /\ user'[u] = [user[u] EXCEPT !.pw = @ + 1]
       /\ LoggedOut(u)' /\ Overtaken(u)'
    \/ /\ user'[u] = [st |-> "none", pw |-> 0, gen |-> user[u].gen + 1]
       /\ LoggedOut(u)' /\ Linkless(u)' /\ member'[u] = NoMember

(* The request in a slot has the fields of a call. *)
LEMMA CallTyped ==
    ASSUME Typed, NEW s \in Slots
    PROVE  calls[s] \in Call
BY DEF Typed

(* The links a deletion spends are all of that person's. *)
LEMMA LinksWithdrawn ==
    ASSUME Typed, NEW u \in Users,
           link' = Consume(link, Challenges \cup {"handoff"}, u)
    PROVE  Linkless(u)'
<1>1. /\ LinksFrom(link, link', Users)
      /\ DOMAIN link' = DOMAIN link
      /\ \A l \in DOMAIN link :
            link[l].kind \in Challenges \cup {"handoff"} /\ link[l].user = u => link'[l].st = "spent"
  <2>1. link \in Seq(LinkRow)
    BY DEF Typed
  <2>2. PICK ks : ks = Challenges \cup {"handoff"}
    OBVIOUS
  <2>3. /\ LinksFrom(link, Consume(link, ks, u), Users)
        /\ DOMAIN Consume(link, ks, u) = DOMAIN link
        /\ \A l \in DOMAIN link :
             link[l].kind \in ks /\ link[l].user = u => Consume(link, ks, u)[l].st = "spent"
    BY <2>1, LinksConsumed
  <2> QED BY <2>2, <2>3
<1>2. ASSUME NEW l \in DOMAIN link', link'[l].user = u
      PROVE  link'[l].st = "spent"
  <2>1. link[l] \in LinkRow /\ link[l].user = u
    BY <1>1, <1>2, RowTyped DEF Typed, LinksFrom
  <2> QED BY <1>1, <2>1 DEF LinkRow
<1> QED BY <1>2 DEF Linkless

LEMMA UsersMove ==
    ASSUME Inv, Next, NEW v
    PROVE  user' \in [Users -> UserRow] /\ (v \in Users => UserMoved(v))
<1> USE DEF Inv
<1>t. user \in [Users -> UserRow] /\ Typed
  BY DEF Typed
<1>r. \A u \in Users : /\ user[u] \in UserRow
                       /\ user[u].pw \in Nat /\ user[u].gen \in Nat
  BY <1>t DEF UserRow
<1>a. ASSUME NEW q \in UserRow, NEW st \in {"none", "pending", "active"}, NEW n \in Nat
      PROVE  /\ [q EXCEPT !.st = st] \in UserRow
             /\ [q EXCEPT !.st = st].st = st
             /\ [q EXCEPT !.pw = n] \in UserRow
             /\ [q EXCEPT !.pw = n].st = q.st
  BY DEF UserRow
<1>0. CASE user' = user
  BY <1>0, <1>t DEF UserMoved
<1>1. ASSUME NEW u \in Users, NEW got \in BOOLEAN, Provision(u, got)
      PROVE  user' \in [Users -> UserRow] /\ (v \in Users => UserMoved(v))
  <2>1. CASE user[u].st = "none"
    <3>1. user' = [user EXCEPT ![u] = [user[u] EXCEPT !.st = "pending"]]
      BY <1>1, <2>1 DEF Provision
    <3>2. user' \in [Users -> UserRow]
      BY <3>1, <1>t, <1>r, <1>a
    <3>3. user[u].pw = 0
      BY <2>1 DEF PeopleAgree
    <3>4. CASE v # u
      BY <3>1, <3>2, <3>4, <1>t DEF UserMoved
    <3>5. CASE v = u
      <4>1. user'[u] = [user[u] EXCEPT !.st = "pending"]
        BY <3>1, <1>t
      <4>2. user'[u].st = "pending" /\ user'[u].pw = 0 /\ user'[u].gen = user[u].gen
        BY <4>1, <3>3, <1>r DEF UserRow
      <4> QED BY <4>2, <3>2, <3>5, <2>1 DEF UserMoved
    <3> QED BY <3>2, <3>4, <3>5
  <2>2. CASE user[u].st # "none"
    <3>1. user' = [user EXCEPT ![u] = [user[u] EXCEPT !.st = user[u].st]]
      BY <1>1, <2>2 DEF Provision
    <3>2. [user[u] EXCEPT !.st = user[u].st] = user[u]
      BY <1>r DEF UserRow
    <3>3. user' = user
      BY <3>1, <3>2, <1>t
    <3> QED BY <3>3, <1>0
  <2> QED BY <2>1, <2>2
<1>2. ASSUME NEW u \in Users, user[u].st = "none",
             user' = [user EXCEPT ![u] = NewUser(u, "active")]
      PROVE  user' \in [Users -> UserRow] /\ (v \in Users => UserMoved(v))
  <2>1. /\ NewUser(u, "active") \in UserRow
        /\ NewUser(u, "active").st = "active" /\ NewUser(u, "active").pw = 0
        /\ NewUser(u, "active").gen = user[u].gen
    BY <1>r DEF NewUser, UserRow
  <2> QED BY <2>1, <1>2, <1>t DEF UserMoved
<1>3. ASSUME NEW s \in Slots, CreateBusiness(s)
      PROVE  user' \in [Users -> UserRow] /\ (v \in Users => UserMoved(v))
  <2>1. calls[s].phase = "hashing"
    BY <1>3 DEF CreateBusiness, CallsShaped, CallShaped
  <2>2. calls[s].who \in Users
    BY <2>1 DEF CallsShaped, CallShaped
  <2>3. \/ user' = user
        \/ /\ user[calls[s].who].st = "none"
           /\ user' = [user EXCEPT ![calls[s].who] = NewUser(calls[s].who, "active")]
    BY <1>3 DEF CreateBusiness
  <2> QED BY <1>0, <1>2, <2>2, <2>3
<1>4. ASSUME NEW s \in Slots, AddMember(s)
      PROVE  user' \in [Users -> UserRow] /\ (v \in Users => UserMoved(v))
  <2>1. calls[s].on \in Users
    BY <1>4 DEF AddMember, CallsShaped, CallShaped, MemberOps
  <2>2. \/ user' = user
        \/ /\ user[calls[s].on].st = "none"
           /\ user' = [user EXCEPT ![calls[s].on] = NewUser(calls[s].on, "active")]
    BY <1>4 DEF AddMember
  <2> QED BY <1>0, <1>2, <2>1, <2>2
<1>5. ASSUME NEW s \in Slots, Confirm(s)
      PROVE  user' \in [Users -> UserRow] /\ (v \in Users => UserMoved(v))
  <2> DEFINE u == calls[s].who
  <2>1. calls[s].phase = "found" /\ u \in Users
    BY <1>5 DEF Confirm, CallsShaped, CallShaped, LinkOps
  <2>2. calls[s].id \in DOMAIN link /\ link[calls[s].id].user = u
    BY <2>1 DEF PeopleCalls, PeopleCall
  <2>3. user[u].st # "none"
    BY <1>5, <2>2 DEF Confirm, Spendable, PeopleAgree
  <2>4. user' = [user EXCEPT ![u] = [user[u] EXCEPT !.st = "active"]]
    BY <1>5 DEF Confirm
  <2> HIDE DEF u
  <2>5. user' \in [Users -> UserRow]
    BY <2>1, <2>4, <1>t, <1>r, <1>a
  <2> QED BY <2>1, <2>3, <2>4, <2>5, <1>t DEF UserMoved
<1>6. ASSUME NEW s \in Slots, Reset(s)
      PROVE  user' \in [Users -> UserRow] /\ (v \in Users => UserMoved(v))
  <2> PICK u : u = calls[s].who
    OBVIOUS
  <2>1. u \in Users
    BY <1>6 DEF Reset, CallsShaped, CallShaped, LinkOps
  <2>2. user[u].st # "none" /\ user' = [user EXCEPT ![u] = [user[u] EXCEPT !.pw = @ + 1]]
    BY <1>6 DEF Reset
  <2>3. user' \in [Users -> UserRow]
    <3>1. user[u] \in UserRow /\ user[u].pw + 1 \in Nat
      BY <2>1, <1>r
    <3>2. [user[u] EXCEPT !.pw = user[u].pw + 1] \in UserRow
      BY <3>1 DEF UserRow
    <3> QED BY <3>2, <2>1, <2>2, <1>t
  <2>4. LoggedOut(u)'
    <3>1. session' = RevokeSessions(u)
      BY <1>6 DEF Reset
    <3> QED BY <3>1, <1>t, SessionsRevoked DEF LoggedOut
  <2>5. Overtaken(u)'
    <3>1. ASSUME NEW t \in Slots, calls'[t].phase = "hashing", calls'[t].who = u
          PROVE  calls'[t].crossed
      <4>1. calls[t] \in Call
        BY <1>t, CallTyped
      <4>2. calls'[t] = IF t = s THEN NoCall
                        ELSE IF calls[t].phase = "hashing" /\ calls[t].who = u
                             THEN [calls[t] EXCEPT !.crossed = TRUE] ELSE calls[t]
        BY <1>6 DEF Reset, Overtaking
      <4>3. NoCall.phase = "free" /\ [calls[t] EXCEPT !.crossed = TRUE].crossed = TRUE
        BY <4>1 DEF NoCall, Call
      <4> QED BY <3>1, <4>2, <4>3
    <3> QED BY <3>1 DEF Overtaken
  <2>6. CASE v = u
    <3>1. user'[v] = [user[v] EXCEPT !.pw = @ + 1]
      BY <2>1, <2>2, <2>6, <1>t
    <3> QED BY <3>1, <2>2, <2>3, <2>4, <2>5, <2>6 DEF UserMoved
  <2>7. CASE v # u
    BY <2>2, <2>3, <2>7, <1>t DEF UserMoved
  <2> QED BY <2>6, <2>7
<1>7. ASSUME NEW s \in Slots, DeleteMember(s)
      PROVE  user' \in [Users -> UserRow] /\ (v \in Users => UserMoved(v))
  <2> PICK u : u = calls[s].on
    OBVIOUS
  <2> PICK r : r = [st |-> "none", pw |-> 0, gen |-> user[u].gen + 1]
    OBVIOUS
  <2>1. u \in Users
    BY <1>7 DEF DeleteMember, CallsShaped, CallShaped, MemberOps
  <2>2. CASE ~ Unassigned(u, Without(calls[s]))
    <3>1. user' = user
      BY <1>7, <2>2 DEF DeleteMember
    <3> QED BY <3>1, <1>0
  <2>3. CASE Unassigned(u, Without(calls[s]))
    <3>1. user' = [user EXCEPT ![u] = r]
      <4>1. [NoUser EXCEPT !.gen = user[u].gen + 1] = r
        BY DEF NoUser
      <4>2. user' = [user EXCEPT ![u] = [NoUser EXCEPT !.gen = user[u].gen + 1]]
        BY <1>7, <2>3 DEF DeleteMember
      <4> QED BY <4>1, <4>2
    <3>2. r \in UserRow
      BY <2>1, <1>r DEF UserRow
    <3>3. member'[u] = NoMember
      BY <1>7, <2>3 DEF DeleteMember, Unassigned
    <3>4. session' = RevokeSessions(u) /\ link' = Consume(link, Challenges \cup {"handoff"}, u)
      BY <1>7, <2>3 DEF DeleteMember
    <3>5. LoggedOut(u)'
      BY <3>4, <1>t, SessionsRevoked DEF LoggedOut
    <3>6. Linkless(u)'
      BY <3>4, <2>1, <1>t, LinksWithdrawn
    <3>7. user' \in [Users -> UserRow]
      BY <3>1, <3>2, <1>t
    <3>8. CASE v = u
      <4>1. user'[v] = [st |-> "none", pw |-> 0, gen |-> user[v].gen + 1]
        BY <3>1, <3>8, <2>1, <1>t
      <4> QED BY <4>1, <3>3, <3>5, <3>6, <3>7, <3>8 DEF UserMoved
    <3>9. CASE v # u
      BY <3>1, <3>7, <3>9, <1>t DEF UserMoved
    <3> QED BY <3>8, <3>9
  <2> QED BY <2>2, <2>3
<1>8. ASSUME NEW s \in Slots, InsertSession(s) \/ ConsumeHandoff(s) \/ Logout(s) \/ DeleteTenant(s)
      PROVE  user' = user
  BY <1>8 DEF InsertSession, ConsumeHandoff, Logout, DeleteTenant
<1>9. ASSUME NEW u \in Users, NEW got \in BOOLEAN, RequestReset(u, got) \/ ReplayProvision(u, got)
      PROVE  user' = user
  BY <1>9 DEF RequestReset, ReplayProvision
<1>10. ASSUME NEW l \in DOMAIN link, Age(l) PROVE user' = user
  BY <1>10 DEF Age
<1>11. UNCHANGED people => user' = user
  BY DEF people
<1> QED BY <1>0, <1>1, <1>3, <1>4, <1>5, <1>6, <1>7, <1>8, <1>9, <1>10, <1>11, ActionsOfPeople

(* A session opened is of a person who is there, with the current password, or raced. *)
SessionMade(i) ==
    /\ user[session[i].user].st # "none"
    /\ session[i].pw = user[session[i].user].pw \/ session[i].raced

LEMMA SessionsMove ==
    ASSUME Inv, Next
    PROVE  /\ session' \in Seq(SessionRow) /\ DOMAIN session \subseteq DOMAIN session'
           /\ \A i \in DOMAIN session : Held(i)
           /\ \A i \in DOMAIN session' \ DOMAIN session : SessionMade(i)'
<1> USE DEF Inv
<1> DEFINE Goal == /\ session' \in Seq(SessionRow) /\ DOMAIN session \subseteq DOMAIN session'
                   /\ \A i \in DOMAIN session : Held(i)
                   /\ \A i \in DOMAIN session' \ DOMAIN session : SessionMade(i)'
<1>t. Typed /\ session \in Seq(SessionRow) /\ user \in [Users -> UserRow]
  BY DEF Typed
<1>0. ASSUME session' = session PROVE Goal
  BY <1>0, <1>t DEF Held
<1>1. ASSUME NEW u \in Users, NEW pw \in Nat, NEW raced \in BOOLEAN,
             session' = Open(u, pw, raced), user'[u].st # "none", pw = user'[u].pw \/ raced
      PROVE  Goal
  <2>1. /\ session' \in Seq(SessionRow) /\ DOMAIN session \subseteq DOMAIN session'
        /\ \A i \in DOMAIN session : Held(i)
        /\ \A i \in DOMAIN session' \ DOMAIN session :
              session'[i] = [user |-> u, pw |-> pw, live |-> TRUE, raced |-> raced]
    BY <1>1, <1>t, SessionOpened
  <2>2. ASSUME NEW i \in DOMAIN session' \ DOMAIN session PROVE SessionMade(i)'
    <3>1. session'[i].user = u /\ session'[i].pw = pw /\ session'[i].raced = raced
      BY <2>1
    <3> QED BY <1>1, <3>1 DEF SessionMade
  <2> QED BY <2>1, <2>2
<1>2. ASSUME NEW u \in Users, session' = RevokeSessions(u) PROVE Goal
  BY <1>2, <1>t, SessionsRevoked
<1>3. ASSUME NEW s \in Slots, InsertSession(s) PROVE Goal
  <2>1. PICK c : c = calls[s]
    OBVIOUS
  <2>2. c \in Call /\ c.op = "login"
    BY <2>1, <1>3, <1>t, CallTyped DEF InsertSession
  <2>3. c.phase = "hashing" /\ c.who \in Users
    BY <2>1, <2>2 DEF CallsShaped, CallShaped
  <2>4. c.pw \in Nat /\ c.crossed \in BOOLEAN
    BY <2>2 DEF Call
  <2>5. CASE Known(c, user)
    <3>1. session' = Open(c.who, c.pw, c.crossed) /\ user' = user
      BY <1>3, <2>1, <2>5 DEF InsertSession
    <3>2. user[c.who].st # "none" /\ (c.pw = user[c.who].pw \/ c.crossed)
      BY <2>1, <2>3, <2>5 DEF Known, PeopleCalls, PeopleCall
    <3> QED BY <1>1, <2>3, <2>4, <3>1, <3>2
  <2>6. CASE ~ Known(c, user)
    BY <1>0, <1>3, <2>1, <2>6 DEF InsertSession
  <2> QED BY <2>5, <2>6
<1>4. ASSUME NEW s \in Slots, CreateBusiness(s) PROVE Goal
  <2>1. PICK c : c = calls[s]
    OBVIOUS
  <2>2. c \in Call /\ c.op = "register"
    BY <2>1, <1>4, <1>t, CallTyped DEF CreateBusiness
  <2>3. c.phase = "hashing" /\ c.who \in Users
    BY <2>1, <2>2 DEF CallsShaped, CallShaped
  <2>4. c.pw \in Nat /\ c.crossed \in BOOLEAN
    BY <2>2 DEF Call
  <2>5. CASE session' = session
    BY <1>0, <2>5
  <2>6. CASE session' # session /\ c.arg = "none"
    <3>1. /\ session' = Open(c.who, c.pw, c.crossed)
          /\ user' = [user EXCEPT ![c.who] = NewUser(c.who, "active")]
      BY <1>4, <2>1, <2>6 DEF CreateBusiness
    <3>2. c.pw = 0
      BY <2>1, <2>2, <2>3, <2>6 DEF PeopleCalls, PeopleCall
    <3>3. user'[c.who].st # "none" /\ user'[c.who].pw = 0
      BY <3>1, <2>3, <1>t DEF NewUser
    <3> QED BY <1>1, <2>3, <2>4, <3>1, <3>2, <3>3
  <2>7. CASE session' # session /\ c.arg # "none"
    <3>1. session' = Open(c.who, c.pw, c.crossed) /\ user' = user /\ Known(c, user)
      BY <1>4, <2>1, <2>7 DEF CreateBusiness
    <3>2. user[c.who].st # "none" /\ (c.pw = user[c.who].pw \/ c.crossed)
      BY <2>1, <2>3, <3>1 DEF Known, PeopleCalls, PeopleCall
    <3> QED BY <1>1, <2>3, <2>4, <3>1, <3>2
  <2> QED BY <2>5, <2>6, <2>7
<1>5. ASSUME NEW s \in Slots, ConsumeHandoff(s) PROVE Goal
  <2>1. PICK u : u = calls[s].who
    OBVIOUS
  <2>2. calls[s].phase = "found" /\ u \in Users
    BY <2>1, <1>5 DEF ConsumeHandoff, CallsShaped, CallShaped, LinkOps
  <2>3. calls[s].id \in DOMAIN link /\ link[calls[s].id].user = u
    BY <2>1, <2>2 DEF PeopleCalls, PeopleCall
  <2>4. user[u].st # "none"
    BY <1>5, <2>3 DEF ConsumeHandoff, Spendable, PeopleAgree
  <2>5. session' = Open(u, user[u].pw, FALSE) /\ user' = user
    BY <1>5, <2>1 DEF ConsumeHandoff
  <2>6. user[u].pw \in Nat
    BY <2>2, <1>t DEF UserRow
  <2> QED BY <1>1, <2>2, <2>4, <2>5, <2>6
<1>6. ASSUME NEW s \in Slots, Reset(s) PROVE Goal
  <2>1. PICK u : u = calls[s].who
    OBVIOUS
  <2>2. u \in Users /\ session' = RevokeSessions(u)
    BY <2>1, <1>6 DEF Reset, CallsShaped, CallShaped, LinkOps
  <2> QED BY <2>2, <1>2
<1>7. ASSUME NEW s \in Slots, DeleteMember(s) PROVE Goal
  <2>1. PICK u : u = calls[s].on
    OBVIOUS
  <2>2. u \in Users /\ (session' = session \/ session' = RevokeSessions(u))
    BY <2>1, <1>7 DEF DeleteMember, CallsShaped, CallShaped, MemberOps
  <2> QED BY <2>2, <1>0, <1>2
<1>8. ASSUME NEW s \in Slots, Logout(s) PROVE Goal
  <2>1. PICK i : i = calls[s].via
    OBVIOUS
  <2>2. i \in DOMAIN session /\ session' = Closed(i)
    BY <2>1, <1>8 DEF Logout, CallsShaped, CallShaped
  <2> QED BY <2>2, <1>t, SessionClosed
<1>9. ASSUME NEW s \in Slots, Confirm(s) \/ AddMember(s) \/ DeleteTenant(s)
      PROVE  session' = session
  BY <1>9 DEF Confirm, AddMember, DeleteTenant
<1>10. ASSUME NEW u \in Users, NEW got \in BOOLEAN,
              RequestReset(u, got) \/ Provision(u, got) \/ ReplayProvision(u, got)
       PROVE  session' = session
  BY <1>10 DEF RequestReset, Provision, ReplayProvision
<1>11. ASSUME NEW l \in DOMAIN link, Age(l) PROVE session' = session
  BY <1>11 DEF Age
<1>12. UNCHANGED people => session' = session
  BY DEF people
<1> HIDE DEF Goal, Inv
<1>13. Goal
  BY <1>0, <1>3, <1>4, <1>5, <1>6, <1>7, <1>8, <1>9, <1>10, <1>11, <1>12, ActionsOfPeople
<1> QED BY <1>13 DEF Goal

-----------------------------------------------------------------------------

(* What a step does to the members *)

Exposed(c) == c.op \in MemberOps /\ c.phase \in {"authorized", "checked"}
MembersCrossed == \A s \in Slots : Exposed(calls[s]) => calls[s].crossed

(* A membership changes in a business that is there, for a person who is there. *)
MemberMoved(u) ==
    \/ member'[u] = member[u]
    \/ member'[u] = NoMember
    \/ /\ member'[u] \in MemberRow /\ member'[u].role # "none"
       /\ member'[u].id # 0 /\ member'[u].id <= serial'
       /\ Exists' /\ user'[u].st # "none"

(* The first owner, or a new member. *)
LEMMA MemberJoins ==
    ASSUME Typed, NEW u \in Users, NEW role \in Roles, member' = Join(u, role), serial' = serial + 1,
           Exists', user'[u].st # "none", NEW v
    PROVE  /\ member' \in [Users -> MemberRow] /\ serial' \in Nat /\ serial <= serial'
           /\ (v \in Users => MemberMoved(v))
<1> DEFINE r == [role |-> role, id |-> serial + 1]
<1>1. serial \in Nat /\ member \in [Users -> MemberRow]
  BY DEF Typed
<1>2. r \in MemberRow /\ r.role # "none" /\ r.id # 0 /\ r.id <= serial + 1
  BY <1>1 DEF MemberRow, Roles
<1>3. member' = [member EXCEPT ![u] = r]
  BY DEF Join
<1> HIDE DEF r
<1>4. member'[v] = IF v = u THEN r ELSE member[v]
  BY <1>1, <1>3
<1> QED BY <1>1, <1>2, <1>3, <1>4 DEF MemberMoved

(* A role rewritten. *)
LEMMA RoleRewritten ==
    ASSUME Typed, RolesAgree, NEW u \in Users, NEW role \in Roles, u \in Members,
           member' = [member EXCEPT ![u].role = role], serial' = serial,
           Exists', user'[u].st # "none", NEW v
    PROVE  /\ member' \in [Users -> MemberRow] /\ serial' \in Nat /\ serial <= serial'
           /\ (v \in Users => MemberMoved(v))
<1> DEFINE r == [member[u] EXCEPT !.role = role]
<1>1. serial \in Nat /\ member \in [Users -> MemberRow] /\ member[u] \in MemberRow
  BY DEF Typed
<1>2. r \in MemberRow /\ r.role = role /\ r.id = member[u].id
  BY <1>1 DEF MemberRow
<1>3. role # "none" /\ member[u].id # 0 /\ member[u].id <= serial
  BY DEF Roles, RolesAgree, Members
<1>4. member' = [member EXCEPT ![u] = r]
  OBVIOUS
<1> HIDE DEF r
<1>5. member'[v] = IF v = u THEN r ELSE member[v]
  BY <1>1, <1>4
<1>6. member' \in [Users -> MemberRow]
  BY <1>1, <1>2, <1>4
<1> QED BY <1>1, <1>2, <1>3, <1>5, <1>6 DEF MemberMoved

(* The commit of a request about members crosses the others. *)
LEMMA CommitCrosses ==
    ASSUME Typed, NEW s \in Slots, MemberCommit(s)
    PROVE  /\ MembersCrossed'
           /\ memberGap' \in BOOLEAN /\ (memberGap => memberGap')
<1>1. ASSUME NEW t \in Slots, Exposed(calls'[t])
      PROVE  calls'[t].crossed
  <2>1. calls[t] \in Call
    BY CallTyped
  <2>2. calls'[t] = IF t = s THEN NoCall
                    ELSE IF calls[t].phase \in {"authorized", "checked"} /\ calls[t].op \in MemberOps
                         THEN [calls[t] EXCEPT !.crossed = TRUE] ELSE calls[t]
    BY DEF MemberCommit, Overtaking
  <2>3. NoCall.phase = "free" /\ [calls[t] EXCEPT !.crossed = TRUE].crossed = TRUE
    BY <2>1 DEF NoCall, Call
  <2> QED BY <1>1, <2>2, <2>3 DEF Exposed
<1>2. MembersCrossed'
  BY <1>1 DEF MembersCrossed, Exposed
<1>3. memberGap' \in BOOLEAN /\ (memberGap => memberGap')
  BY DEF MemberCommit, Typed
<1> QED BY <1>2, <1>3

LEMMA StaffMoves ==
    ASSUME Inv, Next, NEW v
    PROVE  /\ member' \in [Users -> MemberRow] /\ serial' \in Nat /\ serial <= serial'
           /\ (v \in Users => MemberMoved(v))
           /\ memberGap' \in BOOLEAN /\ (memberGap => memberGap')
           /\ UNCHANGED member \/ tenant.st = "none" \/ ~ Exists' \/ MembersCrossed'
<1> DEFINE Goal == /\ member' \in [Users -> MemberRow] /\ serial' \in Nat /\ serial <= serial'
                   /\ (v \in Users => MemberMoved(v))
                   /\ memberGap' \in BOOLEAN /\ (memberGap => memberGap')
                   /\ UNCHANGED member \/ tenant.st = "none" \/ ~ Exists' \/ MembersCrossed'
<1>i. /\ Typed /\ CallsShaped /\ PeopleAgree /\ PeopleCalls /\ RolesAgree
      /\ member \in [Users -> MemberRow] /\ serial \in Nat /\ memberGap \in BOOLEAN
      /\ user \in [Users -> UserRow]
  BY DEF Inv, Typed
<1>0. ASSUME UNCHANGED staff PROVE Goal
  BY <1>0, <1>i DEF staff, MemberMoved
<1>1. ASSUME NEW u \in Users, NEW got \in BOOLEAN, Provision(u, got) PROVE Goal
  <2>1. /\ member' = Join(u, "owner") /\ serial' = serial + 1 /\ tenant.st = "none"
        /\ memberGap' = memberGap
    BY <1>1 DEF Provision
  <2>2. Exists'
    BY <1>1 DEF Provision, NewTenant, Exists
  <2>3. user'[u].st # "none"
    BY <1>1, <1>i DEF Provision, UserRow
  <2>4. /\ member' \in [Users -> MemberRow] /\ serial' \in Nat /\ serial <= serial'
        /\ (v \in Users => MemberMoved(v))
    BY <2>1, <2>2, <2>3, <1>i, MemberJoins DEF Roles
  <2> QED BY <2>1, <2>4, <1>i
<1>2. ASSUME NEW s \in Slots, CreateBusiness(s) PROVE Goal
  <2>1. PICK u : u = calls[s].who
    OBVIOUS
  <2>2. u \in Users
    BY <2>1, <1>2, <1>i DEF CreateBusiness, CallsShaped, CallShaped
  <2>3. CASE UNCHANGED member /\ UNCHANGED serial
    BY <2>3, <1>i, <1>2 DEF CreateBusiness, MemberMoved
  <2>4. CASE ~ (UNCHANGED member /\ UNCHANGED serial)
    <3>1. /\ member' = Join(u, "owner") /\ serial' = serial + 1 /\ tenant.st = "none"
          /\ memberGap' = memberGap
      BY <1>2, <2>1, <2>4 DEF CreateBusiness
    <3>2. Exists'
      BY <1>2, <2>4 DEF CreateBusiness, NewTenant, Exists
    <3>3. user'[u].st # "none"
      BY <1>2, <2>1, <2>2, <2>4, <1>i DEF CreateBusiness, NewUser, Known
    <3>4. /\ member' \in [Users -> MemberRow] /\ serial' \in Nat /\ serial <= serial'
          /\ (v \in Users => MemberMoved(v))
      BY <2>2, <3>1, <3>2, <3>3, <1>i, MemberJoins DEF Roles
    <3> QED BY <3>1, <3>4, <1>i
  <2> QED BY <2>3, <2>4
<1>3. ASSUME NEW s \in Slots, AddMember(s) PROVE Goal
  <2>1. PICK u, role : u = calls[s].on /\ role = calls[s].arg
    OBVIOUS
  <2>2. u \in Users /\ role \in Roles
    BY <2>1, <1>3, <1>i DEF AddMember, CallsShaped, CallShaped, MemberOps
  <2>3. MemberCommit(s) /\ Exists'
    BY <1>3 DEF AddMember, Exists, shop
  <2>4. user'[u].st # "none"
    BY <1>3, <2>1, <2>2, <1>i DEF AddMember, NewUser
  <2>5. CASE u \in Members
    <3>1. member' = [member EXCEPT ![u].role = role] /\ serial' = serial
      BY <1>3, <2>1, <2>5 DEF AddMember
    <3>2. /\ member' \in [Users -> MemberRow] /\ serial' \in Nat /\ serial <= serial'
          /\ (v \in Users => MemberMoved(v))
      BY <2>2, <2>3, <2>4, <2>5, <3>1, <1>i, RoleRewritten
    <3> QED BY <2>3, <3>2, <1>i, CommitCrosses
  <2>6. CASE u \notin Members
    <3>1. member' = Join(u, role) /\ serial' = serial + 1
      BY <1>3, <2>1, <2>6 DEF AddMember
    <3>2. /\ member' \in [Users -> MemberRow] /\ serial' \in Nat /\ serial <= serial'
          /\ (v \in Users => MemberMoved(v))
      BY <2>2, <2>3, <2>4, <2>6, <3>1, <1>i, MemberJoins
    <3> QED BY <2>3, <3>2, <1>i, CommitCrosses
  <2> QED BY <2>5, <2>6
<1>4. ASSUME NEW s \in Slots, ChangeRole(s) PROVE Goal
  <2>1. PICK u, role : u = calls[s].on /\ role = calls[s].arg
    OBVIOUS
  <2>2. u \in Users /\ role \in Roles /\ calls[s].id # 0
    BY <2>1, <1>4, <1>i DEF ChangeRole, CallsShaped, CallShaped, MemberOps
  <2>3. MemberCommit(s) /\ Exists' /\ serial' = serial /\ user' = user
    BY <1>4 DEF ChangeRole, Exists, shop, people
  <2>4. CASE member' = member
    BY <2>3, <2>4, <1>i, CommitCrosses DEF MemberMoved
  <2>5. CASE member' # member
    <3>1. member' = [member EXCEPT ![u].role = role] /\ member[u].id # 0
      BY <1>4, <2>1, <2>2, <2>5 DEF ChangeRole
    <3>2. u \in Members /\ user'[u].st # "none"
      BY <2>2, <2>3, <3>1, <1>i DEF RolesAgree, Members
    <3>3. /\ member' \in [Users -> MemberRow] /\ serial' \in Nat /\ serial <= serial'
          /\ (v \in Users => MemberMoved(v))
      BY <2>2, <2>3, <3>1, <3>2, <1>i, RoleRewritten
    <3> QED BY <2>3, <3>3, <1>i, CommitCrosses
  <2> QED BY <2>4, <2>5
<1>5. ASSUME NEW s \in Slots, DeleteMember(s) PROVE Goal
  <2>1. PICK u : u = calls[s].on
    OBVIOUS
  <2>2. NoMember \in MemberRow
    BY DEF NoMember, MemberRow
  <2>3. MemberCommit(s) /\ serial' = serial
    BY <1>5 DEF DeleteMember
  <2>4. member' = member \/ member' = [member EXCEPT ![u] = NoMember]
    BY <1>5, <2>1 DEF DeleteMember, Without
  <2>5. member' \in [Users -> MemberRow] /\ (v \in Users => MemberMoved(v))
    BY <2>2, <2>4, <1>i DEF MemberMoved
  <2> QED BY <2>3, <2>5, <1>i, CommitCrosses
<1>6. ASSUME NEW s \in Slots, DeleteTenant(s) PROVE Goal
  <2>1. NoMember \in MemberRow
    BY DEF NoMember, MemberRow
  <2>2. /\ member' = [u \in Users |-> NoMember] /\ serial' = serial /\ memberGap' = memberGap
    BY <1>6 DEF DeleteTenant
  <2>3. ~ Exists'
    <3>1. tenant'.st = IF Exists THEN "gone" ELSE tenant.st
      <4>1. \A st : [NoTenant EXCEPT !.st = st].st = st
        BY DEF NoTenant
      <4> QED BY <1>6, <4>1 DEF DeleteTenant
    <3> QED BY <3>1 DEF Exists
  <2> QED BY <2>1, <2>2, <2>3, <1>i DEF MemberMoved
<1> HIDE DEF Goal
<1>7. Goal
  BY <1>0, <1>1, <1>2, <1>3, <1>4, <1>5, <1>6, ActionsOfStaff
<1> QED BY <1>7 DEF Goal

-----------------------------------------------------------------------------

(* What a step does to the business *)

ListingsCrossed == \A s \in Slots : calls[s].phase = "written" => calls[s].crossed

(* What the tenant and its account are after the commit of a call. *)
LEMMA RowsAfter ==
    ASSUME Typed, Exists, NEW c \in Call
    PROVE  /\ TenantAfter(c) \in TenantRow /\ TenantAfter(c).st \in {"onboarding", "active"}
           /\ AccountAfter(c) \in AccountRow
<1>1. tenant \in TenantRow /\ tenant.ver + 1 \in Nat /\ account \in AccountRow
      /\ account.ver + 1 \in Nat
  BY DEF Typed, TenantRow, AccountRow
<1>2. ASSUME NEW q \in TenantRow, NEW n \in Nat
      PROVE  /\ [q EXCEPT !.ver = n, !.st = "active", !.sales = TRUE] \in TenantRow
             /\ [q EXCEPT !.ver = n, !.st = "active", !.sales = TRUE].st = "active"
  <2>1. [q EXCEPT !.ver = n, !.st = "active", !.sales = TRUE] \in TenantRow
    BY DEF TenantRow
  <2>2. [q EXCEPT !.ver = n, !.st = "active", !.sales = TRUE].st = "active"
    BY DEF TenantRow
  <2> QED BY <2>1, <2>2
<1>3. Activated \in TenantRow /\ Activated.st = "active"
  <2>1. Activated = [tenant EXCEPT !.ver = tenant.ver + 1, !.st = "active", !.sales = TRUE]
    BY DEF Activated
  <2> QED BY <2>1, <1>1, <1>2
<1>4. Patched(c.arg) \in TenantRow /\ Patched(c.arg).st = tenant.st
  <2>1. PICK a, b : /\ a = ((tenant.sales \/ c.arg = "salesOn") /\ c.arg # "salesOff")
                    /\ b = (tenant.place \/ c.arg = "place")
    OBVIOUS
  <2>2. a \in BOOLEAN /\ b \in BOOLEAN
    BY <2>1
  <2>3. Patched(c.arg) = [tenant EXCEPT !.ver = tenant.ver + 1, !.sales = a, !.place = b]
    BY <2>1 DEF Patched
  <2>4. PICK n \in Nat : n = tenant.ver + 1
    BY <1>1
  <2>5. [tenant EXCEPT !.ver = n, !.sales = a, !.place = b] \in TenantRow
    BY <2>2, <1>1 DEF TenantRow
  <2>6. [tenant EXCEPT !.ver = n, !.sales = a, !.place = b].st = tenant.st
    BY <1>1 DEF TenantRow
  <2> QED BY <2>3, <2>4, <2>5, <2>6
<1>5. tenant.st \in {"onboarding", "active"}
  BY DEF Exists
<1>6. TenantAfter(c) \in TenantRow /\ TenantAfter(c).st \in {"onboarding", "active"}
  BY <1>1, <1>3, <1>4, <1>5 DEF TenantAfter
<1>7. Saved \in AccountRow /\ Revoked \in AccountRow
  BY <1>1 DEF Saved, Revoked, AccountRow
<1>8. AccountAfter(c) \in AccountRow
  BY <1>1, <1>7 DEF AccountAfter
<1> QED BY <1>6, <1>8

(* A business begins as this. *)
LEMMA TenantBegins ==
    ASSUME NEW place \in BOOLEAN
    PROVE  NewTenant(place) \in TenantRow /\ NewTenant(place).st = "onboarding"
BY DEF NewTenant, TenantRow

(* A business that is gone stays gone; the account goes with it. *)
LEMMA ShopMoves ==
    ASSUME Inv, Next
    PROVE  /\ tenant' \in TenantRow /\ account' \in AccountRow
           /\ item' \in BOOLEAN /\ listed' \in BOOLEAN /\ listGap' \in BOOLEAN
           /\ tenant.st # "none" => tenant'.st # "none" /\ (Exists' => Exists)
           /\ AccountNeedsTenant'
           /\ Exists => Exists' \/ \A u \in Users : member'[u] = NoMember
           /\ \/ UNCHANGED <<tenant, account, item>>
              \/ tenant.st = "none"
              \/ ~ Exists'
              \/ ListingsCrossed'
<1> DEFINE Goal == /\ tenant' \in TenantRow /\ account' \in AccountRow
                   /\ item' \in BOOLEAN /\ listed' \in BOOLEAN /\ listGap' \in BOOLEAN
                   /\ tenant.st # "none" => tenant'.st # "none" /\ (Exists' => Exists)
                   /\ AccountNeedsTenant'
                   /\ Exists => Exists' \/ \A u \in Users : member'[u] = NoMember
                   /\ \/ UNCHANGED <<tenant, account, item>>
                      \/ tenant.st = "none"
                      \/ ~ Exists'
                      \/ ListingsCrossed'
<1>i. /\ Typed /\ CallsShaped /\ AccountNeedsTenant
      /\ tenant \in TenantRow /\ account \in AccountRow
      /\ item \in BOOLEAN /\ listed \in BOOLEAN /\ listGap \in BOOLEAN
  BY DEF Inv, Typed
<1>0. ASSUME UNCHANGED shop PROVE Goal
  BY <1>0, <1>i DEF shop, Exists, AccountNeedsTenant
<1>1. ASSUME NEW place \in BOOLEAN, tenant' = NewTenant(place), tenant.st = "none",
             UNCHANGED <<account, item, listed, listGap>>
      PROVE  Goal
  <2>1. tenant' \in TenantRow /\ Exists'
    BY <1>1, TenantBegins DEF Exists
  <2> QED BY <1>1, <2>1, <1>i DEF AccountNeedsTenant
<1>2. ASSUME NEW u \in Users, NEW got \in BOOLEAN, Provision(u, got) PROVE Goal
  <2>1. /\ tenant' = NewTenant(ProvisionedPlace) /\ tenant.st = "none"
        /\ UNCHANGED <<account, item, listed, listGap>>
    BY <1>2 DEF Provision
  <2> QED BY <2>1, <1>1 DEF ProvisionedPlace
<1>3. ASSUME NEW s \in Slots, CreateBusiness(s) PROVE Goal
  <2>1. \/ UNCHANGED shop
        \/ /\ tenant' = NewTenant(WizardPlace) /\ tenant.st = "none"
           /\ UNCHANGED <<account, item, listed, listGap>>
    BY <1>3 DEF CreateBusiness, shop
  <2> QED BY <2>1, <1>0, <1>1 DEF WizardPlace
<1>4. ASSUME NEW s \in Slots, StoreItem(s) PROVE Goal
  <2>1. UNCHANGED <<tenant, account, listed>> /\ item' \in BOOLEAN /\ listGap' \in BOOLEAN
    BY <1>4, <1>i DEF StoreItem, Exists
  <2>2. ListingsCrossed'
    <3>1. ASSUME NEW t \in Slots, calls'[t].phase = "written" PROVE calls'[t].crossed
      <4>1. calls[s] \in Call /\ calls[t] \in Call /\ calls[s].phase = "checked"
        BY <1>4, <1>i, CallTyped DEF StoreItem, At
      <4>2. CASE t = s
        <5>1. calls'[s] = [calls[s] EXCEPT !.phase = "stored"] \/ calls'[s] = NoCall
          BY <1>4 DEF StoreItem
        <5>2. [calls[s] EXCEPT !.phase = "stored"].phase = "stored" /\ NoCall.phase = "free"
          BY <4>1 DEF Call, NoCall
        <5> QED BY <3>1, <4>2, <5>1, <5>2
      <4>3. CASE t # s
        <5>1. calls'[t] = [calls[t] EXCEPT !.crossed = calls[t].crossed \/ At(t, "written")]
          BY <1>4, <4>3 DEF StoreItem
        <5>2. calls'[t].phase = calls[t].phase
              /\ calls'[t].crossed = (calls[t].crossed \/ At(t, "written"))
          BY <4>1, <5>1 DEF Call
        <5> QED BY <3>1, <5>2 DEF At
      <4> QED BY <4>2, <4>3
    <3> QED BY <3>1 DEF ListingsCrossed
  <2> QED BY <2>1, <2>2, <1>i DEF Exists, AccountNeedsTenant
<1>5. ASSUME NEW s \in Slots, Commit(s) PROVE Goal
  <2>1. PICK c : c = calls[s]
    OBVIOUS
  <2>2. c \in Call /\ Exists
    BY <2>1, <1>5, <1>i, CallTyped DEF Commit
  <2>3. tenant' = TenantAfter(c) /\ account' = AccountAfter(c) /\ item' = item
        /\ (listed' = c.seen \/ listed' = listed) /\ (listGap' = c.crossed \/ listGap' = listGap)
    BY <1>5, <2>1 DEF Commit
  <2>4. tenant' \in TenantRow /\ tenant'.st \in {"onboarding", "active"} /\ account' \in AccountRow
    BY <2>2, <2>3, <1>i, RowsAfter
  <2>5. Exists'
    BY <2>4 DEF Exists
  <2>6. listed' \in BOOLEAN /\ listGap' \in BOOLEAN
    BY <2>2, <2>3, <1>i DEF Call
  <2>7. ListingsCrossed'
    <3>1. ASSUME NEW t \in Slots, calls'[t].phase = "written" PROVE calls'[t].crossed
      <4>1. calls[t] \in Call
        BY <1>i, CallTyped
      <4>2. calls'[t] = IF t = s THEN NoCall
                        ELSE IF calls[t].phase = "written"
                             THEN [calls[t] EXCEPT !.crossed = TRUE] ELSE calls[t]
        BY <1>5 DEF Commit, Overtaking
      <4>3. NoCall.phase = "free" /\ [calls[t] EXCEPT !.crossed = TRUE].crossed = TRUE
        BY <4>1 DEF NoCall, Call
      <4> QED BY <3>1, <4>2, <4>3
    <3> QED BY <3>1 DEF ListingsCrossed
  <2> QED BY <2>2, <2>3, <2>4, <2>5, <2>6, <2>7, <1>i DEF AccountNeedsTenant
<1>6. ASSUME NEW s \in Slots, DeleteTenant(s) PROVE Goal
  <2>1. \A st \in {"none", "onboarding", "active", "gone"} :
           /\ [NoTenant EXCEPT !.st = st].st = st
           /\ [NoTenant EXCEPT !.st = st] \in TenantRow
    <3>1. NoTenant \in TenantRow
      BY DEF NoTenant, TenantRow
    <3>2. ASSUME NEW q \in TenantRow, NEW st \in {"none", "onboarding", "active", "gone"}
          PROVE  [q EXCEPT !.st = st].st = st /\ [q EXCEPT !.st = st] \in TenantRow
      BY DEF TenantRow
    <3> QED BY <3>1, <3>2
  <2>2. PICK st : st = IF Exists THEN "gone" ELSE tenant.st
    OBVIOUS
  <2>3. st \in {"none", "onboarding", "active", "gone"}
    BY <2>2, <1>i DEF TenantRow
  <2>4. tenant' = [NoTenant EXCEPT !.st = st]
    BY <1>6, <2>2 DEF DeleteTenant
  <2>5. tenant' \in TenantRow /\ tenant'.st = st
    BY <2>1, <2>3, <2>4
  <2>6. ~ Exists'
    BY <2>2, <2>5 DEF Exists
  <2>7. /\ account' = NoAccount /\ item' = FALSE /\ listed' = FALSE /\ listGap' = FALSE
        /\ member' = [u \in Users |-> NoMember]
    BY <1>6 DEF DeleteTenant
  <2>8. account' \in AccountRow /\ account'.st = "none"
    BY <2>7 DEF NoAccount, AccountRow
  <2> QED BY <2>2, <2>5, <2>6, <2>7, <2>8 DEF AccountNeedsTenant
<1> HIDE DEF Goal
<1>7. Goal
  BY <1>0, <1>2, <1>3, <1>4, <1>5, <1>6, ActionsOfShop
<1> QED BY <1>7 DEF Goal

-----------------------------------------------------------------------------

(* What a step does to the requests *)

Waited(s) ==
    \/ calls'[s] = calls[s]
    \/ calls[s].phase # "free" /\ calls'[s] = [calls[s] EXCEPT !.crossed = TRUE]

NowFree(s) == calls'[s] = NoCall

SameRequest(s) ==
    /\ calls'[s].op = calls[s].op /\ calls'[s].on = calls[s].on
    /\ calls'[s].arg = calls[s].arg /\ calls'[s].id = calls[s].id
    /\ calls'[s].via = calls[s].via

(* The password has been compared with the row as it is. *)
NowHashing(s) ==
    /\ calls'[s].phase = "hashing" /\ calls'[s].op \in {"login", "register"}
    /\ calls'[s].who \in Users
    /\ calls'[s].gen = user[calls'[s].who].gen /\ calls'[s].pw = user[calls'[s].who].pw
    /\ calls'[s].op = "register" => calls'[s].arg = user[calls'[s].who].st
    /\ user' = user

NowFound(s) ==
    /\ calls'[s].phase = "found" /\ calls'[s].op \in LinkOps
    /\ calls'[s].who \in Users
    /\ calls'[s].id \in DOMAIN link /\ calls'[s].who = link[calls'[s].id].user

NowSent(s) ==
    /\ calls'[s].phase = "sent" /\ calls'[s].op \in PlainOps
    /\ calls'[s].via \in DOMAIN session
    /\ calls'[s].op \in MemberOps => calls'[s].on \in Users
    /\ calls'[s].op \in {"addMember", "changeRole"} => calls'[s].arg \in Roles
    /\ calls'[s].op = "changeRole" => calls'[s].id # 0

NowAuthorized(s) ==
    /\ calls'[s].phase = "authorized" /\ calls'[s].who \in Users
    /\ \/ calls'[s].op = "complete"
       \/ /\ calls[s].phase = "sent" /\ SameRequest(s)
          /\ calls'[s].op \in MemberOps => Exists /\ member[calls'[s].who].role = "owner"
          /\ UNCHANGED <<member, tenant>>

NowChecked(s) ==
    /\ calls[s].phase = "authorized" /\ calls'[s].phase = "checked"
    /\ SameRequest(s) /\ calls'[s].who = calls[s].who /\ calls'[s].crossed = calls[s].crossed
    /\ calls[s].op \in MemberOps =>
          IF calls[s].op = "addMember" THEN calls[s].on \notin Members ELSE ~ LastOwner(calls[s])
    /\ UNCHANGED <<member, tenant>>

NowStored(s) ==
    /\ calls[s].phase = "checked" /\ calls'[s].phase = "stored"
    /\ SameRequest(s) /\ calls'[s].who = calls[s].who /\ calls[s].op = "publish"

(* The reads for the listing have seen the rows as they are. *)
NowWritten(s) ==
    /\ calls'[s].phase = "written"
    /\ SameRequest(s) /\ calls'[s].who \in Users /\ calls[s].op \in ShopOps \ {"withdraw"}
    /\ Exists
    /\ calls'[s].seen = Eligible(TenantAfter(calls'[s]), AccountAfter(calls'[s]), item)
    /\ UNCHANGED <<tenant, account, item>>

CallMoved(s) ==
    \/ Waited(s) \/ NowFree(s) \/ NowHashing(s) \/ NowFound(s) \/ NowSent(s)
    \/ NowAuthorized(s) \/ NowChecked(s) \/ NowStored(s) \/ NowWritten(s)

(* One request moves and the others wait. *)
LEMMA OneMoves ==
    ASSUME Typed, NEW s \in Slots, NEW c \in Call, calls' = [calls EXCEPT ![s] = c]
    PROVE  /\ calls' \in [Slots -> Call] /\ calls'[s] = c
           /\ \A t \in Slots \ {s} : Waited(t)
BY DEF Typed, Waited

LEMMA OneFreed ==
    ASSUME Typed, NEW s \in Slots, Free(s)
    PROVE  calls' \in [Slots -> Call] /\ \A t \in Slots : CallMoved(t)
<1>1. calls' = [calls EXCEPT ![s] = NoCall] /\ NoCall \in Call
  BY NoCallShape DEF Free
<1>2. /\ calls' \in [Slots -> Call] /\ calls'[s] = NoCall
      /\ \A t \in Slots \ {s} : Waited(t)
  BY <1>1, OneMoves
<1> QED BY <1>2 DEF CallMoved, NowFree

(* Those a commit overtakes are marked. *)
LEMMA OthersMarked ==
    ASSUME Typed, calls' = [t \in Slots |-> calls'[t]],
           \A t \in Slots : \/ calls'[t] = NoCall \/ calls'[t] = calls[t]
                            \/ /\ calls[t].phase # "free"
                               /\ calls'[t] = [calls[t] EXCEPT !.crossed = TRUE]
    PROVE  calls' \in [Slots -> Call] /\ \A t \in Slots : CallMoved(t)
<1>1. ASSUME NEW t \in Slots PROVE calls'[t] \in Call /\ CallMoved(t)
  <2>1. calls[t] \in Call /\ NoCall \in Call
    BY NoCallShape, CallTyped
  <2>2. [calls[t] EXCEPT !.crossed = TRUE] \in Call
    BY <2>1, CallMarked
  <2> QED BY <2>1, <2>2 DEF CallMoved, Waited, NowFree
<1> QED BY <1>1

(* What the screens send. *)
LEMMA RequestsShaped ==
    ASSUME Typed, RolesAgree,
           NEW r \in MemberRequests \cup SettingsRequests \cup AccountRequests
                       \cup ActivationRequests \cup DeletionRequests \cup OtherRequests
    PROVE  /\ r \in Call /\ r.phase = "sent" /\ r.op \in PlainOps
           /\ r.op \in MemberOps => r.on \in Users
           /\ r.op \in {"addMember", "changeRole"} => r.arg \in Roles
           /\ r.op = "changeRole" => r.id # 0
<1>1. ASSUME NEW op \in PlainOps
      PROVE  /\ Request(op) \in Call /\ Request(op).op = op /\ Request(op).phase = "sent"
  <2>1. [NoCall EXCEPT !.op = op, !.phase = "sent"] \in Call
    BY NoCallShape, CallPhases
  <2>2. /\ [NoCall EXCEPT !.op = op, !.phase = "sent"].op = op
        /\ [NoCall EXCEPT !.op = op, !.phase = "sent"].phase = "sent"
    BY NoCallShape DEF Call
  <2> QED BY <2>1, <2>2 DEF Request
<1>2. /\ \A u \in Users : member[u].id \in Nat
      /\ \A u \in Members : u \in Users /\ member[u].id # 0
      /\ tenant.ver \in Nat /\ account.ver \in Nat
      /\ Roles \subseteq Args /\ Patches \subseteq Args
      /\ {"addMember", "changeRole", "deleteMember", "update", "connect", "disconnect", "activate",
          "deleteTenant", "publish", "withdraw", "logout"} \subseteq PlainOps
  BY DEF Typed, MemberRow, TenantRow, AccountRow, Members, RolesAgree, Args, PlainOps, OwnerOps,
         MemberOps
<1>3. CASE r \in MemberRequests
  <2>1. CASE \E u \in Users, role \in Roles : r = Invitation(u, role)
    <3>1. PICK u \in Users, role \in Roles : r = Invitation(u, role)
      BY <2>1
    <3>2. PICK q \in Call : q = Request("addMember") /\ q.op = "addMember" /\ q.phase = "sent"
      BY <1>1, <1>2
    <3>3. role \in Args
      BY <1>2
    <3>4. r \in Call
      BY <3>1, <3>2, <3>3, CallNames DEF Invitation
    <3>5. r.op = "addMember" /\ r.phase = "sent" /\ r.on = u /\ r.arg = role
      BY <3>1, <3>2 DEF Call, Invitation
    <3> QED BY <3>4, <3>5, <1>2
  <2>2. CASE \E u \in Members, role \in Roles : r = RoleChange(u, role)
    <3>1. PICK u \in Members, role \in Roles : r = RoleChange(u, role)
      BY <2>2
    <3>2. PICK q \in Call : q = Request("changeRole") /\ q.op = "changeRole" /\ q.phase = "sent"
      BY <1>1, <1>2
    <3>3. role \in Args /\ u \in Users
      BY <1>2
    <3>4. PICK n \in Nat : n = member[u].id /\ n # 0
      BY <1>2
    <3>5. r \in Call
      BY <3>1, <3>2, <3>3, <3>4, CallNames DEF RoleChange
    <3>6. r.op = "changeRole" /\ r.phase = "sent" /\ r.on = u /\ r.arg = role /\ r.id = n
      BY <3>1, <3>2, <3>4 DEF Call, RoleChange
    <3> QED BY <3>3, <3>4, <3>5, <3>6, <1>2
  <2>3. CASE \E u \in Members : r = Removal(u)
    <3>1. PICK u \in Members : r = Removal(u)
      BY <2>3
    <3>2. PICK q \in Call : q = Request("deleteMember") /\ q.op = "deleteMember" /\ q.phase = "sent"
      BY <1>1, <1>2
    <3>3. u \in Users
      BY <1>2
    <3>4. PICK n \in Nat : n = member[u].id
      BY <1>2
    <3>5. r \in Call
      BY <3>1, <3>2, <3>3, <3>4, CallNames DEF Args, Removal
    <3>6. r.op = "deleteMember" /\ r.phase = "sent" /\ r.on = u
      BY <3>1, <3>2, <3>4 DEF Call, Removal
    <3> QED BY <3>3, <3>5, <3>6, <1>2
  <2> QED BY <1>3, <2>1, <2>2, <2>3 DEF MemberRequests
<1>4. CASE r \in SettingsRequests
  <2>1. PICK a \in Patches, n \in 1 .. tenant.ver : r = Patch(a, n)
    BY <1>4 DEF SettingsRequests
  <2>2. PICK q \in Call : q = Request("update") /\ q.op = "update" /\ q.phase = "sent"
    BY <1>1, <1>2
  <2>3. a \in Args /\ n \in Nat
    BY <1>2
  <2>4. r \in Call
    <3>1. [q EXCEPT !.arg = a, !.ver = n] \in Call
      BY <2>3 DEF Call
    <3> QED BY <2>1, <2>2, <3>1 DEF Patch
  <2>5. r.op = "update" /\ r.phase = "sent"
    BY <2>1, <2>2 DEF Call, Patch
  <2> QED BY <2>4, <2>5, <1>2 DEF MemberOps
<1>5. CASE r \in AccountRequests
  <2>1. CASE r = Request("connect")
    BY <2>1, <1>1, <1>2 DEF MemberOps
  <2>2. CASE \E n \in 1 .. account.ver : r = [Request("disconnect") EXCEPT !.ver = n]
    <3>1. PICK n \in 1 .. account.ver : r = [Request("disconnect") EXCEPT !.ver = n]
      BY <2>2
    <3>2. PICK q \in Call : q = Request("disconnect") /\ q.op = "disconnect" /\ q.phase = "sent"
      BY <1>1, <1>2
    <3>3. n \in Nat
      BY <1>2
    <3>4. r \in Call
      BY <3>1, <3>2, <3>3 DEF Call
    <3>5. r.op = "disconnect" /\ r.phase = "sent"
      BY <3>1, <3>2 DEF Call
    <3> QED BY <3>4, <3>5, <1>2 DEF MemberOps
  <2> QED BY <1>5, <2>1, <2>2 DEF AccountRequests
<1>6. CASE r \in ActivationRequests \cup DeletionRequests \cup OtherRequests
  <2>1. PICK op \in {"activate", "deleteTenant", "publish", "withdraw", "logout"} : r = Request(op)
    BY <1>6 DEF ActivationRequests, DeletionRequests, OtherRequests
  <2> QED BY <2>1, <1>1, <1>2 DEF MemberOps
<1> QED BY <1>3, <1>4, <1>5, <1>6

LEMMA CallsMove ==
    ASSUME Inv, Next
    PROVE  calls' \in [Slots -> Call] /\ \A t \in Slots : CallMoved(t)
<1> DEFINE Goal == calls' \in [Slots -> Call] /\ \A t \in Slots : CallMoved(t)
<1>i. /\ Typed /\ CallsShaped /\ PeopleAgree /\ PeopleCalls /\ RolesAgree
      /\ calls \in [Slots -> Call]
  BY DEF Inv, Typed
<1>u. \A u \in Users : /\ user[u].st \in {"none", "pending", "active"}
                       /\ user[u].pw \in Nat /\ user[u].gen \in Nat
  BY <1>i DEF Typed, UserRow
<1>0. ASSUME UNCHANGED calls PROVE Goal
  BY <1>0, <1>i DEF CallMoved, Waited
<1>1. ASSUME NEW s \in Slots, NEW c \in Call, calls' = [calls EXCEPT ![s] = c], CallMoved(s)
      PROVE  Goal
  BY <1>1, <1>i, OneMoves DEF CallMoved
<1>2. ASSUME NEW s \in Slots, Free(s) PROVE Goal
  BY <1>2, <1>i, OneFreed
<1>3. ASSUME NEW s \in Slots, NEW u \in Users, Login(s, u) PROVE Goal
  <2>1. PICK c : c = [NoCall EXCEPT !.op = "login", !.phase = "hashing", !.who = u,
                                    !.gen = user[u].gen, !.pw = user[u].pw]
    OBVIOUS
  <2>2. c \in Call
    <3>1. PICK a \in Args, g \in Nat, p \in Nat : g = user[u].gen /\ p = user[u].pw
      BY <1>u DEF Args
    <3>2. c = [NoCall EXCEPT !.op = "login", !.phase = "hashing", !.who = u, !.gen = g, !.pw = p]
      BY <2>1, <3>1
    <3>3. NoCall \in Call
      BY NoCallShape
    <3>4. [NoCall EXCEPT !.op = "login", !.phase = "hashing", !.who = u, !.gen = g, !.pw = p] \in Call
      BY <3>3, CallHashing
    <3> QED BY <3>2, <3>4
  <2>3. c.op = "login" /\ c.phase = "hashing" /\ c.who = u /\ c.gen = user[u].gen
        /\ c.pw = user[u].pw
    BY <2>1, NoCallShape DEF Call
  <2>4. calls' = [calls EXCEPT ![s] = c] /\ user' = user
    BY <1>3, <2>1 DEF Login, Begin, people
  <2>5. calls'[s] = c
    BY <2>4, <1>i
  <2>6. NowHashing(s)
    BY <2>3, <2>4, <2>5 DEF NowHashing
  <2> QED BY <1>1, <2>2, <2>4, <2>6 DEF CallMoved
<1>4. ASSUME NEW s \in Slots, NEW u \in Users, Register(s, u) PROVE Goal
  <2>1. PICK c : c = [NoCall EXCEPT !.op = "register", !.phase = "hashing", !.who = u,
                                    !.gen = user[u].gen, !.pw = user[u].pw, !.arg = user[u].st]
    OBVIOUS
  <2>2. c \in Call
    <3>1. PICK a \in Args, g \in Nat, p \in Nat : a = user[u].st /\ g = user[u].gen /\ p = user[u].pw
      BY <1>u DEF Args
    <3>2. c = [NoCall EXCEPT !.op = "register", !.phase = "hashing", !.who = u, !.gen = g,
                             !.pw = p, !.arg = a]
      BY <2>1, <3>1
    <3>3. NoCall \in Call
      BY NoCallShape
    <3>4. [NoCall EXCEPT !.op = "register", !.phase = "hashing", !.who = u, !.gen = g,
                         !.pw = p, !.arg = a] \in Call
      BY <3>3, CallHashing
    <3> QED BY <3>2, <3>4
  <2>3. c.op = "register" /\ c.phase = "hashing" /\ c.who = u /\ c.gen = user[u].gen
        /\ c.pw = user[u].pw /\ c.arg = user[u].st
    BY <2>1, NoCallShape DEF Call
  <2>4. calls' = [calls EXCEPT ![s] = c] /\ user' = user
    BY <1>4, <2>1 DEF Register, Begin, people
  <2>5. calls'[s] = c
    BY <2>4, <1>i
  <2>6. NowHashing(s)
    BY <2>3, <2>4, <2>5 DEF NowHashing
  <2> QED BY <1>1, <2>2, <2>4, <2>6 DEF CallMoved
<1>5. ASSUME NEW s \in Slots, NEW l \in DOMAIN link, NEW op \in LinkOps, FollowLink(s, l, op)
      PROVE  Goal
  <2>1. PICK c, u : /\ u = link[l].user
                    /\ c = [NoCall EXCEPT !.op = op, !.phase = "found", !.who = u, !.id = l]
    OBVIOUS
  <2>2. u \in Users /\ l \in Nat
    <3>1. link \in Seq(LinkRow) /\ link[l] \in LinkRow
      BY <1>i, RowTyped DEF Typed
    <3>2. DOMAIN link = 1 .. Len(link) /\ Len(link) \in Nat
      BY <3>1, LenProperties
    <3> QED BY <2>1, <3>1, <3>2 DEF LinkRow
  <2>3. c \in Call
    BY <2>1, <2>2, NoCallShape, CallFound
  <2>4. c.op = op /\ c.phase = "found" /\ c.who = u /\ c.id = l
    BY <2>1, NoCallShape DEF Call
  <2>5. calls' = [calls EXCEPT ![s] = c]
    BY <1>5, <2>1 DEF FollowLink, Begin
  <2>6. calls'[s] = c
    BY <2>5, <1>i
  <2>7. NowFound(s)
    BY <2>1, <2>2, <2>4, <2>6 DEF NowFound
  <2> QED BY <1>1, <2>3, <2>5, <2>7 DEF CallMoved
<1>6. ASSUME NEW s \in Slots, NEW i \in DOMAIN session, Send(s, i) PROVE Goal
  <2>1. PICK r \in MemberRequests \cup SettingsRequests \cup AccountRequests
                       \cup ActivationRequests \cup DeletionRequests \cup OtherRequests :
              calls' = [calls EXCEPT ![s] = [r EXCEPT !.via = i]]
    BY <1>6 DEF Send, Begin
  <2>2. /\ r \in Call /\ r.phase = "sent" /\ r.op \in PlainOps
        /\ r.op \in MemberOps => r.on \in Users
        /\ r.op \in {"addMember", "changeRole"} => r.arg \in Roles
        /\ r.op = "changeRole" => r.id # 0
    BY <1>i, RequestsShaped
  <2>3. PICK c : c = [r EXCEPT !.via = i]
    OBVIOUS
  <2>4. i \in Nat
    <3>1. DOMAIN session = 1 .. Len(session) /\ Len(session) \in Nat
      BY <1>i, LenProperties DEF Typed
    <3> QED BY <3>1
  <2>5. c \in Call
    BY <2>2, <2>3, <2>4 DEF Call
  <2>6. /\ c.op = r.op /\ c.phase = r.phase /\ c.via = i /\ c.on = r.on /\ c.arg = r.arg
        /\ c.id = r.id
    BY <2>2, <2>3 DEF Call
  <2>7. calls' = [calls EXCEPT ![s] = c]
    BY <2>1, <2>3
  <2>8. calls'[s] = c
    BY <2>7, <1>i
  <2>9. NowSent(s)
    BY <2>2, <2>6, <2>8 DEF NowSent
  <2> QED BY <1>1, <2>5, <2>7, <2>9 DEF CallMoved
<1>7. ASSUME NEW s \in Slots, Authorize(s) PROVE Goal
  <2>1. PICK d, u : d = calls[s] /\ u = session[d.via].user
    OBVIOUS
  <2>2. d \in Call /\ d.phase = "sent"
    BY <2>1, <1>7, <1>i, CallTyped DEF Authorize, At
  <2>3. d.via \in DOMAIN session
    BY <2>1, <2>2, <1>i DEF CallsShaped, CallShaped
  <2>4. u \in Users
    <3>1. session[d.via] \in SessionRow
      BY <2>3, <1>i, RowTyped DEF Typed
    <3> QED BY <2>1, <3>1 DEF SessionRow
  <2>5. CASE Free(s)
    BY <2>5, <1>2
  <2>6. CASE ~ Free(s)
    <3>1. PICK c : c = [d EXCEPT !.phase = "authorized", !.who = u, !.gen = user[u].gen]
      OBVIOUS
    <3>2. c \in Call
      BY <2>2, <2>4, <3>1, <1>u, CallAuthorized
    <3>3. /\ c.phase = "authorized" /\ c.who = u /\ c.op = d.op /\ c.on = d.on /\ c.arg = d.arg
          /\ c.id = d.id /\ c.via = d.via
      BY <2>2, <3>1 DEF Call
    <3>4. /\ calls' = [calls EXCEPT ![s] = c]
          /\ d.op = "logout" \/ Admits(u, d.op)
          /\ UNCHANGED <<member, tenant>>
      BY <1>7, <2>1, <2>6, <3>1 DEF Authorize, Step, staff, shop
    <3>5. calls'[s] = c
      BY <3>4, <1>i
    <3>6. d.op \in MemberOps => Exists /\ member[u].role = "owner"
      BY <3>4 DEF Admits, Allowed, LiveMembership, OwnerOps, MemberOps
    <3>7. NowAuthorized(s)
      BY <2>1, <2>2, <2>4, <3>3, <3>4, <3>5, <3>6 DEF NowAuthorized, SameRequest
    <3> QED BY <1>1, <3>2, <3>4, <3>7 DEF CallMoved
  <2> QED BY <2>5, <2>6
<1>8. ASSUME NEW s \in Slots, NEW o \in oauth, CompleteOAuth(s, o) PROVE Goal
  <2>1. o.user \in Users /\ o.id \in Nat
    BY <1>i DEF Typed
  <2>2. CASE UNCHANGED calls
    BY <2>2, <1>0
  <2>3. CASE ~ UNCHANGED calls
    <3>1. PICK c : c = [NoCall EXCEPT !.op = "complete", !.phase = "authorized",
                                      !.who = o.user, !.id = o.id]
      OBVIOUS
    <3>2. c \in Call
      BY <2>1, <3>1, NoCallShape, CallAuthorized
    <3>3. c.op = "complete" /\ c.phase = "authorized" /\ c.who = o.user
      BY <3>1, NoCallShape DEF Call
    <3>4. calls' = [calls EXCEPT ![s] = c]
      BY <1>8, <2>3, <3>1 DEF CompleteOAuth, Begin
    <3>5. calls'[s] = c
      BY <3>4, <1>i
    <3>6. NowAuthorized(s)
      BY <2>1, <3>3, <3>5 DEF NowAuthorized
    <3> QED BY <1>1, <3>2, <3>4, <3>6 DEF CallMoved
  <2> QED BY <2>2, <2>3
<1>9. ASSUME NEW s \in Slots, NEW n \in Nat, NEW c, calls[s].phase = "authorized",
             c = [calls[s] EXCEPT !.phase = "checked", !.ver = n] \/ c = [calls[s] EXCEPT !.phase = "checked"],
             calls' = [calls EXCEPT ![s] = c], UNCHANGED <<member, tenant>>,
             calls[s].op \in MemberOps =>
                IF calls[s].op = "addMember" THEN calls[s].on \notin Members ELSE ~ LastOwner(calls[s])
      PROVE  Goal
  <2>1. PICK d \in Call : d = calls[s]
    BY <1>i
  <2>2. c \in Call
    BY <1>9, <2>1, ZenonT(60) DEF Call
  <2>3. /\ c.phase = "checked" /\ c.who = d.who /\ c.op = d.op /\ c.on = d.on /\ c.arg = d.arg
        /\ c.id = d.id /\ c.via = d.via /\ c.crossed = d.crossed
    BY <1>9, <2>1 DEF Call
  <2>4. calls'[s] = c
    BY <1>9, <1>i
  <2>5. NowChecked(s)
    BY <1>9, <2>1, <2>3, <2>4 DEF NowChecked, SameRequest
  <2> QED BY <1>1, <1>9, <2>2, <2>5 DEF CallMoved
<1>10. ASSUME NEW s \in Slots, CheckMember(s) PROVE Goal
  <2>1. CASE Free(s)
    BY <2>1, <1>2
  <2>2. CASE ~ Free(s)
    <3>1. /\ calls' = [calls EXCEPT ![s] = [calls[s] EXCEPT !.phase = "checked"]]
          /\ UNCHANGED <<member, tenant>> /\ calls[s].phase = "authorized"
          /\ IF calls[s].op = "addMember" THEN calls[s].on \notin Members ELSE ~ LastOwner(calls[s])
      BY <1>10, <2>2 DEF CheckMember, Step, At, staff, shop
    <3> QED BY <3>1, <1>9
  <2> QED BY <2>1, <2>2
<1>11. ASSUME NEW s \in Slots, CheckShop(s) PROVE Goal
  <2>1. CASE Free(s)
    BY <2>1, <1>2
  <2>2. CASE ~ Free(s)
    <3>1. PICK n : n = IF calls[s].op = "complete" THEN account.ver ELSE calls[s].ver
      OBVIOUS
    <3>2. n \in Nat
      <4>1. calls[s] \in Call /\ account \in AccountRow
        BY <1>i DEF Typed
      <4> QED BY <3>1, <4>1 DEF Call, AccountRow
    <3>3. PICK c : c = [calls[s] EXCEPT !.phase = "checked", !.ver = n]
      OBVIOUS
    <3>4. /\ calls' = [calls EXCEPT ![s] = c]
          /\ UNCHANGED <<member, tenant>> /\ calls[s].phase = "authorized"
      BY <1>11, <2>2, <3>1, <3>3 DEF CheckShop, Step, At, staff, shop
    <3>5. calls[s].op \notin MemberOps
      BY <1>11 DEF CheckShop, ShopOps, MemberOps
    <3> QED BY <3>2, <3>3, <3>4, <3>5, <1>9
  <2> QED BY <2>1, <2>2
<1>12. ASSUME NEW s \in Slots, calls[s].op \in ShopOps \ {"withdraw"}, calls[s].phase # "free",
              calls[s].phase # "sent",
              Exists, UNCHANGED <<tenant, account, item>>, NEW b,
              b = Eligible(TenantAfter(calls[s]), AccountAfter(calls[s]), item),
              calls' = [calls EXCEPT ![s] = [calls[s] EXCEPT !.phase = "written", !.crossed = FALSE,
                                                             !.seen = b]]
       PROVE  Goal
  <2>1. PICK d \in Call : d = calls[s]
    BY <1>i
  <2>2. b \in BOOLEAN
    BY <1>12 DEF Eligible
  <2>3. PICK c : c = [d EXCEPT !.phase = "written", !.crossed = FALSE, !.seen = b]
    OBVIOUS
  <2>4. c \in Call
    BY <2>2, <2>3, CallWritten
  <2>5. /\ c.phase = "written" /\ c.who = d.who /\ c.op = d.op /\ c.on = d.on /\ c.arg = d.arg
        /\ c.id = d.id /\ c.via = d.via /\ c.seen = b
    BY <2>3 DEF Call
  <2>6. calls' = [calls EXCEPT ![s] = c] /\ calls'[s] = c
    BY <1>12, <2>1, <2>3, <1>i
  <2>7. d.who \in Users
    BY <1>12, <2>1, <1>i DEF CallsShaped, CallShaped
  <2>8. TenantAfter(c) = TenantAfter(d) /\ AccountAfter(c) = AccountAfter(d)
    BY <2>5 DEF TenantAfter, AccountAfter
  <2>9. NowWritten(s)
    BY <1>12, <2>1, <2>5, <2>6, <2>7, <2>8 DEF NowWritten, SameRequest
  <2> QED BY <1>1, <2>4, <2>6, <2>9 DEF CallMoved
<1>13. ASSUME NEW s \in Slots, Write(s) PROVE Goal
  <2>1. CASE Free(s)
    BY <2>1, <1>2
  <2>2. CASE ~ Free(s)
    <3>1. calls[s].op \in ShopOps \ {"withdraw"} /\ calls[s].phase = "checked"
      BY <1>13 DEF Write, Row, ShopOps, At
    <3>2. /\ Exists /\ UNCHANGED <<tenant, account, item>>
          /\ calls' = [calls EXCEPT ![s] =
                [calls[s] EXCEPT !.phase = "written", !.crossed = FALSE,
                                 !.seen = Eligible(TenantAfter(calls[s]), AccountAfter(calls[s]), item)]]
      BY <1>13, <2>2 DEF Write, Step, shop
    <3> QED BY <3>1, <3>2, <1>12
  <2> QED BY <2>1, <2>2
<1>14. ASSUME NEW s \in Slots, SyncItem(s) PROVE Goal
  <2>1. CASE Free(s)
    BY <2>1, <1>2
  <2>2. CASE ~ Free(s)
    <3>1. calls[s].op = "publish" /\ calls[s].phase = "stored"
      BY <1>14, <1>i DEF SyncItem, At, CallsShaped, CallShaped
    <3>2. /\ Exists /\ UNCHANGED <<tenant, account, item>>
          /\ calls' = [calls EXCEPT ![s] =
                [calls[s] EXCEPT !.phase = "written", !.crossed = FALSE,
                                 !.seen = Eligible(tenant, account, item)]]
      BY <1>14, <2>2 DEF SyncItem, Step, shop
    <3>3. TenantAfter(calls[s]) = tenant /\ AccountAfter(calls[s]) = account
      BY <3>1 DEF TenantAfter, AccountAfter
    <3> QED BY <3>1, <3>2, <3>3, <1>12 DEF ShopOps
  <2> QED BY <2>1, <2>2
<1>15. ASSUME NEW s \in Slots, StoreItem(s) PROVE Goal
  <2>1. PICK d \in Call : d = calls[s] /\ d.phase = "checked"
    BY <1>15, <1>i DEF StoreItem, At
  <2>2. PICK c : c = [d EXCEPT !.phase = "stored"]
    OBVIOUS
  <2>3. c \in Call
    BY <2>2 DEF Call
  <2>4. /\ c.phase = "stored" /\ c.who = d.who /\ c.op = d.op /\ c.on = d.on /\ c.arg = d.arg
        /\ c.id = d.id /\ c.via = d.via
    BY <2>2 DEF Call
  <2>5. ASSUME NEW t \in Slots PROVE calls'[t] \in Call /\ CallMoved(t)
    <3>1. CASE t = s
      <4>1. calls'[s] = NoCall \/ (calls'[s] = c /\ d.op = "publish")
        BY <1>15, <2>1, <2>2 DEF StoreItem
      <4>2. CASE calls'[s] = NoCall
        BY <4>2, <3>1, NoCallShape DEF CallMoved, NowFree
      <4>3. CASE calls'[s] = c /\ d.op = "publish"
        <5>1. NowStored(s)
          BY <4>3, <2>1, <2>4 DEF NowStored, SameRequest
        <5> QED BY <4>3, <5>1, <3>1, <2>3 DEF CallMoved
      <4> QED BY <4>1, <4>2, <4>3
    <3>2. CASE t # s
      <4>1. PICK q \in Call : q = calls[t]
        BY <1>i
      <4>2. calls'[t] = [q EXCEPT !.crossed = q.crossed \/ At(t, "written")]
        BY <1>15, <3>2, <4>1 DEF StoreItem
      <4>3. CASE At(t, "written")
        <5>1. calls'[t] = [q EXCEPT !.crossed = TRUE] /\ q.phase # "free"
          BY <4>1, <4>2, <4>3 DEF At
        <5>2. calls'[t] \in Call
          BY <5>1, CallMarked
        <5> QED BY <4>1, <5>1, <5>2 DEF CallMoved, Waited
      <4>4. CASE ~ At(t, "written")
        <5>1. q.crossed \in BOOLEAN /\ [q EXCEPT !.crossed = q.crossed] = q
          BY DEF Call
        <5>2. calls'[t] = q
          BY <4>2, <4>4, <5>1
        <5> QED BY <4>1, <5>2 DEF CallMoved, Waited
      <4> QED BY <4>3, <4>4
    <3> QED BY <3>1, <3>2
  <2>6. calls' = [t \in Slots |-> calls'[t]]
    BY <1>15 DEF StoreItem
  <2> QED BY <2>5, <2>6
<1>16. ASSUME NEW s \in Slots, Reset(s) PROVE Goal
  <2>1. /\ calls' = [t \in Slots |-> calls'[t]]
        /\ \A t \in Slots : \/ calls'[t] = NoCall \/ calls'[t] = calls[t]
                            \/ /\ calls[t].phase # "free"
                               /\ calls'[t] = [calls[t] EXCEPT !.crossed = TRUE]
    BY <1>16 DEF Reset, Overtaking
  <2> QED BY <2>1, <1>i, OthersMarked
<1>17. ASSUME NEW s \in Slots, Commit(s) PROVE Goal
  <2>1. /\ calls' = [t \in Slots |-> calls'[t]]
        /\ \A t \in Slots : \/ calls'[t] = NoCall \/ calls'[t] = calls[t]
                            \/ /\ calls[t].phase # "free"
                               /\ calls'[t] = [calls[t] EXCEPT !.crossed = TRUE]
    BY <1>17 DEF Commit, Overtaking
  <2> QED BY <2>1, <1>i, OthersMarked
<1>18. ASSUME NEW s \in Slots, AddMember(s) \/ ChangeRole(s) \/ DeleteMember(s) PROVE Goal
  <2>1. MemberCommit(s)
    BY <1>18 DEF AddMember, ChangeRole, DeleteMember
  <2>2. /\ calls' = [t \in Slots |-> calls'[t]]
        /\ \A t \in Slots : \/ calls'[t] = NoCall \/ calls'[t] = calls[t]
                            \/ /\ calls[t].phase # "free"
                               /\ calls'[t] = [calls[t] EXCEPT !.crossed = TRUE]
    BY <2>1 DEF MemberCommit, Overtaking
  <2> QED BY <2>2, <1>i, OthersMarked
<1>19. ASSUME NEW s \in Slots,
              \/ InsertSession(s) \/ Confirm(s) \/ ConsumeHandoff(s) \/ LinkRefused(s)
              \/ CreateBusiness(s) \/ Logout(s) \/ MemberFails(s) \/ Connect(s)
              \/ SyncFails(s) \/ DeleteTenant(s)
       PROVE  Goal
  <2>1. Free(s)
    BY <1>19 DEF InsertSession, Confirm, ConsumeHandoff, LinkRefused, CreateBusiness, Logout,
                 MemberFails, Connect, SyncFails, DeleteTenant
  <2> QED BY <2>1, <1>2
<1>20. ASSUME NEW u \in Users, NEW got \in BOOLEAN,
              RequestReset(u, got) \/ Provision(u, got) \/ ReplayProvision(u, got)
       PROVE  Goal
  <2>1. UNCHANGED calls
    BY <1>20 DEF RequestReset, Provision, ReplayProvision
  <2> QED BY <2>1, <1>0
<1>21. ASSUME NEW l \in DOMAIN link, Age(l) PROVE Goal
  <2>1. UNCHANGED calls
    BY <1>21 DEF Age
  <2> QED BY <2>1, <1>0
<1> HIDE DEF Goal
<1>22. ASSUME IdentityNext PROVE Goal
  BY <1>22, <1>3, <1>4, <1>5, <1>16, <1>19, <1>20, <1>21
     DEF IdentityNext, ResetMail, VerificationMail, LinkOps
<1>23. ASSUME RequestNext PROVE Goal
  BY <1>23, <1>6, <1>7, <1>8, <1>10, <1>11, <1>13, <1>14, <1>15, <1>17, <1>18, <1>19
     DEF RequestNext
<1>24. Goal
  BY <1>22, <1>23 DEF Next
<1> QED BY <1>24 DEF Goal

-----------------------------------------------------------------------------

(* The types and the shapes are kept *)

LEMMA TradeTyped ==
    ASSUME Inv, Next
    PROVE  oauth' \in SUBSET [user : Users, id : Nat]
<1>i. /\ Typed /\ CallsShaped
      /\ oauth \in SUBSET [user : Users, id : Nat] /\ member \in [Users -> MemberRow]
  BY DEF Inv, Typed
<1>1. ASSUME NEW s \in Slots, Connect(s) PROVE oauth' \in SUBSET [user : Users, id : Nat]
  <2>1. PICK u, n : u = calls[s].who /\ n = member[u].id
    OBVIOUS
  <2>2. u \in Users
    BY <1>1, <2>1, <1>i DEF Connect, At, CallsShaped, CallShaped
  <2>3. n \in Nat
    BY <2>1, <2>2, <1>i DEF MemberRow
  <2>4. oauth' = oauth \cup {[user |-> u, id |-> n]}
    BY <1>1, <2>1 DEF Connect
  <2> QED BY <2>2, <2>3, <2>4, <1>i
<1>2. ASSUME NEW s \in Slots, NEW o \in oauth, CompleteOAuth(s, o)
      PROVE  oauth' \in SUBSET [user : Users, id : Nat]
  BY <1>2, <1>i DEF CompleteOAuth
<1>3. \/ oauth' = oauth
      \/ \E s \in Slots : Connect(s) \/ \E o \in oauth : CompleteOAuth(s, o)
  <2>1. ASSUME IdentityNext PROVE oauth' = oauth
    BY <2>1 DEF IdentityNext, trade, RequestReset, Provision, ReplayProvision, Age, Login, Register,
                FollowLink, InsertSession, CreateBusiness, Reset, Confirm, ConsumeHandoff, LinkRefused
  <2>2. ASSUME RequestNext, oauth' # oauth
        PROVE  \E s \in Slots : Connect(s) \/ \E o \in oauth : CompleteOAuth(s, o)
    BY <2>2, SMTT(30) DEF RequestNext, trade, Send, Authorize, Logout, CheckMember, AddMember, ChangeRole,
                DeleteMember, MemberFails, CheckShop, Write, StoreItem, SyncItem, Commit, SyncFails,
                DeleteTenant
  <2> QED BY <2>1, <2>2 DEF Next
<1> QED BY <1>1, <1>2, <1>3, <1>i

LEMMA KeepsTyped ==
    ASSUME Inv, Next
    PROVE  Typed'
<1>1. user' \in [Users -> UserRow]
  BY UsersMove
<1>2. session' \in Seq(SessionRow)
  BY SessionsMove
<1>3. link' \in Seq(LinkRow)
  BY LinksMove DEF LinksFrom
<1>4. member' \in [Users -> MemberRow] /\ serial' \in Nat /\ memberGap' \in BOOLEAN
  BY StaffMoves
<1>5. /\ tenant' \in TenantRow /\ account' \in AccountRow
      /\ item' \in BOOLEAN /\ listed' \in BOOLEAN /\ listGap' \in BOOLEAN
  BY ShopMoves
<1>6. calls' \in [Slots -> Call]
  BY CallsMove
<1>7. oauth' \in SUBSET [user : Users, id : Nat]
  BY TradeTyped
<1> QED BY <1>1, <1>2, <1>3, <1>4, <1>5, <1>6, <1>7 DEF Typed

(* Waiting changes nothing of a request but whether it was crossed. *)
LEMMA WaitedSame ==
    ASSUME Typed, NEW s \in Slots, Waited(s)
    PROVE  /\ calls'[s].phase = calls[s].phase /\ SameRequest(s)
           /\ calls'[s].who = calls[s].who /\ calls'[s].gen = calls[s].gen
           /\ calls'[s].pw = calls[s].pw /\ calls'[s].seen = calls[s].seen
           /\ calls[s].crossed => calls'[s].crossed
<1>1. calls[s] \in Call
  BY CallTyped
<1> QED BY <1>1 DEF Waited, SameRequest, Call

LEMMA KeepsShapes ==
    ASSUME Inv, Next
    PROVE  CallsShaped'
<1>1. ASSUME NEW s \in Slots PROVE CallShaped(calls[s])'
  <2>1. CallMoved(s) /\ CallShaped(calls[s]) /\ Typed /\ calls[s] \in Call
    BY CallsMove, CallTyped DEF Inv, CallsShaped
  <2>2. DOMAIN session \subseteq DOMAIN session'
    BY SessionsMove
  <2>3. CASE Waited(s)
    <3>1. calls'[s].phase = calls[s].phase /\ SameRequest(s) /\ calls'[s].who = calls[s].who
      BY <2>1, <2>3, WaitedSame
    <3>2. calls'[s].phase = "free" => calls'[s] = NoCall
      BY <2>1, <2>3, <3>1 DEF CallShaped, Waited
    <3> QED BY <2>1, <2>2, <3>1, <3>2 DEF CallShaped, SameRequest
  <2>4. CASE NowFree(s)
    <3>1. /\ calls'[s] = NoCall /\ NoCall.phase = "free" /\ NoCall.op = "none"
      BY <2>4 DEF NowFree, NoCall
    <3> QED BY <3>1 DEF CallShaped, LinkOps, MemberOps
  <2>5. CASE NowHashing(s)
    BY <2>5 DEF NowHashing, CallShaped, LinkOps, MemberOps
  <2>6. CASE NowFound(s)
    BY <2>6 DEF NowFound, CallShaped, LinkOps, MemberOps
  <2>7. CASE NowSent(s)
    BY <2>2, <2>7 DEF NowSent, CallShaped, LinkOps, MemberOps, PlainOps, OwnerOps
  <2>8. CASE NowAuthorized(s)
    BY <2>1, <2>2, <2>8 DEF NowAuthorized, SameRequest, CallShaped, LinkOps, MemberOps
  <2>9. CASE NowChecked(s)
    BY <2>1, <2>2, <2>9 DEF NowChecked, SameRequest, CallShaped
  <2>10. CASE NowStored(s)
    BY <2>1, <2>2, <2>10 DEF NowStored, SameRequest, CallShaped, LinkOps, MemberOps
  <2>11. CASE NowWritten(s)
    BY <2>1, <2>2, <2>11 DEF NowWritten, SameRequest, CallShaped, LinkOps, MemberOps, ShopOps
  <2> QED BY <2>1, <2>3, <2>4, <2>5, <2>6, <2>7, <2>8, <2>9, <2>10, <2>11 DEF CallMoved
<1> QED BY <1>1 DEF CallsShaped

-----------------------------------------------------------------------------

(* Passwords *)

LEMMA UserFacts ==
    ASSUME Inv, Next, NEW v \in Users
    PROVE  /\ user[v].gen <= user'[v].gen
           /\ user'[v].gen = user[v].gen => user'[v].pw = user[v].pw \/ Overtaken(v)'
           /\ user'[v].st = "none" => user'[v].pw = 0
           /\ user[v].st # "none" /\ user'[v].st = "none" =>
                 LoggedOut(v)' /\ Linkless(v)' /\ member'[v] = NoMember
           /\ user[v].st # "none" => user'[v].pw = user[v].pw \/ LoggedOut(v)'
<1>1. UserMoved(v) /\ user[v] \in UserRow /\ user[v].gen \in Nat /\ user[v].pw \in Nat
      /\ (user[v].st = "none" => user[v].pw = 0)
  BY UsersMove DEF Inv, Typed, UserRow, PeopleAgree
<1>2. CASE user'[v] = user[v]
  BY <1>1, <1>2
<1>3. CASE user[v].st # "none" /\ user'[v] = [user[v] EXCEPT !.st = "active"]
  <2>1. user'[v].st = "active" /\ user'[v].pw = user[v].pw /\ user'[v].gen = user[v].gen
    BY <1>1, <1>3 DEF UserRow
  <2> QED BY <1>1, <2>1
<1>4. CASE user[v].st = "none" /\ user'[v].st # "none" /\ user'[v].pw = 0 /\ user'[v].gen = user[v].gen
  BY <1>1, <1>4
<1>5. CASE /\ user[v].st # "none" /\ user'[v] = [user[v] EXCEPT !.pw = @ + 1]
           /\ LoggedOut(v)' /\ Overtaken(v)'
  <2>1. user'[v].st = user[v].st /\ user'[v].gen = user[v].gen
    BY <1>1, <1>5 DEF UserRow
  <2> QED BY <1>1, <1>5, <2>1
<1>6. CASE /\ user'[v] = [st |-> "none", pw |-> 0, gen |-> user[v].gen + 1]
           /\ LoggedOut(v)' /\ Linkless(v)' /\ member'[v] = NoMember
  <2>1. user'[v].st = "none" /\ user'[v].pw = 0 /\ user'[v].gen = user[v].gen + 1
    BY <1>6
  <2> QED BY <1>1, <1>6, <2>1
<1> QED BY <1>1, <1>2, <1>3, <1>4, <1>5, <1>6 DEF UserMoved

(* A session already there is of the same person, and is opened once. *)
LEMMA HeldFacts ==
    ASSUME Typed, NEW i \in DOMAIN session, Held(i)
    PROVE  /\ session[i].user \in Users
           /\ session'[i].user = session[i].user /\ session'[i].pw = session[i].pw
           /\ session'[i].raced = session[i].raced /\ (session'[i].live => session[i].live)
<1>1. session[i] \in SessionRow
  BY RowTyped DEF Typed
<1> QED BY <1>1 DEF Held, SessionRow

LEMMA KeepsPeople ==
    ASSUME Inv, Next
    PROVE  PeopleAgree' /\ OldPasswordNeedsRace'
<1>i. Typed /\ PeopleAgree /\ OldPasswordNeedsRace
  BY DEF Inv
<1>s. /\ DOMAIN session \subseteq DOMAIN session'
      /\ \A i \in DOMAIN session : Held(i)
      /\ \A i \in DOMAIN session' \ DOMAIN session : SessionMade(i)'
  BY SessionsMove
<1>1. ASSUME NEW v \in Users, user'[v].st = "none" PROVE user'[v].pw = 0
  BY <1>1, UserFacts
<1>2. ASSUME NEW i \in DOMAIN session', session'[i].live
      PROVE  /\ user'[session'[i].user].st # "none"
             /\ session'[i].pw # user'[session'[i].user].pw => session'[i].raced
  <2>1. CASE i \in DOMAIN session
    <3>1. PICK v : v = session[i].user
      OBVIOUS
    <3>2. /\ v \in Users /\ session'[i].user = v /\ session'[i].pw = session[i].pw
          /\ session'[i].raced = session[i].raced /\ session[i].live
      BY <1>2, <1>s, <1>i, <2>1, <3>1, HeldFacts
    <3>3. user[v].st # "none" /\ (session[i].pw # user[v].pw => session[i].raced)
      BY <1>i, <2>1, <3>1, <3>2 DEF PeopleAgree, OldPasswordNeedsRace
    <3>4. ~ LoggedOut(v)'
      BY <1>2, <3>2 DEF LoggedOut
    <3>5. user'[v].st # "none" /\ user'[v].pw = user[v].pw
      BY <3>2, <3>3, <3>4, UserFacts
    <3> QED BY <3>2, <3>3, <3>5
  <2>2. CASE i \notin DOMAIN session
    BY <1>s, <2>2 DEF SessionMade
  <2> QED BY <2>1, <2>2
<1>3. ASSUME NEW l \in DOMAIN link', link'[l].st \in Unspent
      PROVE  user'[link'[l].user].st # "none"
  <2>1. LinksFrom(link, link', Present')
    BY LinksMove
  <2>2. CASE l \in DOMAIN link
    <3>1. PICK v : v = link[l].user
      OBVIOUS
    <3>2. v \in Users /\ link'[l].user = v /\ link[l].st \in Unspent
      <4>1. link[l] \in LinkRow
        BY <1>i, <2>2, RowTyped DEF Typed
      <4> QED BY <1>3, <2>1, <2>2, <3>1, <4>1 DEF LinksFrom, LinkRow
    <3>3. user[v].st # "none"
      BY <1>i, <2>2, <3>1, <3>2 DEF PeopleAgree
    <3>4. ~ Linkless(v)'
      BY <1>3, <3>2 DEF Linkless, Unspent
    <3> QED BY <3>2, <3>3, <3>4, UserFacts
  <2>3. CASE l \notin DOMAIN link
    BY <2>1, <2>3 DEF LinksFrom, Present
  <2> QED BY <2>2, <2>3
<1>4. PeopleAgree'
  BY <1>1, <1>2, <1>3 DEF PeopleAgree
<1>5. OldPasswordNeedsRace'
  BY <1>2 DEF OldPasswordNeedsRace
<1> QED BY <1>4, <1>5

LEMMA KeepsPeopleCalls ==
    ASSUME Inv, Next
    PROVE  PeopleCalls'
<1>1. ASSUME NEW s \in Slots PROVE PeopleCall(calls[s])'
  <2>1. /\ CallMoved(s) /\ CallShaped(calls[s]) /\ PeopleCall(calls[s]) /\ PeopleAgree
        /\ Typed /\ calls[s] \in Call
    BY CallsMove, CallTyped DEF Inv, CallsShaped, PeopleCalls
  <2>2. LinksFrom(link, link', Present')
    BY LinksMove
  <2>3. CASE Waited(s)
    <3>1. /\ calls'[s].phase = calls[s].phase /\ SameRequest(s)
          /\ calls'[s].who = calls[s].who /\ calls'[s].gen = calls[s].gen
          /\ calls'[s].pw = calls[s].pw /\ (calls[s].crossed => calls'[s].crossed)
      BY <2>1, <2>3, WaitedSame
    <3>2. ASSUME calls'[s].phase = "hashing"
          PROVE  /\ calls'[s].gen <= user'[calls'[s].who].gen
                 /\ calls'[s].gen = user'[calls'[s].who].gen =>
                       calls'[s].pw = user'[calls'[s].who].pw \/ calls'[s].crossed
      <4>1. PICK u, g, p : u = calls[s].who /\ g = calls[s].gen /\ p = calls[s].pw
        OBVIOUS
      <4>2. u \in Users
        BY <2>1, <3>1, <3>2, <4>1 DEF CallShaped
      <4>3. /\ g <= user[u].gen
            /\ g = user[u].gen => p = user[u].pw \/ calls[s].crossed
        BY <2>1, <3>1, <3>2, <4>1 DEF PeopleCall
      <4>4. /\ user[u].gen <= user'[u].gen
            /\ user'[u].gen = user[u].gen => user'[u].pw = user[u].pw \/ Overtaken(u)'
        BY <4>2, UserFacts
      <4>5. g \in Nat /\ user[u].gen \in Nat /\ user'[u].gen \in Nat
        <5>1. user' \in [Users -> UserRow] /\ user \in [Users -> UserRow]
          BY <2>1, UsersMove DEF Typed
        <5> QED BY <5>1, <2>1, <4>1, <4>2 DEF Call, UserRow
      <4>6. Overtaken(u)' => calls'[s].crossed
        BY <3>1, <3>2, <4>1 DEF Overtaken
      <4> QED BY <3>1, <4>1, <4>3, <4>4, <4>5, <4>6
    <3>3. calls'[s].phase = "hashing" /\ calls'[s].op = "register" /\ calls'[s].arg = "none"
             => calls'[s].pw = 0
      BY <2>1, <3>1 DEF PeopleCall, SameRequest
    <3>4. calls'[s].phase = "found" =>
             calls'[s].id \in DOMAIN link' /\ link'[calls'[s].id].user = calls'[s].who
      BY <2>1, <2>2, <3>1 DEF PeopleCall, SameRequest, LinksFrom
    <3> QED BY <3>2, <3>3, <3>4 DEF PeopleCall
  <2>4. CASE NowHashing(s)
    <3>1. PICK u \in Users : u = calls'[s].who
      BY <2>4 DEF NowHashing
    <3>2. user'[u].gen \in Nat /\ (user[u].st = "none" => user[u].pw = 0)
      BY <2>1, UsersMove DEF UserRow, PeopleAgree
    <3> QED BY <2>4, <3>1, <3>2 DEF NowHashing, PeopleCall
  <2>5. CASE NowFound(s)
    BY <2>2, <2>5 DEF NowFound, PeopleCall, LinksFrom
  <2>6. CASE NowFree(s)
    <3>1. calls'[s].phase = "free"
      BY <2>6 DEF NowFree, NoCall
    <3> QED BY <3>1 DEF PeopleCall
  <2>7. CASE NowSent(s) \/ NowAuthorized(s) \/ NowChecked(s) \/ NowStored(s) \/ NowWritten(s)
    BY <2>7 DEF NowSent, NowAuthorized, NowChecked, NowStored, NowWritten, PeopleCall
  <2> QED BY <2>1, <2>3, <2>4, <2>5, <2>6, <2>7 DEF CallMoved
<1> QED BY <1>1 DEF PeopleCalls

-----------------------------------------------------------------------------

(* Members *)

(* An owner who is not the last leaves another one. *)
LEMMA AnotherOwner ==
    ASSUME NEW x \in Owners, ~ (Cardinality(Owners) <= 1)
    PROVE  \E y \in Owners : y # x
<1>1. SUFFICES ASSUME \A y \in Owners : y = x PROVE FALSE
  OBVIOUS
<1>2. Owners = {x}
  BY <1>1
<1>3. Cardinality({x}) = 1
  BY FS_Singleton
<1> QED BY <1>2, <1>3

LEMMA KeepsRoles ==
    ASSUME Inv, Next
    PROVE  RolesAgree'
<1>1. ASSUME NEW u \in Users
      PROVE  /\ member'[u].role # "none" => user'[u].st # "none" /\ Exists'
             /\ member'[u].id <= serial' /\ (member'[u].id = 0 <=> member'[u].role = "none")
  <2>1. /\ MemberMoved(u) /\ serial \in Nat /\ serial' \in Nat /\ serial <= serial'
        /\ member[u] \in MemberRow /\ member[u].id \in Nat /\ RolesAgree
    BY StaffMoves DEF Inv, Typed, MemberRow
  <2>2. CASE member'[u] = member[u]
    <3>1. member'[u].role # "none" => user[u].st # "none" /\ Exists
      BY <2>1, <2>2 DEF RolesAgree
    <3>2. member'[u].role # "none" => member'[u] # NoMember
      BY DEF NoMember
    <3>3. member'[u].role # "none" => user'[u].st # "none" /\ Exists'
      BY <3>1, <3>2, UserFacts, ShopMoves
    <3> QED BY <2>1, <2>2, <3>3 DEF RolesAgree
  <2>3. CASE member'[u] = NoMember
    <3>1. member'[u].role = "none" /\ member'[u].id = 0
      BY <2>3 DEF NoMember
    <3> QED BY <2>1, <3>1
  <2>4. CASE /\ member'[u].role # "none" /\ member'[u].id # 0 /\ member'[u].id <= serial'
             /\ Exists' /\ user'[u].st # "none"
    BY <2>4
  <2> QED BY <2>1, <2>2, <2>3, <2>4 DEF MemberMoved
<1> QED BY <1>1 DEF RolesAgree

LEMMA KeepsMemberCalls ==
    ASSUME Inv, Next
    PROVE  MemberCalls'
<1>1. ASSUME NEW s \in Slots PROVE MemberCall(calls[s])'
  <2>1. /\ CallMoved(s) /\ MemberCall(calls[s]) /\ Typed
    BY CallsMove DEF Inv, MemberCalls
  <2>2. tenant.st # "none" => tenant'.st # "none" /\ (Exists' => Exists)
    BY ShopMoves
  <2>3. UNCHANGED member \/ tenant.st = "none" \/ ~ Exists' \/ MembersCrossed'
    BY StaffMoves
  <2>4. CASE Waited(s)
    <3>1. /\ calls'[s].phase = calls[s].phase /\ calls'[s].op = calls[s].op
          /\ calls'[s].on = calls[s].on /\ calls'[s].who = calls[s].who
          /\ calls[s].crossed => calls'[s].crossed
      BY <2>1, <2>4, WaitedSame DEF SameRequest
    <3>2. SUFFICES ASSUME Exposed(calls'[s])
                   PROVE  /\ tenant'.st # "none"
                          /\ Exists' /\ ~ calls'[s].crossed =>
                               /\ member'[calls'[s].who].role = "owner"
                               /\ calls'[s].phase = "checked" =>
                                     IF calls'[s].op = "addMember" THEN calls'[s].on \notin Members'
                                     ELSE ~ LastOwner(calls[s])'
      BY DEF MemberCall, Exposed
    <3>3. tenant.st # "none"
      BY <2>1, <3>1, <3>2 DEF MemberCall, Exposed
    <3>4. SUFFICES ASSUME Exists', ~ calls'[s].crossed
                   PROVE  /\ member'[calls'[s].who].role = "owner"
                          /\ calls'[s].phase = "checked" =>
                                IF calls'[s].op = "addMember" THEN calls'[s].on \notin Members'
                                ELSE ~ LastOwner(calls[s])'
      BY <2>2, <3>3
    <3>5. member' = member
      BY <2>3, <3>2, <3>3, <3>4 DEF MembersCrossed, Exposed
    <3>6. /\ member[calls[s].who].role = "owner"
          /\ calls[s].phase = "checked" =>
                IF calls[s].op = "addMember" THEN calls[s].on \notin Members ELSE ~ LastOwner(calls[s])
      BY <2>1, <2>2, <3>1, <3>2, <3>3, <3>4 DEF MemberCall, Exposed
    <3>7. Members' = Members /\ Owners' = Owners
      BY <3>5 DEF Members, Owners
    <3>8. LastOwner(calls[s])' <=> LastOwner(calls[s])
      BY <3>1, <3>5, <3>7 DEF LastOwner
    <3> QED BY <3>1, <3>5, <3>6, <3>7, <3>8
  <2>5. CASE NowAuthorized(s)
    <3>1. calls'[s].op = "complete" => calls'[s].op \notin MemberOps
      BY DEF MemberOps
    <3>2. calls'[s].op # "complete" =>
             /\ calls'[s].op \in MemberOps => Exists /\ member[calls'[s].who].role = "owner"
             /\ UNCHANGED <<member, tenant>>
      BY <2>5 DEF NowAuthorized
    <3>3. calls'[s].phase = "authorized"
      BY <2>5 DEF NowAuthorized
    <3> QED BY <3>1, <3>2, <3>3 DEF MemberCall, Exists
  <2>6. CASE NowChecked(s)
    <3>1. /\ calls[s].phase = "authorized" /\ calls'[s].op = calls[s].op
          /\ calls'[s].on = calls[s].on /\ calls'[s].who = calls[s].who
          /\ calls'[s].crossed = calls[s].crossed /\ member' = member /\ tenant' = tenant
          /\ calls[s].op \in MemberOps =>
                IF calls[s].op = "addMember" THEN calls[s].on \notin Members ELSE ~ LastOwner(calls[s])
      BY <2>6 DEF NowChecked, SameRequest
    <3>2. Members' = Members /\ Owners' = Owners /\ (Exists' <=> Exists)
      BY <3>1 DEF Members, Owners, Exists
    <3>3. LastOwner(calls[s])' <=> LastOwner(calls[s])
      BY <3>1, <3>2 DEF LastOwner
    <3> QED BY <2>1, <3>1, <3>2, <3>3 DEF MemberCall
  <2>7. CASE NowFree(s)
    <3>1. calls'[s].phase = "free"
      BY <2>7 DEF NowFree, NoCall
    <3> QED BY <3>1 DEF MemberCall
  <2>8. CASE NowHashing(s) \/ NowFound(s) \/ NowSent(s) \/ NowStored(s) \/ NowWritten(s)
    BY <2>8 DEF NowHashing, NowFound, NowSent, NowStored, NowWritten, MemberCall
  <2> QED BY <2>1, <2>4, <2>5, <2>6, <2>7, <2>8 DEF CallMoved
<1> QED BY <1>1 DEF MemberCalls

(* The owner who acts is an owner after it, or leaves another. *)
LEMMA OwnerStays ==
    ASSUME Inv, Next
    PROVE  OwnerlessNeedsCrossing'
<1>i. /\ Typed /\ CallsShaped /\ MemberCalls /\ RolesAgree /\ OwnerlessNeedsCrossing
      /\ member \in [Users -> MemberRow] /\ memberGap \in BOOLEAN
  BY DEF Inv, Typed
<1>1. ASSUME NEW u \in Users, member'[u].role = "owner" PROVE OwnerlessNeedsCrossing'
  BY <1>1 DEF OwnerlessNeedsCrossing, Owners
<1>2. ASSUME NEW u \in Users, member' = Join(u, "owner") PROVE OwnerlessNeedsCrossing'
  <2>1. member'[u] = [role |-> "owner", id |-> serial + 1]
    BY <1>2, <1>i DEF Join
  <2> QED BY <2>1, <1>1
<1>3. ASSUME UNCHANGED <<member, memberGap>>, Exists' => Exists PROVE OwnerlessNeedsCrossing'
  BY <1>3, <1>i DEF OwnerlessNeedsCrossing, Owners
<1>4. ASSUME NEW u \in Users, NEW got \in BOOLEAN, Provision(u, got) PROVE OwnerlessNeedsCrossing'
  BY <1>4, <1>2 DEF Provision
<1>5. ASSUME NEW s \in Slots, CreateBusiness(s) PROVE OwnerlessNeedsCrossing'
  <2>1. calls[s].who \in Users
    BY <1>5, <1>i DEF CreateBusiness, CallsShaped, CallShaped
  <2>2. \/ member' = Join(calls[s].who, "owner")
        \/ UNCHANGED <<member, memberGap, tenant>>
    BY <1>5 DEF CreateBusiness
  <2> QED BY <2>1, <2>2, <1>2, <1>3 DEF Exists
<1>6. ASSUME NEW s \in Slots, AddMember(s) \/ ChangeRole(s) \/ DeleteMember(s)
      PROVE  OwnerlessNeedsCrossing'
  <2>1. PICK c : c = calls[s]
    OBVIOUS
  <2>2. /\ c.op \in MemberOps /\ c.phase = "checked" /\ Exists
        /\ memberGap' = (memberGap \/ c.crossed)
    BY <1>6, <2>1 DEF AddMember, ChangeRole, DeleteMember, MemberCommit, At, MemberOps
  <2>3. CASE c.crossed
    BY <2>2, <2>3, <1>i DEF OwnerlessNeedsCrossing
  <2>4. CASE ~ c.crossed
    <3>1. /\ member[c.who].role = "owner"
          /\ IF c.op = "addMember" THEN c.on \notin Members ELSE ~ LastOwner(c)
      BY <2>1, <2>2, <2>4, <1>i DEF MemberCalls, MemberCall
    <3>2. c.who \in Users /\ c.on \in Users /\ c.who \in Owners
      BY <2>1, <2>2, <3>1, <1>i DEF CallsShaped, CallShaped, Owners
    <3>3. CASE c.on # c.who
      <4>1. member'[c.who] = member[c.who]
        BY <1>6, <2>1, <3>2, <3>3, <1>i
           DEF AddMember, ChangeRole, DeleteMember, Join, Without, MemberRow
      <4> QED BY <3>1, <3>2, <4>1, <1>1
    <3>4. CASE c.on = c.who
      <4>1. c.op # "addMember" /\ ~ LastOwner(c)
        BY <3>1, <3>2, <3>4 DEF Members
      <4>2. ~ (Cardinality(Owners) <= 1)
        BY <3>1, <3>4, <4>1 DEF LastOwner
      <4>3. PICK y \in Owners : y # c.who
        BY <3>2, <4>2, AnotherOwner
      <4>4. member'[y] = member[y]
        BY <1>6, <2>1, <3>2, <3>4, <4>1, <4>3, <1>i
           DEF AddMember, ChangeRole, DeleteMember, Without, Owners
      <4> QED BY <4>3, <4>4, <1>1 DEF Owners
    <3> QED BY <3>3, <3>4
  <2> QED BY <2>3, <2>4
<1>7. ASSUME NEW s \in Slots, DeleteTenant(s) PROVE OwnerlessNeedsCrossing'
  <2>1. \A st : [NoTenant EXCEPT !.st = st].st = st
    BY DEF NoTenant
  <2>2. tenant'.st = IF Exists THEN "gone" ELSE tenant.st
    BY <1>7, <2>1 DEF DeleteTenant
  <2>3. ~ Exists'
    BY <2>2 DEF Exists
  <2> QED BY <2>3 DEF OwnerlessNeedsCrossing
<1>8. ASSUME UNCHANGED staff PROVE OwnerlessNeedsCrossing'
  <2>1. UNCHANGED <<member, memberGap>>
    BY <1>8 DEF staff
  <2>2. ASSUME NEW s \in Slots, StoreItem(s) \/ Commit(s) PROVE OwnerlessNeedsCrossing'
    BY <2>1, <2>2, <1>3 DEF StoreItem, Commit, Exists
  <2>3. UNCHANGED shop => OwnerlessNeedsCrossing'
    BY <2>1, <1>3 DEF shop, Exists
  <2> QED BY <2>2, <2>3, <1>4, <1>5, <1>7, ActionsOfShop
<1> QED BY <1>4, <1>5, <1>6, <1>7, <1>8, ActionsOfStaff

-----------------------------------------------------------------------------

(* The listing *)

LEMMA KeepsShopCalls ==
    ASSUME Inv, Next
    PROVE  ShopCalls'
<1>1. ASSUME NEW s \in Slots PROVE ShopCall(calls[s])'
  <2>1. /\ CallMoved(s) /\ ShopCall(calls[s]) /\ Typed
    BY CallsMove DEF Inv, ShopCalls
  <2>2. tenant.st # "none" => tenant'.st # "none" /\ (Exists' => Exists)
    BY ShopMoves
  <2>3. \/ UNCHANGED <<tenant, account, item>>
        \/ tenant.st = "none" \/ ~ Exists' \/ ListingsCrossed'
    BY ShopMoves
  <2>4. CASE Waited(s)
    <3>1. /\ calls'[s].phase = calls[s].phase /\ calls'[s].op = calls[s].op
          /\ calls'[s].arg = calls[s].arg /\ calls'[s].seen = calls[s].seen
          /\ calls[s].crossed => calls'[s].crossed
      BY <2>1, <2>4, WaitedSame DEF SameRequest
    <3>2. SUFFICES ASSUME calls'[s].phase = "written"
                   PROVE  /\ tenant'.st # "none"
                          /\ Exists' /\ calls'[s].seen /\ ~ calls'[s].crossed =>
                                Eligible(TenantAfter(calls[s]), AccountAfter(calls[s]), item)'
      BY DEF ShopCall
    <3>3. tenant.st # "none"
      BY <2>1, <3>1, <3>2 DEF ShopCall
    <3>4. SUFFICES ASSUME Exists', calls'[s].seen, ~ calls'[s].crossed
                   PROVE  Eligible(TenantAfter(calls[s]), AccountAfter(calls[s]), item)'
      BY <2>2, <3>3
    <3>5. tenant' = tenant /\ account' = account /\ item' = item
      BY <2>3, <3>2, <3>3, <3>4 DEF ListingsCrossed
    <3>6. Eligible(TenantAfter(calls[s]), AccountAfter(calls[s]), item)
      BY <2>1, <2>2, <3>1, <3>2, <3>3, <3>4 DEF ShopCall
    <3>7. /\ TenantAfter(calls[s])' = TenantAfter(calls[s])
          /\ AccountAfter(calls[s])' = AccountAfter(calls[s])
      BY <3>1, <3>5 DEF TenantAfter, AccountAfter, Activated, Patched, Saved, Revoked
    <3> QED BY <3>5, <3>6, <3>7 DEF Eligible
  <2>5. CASE NowWritten(s)
    <3>1. /\ Exists /\ tenant' = tenant /\ account' = account /\ item' = item
          /\ calls'[s].seen = Eligible(TenantAfter(calls'[s]), AccountAfter(calls'[s]), item)
      BY <2>5 DEF NowWritten
    <3>2. /\ TenantAfter(calls[s])' = TenantAfter(calls'[s])
          /\ AccountAfter(calls[s])' = AccountAfter(calls'[s])
      BY <3>1 DEF TenantAfter, AccountAfter, Activated, Patched, Saved, Revoked
    <3>3. tenant'.st # "none"
      BY <3>1 DEF Exists
    <3>4. calls'[s].seen => Eligible(TenantAfter(calls[s]), AccountAfter(calls[s]), item)'
      BY <3>1, <3>2 DEF Eligible
    <3> QED BY <3>3, <3>4 DEF ShopCall
  <2>6. CASE NowFree(s)
    <3>1. calls'[s].phase = "free"
      BY <2>6 DEF NowFree, NoCall
    <3> QED BY <3>1 DEF ShopCall
  <2>7. CASE \/ NowHashing(s) \/ NowFound(s) \/ NowSent(s) \/ NowAuthorized(s) \/ NowChecked(s)
             \/ NowStored(s)
    BY <2>7 DEF NowHashing, NowFound, NowSent, NowAuthorized, NowChecked, NowStored, ShopCall
  <2> QED BY <2>1, <2>4, <2>5, <2>6, <2>7 DEF CallMoved
<1> QED BY <1>1 DEF ShopCalls

(* A transaction that writes the listing writes what its commit leaves. *)
LEMMA ListingStays ==
    ASSUME Inv, Next
    PROVE  ListedIsOpen'
<1>i. /\ Typed /\ CallsShaped /\ ShopCalls /\ ListedIsOpen
      /\ tenant \in TenantRow /\ listGap \in BOOLEAN /\ listed \in BOOLEAN /\ item \in BOOLEAN
  BY DEF Inv, Typed
<1>1. ASSUME UNCHANGED <<tenant, account, item, listed, listGap>> PROVE ListedIsOpen'
  BY <1>1, <1>i DEF ListedIsOpen, Eligible
<1>2. ASSUME tenant.st = "none", UNCHANGED <<listed, listGap>> PROVE ListedIsOpen'
  BY <1>2, <1>i DEF ListedIsOpen, Eligible
<1>3. ASSUME NEW u \in Users, NEW got \in BOOLEAN, Provision(u, got) PROVE ListedIsOpen'
  BY <1>3, <1>2 DEF Provision
<1>4. ASSUME NEW s \in Slots, CreateBusiness(s) PROVE ListedIsOpen'
  BY <1>4, <1>1, <1>2 DEF CreateBusiness
<1>5. ASSUME NEW s \in Slots, StoreItem(s) PROVE ListedIsOpen'
  <2>1. UNCHANGED <<tenant, account, listed>>
    BY <1>5 DEF StoreItem
  <2>2. CASE calls[s].op = "publish"
    <3>1. (Exists => item') /\ (listGap => listGap')
      BY <1>5, <2>2, <1>i DEF StoreItem
    <3> QED BY <2>1, <3>1, <1>i DEF ListedIsOpen, Eligible, Exists
  <2>3. CASE calls[s].op # "publish"
    BY <1>5, <2>3 DEF StoreItem, ListedIsOpen
  <2> QED BY <2>2, <2>3
<1>6. ASSUME NEW s \in Slots, Commit(s) PROVE ListedIsOpen'
  <2>1. PICK c : c = calls[s]
    OBVIOUS
  <2>2. /\ tenant' = TenantAfter(c) /\ account' = AccountAfter(c) /\ item' = item
        /\ listed' = (IF Syncs(c) THEN c.seen ELSE listed)
        /\ listGap' = (IF Syncs(c) THEN c.crossed ELSE listGap)
        /\ c.phase = "written" /\ Exists
    BY <1>6, <2>1 DEF Commit, At
  <2>3. CASE Syncs(c)
    <3>1. c.seen /\ ~ c.crossed => Eligible(TenantAfter(c), AccountAfter(c), item)
      BY <2>1, <2>2, <1>i DEF ShopCalls, ShopCall
    <3> QED BY <2>2, <2>3, <3>1 DEF ListedIsOpen, Eligible
  <2>4. CASE ~ Syncs(c)
    <3>1. c.op = "update" /\ c.arg = "other"
      BY <2>4 DEF Syncs
    <3>2. account' = account /\ listed' = listed /\ listGap' = listGap
      BY <2>2, <2>4, <3>1 DEF AccountAfter
    <3>3. tenant'.st = tenant.st /\ tenant'.sales = tenant.sales /\ tenant'.place = tenant.place
      <4>1. tenant' = [tenant EXCEPT !.ver = tenant.ver + 1, !.sales = tenant.sales,
                                     !.place = tenant.place]
        <5>1. tenant' = Patched("other")
          BY <2>2, <3>1 DEF TenantAfter
        <5>2. /\ ((tenant.sales \/ "other" = "salesOn") /\ "other" # "salesOff") = tenant.sales
              /\ (tenant.place \/ "other" = "place") = tenant.place
          BY <1>i DEF TenantRow
        <5>3. Patched("other") = [tenant EXCEPT !.ver = tenant.ver + 1,
                  !.sales = ((tenant.sales \/ "other" = "salesOn") /\ "other" # "salesOff"),
                  !.place = (tenant.place \/ "other" = "place")]
          BY DEF Patched
        <5> QED BY <5>1, <5>2, <5>3
      <4> QED BY <4>1, <1>i DEF TenantRow
    <3> QED BY <2>2, <3>2, <3>3, <1>i DEF ListedIsOpen, Eligible
  <2> QED BY <2>3, <2>4
<1>7. ASSUME NEW s \in Slots, DeleteTenant(s) PROVE ListedIsOpen'
  BY <1>7 DEF DeleteTenant, ListedIsOpen
<1>8. ASSUME UNCHANGED shop PROVE ListedIsOpen'
  BY <1>8, <1>1 DEF shop
<1> QED BY <1>3, <1>4, <1>5, <1>6, <1>7, <1>8, ActionsOfShop

-----------------------------------------------------------------------------

(* The theorems *)

LEMMA KeepsInv ==
    ASSUME Inv, Next
    PROVE  Inv'
<1>1. Typed' /\ CallsShaped'
  BY KeepsTyped, KeepsShapes
<1>2. PeopleAgree' /\ OldPasswordNeedsRace' /\ PeopleCalls'
  BY KeepsPeople, KeepsPeopleCalls
<1>3. RolesAgree' /\ MemberCalls' /\ OwnerlessNeedsCrossing'
  BY KeepsRoles, KeepsMemberCalls, OwnerStays
<1>4. ShopCalls' /\ AccountNeedsTenant' /\ ListedIsOpen'
  BY KeepsShopCalls, ShopMoves, ListingStays
<1> QED BY <1>1, <1>2, <1>3, <1>4 DEF Inv

LEMMA StutterKeeps ==
    ASSUME Inv, UNCHANGED vars
    PROVE  Inv'
<1>1. /\ user' = user /\ session' = session /\ link' = link /\ member' = member
      /\ tenant' = tenant /\ account' = account /\ item' = item /\ listed' = listed
      /\ oauth' = oauth /\ calls' = calls /\ serial' = serial /\ memberGap' = memberGap
      /\ listGap' = listGap
  BY DEF vars
<1>2. Typed' /\ CallsShaped'
  BY <1>1 DEF Inv, Typed, CallsShaped, CallShaped
<1>3. PeopleAgree' /\ OldPasswordNeedsRace' /\ PeopleCalls'
  BY <1>1 DEF Inv, PeopleAgree, OldPasswordNeedsRace, PeopleCalls, PeopleCall
<1>4. RolesAgree' /\ MemberCalls' /\ OwnerlessNeedsCrossing'
  BY <1>1 DEF Inv, RolesAgree, MemberCalls, MemberCall, OwnerlessNeedsCrossing, Exists, Members,
              Owners, LastOwner
<1>5. ShopCalls' /\ AccountNeedsTenant' /\ ListedIsOpen'
  BY <1>1 DEF Inv, ShopCalls, ShopCall, AccountNeedsTenant, ListedIsOpen, Exists, Eligible,
              TenantAfter, AccountAfter, Activated, Patched, Saved, Revoked
<1> QED BY <1>2, <1>3, <1>4, <1>5 DEF Inv

(* The first sessions are one of each person. *)
LEMMA FirstSessions ==
    ASSUME NEW first, first = SetToSeq([user : Users, pw : {0}, live : {TRUE}, raced : {FALSE}])
    PROVE  /\ first \in Seq(SessionRow)
           /\ \A i \in DOMAIN first : /\ first[i].user \in Users /\ first[i].pw = 0
<1> DEFINE S == [user : Users, pw : {0}, live : {TRUE}, raced : {FALSE}]
           n == Cardinality(S)
<1>1. IsFiniteSet(S)
  <2>1. IsFiniteSet(Users)
    BY BusinessAssumption
  <2> DEFINE f == [u \in Users |-> [user |-> u, pw |-> 0, live |-> TRUE, raced |-> FALSE]]
  <2>2. f \in Surjection(Users, S)
    <3>1. f \in [Users -> S]
      OBVIOUS
    <3>2. ASSUME NEW r \in S PROVE \E u \in Users : f[u] = r
      <4>1. r = [user |-> r.user, pw |-> 0, live |-> TRUE, raced |-> FALSE]
        OBVIOUS
      <4> QED BY <4>1
    <3> QED BY <3>1, <3>2 DEF Surjection
  <2> QED BY <2>1, <2>2, FS_Surjection
<1>2. n \in Nat /\ \E b : b \in Bijection(1 .. n, S)
  BY <1>1, FS_CardinalityType DEF ExistsBijection
<1>3. \E b \in [1 .. n -> S] : IsInjective(b)
  BY <1>2 DEF Bijection, Injection
<1>4. S \subseteq SessionRow
  <2>1. {0} \subseteq Nat /\ {TRUE} \subseteq BOOLEAN /\ {FALSE} \subseteq BOOLEAN
    OBVIOUS
  <2>2. ASSUME NEW r \in S PROVE r \in SessionRow
    <3>1. /\ r.user \in Users /\ r.pw = 0 /\ r.live = TRUE /\ r.raced = FALSE
          /\ r = [user |-> r.user, pw |-> r.pw, live |-> r.live, raced |-> r.raced]
      OBVIOUS
    <3> QED BY <2>1, <3>1 DEF SessionRow
  <2> QED BY <2>2
<1>5. \A r \in S : r.user \in Users /\ r.pw = 0
  OBVIOUS
<1>6. first = CHOOSE b \in [1 .. n -> S] : IsInjective(b)
  BY DEF SetToSeq
<1> HIDE DEF S, n
<1>7. first \in [1 .. n -> S]
  BY <1>3, <1>6
<1>8. first \in [1 .. n -> SessionRow]
  BY <1>4, <1>7
<1> QED BY <1>2, <1>5, <1>7, <1>8, SeqDef

LEMMA InitInv ==
    ASSUME Init
    PROVE  Inv
<1>c. \A s \in Slots : calls[s] = NoCall
  BY DEF Init
<1>n. NoCall.phase = "free" /\ NoCall.op = "none" /\ NoCall \in Call
  BY NoCallShape DEF NoCall
<1>z. /\ NoUser \in UserRow /\ [NoUser EXCEPT !.st = "active"] \in UserRow
      /\ NoUser.pw = 0 /\ [NoUser EXCEPT !.st = "active"].pw = 0
      /\ [NoUser EXCEPT !.st = "active"].st = "active"
  <2>1. NoUser \in UserRow /\ NoUser.pw = 0
    BY DEF NoUser, UserRow
  <2>2. ASSUME NEW q \in UserRow
        PROVE  /\ [q EXCEPT !.st = "active"] \in UserRow
               /\ [q EXCEPT !.st = "active"].pw = q.pw /\ [q EXCEPT !.st = "active"].st = "active"
    BY DEF UserRow
  <2> QED BY <2>1, <2>2
<1>m. NoMember \in MemberRow /\ NoMember.role = "none" /\ NoMember.id = 0
  BY DEF NoMember, MemberRow
<1>b. /\ link = <<>> /\ oauth = {} /\ memberGap = FALSE /\ listGap = FALSE
      /\ calls \in [Slots -> Call] /\ link \in Seq(LinkRow) /\ DOMAIN link = {}
  <2>1. link = <<>> /\ oauth = {} /\ memberGap = FALSE /\ listGap = FALSE
        /\ calls = [s \in Slots |-> NoCall]
    BY DEF Init
  <2>2. link \in Seq(LinkRow) /\ Len(link) = 0
    BY <2>1, EmptySeq
  <2>3. DOMAIN link = {}
    BY <2>2, LenProperties
  <2> QED BY <2>1, <2>2, <2>3, <1>n
<1>1. CallsShaped /\ PeopleCalls /\ MemberCalls /\ ShopCalls
  <2>1. ASSUME NEW s \in Slots
        PROVE  CallShaped(calls[s]) /\ PeopleCall(calls[s]) /\ MemberCall(calls[s]) /\ ShopCall(calls[s])
    BY <1>c, <1>n DEF CallShaped, PeopleCall, MemberCall, ShopCall, LinkOps, MemberOps
  <2> QED BY <2>1 DEF CallsShaped, PeopleCalls, MemberCalls, ShopCalls
<1>2. CASE /\ user = [u \in Users |->
                IF u \in Elsewhere THEN [NoUser EXCEPT !.st = "active"] ELSE NoUser]
           /\ session = <<>>
           /\ member = [u \in Users |-> NoMember]
           /\ serial = 0
           /\ tenant = NoTenant /\ account = NoAccount
           /\ item = FALSE /\ listed = FALSE
  <2>1. session \in Seq(SessionRow) /\ DOMAIN session = {}
    <3>1. session \in Seq(SessionRow) /\ Len(session) = 0
      BY <1>2, EmptySeq
    <3> QED BY <3>1, LenProperties
  <2>2. tenant \in TenantRow /\ account \in AccountRow /\ tenant.st = "none" /\ account.st = "none"
    BY <1>2 DEF NoTenant, NoAccount, TenantRow, AccountRow
  <2>3. /\ user \in [Users -> UserRow] /\ \A u \in Users : user[u].pw = 0
        /\ member \in [Users -> MemberRow]
        /\ \A u \in Users : member[u].role = "none" /\ member[u].id = 0
    BY <1>2, <1>z, <1>m
  <2>4. Typed
    BY <1>2, <1>b, <2>1, <2>2, <2>3 DEF Typed
  <2>5. PeopleAgree /\ OldPasswordNeedsRace
    BY <1>b, <2>1, <2>3 DEF PeopleAgree, OldPasswordNeedsRace
  <2>6. RolesAgree /\ OwnerlessNeedsCrossing /\ AccountNeedsTenant /\ ListedIsOpen
    BY <1>2, <2>2, <2>3 DEF RolesAgree, OwnerlessNeedsCrossing, AccountNeedsTenant, ListedIsOpen,
                            Exists
  <2> QED BY <1>1, <2>4, <2>5, <2>6 DEF Inv
<1>3. CASE /\ user = [u \in Users |-> [NoUser EXCEPT !.st = "active"]]
           /\ session = SetToSeq([user : Users, pw : {0}, live : {TRUE}, raced : {FALSE}])
           /\ member = [u \in Users |-> [role |-> "owner", id |-> 1]]
           /\ serial = 1
           /\ tenant = [st |-> "active", ver |-> 1, sales |-> TRUE, place |-> TRUE]
           /\ account = [st |-> "active", ver |-> 1]
           /\ item = TRUE /\ listed = TRUE
  <2>1. /\ session \in Seq(SessionRow)
        /\ \A i \in DOMAIN session : session[i].user \in Users /\ session[i].pw = 0
    BY <1>3, FirstSessions
  <2>2. /\ tenant \in TenantRow /\ account \in AccountRow /\ Exists
        /\ tenant.st = "active" /\ tenant.sales /\ tenant.place /\ account.st = "active"
    BY <1>3 DEF TenantRow, AccountRow, Exists
  <2>3. /\ user \in [Users -> UserRow]
        /\ \A u \in Users : user[u].pw = 0 /\ user[u].st = "active"
    BY <1>3, <1>z
  <2>4. /\ member \in [Users -> MemberRow]
        /\ \A u \in Users : member[u].role = "owner" /\ member[u].id = 1
    BY <1>3 DEF MemberRow, Roles
  <2>5. Typed
    BY <1>3, <1>b, <2>1, <2>2, <2>3, <2>4 DEF Typed
  <2>6. PeopleAgree /\ OldPasswordNeedsRace
    BY <1>b, <2>1, <2>3 DEF PeopleAgree, OldPasswordNeedsRace
  <2>7. RolesAgree
    BY <1>3, <2>2, <2>3, <2>4 DEF RolesAgree
  <2>8. OwnerlessNeedsCrossing
    BY <2>4, BusinessAssumption DEF OwnerlessNeedsCrossing, Owners
  <2>9. AccountNeedsTenant /\ ListedIsOpen
    BY <1>3, <2>2 DEF AccountNeedsTenant, ListedIsOpen, Eligible
  <2> QED BY <1>1, <2>5, <2>6, <2>7, <2>8, <2>9 DEF Inv
<1> QED BY <1>2, <1>3 DEF Init

(* The invariant: what a request has read holds until it writes, or it was crossed. *)
THEOREM InvAlways == Spec => []Inv
<1>1. Init => Inv
  BY InitInv
<1>2. Inv /\ [Next]_vars => Inv'
  BY KeepsInv, StutterKeeps
<1> QED BY <1>1, <1>2, PTL DEF Spec

(* A business that exists has an owner among its people, unless two requests about its *)
(* members overlapped (member.service.ts).                                             *)
THEOREM MembersAgreeAlways == Spec => []MembersAgree
<1>1. Inv => MembersAgree
  <2> SUFFICES ASSUME Inv PROVE MembersAgree
    OBVIOUS
  <2>1. Typed /\ RolesAgree /\ AccountNeedsTenant /\ OwnerlessNeedsCrossing
    BY DEF Inv
  <2>2. \A i \in DOMAIN session : session[i].user \in Users
    <3>1. ASSUME NEW i \in DOMAIN session PROVE session[i].user \in Users
      <4>1. session[i] \in SessionRow
        BY <2>1, RowTyped DEF Typed
      <4> QED BY <4>1 DEF SessionRow
    <3> QED BY <3>1
  <2>3. \A u \in Users : user[u].st \in {"none", "pending", "active"}
    BY <2>1 DEF Typed, UserRow
  <2>4. \A u \in Users : member[u].role \in Roles \cup {"none"} /\ member[u].id <= serial
    BY <2>1 DEF Typed, MemberRow, RolesAgree
  <2>5. (\A u \in Members : user[u].st # "none") /\ (Members # {} => Exists)
    BY <2>1 DEF RolesAgree, Members
  <2>6. tenant.st \in {"none", "onboarding", "active", "gone"}
    BY <2>1 DEF Typed, TenantRow
  <2>7. (account.st # "none" => Exists) /\ listed \in BOOLEAN /\ item \in BOOLEAN
    BY <2>1 DEF Typed, AccountNeedsTenant
  <2>8. TypeOK
    BY <2>2, <2>3, <2>4, <2>5, <2>6, <2>7 DEF TypeOK
  <2> QED BY <2>1, <2>8 DEF MembersAgree
<1> QED BY <1>1, InvAlways, PTL

(* No session outlives its password, unless its login had compared it before the reset *)
(* committed (password-recovery.service.ts).                                           *)
THEOREM OldPasswordNeedsRaceAlways == Spec => []OldPasswordNeedsRace
<1>1. Inv => OldPasswordNeedsRace
  BY DEF Inv
<1> QED BY <1>1, InvAlways, PTL

(* The directory lists what can be ordered from, unless a transaction was overtaken or *)
(* the menu emptied (search-sync.service.ts).                                          *)
THEOREM ListedIsOpenAlways == Spec => []ListedIsOpen
<1>1. Inv => ListedIsOpen
  BY DEF Inv
<1> QED BY <1>1, InvAlways, PTL

(* The step that uses a link is the one that spends it, and spent is for ever (the     *)
(* isNull(consumedAt) of the consuming updates).                                       *)
THEOREM LinkSpentOnceAlways == Spec => LinkSpentOnce
<1>1. Inv /\ [Next]_vars =>
         [\A l \in DOMAIN link :
            /\ link'[l].uses # link[l].uses => link[l].st \in Unspent /\ link'[l].st = "spent"
            /\ link[l].st = "spent" => link'[l].st = "spent"]_vars
  <2> SUFFICES ASSUME Inv, Next
               PROVE  \A l \in DOMAIN link :
                        /\ link'[l].uses # link[l].uses
                              => link[l].st \in Unspent /\ link'[l].st = "spent"
                        /\ link[l].st = "spent" => link'[l].st = "spent"
    OBVIOUS
  <2> QED BY LinksMove DEF LinksFrom
<1> QED BY <1>1, InvAlways, PTL DEF Spec, LinkSpentOnce

=============================================================================
