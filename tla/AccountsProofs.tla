--------------------------- MODULE AccountsProofs ---------------------------
(***************************************************************************)
(* Proofs about Accounts: every safety property of the run "accounts" and  *)
(* both of its action properties, for any number of requests, roles,       *)
(* administrators and failed attempts.                                     *)
(*                                                                         *)
(* IInv is inductive.  Its parts, and what each is needed for:             *)
(*   CountInv    a request takes one number and adds one failure, so the   *)
(*               numbers and the counter stay within the requests served;  *)
(*   NumberInv   a number is given out once: a code on its way to the row  *)
(*               (Sender) is on no column and with no other request;       *)
(*   CodeInv     a code sits on one column, and its Holder's use of it is  *)
(*               the last: a commit that spends it clears that column;     *)
(*   MailInv     a code past the mail is not "unsent";                     *)
(*   RowInv      only one request at a time replaces the row, and only one *)
(*               nobody has logged into; "verified" and "password" never   *)
(*               go back on the row a request has read;                    *)
(*   SessionInv, LockInv, GrantInv   the properties, with what they need.  *)
(* Most commits leave the row its identity and give it no code (KeptInv);  *)
(* a new row is one that no request has read (NobodyReadIt).               *)
(***************************************************************************)
EXTENDS Accounts, FiniteSetTheorems, TLAPS

Ops == {"none", "login", "refresh", "logout", "register", "add user", "resend otp", "forgot",
        "activate", "accept", "reset", "change", "update user", "delete user"}
AdminOps == {"none", "remove role", "add role", "update role", "delete permission"}

Users == [id : {0} \cup Ids, verified : BOOLEAN, password : BOOLEAN, otp : {0} \cup Ids,
          link : {0} \cup Ids, invite : {0} \cup Ids, failed : Nat,
          lock : {"none", "on", "over"}, deleted : BOOLEAN, logged : BOOLEAN]
Sessions == [user : {0} \cup Ids, pair : {0} \cup Ids, revoked : BOOLEAN, resets : Nat]
Requests == [op : Ops, at : {"idle", "read", "flushed", "flushed mailed", "mailed"}, seen : Users,
             session : {0} \cup Ids, code : {0} \cup Ids, role : 0..MaxRoles]

\* Types, and what the place of a request says of what it holds.
RolesType ==
  /\ roles \subseteq RoleIds /\ permissions \subseteq Perms /\ rolePerms \subseteq RoleIds \X Perms
  /\ nextRole \in 1..MaxRoles + 1 /\ served \in 0..MaxRequests
  /\ admin \in [Admins -> [op : AdminOps, role : 0..MaxRoles, wants : SUBSET Perms]]
  /\ \A a \in Admins : admin[a].op \in {"remove role", "update role"} => admin[a].role \in RoleIds

RowTypes ==
  /\ grants \subseteq (0..MaxRequests + 1) \X RoleIds
  /\ user \in Users
  /\ sessions \in [Ids -> Sessions]
  /\ age \in [Ids -> {"unsent", "new", "good", "old"}]
  /\ req \in [Reqs -> Requests]
  /\ next \in Nat /\ wrong \in Nat /\ resets \in Nat /\ used \subseteq Ids

PlacesOK ==
  \A r \in Reqs : LET q == req[r] IN
    /\ q.op = "none" <=> q.at = "idle"
    /\ q.at \in {"flushed", "flushed mailed"} => q.op \in {"register", "add user"}
    /\ q.at = "mailed" => q.op \in {"resend otp", "forgot"}
    /\ q.op = "add user" => q.role \in RoleIds
    /\ q.op = "update user" => q.role \in RoleIds
    /\ q.op \in {"refresh", "logout"} => q.session \in Ids

\* The numbers suffice: a request takes at most one, after it has read, and
\* adds at most one to the failures it read.
Fresh == {r \in Reqs : req[r].at = "read"}
CountInv ==
  /\ IsFiniteSet(Fresh)
  /\ next + Cardinality(Fresh) <= served + 2
  /\ user.failed + Cardinality(Fresh) <= served
  /\ \A r \in Reqs : req[r].op # "none" => req[r].seen.failed + Cardinality(Fresh) <= served

\* Numbers are given out once.
Sender(r) == req[r].at \in {"flushed", "flushed mailed", "mailed"}
Holder(r) == req[r].op \in {"activate", "accept", "reset"}
Stored    == {user.otp, user.link, user.invite}

NumberInv ==
  /\ \A n \in Stored \cup used \cup {user.id} : n < next
  /\ \A s \in Ids : sessions[s].user # 0 => s < next
  /\ \A r \in Reqs : req[r].code < next /\ req[r].seen.id < next /\ req[r].session < next
  /\ \A r \in Reqs : Sender(r) \/ Holder(r) => req[r].code # 0
  /\ \A r, q \in Reqs : Sender(r) /\ (Sender(q) \/ Holder(q)) /\ r # q => req[r].code # req[q].code
  /\ \A r \in Reqs : Sender(r) => req[r].code \notin Stored \cup used \cup {user.id}
  /\ \A r, q \in Reqs : Sender(r) /\ req[q].op # "none" => req[r].code # req[q].seen.id

\* A code has one use, and is not stored once it has been put to it.
CodeInv ==
  /\ user.otp # 0 => user.otp \notin {user.link, user.invite}
  /\ user.link # 0 => user.link # user.invite
  /\ \A r \in Reqs :
       /\ req[r].op = "activate" => req[r].code \notin {user.link, user.invite}
       /\ req[r].op = "accept"   => req[r].code \notin {user.link, user.otp}
       /\ req[r].op = "reset"    => req[r].code \notin {user.otp, user.invite}
  /\ used \cap Stored = {}

MailInv ==
  /\ \A c \in Stored \ {0} : age[c] # "unsent"
  /\ \A r \in Reqs : req[r].at \in {"flushed mailed", "mailed"} => age[req[r].code] # "unsent"

\* One request at a time replaces the row, and only one nobody has logged into.
RowInv ==
  /\ \A r, q \in Reqs : req[r].at \in {"flushed", "flushed mailed"} /\ req[q].at \in {"flushed", "flushed mailed"} => r = q
  /\ \A r \in Reqs : req[r].at \in {"flushed", "flushed mailed"} => ~user.logged
  /\ \A r \in Reqs : req[r].op # "none" /\ req[r].seen.id = user.id =>
       /\ req[r].seen.verified => user.verified
       /\ req[r].seen.password => user.password
  /\ \A r \in Reqs : req[r].op = "login" => req[r].seen.verified /\ req[r].seen.password
  /\ \A r \in Reqs : req[r].op \in {"login", "forgot", "reset"} => req[r].seen.id # 0
  /\ user.link # 0 => user.id # 0

SessionInv ==
  \A s \in Ids :
    /\ sessions[s].user = 0 => sessions[s] = NoSession
    /\ sessions[s].user # 0 => /\ sessions[s].user = user.id /\ user.logged /\ user.verified /\ user.password
                               /\ sessions[s].revoked \/ sessions[s].resets = resets

\* The failures read from the row were committed to it.
LockInv ==
  /\ user.lock = "on" => wrong >= MaxFails
  /\ user.failed <= wrong
  /\ \A r \in Reqs : req[r].op # "none" /\ req[r].seen.id = user.id => req[r].seen.failed <= wrong

GrantInv == \A g \in grants : g[2] \in roles

IInv == RolesType /\ RowTypes /\ PlacesOK /\ CountInv /\ NumberInv /\ CodeInv /\ MailInv /\ RowInv /\ SessionInv /\ LockInv /\ GrantInv

-----------------------------------------------------------------------------
(* The initial states                                                       *)

LEMMA InitInv == Init => IInv
<1> SUFFICES ASSUME Init PROVE IInv
  OBVIOUS
<1>1. RolesType /\ GrantInv
  <2>1. NoRequest \in [op : AdminOps, role : 0..MaxRoles, wants : SUBSET Perms] /\ NoRequest.op = "none"
    BY RolesAssumption DEF NoRequest, AdminOps
  <2>2. 1 \in RoleIds /\ 2 \in 1..MaxRoles + 1
    BY RolesAssumption DEF RoleIds
  <2>3. /\ roles = {1} /\ permissions = Perms /\ rolePerms = {1} \X Perms /\ nextRole = 2
        /\ admin = [a \in Admins |-> NoRequest] /\ served = 0
    BY DEF Init, RolesInit, Customer
  <2>4. 0 \in 0..MaxRequests
    BY RolesAssumption
  <2>5. admin \in [Admins -> [op : AdminOps, role : 0..MaxRoles, wants : SUBSET Perms]]
    BY <2>1, <2>3
  <2>6. \A a \in Admins : admin[a].op = "none"
    BY <2>1, <2>3
  <2>7. rolePerms \subseteq RoleIds \X Perms
    BY <2>2, <2>3
  <2>8. RolesType
    BY <2>2, <2>3, <2>4, <2>5, <2>6, <2>7 DEF RolesType
  <2> QED
    BY <2>8 DEF Init, RolesInit, GrantInv, Customer
<1>2. NoRow \in Users /\ Seeded \in Users
  <2>1. NoRow \in Users
    BY DEF NoRow, Users
  <2>2. 1 \in Ids
    BY RolesAssumption DEF Ids
  <2> QED
    BY <2>1, <2>2 DEF Seeded, Users
<1>3. RowTypes
  <2>1. NoSession \in Sessions /\ NoReq \in Requests
    BY <1>2, RolesAssumption DEF NoSession, Sessions, NoReq, Requests, Ops
  <2>2. grants \subseteq (0..MaxRequests + 1) \X RoleIds
    BY RolesAssumption DEF Init, RoleIds, Customer
  <2> QED
    BY <1>2, <2>1, <2>2 DEF Init, RowTypes
<1>4. user.id \in {0, 1} /\ user.otp = 0 /\ user.link = 0 /\ user.invite = 0 /\ user.failed = 0 /\ user.lock = "none" /\ ~user.logged
  <2>1. NoRow.id = 0 /\ NoRow.otp = 0 /\ NoRow.link = 0 /\ NoRow.invite = 0 /\ NoRow.failed = 0 /\ NoRow.lock = "none" /\ ~NoRow.logged
    BY DEF NoRow
  <2>2. Seeded.id = 1 /\ Seeded.otp = 0 /\ Seeded.link = 0 /\ Seeded.invite = 0 /\ Seeded.failed = 0 /\ Seeded.lock = "none" /\ Seeded.logged = FALSE
    BY <1>2, <2>1 DEF Seeded, Users
  <2> QED
    BY <2>1, <2>2 DEF Init
<1>5. \A r \in Reqs : /\ req[r].op = "none" /\ req[r].at = "idle" /\ req[r].session = 0 /\ req[r].code = 0
                       /\ req[r].seen.id = 0 /\ req[r].role = 0
  <2>1. NoReq.op = "none" /\ NoReq.at = "idle" /\ NoReq.session = 0 /\ NoReq.code = 0 /\ NoReq.seen.id = 0 /\ NoReq.role = 0
    BY DEF NoReq, NoRow
  <2> QED
    BY <2>1 DEF Init
<1>6. PlacesOK /\ RowInv
  BY <1>4, <1>5 DEF PlacesOK, RowInv
<1>7. CountInv
  <2>1. Fresh = {}
    BY <1>5 DEF Fresh
  <2>2. next = 2 /\ served = 0
    BY DEF Init, RolesInit
  <2> QED
    BY <1>4, <1>5, <2>1, <2>2, FS_EmptySet DEF CountInv
<1>8. NumberInv /\ CodeInv /\ MailInv
  <2>1. \A r \in Reqs : ~Sender(r) /\ ~Holder(r)
    BY <1>5 DEF Sender, Holder
  <2>2. (\A s \in Ids : sessions[s].user = 0) /\ next = 2 /\ used = {}
    BY DEF Init, NoSession
  <2>3. Stored = {0}
    BY <1>4 DEF Stored
  <2>4. NumberInv
    BY <1>4, <1>5, <2>1, <2>2, <2>3 DEF NumberInv
  <2>5. CodeInv /\ MailInv
    BY <1>4, <1>5, <2>2, <2>3 DEF CodeInv, MailInv
  <2> QED
    BY <2>4, <2>5
<1>9. SessionInv
  BY DEF Init, SessionInv, NoSession
<1>10. LockInv
  BY <1>4, <1>5 DEF Init, LockInv
<1> QED
  BY <1>1, <1>3, <1>6, <1>7, <1>8, <1>9, <1>10 DEF IInv

-----------------------------------------------------------------------------
(* A request begins                                                         *)

\* What the checks of a request leave it with.
Begins(r, op, s, code, role) ==
  /\ Read(r, op, s, code, role)
  /\ op \in Ops \ {"none"} /\ s \in {0} \cup Ids /\ code \in {0} \cup Ids /\ role \in 0..MaxRoles
  /\ op \in {"add user", "update user"} => role \in RoleIds
  /\ op \in {"refresh", "logout"} => s \in Ids
  /\ s # 0 => sessions[s].user # 0
  /\ op = "login" => user.verified /\ user.password
  /\ op \in {"login", "forgot"} => user.id # 0
  /\ op = "activate" => code = user.otp /\ code # 0
  /\ op = "accept" => code = user.invite /\ code # 0
  /\ op = "reset" => code = user.link /\ code # 0
  /\ op \notin {"activate", "accept", "reset"} => code = 0

\* Every first step is one Read, of what its checks let through.
LEMMA BeginsAs ==
  ASSUME IInv, NEW r \in Reqs,
         \/ BeginLogin(r) \/ BeginRefresh(r) \/ BeginLogout(r) \/ BeginRegister(r) \/ BeginAddUser(r)
         \/ BeginResendOtp(r) \/ BeginForgot(r) \/ BeginActivate(r) \/ BeginAccept(r) \/ BeginReset(r)
         \/ BeginChange(r) \/ BeginUpdateUser(r) \/ BeginDeleteUser(r)
  PROVE  \E op, s, code, role : Begins(r, op, s, code, role)
<1>1. /\ user.otp \in {0} \cup Ids /\ user.link \in {0} \cup Ids /\ user.invite \in {0} \cup Ids
  BY DEF IInv, RowTypes, Users
<1>2. roles \subseteq RoleIds /\ RoleIds \subseteq 0..MaxRoles /\ 0 \in 0..MaxRoles
  <2>1. roles \subseteq RoleIds
    BY DEF IInv, RolesType
  <2> QED
    BY <2>1, RolesAssumption DEF RoleIds
<1>3. BeginLogin(r) => Begins(r, "login", 0, 0, 0)
  BY <1>2 DEF BeginLogin, Exists, Begins, Ops
<1>4. BeginRefresh(r) => \E s \in Ids : Begins(r, "refresh", s, 0, 0)
  BY <1>2 DEF BeginRefresh, Live, Begins, Ops
<1>5. BeginLogout(r) => \E s \in Ids : Begins(r, "logout", s, 0, 0)
  BY <1>2 DEF BeginLogout, Live, Begins, Ops
<1>6. BeginRegister(r) => Begins(r, "register", 0, 0, 0)
  BY <1>2 DEF BeginRegister, Begins, Ops
<1>7. BeginAddUser(r) => \E role \in roles : Begins(r, "add user", 0, 0, role)
  BY <1>2 DEF BeginAddUser, Begins, Ops
<1>8. BeginResendOtp(r) => Begins(r, "resend otp", 0, 0, 0)
  BY <1>2 DEF BeginResendOtp, Begins, Ops
<1>9. BeginForgot(r) => Begins(r, "forgot", 0, 0, 0)
  BY <1>2 DEF BeginForgot, Exists, Begins, Ops
<1>10. BeginActivate(r) => Begins(r, "activate", 0, user.otp, 0)
  BY <1>1, <1>2 DEF BeginActivate, Begins, Ops
<1>11. BeginAccept(r) => Begins(r, "accept", 0, user.invite, 0)
  BY <1>1, <1>2 DEF BeginAccept, Begins, Ops
<1>12. BeginReset(r) => Begins(r, "reset", 0, user.link, 0)
  BY <1>1, <1>2 DEF BeginReset, Begins, Ops
<1>13. BeginChange(r) => Begins(r, "change", 0, 0, 0)
  BY <1>2 DEF BeginChange, Begins, Ops
<1>14. BeginUpdateUser(r) => \E role \in RoleIds : Begins(r, "update user", 0, 0, role)
  BY <1>2 DEF BeginUpdateUser, Begins, Ops
<1>15. BeginDeleteUser(r) => Begins(r, "delete user", 0, 0, 0)
  BY <1>2 DEF BeginDeleteUser, Begins, Ops
<1> QED
  BY <1>3, <1>4, <1>5, <1>6, <1>7, <1>8, <1>9, <1>10, <1>11, <1>12, <1>13, <1>14, <1>15, Zenon

LEMMA BeginsInv ==
  ASSUME IInv, NEW r \in Reqs, NEW op, NEW s, NEW code, NEW role, Begins(r, op, s, code, role)
  PROVE  IInv'
<1>1. /\ req[r].op = "none" /\ served < MaxRequests /\ served' = served + 1
      /\ req' = [req EXCEPT ![r] = [op |-> op, at |-> "read", seen |-> user,
                                    session |-> s, code |-> code, role |-> role]]
      /\ UNCHANGED <<roles, rolePerms, permissions, nextRole, grants, admin, user, sessions, age, next, wrong, used, resets>>
  BY DEF Begins, Read, tablevars
<1>2. RolesType' /\ GrantInv' /\ served \in Nat
  <2>1. RolesType /\ GrantInv
    BY DEF IInv
  <2>2. served \in Nat /\ served + 1 \in 0..MaxRequests
    <3>1. served \in 0..MaxRequests /\ served < MaxRequests
      BY <1>1, <2>1 DEF RolesType
    <3> QED
      BY <3>1, RolesAssumption
  <2>3. RolesType'
    BY <1>1, <2>1, <2>2 DEF RolesType
  <2>4. GrantInv'
    BY <1>1, <2>1 DEF GrantInv
  <2> QED
    BY <2>2, <2>3, <2>4
<1>3. RowTypes'
  <2>1. [op |-> op, at |-> "read", seen |-> user, session |-> s, code |-> code, role |-> role] \in Requests
    BY DEF Begins, Requests, IInv, RowTypes
  <2> QED
    BY <1>1, <2>1 DEF IInv, RowTypes
<1>4. /\ req'[r].op = op /\ req'[r].at = "read" /\ req'[r].seen = user /\ req'[r].session = s
      /\ req'[r].code = code /\ req'[r].role = role
      /\ \A q \in Reqs \ {r} : req'[q] = req[q]
  BY <1>1 DEF IInv, RowTypes
<1>5. req[r].at = "idle"
  BY <1>1 DEF IInv, PlacesOK
<1>6. PlacesOK'
  BY <1>4 DEF IInv, PlacesOK, Begins
<1>7. CountInv'
  <2>1. Fresh' = Fresh \cup {r} /\ r \notin Fresh
    BY <1>4, <1>5 DEF Fresh
  <2>2. IsFiniteSet(Fresh)
    BY DEF IInv, CountInv
  <2>3. IsFiniteSet(Fresh') /\ Cardinality(Fresh') = Cardinality(Fresh) + 1 /\ Cardinality(Fresh) \in Nat
    BY <2>1, <2>2, FS_AddElement, FS_CardinalityType
  <2>4. /\ next + Cardinality(Fresh) <= served + 2 /\ user.failed + Cardinality(Fresh) <= served
        /\ \A q \in Reqs : req[q].op # "none" => req[q].seen.failed + Cardinality(Fresh) <= served
    BY DEF IInv, CountInv
  <2>5. next \in Nat /\ user.failed \in Nat /\ \A q \in Reqs : req[q].seen.failed \in Nat
    BY DEF IInv, RowTypes, Requests, Users
  <2>6. next' + Cardinality(Fresh') <= served' + 2 /\ user'.failed + Cardinality(Fresh') <= served'
    BY <1>1, <1>2, <2>3, <2>4, <2>5
  <2>7. ASSUME NEW q \in Reqs, req'[q].op # "none" PROVE req'[q].seen.failed + Cardinality(Fresh') <= served'
    BY <1>1, <1>2, <1>4, <2>3, <2>4, <2>5, <2>7
  <2> QED
    BY <2>3, <2>6, <2>7 DEF CountInv
<1>8. /\ \A q \in Reqs \ {r} : Sender(q)' = Sender(q) /\ Holder(q)' = Holder(q)
      /\ ~Sender(r)' /\ (Holder(r)' => code \in Stored \ {0}) /\ Stored' = Stored
  BY <1>1, <1>4 DEF Sender, Holder, Stored, Begins
<1>9. NumberInv'
  <2>1. NumberInv
    BY DEF IInv
  <2>2. code < next /\ s < next
    <3>1. code \in Stored \cup {0}
      BY DEF Begins, Ops, Stored
    <3>2. \A n \in Stored \cup {user.id} : n < next
      BY <2>1 DEF NumberInv
    <3>3. next \in Nat /\ user.id \in Nat
      BY DEF IInv, RowTypes, Users, Ids
    <3>4. 0 < next
      BY <3>2, <3>3
    <3>5. code < next
      BY <3>1, <3>2, <3>4
    <3>6. s \in Ids /\ sessions[s].user # 0 => s < next
      BY <2>1 DEF NumberInv
    <3>7. s = 0 \/ (s \in Ids /\ sessions[s].user # 0)
      BY DEF Begins
    <3> QED
      BY <3>4, <3>5, <3>6, <3>7
  <2> QED
    BY <1>1, <1>4, <1>8, <2>1, <2>2 DEF NumberInv
<1>10. CodeInv'
  <2>1. CodeInv
    BY DEF IInv
  <2>2. user' = user /\ used' = used
    BY <1>1
  <2>3. /\ op = "activate" => code \notin {user.link, user.invite}
        /\ op = "accept" => code \notin {user.link, user.otp}
        /\ op = "reset" => code \notin {user.otp, user.invite}
    BY <2>1 DEF CodeInv, Begins
  <2> QED
    BY <1>4, <1>8, <2>1, <2>2, <2>3 DEF CodeInv
<1>11. MailInv' /\ LockInv' /\ SessionInv'
  <2>1. MailInv /\ LockInv /\ SessionInv
    BY DEF IInv
  <2>2. MailInv'
    BY <1>1, <1>4, <1>8, <2>1 DEF MailInv
  <2>3. LockInv'
    BY <1>1, <1>4, <2>1 DEF LockInv
  <2>4. SessionInv'
    BY <1>1, <2>1 DEF SessionInv
  <2> QED
    BY <2>2, <2>3, <2>4
<1>12. RowInv'
  <2>1. RowInv /\ user' = user
    BY <1>1 DEF IInv
  <2>2. /\ op = "login" => user.verified /\ user.password
        /\ op \in {"login", "forgot", "reset"} => user.id # 0
    <3>1. op = "reset" => user.link # 0
      BY DEF Begins
    <3> QED
      BY <2>1, <3>1 DEF Begins, RowInv
  <2>3. \A q \in Reqs : req'[q].at \in {"flushed", "flushed mailed"} => q # r /\ req'[q] = req[q]
    BY <1>4
  <2>4. \A q \in Reqs : req'[q].op = "login" => req'[q].seen.verified /\ req'[q].seen.password
    BY <1>4, <2>1, <2>2 DEF RowInv
  <2>5. \A q \in Reqs : req'[q].op \in {"login", "forgot", "reset"} => req'[q].seen.id # 0
    BY <1>4, <2>1, <2>2 DEF RowInv
  <2>6. \A q \in Reqs : req'[q].op # "none" /\ req'[q].seen.id = user'.id =>
                           /\ req'[q].seen.verified => user'.verified
                           /\ req'[q].seen.password => user'.password
    BY <1>4, <2>1 DEF RowInv
  <2> QED
    BY <2>1, <2>3, <2>4, <2>5, <2>6 DEF RowInv
<1> QED
  BY <1>2, <1>3, <1>6, <1>7, <1>9, <1>10, <1>11, <1>12 DEF IInv

-----------------------------------------------------------------------------
(* What a request that ends leaves                                          *)

LEMMA IdsAreNumbers == \A i \in {0} \cup Ids : i \in Nat
  BY RolesAssumption DEF Ids

LEMMA Typed ==
  ASSUME IInv
  PROVE  /\ user \in Users /\ user.id \in Nat /\ user.failed \in Nat
         /\ next \in Nat /\ 0 < next /\ wrong \in Nat /\ resets \in Nat
         /\ served \in Nat /\ served <= MaxRequests
         /\ \A r \in Reqs : req[r] \in Requests /\ req[r].seen \in Users /\ req[r].code \in {0} \cup Ids
                            /\ req[r].seen.failed \in Nat
<1>1. user \in Users /\ next \in Nat /\ wrong \in Nat /\ resets \in Nat /\ req \in [Reqs -> Requests]
  BY DEF IInv, RowTypes
<1>2. \A r \in Reqs : req[r] \in Requests /\ req[r].seen \in Users /\ req[r].code \in {0} \cup Ids
  BY <1>1 DEF Requests
<1>3. \A u \in Users : u.id \in Nat /\ u.failed \in Nat
  BY DEF Users, Ids
<1>4. served \in 0..MaxRequests
  BY DEF IInv, RolesType
<1>5. user.id < next
  BY DEF IInv, NumberInv
<1> QED
  BY <1>1, <1>2, <1>3, <1>4, <1>5, RolesAssumption

\* A request that has read still has a number to take.
LEMMA NextIsAnId ==
  ASSUME IInv, NEW r \in Reqs, req[r].at = "read"
  PROVE  next \in Ids
<1>1. IsFiniteSet(Fresh) /\ r \in Fresh /\ next + Cardinality(Fresh) <= served + 2
  BY DEF IInv, CountInv, Fresh
<1>2. Cardinality(Fresh) \in Nat /\ Cardinality(Fresh) # 0
  BY <1>1, FS_CardinalityType, FS_EmptySet
<1>3. next \in Nat /\ 0 < next /\ served \in Nat /\ served <= MaxRequests
  BY Typed
<1> QED
  BY <1>1, <1>2, <1>3, RolesAssumption DEF Ids

LEMMA EndsReq ==
  ASSUME IInv, NEW r \in Reqs, Ends(r)
  PROVE  /\ req' \in [Reqs -> Requests]
         /\ req'[r].op = "none" /\ req'[r].at = "idle" /\ req'[r].code = 0 /\ req'[r].seen.id = 0 /\ req'[r].session = 0
         /\ \A q \in Reqs \ {r} : req'[q] = req[q]
         /\ ~Sender(r)' /\ ~Holder(r)'
         /\ \A q \in Reqs \ {r} : Sender(q)' = Sender(q) /\ Holder(q)' = Holder(q)
         /\ RolesType' /\ PlacesOK'
         /\ age' = age /\ served' = served /\ roles' = roles
<1>1. /\ req' = [req EXCEPT ![r] = NoReq]
      /\ UNCHANGED <<roles, rolePerms, permissions, nextRole, admin, served, age>>
  BY DEF Ends, tablevars
<1>2. NoRow \in Users
  BY DEF NoRow, Users
<1>3. NoReq \in Requests
  BY <1>2, RolesAssumption DEF NoReq, Requests, Ops
<1>4. NoReq.op = "none" /\ NoReq.at = "idle" /\ NoReq.code = 0 /\ NoReq.seen.id = 0 /\ NoReq.session = 0
  BY DEF NoReq, NoRow
<1>5. req \in [Reqs -> Requests]
  BY DEF IInv, RowTypes
<1>6. req' \in [Reqs -> Requests] /\ req'[r] = NoReq /\ \A q \in Reqs \ {r} : req'[q] = req[q]
  BY <1>1, <1>3, <1>5
<1>7. RolesType'
  BY <1>1 DEF IInv, RolesType
<1>8. PlacesOK'
  BY <1>4, <1>6 DEF IInv, PlacesOK
<1>9. ~Sender(r)' /\ ~Holder(r)' /\ \A q \in Reqs \ {r} : Sender(q)' = Sender(q) /\ Holder(q)' = Holder(q)
  BY <1>4, <1>6 DEF Sender, Holder
<1> QED
  BY <1>1, <1>4, <1>6, <1>7, <1>8, <1>9

\* A request that ends has taken its number, or gives it back.
LEMMA EndsCount ==
  ASSUME IInv, NEW r \in Reqs, Ends(r), req[r].op # "none",
         next' = next \/ (next' = next + 1 /\ req[r].at = "read"),
         \/ user'.failed \in {0, user.failed}
         \/ user'.failed = req[r].seen.failed + 1 /\ req[r].at = "read"
  PROVE  CountInv'
<1>1. /\ req'[r].op = "none" /\ req'[r].at = "idle" /\ (\A q \in Reqs \ {r} : req'[q] = req[q])
      /\ served' = served
  BY EndsReq
<1>2. Fresh' = Fresh \ {r}
  BY <1>1 DEF Fresh
<1>3. IsFiniteSet(Fresh)
  BY DEF IInv, CountInv
<1>4. Cardinality(Fresh) \in Nat /\ IsFiniteSet(Fresh')
      /\ Cardinality(Fresh') = IF r \in Fresh THEN Cardinality(Fresh) - 1 ELSE Cardinality(Fresh)
  BY <1>2, <1>3, FS_RemoveElement, FS_CardinalityType
<1>5. r \in Fresh <=> req[r].at = "read"
  BY DEF Fresh
<1>6. next \in Nat /\ user.failed \in Nat /\ served \in Nat /\ \A q \in Reqs : req[q].seen.failed \in Nat
  BY Typed
<1>7. /\ next + Cardinality(Fresh) <= served + 2 /\ user.failed + Cardinality(Fresh) <= served
      /\ \A q \in Reqs : req[q].op # "none" => req[q].seen.failed + Cardinality(Fresh) <= served
  BY DEF IInv, CountInv
<1>8. next' + Cardinality(Fresh') <= served' + 2
  BY <1>1, <1>4, <1>5, <1>6, <1>7
<1>9. user'.failed + Cardinality(Fresh') <= served'
  BY <1>1, <1>4, <1>5, <1>6, <1>7
<1>10. ASSUME NEW q \in Reqs, req'[q].op # "none" PROVE req'[q].seen.failed + Cardinality(Fresh') <= served'
  <2>1. q # r /\ req'[q] = req[q]
    BY <1>1, <1>10
  <2> QED
    BY <1>1, <1>4, <1>6, <1>7, <1>10, <2>1
<1> QED
  BY <1>4, <1>8, <1>9, <1>10 DEF CountInv

\* The numbers on the row and in "used" were there, or were the request's own.
LEMMA EndsNumbers ==
  ASSUME IInv, NEW r \in Reqs, Ends(r), next' \in {next, next + 1},
         \A n \in Stored' \cup used' \cup {user'.id} :
           n \in Stored \cup used \cup {0, user.id} \/ (n = req[r].code /\ (Sender(r) \/ Holder(r))),
         \A s \in Ids : sessions'[s].user # 0 => sessions[s].user # 0 \/ (s = next /\ next' = next + 1)
  PROVE  NumberInv'
<1>1. /\ req'[r].op = "none" /\ req'[r].code = 0 /\ req'[r].seen.id = 0 /\ req'[r].session = 0
      /\ (\A q \in Reqs \ {r} : req'[q] = req[q])
      /\ ~Sender(r)' /\ ~Holder(r)'
      /\ (\A q \in Reqs \ {r} : Sender(q)' = Sender(q) /\ Holder(q)' = Holder(q))
  BY EndsReq
<1>2. next \in Nat /\ 0 < next
  BY Typed
<1>3. NumberInv
  BY DEF IInv
<1>4. \A q \in Reqs : req[q].code \in Nat /\ req[q].seen.id \in Nat /\ req[q].session \in Nat
  <2>1. \A u \in Users : u.id \in Nat
    BY DEF Users, Ids
  <2>2. \A q \in Reqs : req[q] \in Requests /\ req[q].seen \in Users
    BY Typed
  <2>3. \A x \in Requests : x.code \in Nat /\ x.session \in Nat
    BY IdsAreNumbers DEF Requests
  <2> QED
    BY <2>1, <2>2, <2>3
<1>5. \A n \in Stored \cup used \cup {0, user.id} : n < next /\ n \in Nat
  <2>1. \A n \in Stored \cup used \cup {user.id} : n < next
    BY <1>3 DEF NumberInv
  <2>2. user \in Users /\ used \subseteq Ids
    BY DEF IInv, RowTypes
  <2>3. Stored \cup used \cup {0, user.id} \subseteq Nat
    <3>1. user.id \in {0} \cup Ids /\ Stored \subseteq {0} \cup Ids
      BY <2>2 DEF Users, Stored
    <3> QED
      BY <2>2, <3>1, IdsAreNumbers
  <2> QED
    BY <1>2, <2>1, <2>3
<1>6. \A n \in Stored \cup used \cup {0, user.id} : n < next'
  BY <1>2, <1>5
<1>7. \A q \in Reqs : req[q].code < next' /\ req[q].seen.id < next' /\ req[q].session < next'
  <2>1. \A q \in Reqs : req[q].code < next /\ req[q].seen.id < next /\ req[q].session < next
    BY <1>3 DEF NumberInv
  <2> QED
    BY <1>2, <1>4, <2>1
<1>8. \A n \in Stored' \cup used' \cup {user'.id} : n < next'
  BY <1>6, <1>7
<1>9. \A s \in Ids : sessions'[s].user # 0 => s < next'
  <2>1. \A s \in Ids : sessions[s].user # 0 => s < next
    BY <1>3 DEF NumberInv
  <2>2. \A s \in Ids : s \in Nat
    BY DEF Ids
  <2> QED
    BY <1>2, <2>1, <2>2
<1>10. \A q \in Reqs : req'[q].code < next' /\ req'[q].seen.id < next' /\ req'[q].session < next'
  BY <1>1, <1>2, <1>7
<1>11. \A q \in Reqs : (Sender(q) \/ Holder(q))' => req'[q].code # 0
  BY <1>1, <1>3 DEF NumberInv
<1>12. \A p, q \in Reqs : Sender(p)' /\ (Sender(q) \/ Holder(q))' /\ p # q => req'[p].code # req'[q].code
  BY <1>1, <1>3 DEF NumberInv
<1>13. \A q \in Reqs : Sender(q)' => req'[q].code \notin Stored' \cup used' \cup {user'.id}
  <2> SUFFICES ASSUME NEW q \in Reqs, Sender(q)', req'[q].code \in Stored' \cup used' \cup {user'.id}
               PROVE FALSE
    OBVIOUS
  <2>1. q # r /\ req'[q] = req[q] /\ Sender(q)
    BY <1>1
  <2>2. req[q].code \notin Stored \cup used \cup {0, user.id}
    BY <1>3, <2>1 DEF NumberInv
  <2>3. ~(req[q].code = req[r].code /\ (Sender(r) \/ Holder(r)))
    BY <1>3, <2>1 DEF NumberInv
  <2> QED
    BY <2>1, <2>2, <2>3
<1>14. \A p, q \in Reqs : Sender(p)' /\ req'[q].op # "none" => req'[p].code # req'[q].seen.id
  BY <1>1, <1>3 DEF NumberInv
<1> QED
  BY <1>8, <1>9, <1>10, <1>11, <1>12, <1>13, <1>14 DEF NumberInv

LEMMA EndsMail ==
  ASSUME IInv, NEW r \in Reqs, Ends(r),
         \A n \in Stored' \ {0} : n \in Stored \/ (n = req[r].code /\ req[r].at \in {"flushed mailed", "mailed"})
  PROVE  MailInv'
<1>1. /\ req'[r].op = "none" /\ req'[r].at = "idle" /\ (\A q \in Reqs \ {r} : req'[q] = req[q]) /\ age' = age
  BY EndsReq
<1>2. MailInv
  BY DEF IInv
<1> QED
  BY <1>1, <1>2 DEF MailInv

\* No column takes a code: some may be cleared, and a Holder's code spent.
LEMMA EndsCodes ==
  ASSUME IInv, NEW r \in Reqs, Ends(r),
         user'.otp \in {0, user.otp}, user'.link \in {0, user.link}, user'.invite \in {0, user.invite},
         used' \subseteq used \cup {req[r].code}, used \subseteq used',
         req[r].code \in used' => req[r].code \in used \/ (req[r].code # 0 /\ req[r].code \notin Stored')
  PROVE  CodeInv'
<1>1. /\ req'[r].op = "none" /\ (\A q \in Reqs \ {r} : req'[q] = req[q])
  BY EndsReq
<1>2. CodeInv
  BY DEF IInv
<1>3. \A q \in Reqs : Holder(q) => req[q].code # 0
  BY DEF IInv, NumberInv
<1>4. 0 \notin used
  BY RolesAssumption DEF IInv, RowTypes, Ids
<1>5. /\ user'.otp # 0 => user'.otp \notin {user'.link, user'.invite}
      /\ user'.link # 0 => user'.link # user'.invite
  BY <1>2 DEF CodeInv
<1>6. ASSUME NEW q \in Reqs
      PROVE  /\ req'[q].op = "activate" => req'[q].code \notin {user'.link, user'.invite}
             /\ req'[q].op = "accept"   => req'[q].code \notin {user'.link, user'.otp}
             /\ req'[q].op = "reset"    => req'[q].code \notin {user'.otp, user'.invite}
  <2>1. CASE q = r
    BY <1>1, <2>1
  <2>2. CASE q # r
    <3>1. req'[q] = req[q]
      BY <1>1, <2>2
    <3> QED
      BY <1>2, <1>3, <3>1 DEF CodeInv, Holder
  <2> QED
    BY <2>1, <2>2
<1>7. used' \cap Stored' = {}
  <2> SUFFICES ASSUME NEW n \in used', n \in Stored' PROVE FALSE
    OBVIOUS
  <2>1. n \in Stored \cup {0}
    BY DEF Stored
  <2> QED
    BY <1>2, <1>4, <2>1 DEF CodeInv
<1> QED
  BY <1>5, <1>6, <1>7 DEF CodeInv

\* A column takes the code of a Sender: no one else holds it.
LEMMA EndsWithCode ==
  ASSUME IInv, NEW r \in Reqs, Ends(r), Sender(r), used' = used,
         \/ user'.otp = req[r].code /\ user'.link \in {0, user.link} /\ user'.invite \in {0, user.invite}
         \/ user'.link = req[r].code /\ user'.otp \in {0, user.otp} /\ user'.invite \in {0, user.invite}
         \/ user'.invite = req[r].code /\ user'.otp \in {0, user.otp} /\ user'.link \in {0, user.link}
  PROVE  CodeInv'
<1>1. /\ req'[r].op = "none" /\ (\A q \in Reqs \ {r} : req'[q] = req[q])
  BY EndsReq
<1>2. CodeInv
  BY DEF IInv
<1>3. \A q \in Reqs : Holder(q) => req[q].code # 0
  BY DEF IInv, NumberInv
<1>4. req[r].code # 0 /\ req[r].code \notin Stored \cup used
  BY DEF IInv, NumberInv
<1>5. \A q \in Reqs \ {r} : Holder(q) => req[q].code # req[r].code
  BY DEF IInv, NumberInv
<1>6. 0 \notin used
  BY RolesAssumption DEF IInv, RowTypes, Ids
<1>7. /\ user'.otp # 0 => user'.otp \notin {user'.link, user'.invite}
      /\ user'.link # 0 => user'.link # user'.invite
  BY <1>2, <1>4 DEF CodeInv, Stored
<1>8. ASSUME NEW q \in Reqs
      PROVE  /\ req'[q].op = "activate" => req'[q].code \notin {user'.link, user'.invite}
             /\ req'[q].op = "accept"   => req'[q].code \notin {user'.link, user'.otp}
             /\ req'[q].op = "reset"    => req'[q].code \notin {user'.otp, user'.invite}
  <2>1. CASE q = r
    BY <1>1, <2>1
  <2>2. CASE q # r
    <3>1. req'[q] = req[q] /\ q \in Reqs \ {r}
      BY <1>1, <2>2
    <3>2. Holder(q) <=> req[q].op \in {"activate", "accept", "reset"}
      BY DEF Holder
    <3> QED
      BY <1>2, <1>3, <1>5, <3>1, <3>2 DEF CodeInv
  <2> QED
    BY <2>1, <2>2
<1>9. used' \cap Stored' = {}
  <2> SUFFICES ASSUME NEW n \in used', n \in Stored' PROVE FALSE
    OBVIOUS
  <2>1. n \in Stored \cup {0, req[r].code}
    BY DEF Stored
  <2> QED
    BY <1>2, <1>4, <1>6, <2>1 DEF CodeInv
<1> QED
  BY <1>7, <1>8, <1>9 DEF CodeInv

\* The row is the one it was, or a new one nobody has read.
Kept     == user'.id = user.id /\ (user.verified => user'.verified) /\ (user.password => user'.password)
Replaced(r) ==
  /\ req[r].at = "flushed mailed"
  /\ user'.id = req[r].code /\ ~user'.logged /\ user'.failed = 0 /\ user'.lock = "none" /\ wrong' = 0

\* The number of a new row is one no request has seen.
LEMMA NobodyReadIt ==
  ASSUME IInv, NEW r \in Reqs, Ends(r), Replaced(r)
  PROVE  \A q \in Reqs : req'[q].op # "none" => req'[q].seen.id # user'.id
<1>1. /\ req'[r].op = "none" /\ (\A q \in Reqs \ {r} : req'[q] = req[q])
  BY EndsReq
<1>2. Sender(r)
  BY DEF Replaced, Sender
<1>3. \A q \in Reqs : req[q].op # "none" => req[r].code # req[q].seen.id
  BY <1>2 DEF IInv, NumberInv
<1> QED
  BY <1>1, <1>3 DEF Replaced

LEMMA EndsRow ==
  ASSUME IInv, NEW r \in Reqs, Ends(r), user'.link # 0 => user'.id # 0,
         (Kept /\ (Blocked(r) => user'.logged = user.logged)) \/ Replaced(r)
  PROVE  RowInv'
<1>1. /\ req'[r].op = "none" /\ req'[r].at = "idle" /\ (\A q \in Reqs \ {r} : req'[q] = req[q])
  BY EndsReq
<1>2. RowInv
  BY DEF IInv
<1>3. \A q \in Reqs : req'[q].at \in {"flushed", "flushed mailed"} => ~user'.logged
  BY <1>1, <1>2 DEF RowInv, Blocked, Replaced
<1>4. \A q \in Reqs : req'[q].op # "none" /\ req'[q].seen.id = user'.id =>
                        /\ req'[q].seen.verified => user'.verified
                        /\ req'[q].seen.password => user'.password
  <2>1. CASE Kept
    BY <1>1, <1>2, <2>1 DEF RowInv, Kept
  <2>2. CASE Replaced(r)
    BY <2>2, NobodyReadIt
  <2> QED
    BY <2>1, <2>2
<1> QED
  BY <1>1, <1>2, <1>3, <1>4 DEF RowInv

LEMMA EndsLock ==
  ASSUME IInv, NEW r \in Reqs, Ends(r),
         \/ Kept /\ wrong' \in {wrong, wrong + 1} /\ user'.failed <= wrong' /\ (user'.lock = "on" => wrong' >= MaxFails)
         \/ Replaced(r)
  PROVE  LockInv'
<1>1. /\ req'[r].op = "none" /\ (\A q \in Reqs \ {r} : req'[q] = req[q])
  BY EndsReq
<1>2. LockInv
  BY DEF IInv
<1>3. wrong \in Nat /\ \A q \in Reqs : req[q].seen.failed \in Nat
  BY Typed
<1>4. CASE Kept /\ wrong' \in {wrong, wrong + 1} /\ user'.failed <= wrong' /\ (user'.lock = "on" => wrong' >= MaxFails)
  <2>1. ASSUME NEW q \in Reqs, req'[q].op # "none", req'[q].seen.id = user'.id
        PROVE  req'[q].seen.failed <= wrong'
    <3>1. req'[q] = req[q] /\ q # r
      BY <1>1, <2>1
    <3>2. req[q].seen.failed <= wrong
      BY <1>2, <1>4, <2>1, <3>1 DEF LockInv, Kept
    <3> QED
      BY <1>3, <1>4, <3>1, <3>2
  <2> QED
    BY <1>4, <2>1 DEF LockInv
<1>5. CASE Replaced(r)
  <2>1. \A q \in Reqs : req'[q].op # "none" => req'[q].seen.id # user'.id
    BY <1>5, NobodyReadIt
  <2>2. user'.failed = 0 /\ wrong' = 0 /\ user'.lock = "none"
    BY <1>5 DEF Replaced
  <2>3. user'.failed <= wrong' /\ ~(user'.lock = "on")
    BY <2>2
  <2> QED
    BY <2>1, <2>3 DEF LockInv
<1> QED
  BY <1>4, <1>5

\* A row with sessions has been logged into, so it is not the one replaced.
LEMMA EndsSession ==
  ASSUME IInv, NEW r \in Reqs, Ends(r), sessions' = sessions, resets' = resets,
         (Kept /\ (user.logged => user'.logged)) \/ Replaced(r)
  PROVE  SessionInv'
<1>1. SessionInv
  BY DEF IInv
<1>2. CASE Kept /\ (user.logged => user'.logged)
  BY <1>1, <1>2 DEF SessionInv, Kept
<1>3. CASE Replaced(r)
  <2>1. ~user.logged
    BY <1>3 DEF IInv, RowInv, Replaced
  <2>2. \A s \in Ids : sessions[s].user = 0
    BY <1>1, <2>1 DEF SessionInv
  <2> QED
    BY <1>1, <2>2 DEF SessionInv
<1> QED
  BY <1>2, <1>3

LEMMA GrantsTyped ==
  ASSUME IInv, NEW g \in grants \cup ({user.id} \X roles)
  PROVE  g \in (0..MaxRequests + 1) \X RoleIds /\ g[2] \in roles
<1>1. grants \subseteq (0..MaxRequests + 1) \X RoleIds /\ roles \subseteq RoleIds /\ user.id \in {0} \cup Ids
  BY DEF IInv, RowTypes, RolesType, Users
<1>2. user.id \in 0..MaxRequests + 1
  BY <1>1, RolesAssumption DEF Ids
<1>3. CASE g \in grants
  BY <1>1, <1>3 DEF IInv, GrantInv
<1>4. CASE g \in {user.id} \X roles
  BY <1>1, <1>2, <1>4
<1> QED
  BY <1>3, <1>4

\* The commits that leave the row with its identity and give it no code.
Spends(r) == used' = used \cup {req[r].code} /\ Holder(r) /\ req[r].code \notin Stored'

LEMMA KeptInv ==
  ASSUME IInv, NEW r \in Reqs, Ends(r), req[r].op # "none",
         user' \in Users, sessions' \in [Ids -> Sessions],
         grants' \subseteq grants \cup ({user.id} \X roles),
         Kept, Blocked(r) => user'.logged = user.logged,
         user'.otp \in {0, user.otp}, user'.link \in {0, user.link}, user'.invite \in {0, user.invite},
         used' = used \/ Spends(r),
         next' = next \/ (next' = next + 1 /\ req[r].at = "read"),
         resets' \in {resets, resets + 1},
         \/ user'.failed \in {0, user.failed} /\ wrong' = wrong
         \/ user'.failed = req[r].seen.failed + 1 /\ wrong' = wrong + 1 /\ req[r].at = "read" /\ req[r].seen.id = user.id,
         user'.lock = "on" => user.lock = "on" \/ user'.failed >= MaxFails,
         \A s \in Ids : sessions'[s].user # 0 => sessions[s].user # 0 \/ (s = next /\ next' = next + 1),
         SessionInv'
  PROVE  IInv'
<1> USE RolesAssumption, MaxFailsAssumption
<1>1. /\ req' \in [Reqs -> Requests] /\ RolesType' /\ PlacesOK' /\ age' = age /\ roles' = roles
  BY EndsReq
<1>2. /\ user \in Users /\ user.id \in Nat /\ user.failed \in Nat /\ next \in Nat /\ wrong \in Nat /\ resets \in Nat
      /\ req[r].seen.failed \in Nat /\ req[r].code \in {0} \cup Ids
  BY Typed
<1>3. Holder(r) => req[r].code # 0
  BY DEF IInv, NumberInv
<1>4. used' \subseteq Ids
  BY <1>2, <1>3 DEF IInv, RowTypes, Spends
<1>5. RowTypes'
  <2>1. grants' \subseteq (0..MaxRequests + 1) \X RoleIds
    BY GrantsTyped
  <2>2. next' \in Nat /\ wrong' \in Nat /\ resets' \in Nat
    BY <1>2
  <2>3. age' \in [Ids -> {"unsent", "new", "good", "old"}]
    BY <1>1 DEF IInv, RowTypes
  <2> QED
    BY <1>1, <1>4, <2>1, <2>2, <2>3 DEF RowTypes
<1>6. GrantInv'
  BY <1>1, GrantsTyped DEF GrantInv
<1>7. CountInv'
  BY EndsCount
<1>8. NumberInv'
  <2>1. Stored' \subseteq Stored \cup {0}
    BY DEF Stored
  <2>2. \A n \in Stored' \cup used' \cup {user'.id} :
          n \in Stored \cup used \cup {0, user.id} \/ (n = req[r].code /\ (Sender(r) \/ Holder(r)))
    BY <2>1 DEF Kept, Spends
  <2>3. next' \in {next, next + 1}
    OBVIOUS
  <2> QED
    BY <2>2, <2>3, EndsNumbers
<1>9. CodeInv'
  <2>1. /\ used' \subseteq used \cup {req[r].code} /\ used \subseteq used'
        /\ req[r].code \in used' => req[r].code \in used \/ (req[r].code # 0 /\ req[r].code \notin Stored')
    BY <1>3 DEF Spends
  <2> QED
    BY <2>1, EndsCodes
<1>10. MailInv'
  BY EndsMail DEF Stored
<1>11. RowInv'
  <2>1. user'.link # 0 => user'.id # 0
    BY DEF IInv, RowInv, Kept
  <2> QED
    BY <2>1, EndsRow
<1>12. LockInv'
  <2>1. LockInv
    BY DEF IInv
  <2>2. req[r].op # "none" /\ req[r].seen.id = user.id => req[r].seen.failed <= wrong
    BY <2>1 DEF LockInv
  <2>3. user.failed <= wrong /\ (user.lock = "on" => wrong >= MaxFails)
    BY <2>1 DEF LockInv
  <2>4. user'.failed <= wrong' /\ wrong' \in {wrong, wrong + 1}
    BY <1>2, <2>2, <2>3
  <2>5. user'.failed \in Nat
    BY <1>2
  <2>6. user'.lock = "on" => wrong' >= MaxFails
    BY <1>2, <2>3, <2>4, <2>5
  <2> QED
    BY <2>4, <2>6, EndsLock
<1> QED
  BY <1>1, <1>5, <1>6, <1>7, <1>8, <1>9, <1>10, <1>11, <1>12 DEF IInv

-----------------------------------------------------------------------------
(* The commits                                                              *)

LEMMA SessionsTyped ==
  ASSUME IInv
  PROVE  sessions \in [Ids -> Sessions] /\ NoSession \in Sessions /\ SessionInv
BY DEF IInv, RowTypes, NoSession, Sessions

LEMMA DiesInv ==
  ASSUME IInv, NEW r \in Reqs, Dies(r)
  PROVE  IInv'
<1>1. /\ req[r].op # "none" /\ Ends(r) /\ UNCHANGED <<grants, user, sessions, next, wrong, used, resets>>
  BY DEF Dies
<1>2. user \in Users /\ sessions \in [Ids -> Sessions] /\ SessionInv
  BY Typed, SessionsTyped
<1>3. Kept /\ SessionInv'
  BY <1>1, <1>2, EndsSession DEF Kept
<1> QED
  BY <1>1, <1>2, <1>3, KeptInv

LEMMA LoginSucceedsInv ==
  ASSUME IInv, NEW r \in Reqs, LoginSucceeds(r)
  PROVE  IInv'
<1>1. /\ req[r].op = "login" /\ req[r].at = "read" /\ Ends(r) /\ user.id = req[r].seen.id /\ ~Blocked(r)
      /\ user' = [user EXCEPT !.failed = IF req[r].seen.failed # 0 THEN 0 ELSE @,
                              !.lock   = IF req[r].seen.lock # "none" THEN "none" ELSE @,
                              !.logged = TRUE]
      /\ sessions' = [sessions EXCEPT ![next] =
                       [user |-> req[r].seen.id, pair |-> next, revoked |-> FALSE, resets |-> resets]]
      /\ next' = next + 1
      /\ UNCHANGED <<grants, wrong, used, resets>>
  BY DEF LoginSucceeds, At, Matched
<1>2. user \in Users /\ sessions \in [Ids -> Sessions] /\ SessionInv /\ next \in Ids /\ resets \in Nat
  BY <1>1, Typed, SessionsTyped, NextIsAnId
<1>3. /\ user' \in Users /\ user'.id = user.id /\ user'.otp = user.otp /\ user'.link = user.link
      /\ user'.invite = user.invite /\ user'.failed \in {0, user.failed} /\ user'.lock \in {user.lock, "none"}
      /\ user'.verified = user.verified /\ user'.password = user.password /\ user'.logged
  BY <1>1, <1>2 DEF Users
<1>4. user.id # 0 /\ user.verified /\ user.password
  BY <1>1 DEF IInv, RowInv
<1>5. sessions' \in [Ids -> Sessions]
  <2>1. [user |-> req[r].seen.id, pair |-> next, revoked |-> FALSE, resets |-> resets] \in Sessions
    BY <1>1, <1>2 DEF Sessions, Users
  <2> QED
    BY <1>1, <1>2, <2>1
<1>6. /\ sessions'[next].user = user.id /\ ~sessions'[next].revoked /\ sessions'[next].resets = resets
      /\ \A s \in Ids \ {next} : sessions'[s] = sessions[s]
  BY <1>1, <1>2
<1>7. SessionInv'
  BY <1>1, <1>2, <1>3, <1>4, <1>6 DEF SessionInv
<1>8. Kept
  BY <1>3 DEF Kept
<1> QED
  BY <1>1, <1>3, <1>5, <1>6, <1>7, <1>8, KeptInv

LEMMA LoginFailsInv ==
  ASSUME IInv, NEW r \in Reqs, LoginFails(r)
  PROVE  IInv'
<1>1. /\ req[r].op = "login" /\ req[r].at = "read" /\ Ends(r) /\ user.id = req[r].seen.id /\ ~Blocked(r)
      /\ user' = [user EXCEPT !.failed = req[r].seen.failed + 1,
                              !.lock = IF req[r].seen.failed + 1 >= MaxFails THEN "on" ELSE @]
      /\ wrong' = wrong + 1
      /\ UNCHANGED <<grants, sessions, next, used, resets>>
  BY DEF LoginFails, At, Matched
<1>2. user \in Users /\ sessions \in [Ids -> Sessions] /\ req[r].seen.failed \in Nat
  BY Typed, SessionsTyped
<1>3. /\ user' \in Users /\ user'.id = user.id /\ user'.otp = user.otp /\ user'.link = user.link
      /\ user'.invite = user.invite /\ user'.failed = req[r].seen.failed + 1
      /\ user'.lock = IF req[r].seen.failed + 1 >= MaxFails THEN "on" ELSE user.lock
      /\ user'.verified = user.verified /\ user'.password = user.password /\ user'.logged = user.logged
  <2>1. PICK n \in Nat : n = req[r].seen.failed + 1
    BY <1>2
  <2>2. PICK l \in {"none", "on", "over"} : l = IF req[r].seen.failed + 1 >= MaxFails THEN "on" ELSE user.lock
    BY <1>2 DEF Users
  <2>3. user' = [user EXCEPT !.failed = n, !.lock = l]
    BY <1>1, <2>1, <2>2
  <2> QED
    BY <1>2, <2>1, <2>2, <2>3 DEF Users
<1>4. Kept
  BY <1>3 DEF Kept
<1>5. SessionInv'
  BY <1>1, <1>3, <1>4, EndsSession
<1>6. user'.lock = "on" => user.lock = "on" \/ user'.failed >= MaxFails
  BY <1>3
<1> QED
  BY <1>1, <1>2, <1>3, <1>4, <1>5, <1>6, KeptInv

LEMMA RefreshInv ==
  ASSUME IInv, NEW r \in Reqs, CommitRefresh(r)
  PROVE  IInv'
<1> DEFINE s == req[r].session
<1>1. /\ req[r].op = "refresh" /\ req[r].at = "read" /\ Ends(r) /\ sessions[s].user # 0
      /\ sessions' = [sessions EXCEPT ![s].pair = next]
      /\ next' = next + 1
      /\ UNCHANGED <<grants, user, wrong, used, resets>>
  BY DEF CommitRefresh, At
<1>2. user \in Users /\ sessions \in [Ids -> Sessions] /\ SessionInv /\ next \in Ids
  BY <1>1, Typed, SessionsTyped, NextIsAnId
<1>3. s \in Ids
  BY <1>1 DEF IInv, PlacesOK
<1>4. /\ sessions' \in [Ids -> Sessions]
      /\ sessions'[s].user = sessions[s].user /\ sessions'[s].revoked = sessions[s].revoked
      /\ sessions'[s].resets = sessions[s].resets
      /\ \A t \in Ids \ {s} : sessions'[t] = sessions[t]
  BY <1>1, <1>2, <1>3 DEF Sessions
<1>5. SessionInv'
  BY <1>1, <1>2, <1>3, <1>4 DEF SessionInv
<1>6. Kept
  BY <1>1 DEF Kept
<1>7. \A t \in Ids : sessions'[t].user # 0 => sessions[t].user # 0
  BY <1>4
<1> QED
  BY <1>1, <1>2, <1>4, <1>5, <1>6, <1>7, KeptInv

LEMMA LogoutInv ==
  ASSUME IInv, NEW r \in Reqs, CommitLogout(r)
  PROVE  IInv'
<1> DEFINE s == req[r].session
<1>1. /\ req[r].op = "logout" /\ req[r].at = "read" /\ Ends(r) /\ ~Blocked(r)
      /\ sessions' = [sessions EXCEPT ![s] = NoSession]
      /\ user' = [user EXCEPT !.logged = TRUE]
      /\ UNCHANGED <<grants, next, wrong, used, resets>>
  BY DEF CommitLogout, At
<1>2. user \in Users /\ sessions \in [Ids -> Sessions] /\ NoSession \in Sessions /\ SessionInv
  BY Typed, SessionsTyped
<1>3. s \in Ids
  BY <1>1 DEF IInv, PlacesOK
<1>4. /\ user' \in Users /\ user'.id = user.id /\ user'.otp = user.otp /\ user'.link = user.link
      /\ user'.invite = user.invite /\ user'.failed = user.failed /\ user'.lock = user.lock
      /\ user'.verified = user.verified /\ user'.password = user.password /\ user'.logged
  BY <1>1, <1>2 DEF Users
<1>5. /\ sessions' \in [Ids -> Sessions] /\ sessions'[s] = NoSession
      /\ \A t \in Ids \ {s} : sessions'[t] = sessions[t]
  BY <1>1, <1>2, <1>3
<1>6. \A t \in Ids : sessions'[t].user # 0 => sessions[t].user # 0
  BY <1>5 DEF NoSession
<1>7. SessionInv'
  BY <1>1, <1>2, <1>4, <1>5 DEF SessionInv, NoSession
<1>8. Kept
  BY <1>4 DEF Kept
<1> QED
  BY <1>1, <1>4, <1>5, <1>6, <1>7, <1>8, KeptInv

\* A holder's code is on none of the columns its commit leaves.
LEMMA HeldCode ==
  ASSUME IInv, NEW r \in Reqs, Holder(r)
  PROVE  /\ req[r].code # 0
         /\ req[r].op = "activate" => req[r].code \notin {user.link, user.invite}
         /\ req[r].op = "accept"   => req[r].code \notin {user.link, user.otp}
         /\ req[r].op = "reset"    => req[r].code \notin {user.otp, user.invite}
BY DEF IInv, NumberInv, CodeInv

LEMMA ActivateInv ==
  ASSUME IInv, NEW r \in Reqs, CommitActivate(r)
  PROVE  IInv'
<1>1. /\ req[r].op = "activate" /\ req[r].at = "read" /\ Ends(r) /\ ~Blocked(r)
      /\ user' = [user EXCEPT !.password = TRUE, !.verified = TRUE, !.otp = 0, !.logged = TRUE]
      /\ grants' = IF Customer \in roles THEN grants \cup {<<user.id, Customer>>} ELSE grants
      /\ used' = used \cup {req[r].code}
      /\ UNCHANGED <<sessions, next, wrong, resets>>
  BY DEF CommitActivate, At, Matched
<1>2. user \in Users /\ sessions \in [Ids -> Sessions]
  BY Typed, SessionsTyped
<1>3. /\ user' \in Users /\ user'.id = user.id /\ user'.otp = 0 /\ user'.link = user.link
      /\ user'.invite = user.invite /\ user'.failed = user.failed /\ user'.lock = user.lock
      /\ user'.verified /\ user'.password /\ user'.logged
  BY <1>1, <1>2 DEF Users
<1>4. Kept
  BY <1>3 DEF Kept
<1>5. SessionInv'
  BY <1>1, <1>3, <1>4, EndsSession
<1>6. Spends(r)
  <2>1. Holder(r)
    BY <1>1 DEF Holder
  <2> QED
    BY <1>1, <1>3, <2>1, HeldCode DEF Spends, Stored
<1>7. grants' \subseteq grants \cup ({user.id} \X roles)
  BY <1>1
<1> QED
  BY <1>1, <1>2, <1>3, <1>4, <1>5, <1>6, <1>7, KeptInv

LEMMA AcceptInv ==
  ASSUME IInv, NEW r \in Reqs, CommitAccept(r)
  PROVE  IInv'
<1>1. /\ req[r].op = "accept" /\ req[r].at = "read" /\ Ends(r) /\ ~Blocked(r)
      /\ user' = [user EXCEPT !.password = TRUE, !.verified = TRUE, !.invite = 0]
      /\ used' = used \cup {req[r].code}
      /\ UNCHANGED <<grants, sessions, next, wrong, resets>>
  BY DEF CommitAccept, At, Matched
<1>2. user \in Users /\ sessions \in [Ids -> Sessions]
  BY Typed, SessionsTyped
<1>3. /\ user' \in Users /\ user'.id = user.id /\ user'.otp = user.otp /\ user'.link = user.link
      /\ user'.invite = 0 /\ user'.failed = user.failed /\ user'.lock = user.lock
      /\ user'.verified /\ user'.password /\ user'.logged = user.logged
  BY <1>1, <1>2 DEF Users
<1>4. Kept
  BY <1>3 DEF Kept
<1>5. SessionInv'
  BY <1>1, <1>3, <1>4, EndsSession
<1>6. Spends(r)
  <2>1. Holder(r)
    BY <1>1 DEF Holder
  <2> QED
    BY <1>1, <1>3, <2>1, HeldCode DEF Spends, Stored
<1> QED
  BY <1>1, <1>2, <1>3, <1>4, <1>5, <1>6, KeptInv

LEMMA ResetInv ==
  ASSUME IInv, NEW r \in Reqs, CommitReset(r)
  PROVE  IInv'
<1>1. /\ req[r].op = "reset" /\ req[r].at = "read" /\ Ends(r) /\ ~Blocked(r)
      /\ user' = [user EXCEPT !.password = TRUE, !.link = 0]
      /\ sessions' = [s \in Ids |-> IF sessions[s].user = user.id
                                    THEN [sessions[s] EXCEPT !.revoked = TRUE] ELSE sessions[s]]
      /\ resets' = resets + 1
      /\ used' = used \cup {req[r].code}
      /\ UNCHANGED <<grants, next, wrong>>
  BY DEF CommitReset, At, Matched
<1>2. user \in Users /\ sessions \in [Ids -> Sessions] /\ SessionInv
  BY Typed, SessionsTyped
<1>3. /\ user' \in Users /\ user'.id = user.id /\ user'.otp = user.otp /\ user'.link = 0
      /\ user'.invite = user.invite /\ user'.failed = user.failed /\ user'.lock = user.lock
      /\ user'.verified = user.verified /\ user'.password /\ user'.logged = user.logged
  BY <1>1, <1>2 DEF Users
<1>4. Kept
  BY <1>3 DEF Kept
<1>5. /\ sessions' \in [Ids -> Sessions]
      /\ \A s \in Ids : /\ sessions'[s].user = sessions[s].user
                        /\ sessions[s].user = user.id => sessions'[s].revoked
                        /\ sessions[s].user # user.id => sessions'[s] = sessions[s]
  <2>1. ASSUME NEW s \in Ids
        PROVE  /\ sessions'[s] \in Sessions /\ sessions'[s].user = sessions[s].user
               /\ sessions[s].user = user.id => sessions'[s].revoked
               /\ sessions[s].user # user.id => sessions'[s] = sessions[s]
    <3>1. PICK x \in Sessions : x = sessions[s]
      BY <1>2
    <3>2. sessions'[s] = IF x.user = user.id THEN [x EXCEPT !.revoked = TRUE] ELSE x
      BY <1>1, <3>1
    <3>3. [x EXCEPT !.revoked = TRUE] \in Sessions /\ [x EXCEPT !.revoked = TRUE].user = x.user
          /\ [x EXCEPT !.revoked = TRUE].revoked
      BY DEF Sessions
    <3> QED
      BY <3>1, <3>2, <3>3
  <2>2. sessions' = [s \in Ids |-> sessions'[s]]
    BY <1>1
  <2> QED
    BY <2>1, <2>2
<1>6. Spends(r)
  <2>1. Holder(r)
    BY <1>1 DEF Holder
  <2> QED
    BY <1>1, <1>3, <2>1, HeldCode DEF Spends, Stored
<1>7. SessionInv'
  <2> SUFFICES ASSUME NEW s \in Ids
               PROVE  /\ sessions'[s].user = 0 => sessions'[s] = NoSession
                      /\ sessions'[s].user # 0 =>
                           /\ sessions'[s].user = user'.id /\ user'.logged /\ user'.verified /\ user'.password
                           /\ sessions'[s].revoked \/ sessions'[s].resets = resets'
    BY DEF SessionInv
  <2>1. CASE sessions[s].user = 0
    <3>1. user.id # 0
      BY <1>1 DEF IInv, RowInv, CommitReset, Matched
    <3> QED
      BY <1>2, <1>5, <2>1, <3>1 DEF SessionInv
  <2>2. CASE sessions[s].user # 0
    BY <1>2, <1>3, <1>5, <2>2 DEF SessionInv
  <2> QED
    BY <2>1, <2>2
<1> QED
  BY <1>1, <1>3, <1>4, <1>5, <1>6, <1>7, KeptInv

LEMMA ChangeInv ==
  ASSUME IInv, NEW r \in Reqs, CommitChange(r)
  PROVE  IInv'
<1>1. /\ req[r].op = "change" /\ req[r].at = "read" /\ Ends(r) /\ ~Blocked(r)
      /\ user' = [user EXCEPT !.logged = TRUE]
      /\ UNCHANGED <<grants, sessions, next, wrong, used, resets>>
  BY DEF CommitChange, At, Matched
<1>2. user \in Users /\ sessions \in [Ids -> Sessions]
  BY Typed, SessionsTyped
<1>3. /\ user' \in Users /\ user'.id = user.id /\ user'.otp = user.otp /\ user'.link = user.link
      /\ user'.invite = user.invite /\ user'.failed = user.failed /\ user'.lock = user.lock
      /\ user'.verified = user.verified /\ user'.password = user.password /\ user'.logged
  BY <1>1, <1>2 DEF Users
<1>4. Kept
  BY <1>3 DEF Kept
<1>5. SessionInv'
  BY <1>1, <1>3, <1>4, EndsSession
<1> QED
  BY <1>1, <1>2, <1>3, <1>4, <1>5, KeptInv

LEMMA UpdateUserInv ==
  ASSUME IInv, NEW r \in Reqs, CommitUpdateUser(r)
  PROVE  IInv'
<1>1. /\ req[r].op = "update user" /\ req[r].at = "read" /\ Ends(r) /\ ~Blocked(r)
      /\ grants' = IF user.id = req[r].seen.id THEN AssignedGrants(user.id, req[r].role) ELSE grants
      /\ UNCHANGED <<user, sessions, next, wrong, used, resets>>
  BY DEF CommitUpdateUser, At
<1>2. user \in Users /\ sessions \in [Ids -> Sessions]
  BY Typed, SessionsTyped
<1>3. Kept
  BY <1>1 DEF Kept
<1>4. SessionInv'
  BY <1>1, <1>3, EndsSession
<1>5. grants' \subseteq grants \cup ({user.id} \X roles)
  <2>1. grants' = grants \/ (req[r].role \in roles /\ grants' = {g \in grants : g[1] # user.id} \cup {<<user.id, req[r].role>>})
    BY <1>1 DEF AssignedGrants
  <2> QED
    BY <2>1
<1> QED
  BY <1>1, <1>2, <1>3, <1>4, <1>5, KeptInv

LEMMA DeleteUserInv ==
  ASSUME IInv, NEW r \in Reqs, CommitDeleteUser(r)
  PROVE  IInv'
<1>1. /\ req[r].op = "delete user" /\ req[r].at = "read" /\ Ends(r) /\ ~Blocked(r)
      /\ user' = [user EXCEPT !.deleted = TRUE]
      /\ grants' = {g \in grants : g[1] # user.id}
      /\ sessions' = [s \in Ids |-> IF sessions[s].user = user.id THEN NoSession ELSE sessions[s]]
      /\ UNCHANGED <<next, wrong, used, resets>>
  BY DEF CommitDeleteUser, At, Matched
<1>2. user \in Users /\ sessions \in [Ids -> Sessions] /\ NoSession \in Sessions /\ SessionInv
  BY Typed, SessionsTyped
<1>3. /\ user' \in Users /\ user'.id = user.id /\ user'.otp = user.otp /\ user'.link = user.link
      /\ user'.invite = user.invite /\ user'.failed = user.failed /\ user'.lock = user.lock
      /\ user'.verified = user.verified /\ user'.password = user.password /\ user'.logged = user.logged
  BY <1>1, <1>2 DEF Users
<1>4. Kept
  BY <1>3 DEF Kept
<1>5. sessions' \in [Ids -> Sessions] /\ \A s \in Ids : sessions'[s] = NoSession
  BY <1>1, <1>2 DEF SessionInv
<1>6. NoSession.user = 0
  BY DEF NoSession
<1>7. SessionInv'
  BY <1>5, <1>6 DEF SessionInv
<1>8. grants' \subseteq grants \cup ({user.id} \X roles)
  BY <1>1
<1> QED
  BY <1>1, <1>3, <1>4, <1>5, <1>6, <1>7, <1>8, KeptInv

LEMMA CommitCodeInv ==
  ASSUME IInv, NEW r \in Reqs, CommitCode(r)
  PROVE  IInv'
<1>1. /\ req[r].at = "mailed" /\ Ends(r) /\ user.id = req[r].seen.id /\ ~Blocked(r)
      /\ user' = IF req[r].op = "forgot" THEN [user EXCEPT !.link = req[r].code] ELSE [user EXCEPT !.otp = req[r].code]
      /\ UNCHANGED <<grants, sessions, next, wrong, used, resets>>
  BY DEF CommitCode, Matched
<1>2. /\ user \in Users /\ req[r].code \in {0} \cup Ids /\ user.failed \in Nat
      /\ sessions \in [Ids -> Sessions]
  BY Typed, SessionsTyped
<1>3. /\ user' \in Users /\ user'.id = user.id
      /\ \/ req[r].op = "forgot" /\ user'.link = req[r].code /\ user'.otp = user.otp
         \/ user'.otp = req[r].code /\ user'.link = user.link
      /\ user'.invite = user.invite /\ user'.failed = user.failed /\ user'.lock = user.lock
      /\ user'.verified = user.verified /\ user'.password = user.password /\ user'.logged = user.logged
  BY <1>1, <1>2 DEF Users
<1>4. Kept /\ Sender(r) /\ req[r].op # "none"
  BY <1>1, <1>3 DEF Kept, Sender, IInv, PlacesOK
<1>5. /\ req' \in [Reqs -> Requests] /\ RolesType' /\ PlacesOK' /\ age' = age /\ roles' = roles
  BY <1>1, EndsReq
<1>6. RowTypes' /\ GrantInv'
  BY <1>1, <1>3, <1>5 DEF IInv, RowTypes, GrantInv
<1>7. Stored' \subseteq Stored \cup {req[r].code}
  BY <1>3 DEF Stored
<1>8. CountInv'
  BY <1>1, <1>3, <1>4, EndsCount
<1>9. NumberInv'
  BY <1>1, <1>3, <1>4, <1>7, EndsNumbers
<1>10. CodeInv'
  BY <1>1, <1>3, <1>4, EndsWithCode
<1>11. MailInv'
  BY <1>1, <1>7, EndsMail
<1>12. RowInv'
  <2>1. user'.link # 0 => user'.id # 0
    BY <1>1, <1>3 DEF IInv, RowInv
  <2> QED
    BY <1>1, <1>3, <1>4, <2>1, EndsRow
<1>13. SessionInv'
  BY <1>1, <1>3, <1>4, EndsSession
<1>14. LockInv'
  <2>1. user.failed <= wrong /\ (user.lock = "on" => wrong >= MaxFails)
    BY DEF IInv, LockInv
  <2> QED
    BY <1>1, <1>3, <1>4, <2>1, EndsLock
<1> QED
  BY <1>5, <1>6, <1>8, <1>9, <1>10, <1>11, <1>12, <1>13, <1>14 DEF IInv

LEMMA CommitNewRowInv ==
  ASSUME IInv, NEW r \in Reqs, CommitNewRow(r)
  PROVE  IInv'
<1>1. /\ req[r].at = "flushed mailed" /\ Ends(r)
      /\ req[r].op = "add user" => req[r].role \in roles
      /\ user' = [NoRow EXCEPT !.id = req[r].code, !.otp = IF req[r].op = "register" THEN req[r].code ELSE 0,
                                !.invite = IF req[r].op = "add user" THEN req[r].code ELSE 0]
      /\ grants' = {g \in grants : g[1] # user.id}
                     \cup (IF req[r].op = "add user" THEN {<<req[r].code, req[r].role>>} ELSE {})
      /\ wrong' = 0
      /\ UNCHANGED <<sessions, next, used, resets>>
  BY DEF CommitNewRow
<1>2. /\ req[r].code \in {0} \cup Ids /\ sessions \in [Ids -> Sessions]
  BY Typed, SessionsTyped
<1>3. /\ Sender(r) /\ req[r].op \in {"register", "add user"}
  BY <1>1 DEF Sender, IInv, PlacesOK
<1>4. req[r].code # 0
  BY <1>3 DEF IInv, NumberInv
<1>5. /\ user' \in Users /\ user'.id = req[r].code /\ user'.link = 0
      /\ user'.otp = IF req[r].op = "register" THEN req[r].code ELSE 0
      /\ user'.invite = IF req[r].op = "add user" THEN req[r].code ELSE 0
      /\ user'.failed = 0 /\ user'.lock = "none" /\ ~user'.logged
  <2>1. NoRow \in Users /\ NoRow.link = 0 /\ NoRow.failed = 0 /\ NoRow.lock = "none" /\ ~NoRow.logged
    BY DEF NoRow, Users
  <2> QED
    BY <1>1, <1>2, <2>1 DEF Users
<1>6. Replaced(r)
  BY <1>1, <1>5 DEF Replaced
<1>7. /\ req' \in [Reqs -> Requests] /\ RolesType' /\ PlacesOK' /\ age' = age /\ roles' = roles
  BY <1>1, EndsReq
<1>8. \A g \in grants' : g \in (0..MaxRequests + 1) \X RoleIds /\ g[2] \in roles'
  <2> SUFFICES ASSUME NEW g \in grants' PROVE g \in (0..MaxRequests + 1) \X RoleIds /\ g[2] \in roles'
    OBVIOUS
  <2>1. CASE g \in grants
    BY <1>7, <2>1, GrantsTyped
  <2>2. CASE g \notin grants
    <3>1. req[r].op = "add user" /\ g = <<req[r].code, req[r].role>>
      BY <1>1, <2>2
    <3>2. req[r].role \in roles /\ roles \subseteq RoleIds
      BY <1>1, <3>1 DEF IInv, RolesType
    <3>3. req[r].code \in 0..MaxRequests + 1
      BY <1>2, RolesAssumption DEF Ids
    <3> QED
      BY <1>7, <3>1, <3>2, <3>3
  <2> QED
    BY <2>1, <2>2
<1>9. RowTypes' /\ GrantInv'
  <2>1. grants' \subseteq (0..MaxRequests + 1) \X RoleIds
    BY <1>8
  <2> QED
    BY <1>1, <1>5, <1>7, <1>8, <2>1 DEF IInv, RowTypes, GrantInv
<1>10. Stored' \subseteq {0, req[r].code}
  BY <1>5 DEF Stored
<1>11. CountInv'
  BY <1>1, <1>3, <1>5, EndsCount
<1>12. NumberInv'
  BY <1>1, <1>3, <1>5, <1>10, EndsNumbers
<1>13. CodeInv'
  BY <1>1, <1>3, <1>5, EndsWithCode
<1>14. MailInv'
  BY <1>1, <1>10, EndsMail
<1>15. RowInv' /\ SessionInv' /\ LockInv'
  BY <1>1, <1>4, <1>5, <1>6, EndsRow, EndsSession, EndsLock
<1> QED
  BY <1>7, <1>9, <1>11, <1>12, <1>13, <1>14, <1>15 DEF IInv

-----------------------------------------------------------------------------
(* A request takes a number, or mails the one it took                       *)

Flushed(r)   == req[r].at \in {"flushed", "flushed mailed"}
Code(r, to)  == IF to = "flushed mailed" THEN req[r].code ELSE next
Moves(r, to) == req' = [req EXCEPT ![r].at = to, ![r].code = Code(r, to)]
Sent(r)      == age' = [age EXCEPT ![req'[r].code] = "new"]
Takes(r, to) ==
  \/ to = "flushed" /\ req[r].op \in {"register", "add user"} /\ ~Blocked(r) /\ ~user.logged /\ age' = age
  \/ to = "mailed" /\ req[r].op \in {"resend otp", "forgot"} /\ Sent(r)

\* What such a step does to the request, field by field.
LEMMA MovesReq ==
  ASSUME IInv, NEW r \in Reqs, NEW to \in {"flushed", "flushed mailed", "mailed"},
         Code(r, to) \in {0} \cup Ids, Moves(r, to)
  PROVE  /\ req'[r] \in Requests /\ req'[r].at = to /\ req'[r].code = Code(r, to) /\ req'[r].op = req[r].op
         /\ req'[r].seen = req[r].seen /\ req'[r].session = req[r].session /\ req'[r].role = req[r].role
         /\ req' \in [Reqs -> Requests]
         /\ \A q \in Reqs \ {r} : req'[q] = req[q]
<1>1. req \in [Reqs -> Requests]
  BY DEF IInv, RowTypes
<1>2. PICK x \in Requests : x = req[r]
  BY <1>1
<1>3. PICK y \in Requests : y = [x EXCEPT !.at = to, !.code = Code(r, to)]
  BY DEF Requests
<1>4. req' = [req EXCEPT ![r] = y]
  BY <1>1, <1>2, <1>3 DEF Moves
<1>5. y.at = to /\ y.code = Code(r, to) /\ y.op = x.op /\ y.seen = x.seen /\ y.session = x.session /\ y.role = x.role
  BY <1>2, <1>3 DEF Requests
<1> QED
  BY <1>1, <1>2, <1>3, <1>4, <1>5

\* FlushNewRow and MailCode: the request takes the next number.
LEMMA TakesInv ==
  ASSUME IInv, NEW r \in Reqs, req[r].at = "read", NEW to \in {"flushed", "mailed"},
         Moves(r, to), next' = next + 1,
         Takes(r, to),
         UNCHANGED <<roles, rolePerms, permissions, nextRole, grants, admin, served, user, sessions, wrong, used, resets>>
  PROVE  IInv'
<1>0. next \in Ids
  BY NextIsAnId
<1>1. next \in Nat /\ 0 < next /\ served \in Nat
  BY Typed
<1>2. /\ req \in [Reqs -> Requests] /\ age \in [Ids -> {"unsent", "new", "good", "old"}]
      /\ \A q \in Reqs : req[q] \in Requests
  BY DEF IInv, RowTypes
<1>3. /\ req'[r] \in Requests /\ req'[r].at = to /\ req'[r].code = next /\ req'[r].op = req[r].op
      /\ req'[r].seen = req[r].seen /\ req'[r].session = req[r].session /\ req'[r].role = req[r].role
      /\ req' \in [Reqs -> Requests]
      /\ \A q \in Reqs \ {r} : req'[q] = req[q]
  BY <1>0, MovesReq DEF Code
<1>4. age' \in [Ids -> {"unsent", "new", "good", "old"}] /\ (\A c \in Ids : age[c] # "unsent" => age'[c] # "unsent")
      /\ (to = "mailed" => age'[next] # "unsent")
  BY <1>0, <1>2, <1>3 DEF Sent, Takes
<1>5. req[r].op # "none" /\ ~Holder(r)
  BY DEF Takes, Holder
<1>6. RolesType' /\ GrantInv'
  <2>1. RolesType /\ GrantInv
    BY DEF IInv
  <2> QED
    BY <2>1 DEF RolesType, GrantInv
<1>7. RowTypes'
  BY <1>1, <1>3, <1>4 DEF IInv, RowTypes
<1>8. PlacesOK'
  <2>1. PlacesOK
    BY DEF IInv
  <2> QED
    BY <1>3, <1>5, <2>1 DEF PlacesOK, Takes
<1>9. CountInv'
  <2>1. Fresh' = Fresh \ {r} /\ r \in Fresh
    BY <1>3 DEF Fresh
  <2>2. CountInv
    BY DEF IInv
  <2>3. IsFiniteSet(Fresh') /\ Cardinality(Fresh) \in Nat /\ Cardinality(Fresh') = Cardinality(Fresh) - 1
    BY <2>1, <2>2, FS_RemoveElement, FS_CardinalityType DEF CountInv
  <2>4. user.failed \in Nat /\ \A q \in Reqs : req[q].seen.failed \in Nat
    BY Typed
  <2>5. next' + Cardinality(Fresh') <= served' + 2 /\ user'.failed + Cardinality(Fresh') <= served'
    BY <1>1, <2>2, <2>3, <2>4 DEF CountInv
  <2>6. ASSUME NEW q \in Reqs, req'[q].op # "none" PROVE req'[q].seen.failed + Cardinality(Fresh') <= served'
    <3>1. req[q].op # "none" /\ req'[q].seen = req[q].seen
      BY <1>3, <2>6
    <3> QED
      BY <1>1, <2>2, <2>3, <2>4, <3>1 DEF CountInv
  <2> QED
    BY <2>3, <2>5, <2>6 DEF CountInv
<1>10. /\ \A q \in Reqs \ {r} : Sender(q)' = Sender(q) /\ Holder(q)' = Holder(q)
       /\ Sender(r)' /\ ~Holder(r)' /\ Stored' = Stored
  BY <1>3, <1>5 DEF Sender, Holder, Stored
<1>11. NumberInv
  BY DEF IInv
<1>12. NumberInv'
  <2>1. \A n \in Stored \cup used \cup {user.id} : n < next /\ n \in Nat
    <3>1. user \in Users /\ used \subseteq Ids
      BY DEF IInv, RowTypes
    <3>2. user.id \in {0} \cup Ids /\ Stored \subseteq {0} \cup Ids
      BY <3>1 DEF Users, Stored
    <3> QED
      BY <1>11, <3>1, <3>2, IdsAreNumbers DEF NumberInv
  <2>2. \A q \in Reqs : /\ req[q].code < next /\ req[q].seen.id < next /\ req[q].session < next
                        /\ req[q].code \in Nat /\ req[q].seen.id \in Nat /\ req[q].session \in Nat
    <3>1. \A x \in Requests : x.code \in Nat /\ x.session \in Nat /\ x.seen \in Users
      BY IdsAreNumbers DEF Requests
    <3>2. \A u \in Users : u.id \in Nat
      BY IdsAreNumbers DEF Users
    <3> QED
      BY <1>2, <1>11, <3>1, <3>2 DEF NumberInv
  <2>3. \A n \in Stored' \cup used' \cup {user'.id} : n < next' /\ n # next
    BY <1>1, <1>10, <2>1
  <2>4. \A s \in Ids : sessions'[s].user # 0 => s < next'
    <3>1. \A s \in Ids : sessions[s].user # 0 => s < next
      BY <1>11 DEF NumberInv
    <3>2. \A s \in Ids : s \in Nat
      BY IdsAreNumbers
    <3> QED
      BY <1>1, <3>1, <3>2
  <2>5. \A q \in Reqs : req'[q].code < next' /\ req'[q].seen.id < next' /\ req'[q].session < next'
    BY <1>1, <1>3, <2>2
  <2>6. \A q \in Reqs : (Sender(q) \/ Holder(q))' => req'[q].code # 0
    BY <1>1, <1>3, <1>10, <1>11 DEF NumberInv
  <2>7. \A q \in Reqs : req[q].code # next /\ req[q].seen.id # next
    BY <1>1, <2>2
  <2>8. \A p, q \in Reqs : Sender(p)' /\ (Sender(q) \/ Holder(q))' /\ p # q => req'[p].code # req'[q].code
    BY <1>3, <1>10, <1>11, <2>7 DEF NumberInv
  <2>9. \A q \in Reqs : Sender(q)' => req'[q].code \notin Stored' \cup used' \cup {user'.id}
    BY <1>3, <1>10, <1>11, <2>3 DEF NumberInv
  <2>10. \A p, q \in Reqs : Sender(p)' /\ req'[q].op # "none" => req'[p].code # req'[q].seen.id
    <3>1. \A q \in Reqs : req'[q].op = req[q].op /\ req'[q].seen = req[q].seen
      BY <1>3
    <3> QED
      BY <1>3, <1>10, <1>11, <2>7, <3>1 DEF NumberInv
  <2> QED
    BY <2>3, <2>4, <2>5, <2>6, <2>8, <2>9, <2>10 DEF NumberInv
<1>13. CodeInv'
  <2>1. CodeInv /\ user' = user /\ used' = used
    BY DEF IInv
  <2>2. req'[r].op \notin {"activate", "accept", "reset"}
    BY <1>3, <1>5 DEF Holder
  <2> QED
    BY <1>3, <1>10, <2>1, <2>2 DEF CodeInv
<1>14. MailInv'
  <2>1. MailInv /\ Stored \subseteq {0} \cup Ids
    BY DEF IInv, RowTypes, Users, Stored
  <2>2. \A c \in Stored' \ {0} : age'[c] # "unsent"
    BY <1>4, <1>10, <2>1 DEF MailInv
  <2>3. ASSUME NEW q \in Reqs, req'[q].at \in {"flushed mailed", "mailed"} PROVE age'[req'[q].code] # "unsent"
    <3>1. CASE q = r
      BY <1>3, <1>4, <2>3, <3>1
    <3>2. CASE q # r
      <4>1. req'[q] = req[q] /\ Sender(q)
        BY <1>3, <2>3, <3>2 DEF Sender
      <4>2. req[q].code \in Ids
        BY <1>11, <4>1, Typed DEF NumberInv
      <4> QED
        BY <1>4, <2>1, <2>3, <4>1, <4>2 DEF MailInv
    <3> QED
      BY <3>1, <3>2
  <2> QED
    BY <2>2, <2>3 DEF MailInv
<1>15. RowInv'
  <2>1. RowInv /\ user' = user
    BY DEF IInv
  <2>2. \A q \in Reqs : req'[q].op = req[q].op /\ req'[q].seen = req[q].seen
    BY <1>3
  <2>3. \A p, q \in Reqs : req'[p].at \in {"flushed", "flushed mailed"} /\ req'[q].at \in {"flushed", "flushed mailed"} => p = q
    BY <1>3, <2>1 DEF RowInv, Blocked, Takes
  <2>4. \A q \in Reqs : req'[q].at \in {"flushed", "flushed mailed"} => ~user'.logged
    BY <1>3, <2>1 DEF RowInv, Takes
  <2> QED
    BY <2>1, <2>2, <2>3, <2>4 DEF RowInv
<1>16. SessionInv' /\ LockInv'
  <2>1. SessionInv /\ LockInv
    BY DEF IInv
  <2>2. \A q \in Reqs : req'[q].op = req[q].op /\ req'[q].seen = req[q].seen
    BY <1>3
  <2>3. SessionInv'
    BY <2>1 DEF SessionInv
  <2> QED
    BY <2>1, <2>2, <2>3 DEF LockInv
<1> QED
  BY <1>6, <1>7, <1>8, <1>9, <1>12, <1>13, <1>14, <1>15, <1>16 DEF IInv

LEMMA FlushInv ==
  ASSUME IInv, NEW r \in Reqs, FlushNewRow(r)
  PROVE  IInv'
<1>1. /\ req[r].op \in {"register", "add user"} /\ req[r].at = "read" /\ ~Blocked(r) /\ ~user.logged
      /\ Moves(r, "flushed") /\ next' = next + 1
      /\ UNCHANGED <<roles, rolePerms, permissions, nextRole, grants, admin, served, user, sessions, age, wrong, used, resets>>
  BY DEF FlushNewRow, tablevars, Moves, Code
<1> QED
  BY <1>1, TakesInv DEF Takes

LEMMA MailCodeInv ==
  ASSUME IInv, NEW r \in Reqs, MailCode(r)
  PROVE  IInv'
<1>1. /\ req[r].op \in {"resend otp", "forgot"} /\ req[r].at = "read"
      /\ Moves(r, "mailed") /\ next' = next + 1
      /\ Sent(r)
      /\ UNCHANGED <<roles, rolePerms, permissions, nextRole, grants, admin, served, user, sessions, wrong, used, resets>>
  BY DEF MailCode, SendCode, tablevars, Moves, Code, Sent
<1> QED
  BY <1>1, TakesInv DEF Takes

LEMMA MailNewRowInv ==
  ASSUME IInv, NEW r \in Reqs, MailNewRow(r)
  PROVE  IInv'
<1>1. /\ req[r].at = "flushed"
      /\ Moves(r, "flushed mailed")
      /\ Sent(r)
      /\ UNCHANGED <<roles, rolePerms, permissions, nextRole, grants, admin, served, user, sessions, next, wrong, used, resets>>
  BY DEF MailNewRow, SendCode, tablevars, Moves, Code, Sent
<1>2. req \in [Reqs -> Requests] /\ age \in [Ids -> {"unsent", "new", "good", "old"}]
  BY DEF IInv, RowTypes
<1>3. /\ req'[r] \in Requests /\ req'[r].at = "flushed mailed" /\ req'[r].code = req[r].code /\ req'[r].op = req[r].op
      /\ req'[r].seen = req[r].seen /\ req'[r].session = req[r].session /\ req'[r].role = req[r].role
      /\ req' \in [Reqs -> Requests]
      /\ \A q \in Reqs \ {r} : req'[q] = req[q]
  BY <1>1, Typed, MovesReq DEF Code
<1>4. \A q \in Reqs : /\ req'[q].op = req[q].op /\ req'[q].seen = req[q].seen /\ req'[q].code = req[q].code
                       /\ req'[q].session = req[q].session /\ req'[q].role = req[q].role
                       /\ Flushed(q)' = Flushed(q)
                       /\ Sender(q)' = Sender(q) /\ Holder(q)' = Holder(q)
  <2> SUFFICES ASSUME NEW q \in Reqs
               PROVE  /\ req'[q].op = req[q].op /\ req'[q].seen = req[q].seen /\ req'[q].code = req[q].code
                      /\ req'[q].session = req[q].session /\ req'[q].role = req[q].role
                      /\ Flushed(q)' = Flushed(q)
                      /\ Sender(q)' = Sender(q) /\ Holder(q)' = Holder(q)
    OBVIOUS
  <2>1. CASE q = r
    <3>1. Flushed(r)' /\ Flushed(r) /\ Sender(r)' /\ Sender(r)
      BY <1>1, <1>3 DEF Sender, Flushed
    <3>2. Holder(r)' = Holder(r)
      BY <1>3 DEF Holder
    <3> QED
      BY <1>3, <2>1, <3>1, <3>2
  <2>2. CASE q # r
    <3>1. req'[q] = req[q]
      BY <1>3, <2>2
    <3> QED
      BY <3>1 DEF Sender, Holder, Flushed
  <2> QED
    BY <2>1, <2>2
<1>5. Fresh' = Fresh /\ Stored' = Stored
  BY <1>1, <1>3 DEF Fresh, Stored
<1>6. \A c \in Ids : age[c] # "unsent" => age'[c] # "unsent"
  BY <1>1, <1>2 DEF Sent
<1>7. RolesType' /\ GrantInv'
  <2>1. RolesType /\ GrantInv
    BY DEF IInv
  <2> QED
    BY <1>1, <2>1 DEF RolesType, GrantInv
<1>8. req[r].code \in Ids
  <2>1. Sender(r) /\ NumberInv
    BY <1>1 DEF Sender, IInv
  <2> QED
    BY <2>1, Typed DEF NumberInv
<1>9. RowTypes' /\ age'[req[r].code] # "unsent"
  BY <1>1, <1>2, <1>3, <1>8 DEF IInv, RowTypes, Sent
<1>10. PlacesOK'
  <2>1. PlacesOK
    BY DEF IInv
  <2> QED
    BY <1>1, <1>3, <2>1 DEF PlacesOK
<1>11. CountInv'
  <2>1. CountInv
    BY DEF IInv
  <2> QED
    BY <1>1, <1>4, <1>5, <2>1 DEF CountInv
<1>12. NumberInv'
  <2>1. NumberInv
    BY DEF IInv
  <2> QED
    <3>1. \A n \in Stored' \cup used' \cup {user'.id} : n < next'
      BY <1>1, <1>5, <2>1 DEF NumberInv
    <3>2. \A s \in Ids : sessions'[s].user # 0 => s < next'
      BY <1>1, <2>1 DEF NumberInv
    <3>3. \A q \in Reqs : req'[q].code < next' /\ req'[q].seen.id < next' /\ req'[q].session < next'
      BY <1>1, <1>4, <2>1 DEF NumberInv
    <3>4. \A q \in Reqs : (Sender(q) \/ Holder(q))' => req'[q].code # 0
      BY <1>4, <2>1 DEF NumberInv
    <3>5. \A p, q \in Reqs : Sender(p)' /\ (Sender(q) \/ Holder(q))' /\ p # q => req'[p].code # req'[q].code
      BY <1>4, <2>1 DEF NumberInv
    <3>6. \A q \in Reqs : Sender(q)' => req'[q].code \notin Stored' \cup used' \cup {user'.id}
      BY <1>1, <1>4, <1>5, <2>1 DEF NumberInv
    <3>7. \A p, q \in Reqs : Sender(p)' /\ req'[q].op # "none" => req'[p].code # req'[q].seen.id
      BY <1>4, <2>1 DEF NumberInv
    <3> QED
      BY <3>1, <3>2, <3>3, <3>4, <3>5, <3>6, <3>7 DEF NumberInv
<1>13. CodeInv'
  <2>1. CodeInv
    BY DEF IInv
  <2> QED
    BY <1>1, <1>4, <1>5, <2>1 DEF CodeInv
<1>14. MailInv'
  <2>1. MailInv /\ Stored \subseteq {0} \cup Ids
    BY DEF IInv, RowTypes, Users, Stored
  <2>2. ASSUME NEW q \in Reqs, req'[q].at \in {"flushed mailed", "mailed"} PROVE age'[req'[q].code] # "unsent"
    <3>1. CASE q = r
      BY <1>3, <1>9, <3>1
    <3>2. CASE q # r
      <4>1. req'[q] = req[q] /\ Sender(q)
        BY <1>3, <2>2, <3>2 DEF Sender
      <4>2. req[q].code \in Ids
        BY <4>1, Typed DEF IInv, NumberInv
      <4> QED
        BY <1>6, <2>1, <2>2, <4>1, <4>2 DEF MailInv
    <3> QED
      BY <3>1, <3>2
  <2>3. \A c \in Stored' \ {0} : age'[c] # "unsent"
    BY <1>5, <1>6, <2>1 DEF MailInv
  <2> QED
    BY <2>2, <2>3 DEF MailInv
<1>15. RowInv'
  <2>1. RowInv
    BY DEF IInv
  <2> QED
    BY <1>1, <1>4, <2>1 DEF RowInv, Flushed
<1>16. SessionInv' /\ LockInv'
  <2>1. SessionInv /\ LockInv
    BY DEF IInv
  <2> QED
    BY <1>1, <1>4, <2>1 DEF SessionInv, LockInv
<1> QED
  BY <1>7, <1>9, <1>10, <1>11, <1>12, <1>13, <1>14, <1>15, <1>16 DEF IInv

-----------------------------------------------------------------------------
(* The administrators, and time                                             *)

\* What a step of theirs leaves.
RolesKept == RolesType' /\ GrantInv' /\ grants' \subseteq grants /\ served' \in {served, served + 1}

LEMMA OneMoreServed ==
  ASSUME served \in 0..MaxRequests, served < MaxRequests, served' = served + 1
  PROVE  served' \in 0..MaxRequests
BY RolesAssumption

LEMMA OpenKeeps ==
  ASSUME IInv, NEW a \in Admins, NEW op \in AdminOps, NEW r \in 0..MaxRoles, NEW ps \in SUBSET Perms,
         op \in {"remove role", "update role"} => r \in RoleIds, Open(a, op, r, ps)
  PROVE  RolesKept
<1>1. RolesType /\ GrantInv
  BY DEF IInv
<1>2. /\ served < MaxRequests /\ served' = served + 1
      /\ admin' = [admin EXCEPT ![a] = [op |-> op, role |-> r, wants |-> ps]]
      /\ UNCHANGED <<roles, rolePerms, permissions, nextRole, grants>>
  BY DEF Open, tablevars
<1>3. served' \in 0..MaxRequests
  <2>1. served \in 0..MaxRequests /\ served < MaxRequests /\ served' = served + 1
    BY <1>1, <1>2 DEF RolesType
  <2> QED
    BY <2>1, OneMoreServed
<1>4. [op |-> op, role |-> r, wants |-> ps] \in [op : AdminOps, role : 0..MaxRoles, wants : SUBSET Perms]
  OBVIOUS
<1>5. admin' \in [Admins -> [op : AdminOps, role : 0..MaxRoles, wants : SUBSET Perms]]
  BY <1>1, <1>2, <1>4 DEF RolesType
<1>6. \A b \in Admins : admin'[b].op \in {"remove role", "update role"} => admin'[b].role \in RoleIds
  BY <1>1, <1>2 DEF RolesType
<1>7. RolesType'
  BY <1>1, <1>2, <1>3, <1>5, <1>6 DEF RolesType
<1>8. GrantInv'
  BY <1>1, <1>2 DEF GrantInv
<1> QED
  BY <1>2, <1>7, <1>8 DEF RolesKept

LEMMA CloseKeeps ==
  ASSUME IInv, NEW a \in Admins, Close(a),
         roles' \subseteq RoleIds, permissions' \subseteq Perms, rolePerms' \subseteq RoleIds \X Perms,
         nextRole' = nextRole, grants' \subseteq grants, GrantInv'
  PROVE  RolesKept
<1>1. RolesType
  BY DEF IInv
<1>2. NoRequest \in [op : AdminOps, role : 0..MaxRoles, wants : SUBSET Perms] /\ NoRequest.op = "none"
  BY RolesAssumption DEF NoRequest, AdminOps
<1>3. admin' = [admin EXCEPT ![a] = NoRequest] /\ served' = served
  BY DEF Close
<1>4. admin' \in [Admins -> [op : AdminOps, role : 0..MaxRoles, wants : SUBSET Perms]]
  BY <1>1, <1>2, <1>3 DEF RolesType
<1>5. \A b \in Admins : admin'[b].op \in {"remove role", "update role"} => admin'[b].role \in RoleIds
  BY <1>1, <1>2, <1>3 DEF RolesType
<1> QED
  BY <1>1, <1>3, <1>4, <1>5 DEF RolesType, RolesKept

LEMMA AdminKeeps ==
  ASSUME IInv, NEW a \in Admins,
         \/ BeginRemoveRole(a) \/ CommitRemoveRole(a)
         \/ BeginAddRole(a) \/ CommitNewRole(a) \/ CommitNewRolePerms(a)
         \/ BeginUpdateRole(a) \/ CommitUpdateRole(a)
         \/ AddPermission(a)
         \/ BeginDeletePermission(a) \/ CommitDeletePermission(a)
         \/ AdminDies(a)
  PROVE  RolesKept
<1>1. RolesType /\ GrantInv
  BY DEF IInv
<1>2. /\ roles \subseteq RoleIds /\ permissions \subseteq Perms /\ rolePerms \subseteq RoleIds \X Perms
      /\ admin \in [Admins -> [op : AdminOps, role : 0..MaxRoles, wants : SUBSET Perms]]
      /\ admin[a].wants \subseteq Perms /\ nextRole \in 1..MaxRoles + 1 /\ served \in 0..MaxRequests
  BY <1>1 DEF RolesType
<1>3. 0 \in 0..MaxRoles /\ RoleIds \subseteq 0..MaxRoles
  BY RolesAssumption DEF RoleIds
<1>4. CASE BeginRemoveRole(a)
  <2>1. PICK r \in roles : Open(a, "remove role", r, {})
    BY <1>4 DEF BeginRemoveRole
  <2>2. "remove role" \in AdminOps /\ r \in 0..MaxRoles /\ r \in RoleIds
    BY <1>2, <1>3 DEF AdminOps
  <2>3. {} \in SUBSET Perms
    OBVIOUS
  <2> QED
    BY <2>1, <2>2, <2>3, OpenKeeps
<1>5. CASE BeginAddRole(a)
  <2>1. PICK ps \in SUBSET permissions : Open(a, "add role", 0, ps)
    BY <1>5 DEF BeginAddRole
  <2>2. "add role" \in AdminOps /\ ps \in SUBSET Perms
    BY <1>2 DEF AdminOps
  <2> QED
    BY <1>3, <2>1, <2>2, OpenKeeps
<1>6. CASE BeginUpdateRole(a)
  <2>1. PICK r \in roles, ps \in SUBSET Perms : Open(a, "update role", r, ps)
    BY <1>6 DEF BeginUpdateRole
  <2>2. "update role" \in AdminOps /\ r \in 0..MaxRoles /\ r \in RoleIds
    BY <1>2, <1>3 DEF AdminOps
  <2> QED
    BY <2>1, <2>2, OpenKeeps
<1>7. CASE BeginDeletePermission(a)
  <2>1. PICK p \in permissions : Open(a, "delete permission", 0, {p})
    BY <1>7 DEF BeginDeletePermission
  <2>2. "delete permission" \in AdminOps /\ {p} \in SUBSET Perms
    BY <1>2 DEF AdminOps
  <2> QED
    BY <1>3, <2>1, <2>2, OpenKeeps
<1>8. CASE CommitRemoveRole(a)
  <2>1. /\ Close(a) /\ roles' \subseteq roles /\ permissions' = permissions /\ nextRole' = nextRole
        /\ rolePerms' \subseteq rolePerms /\ grants' \subseteq grants
        /\ \A g \in grants' : g \in grants /\ g[2] # admin[a].role
        /\ roles' = roles \ {admin[a].role}
    BY <1>8 DEF CommitRemoveRole
  <2>2. GrantInv'
    BY <1>1, <2>1 DEF GrantInv
  <2> QED
    BY <1>2, <2>1, <2>2, CloseKeeps
<1>9. CASE CommitNewRole(a)
  <2>1. /\ admin[a].op = "add role" /\ nextRole \in RoleIds /\ roles' = roles \cup {nextRole}
        /\ nextRole' = nextRole + 1 /\ admin' = [admin EXCEPT ![a].role = nextRole]
        /\ UNCHANGED <<rolePerms, permissions, grants, served>>
    BY <1>9 DEF CommitNewRole
  <2>2. nextRole' \in 1..MaxRoles + 1
    <3>1. nextRole \in 1..MaxRoles /\ nextRole' = nextRole + 1
      BY <2>1 DEF RoleIds
    <3> QED
      BY <3>1, RolesAssumption
  <2>3. /\ admin' \in [Admins -> [op : AdminOps, role : 0..MaxRoles, wants : SUBSET Perms]]
        /\ \A b \in Admins : admin'[b].op = admin[b].op /\ (b # a => admin'[b] = admin[b])
    <3>1. nextRole \in 0..MaxRoles
      BY <1>3, <2>1
    <3> QED
      BY <1>2, <2>1, <3>1
  <2>4. \A b \in Admins : admin'[b].op \in {"remove role", "update role"} => admin'[b].role \in RoleIds
    BY <1>1, <2>1, <2>3 DEF RolesType
  <2>5. RolesType'
    BY <1>2, <2>1, <2>2, <2>3, <2>4 DEF RolesType
  <2>6. GrantInv'
    BY <1>1, <2>1 DEF GrantInv
  <2> QED
    BY <2>1, <2>5, <2>6 DEF RolesKept
<1>10. CASE CommitNewRolePerms(a)
  <2>1. /\ Close(a) /\ admin[a].role \in roles
        /\ rolePerms' = rolePerms \cup ({admin[a].role} \X admin[a].wants)
        /\ UNCHANGED <<roles, permissions, grants, nextRole>>
    BY <1>10 DEF CommitNewRolePerms
  <2>2. rolePerms' \subseteq RoleIds \X Perms
    BY <1>2, <2>1
  <2>3. GrantInv'
    BY <1>1, <2>1 DEF GrantInv
  <2> QED
    BY <1>2, <2>1, <2>2, <2>3, CloseKeeps
<1>11. CASE CommitUpdateRole(a)
  <2>1. /\ Close(a) /\ admin[a].role \in roles
        /\ rolePerms' = {x \in rolePerms : x[1] # admin[a].role} \cup ({admin[a].role} \X admin[a].wants)
        /\ UNCHANGED <<roles, permissions, grants, nextRole>>
    BY <1>11 DEF CommitUpdateRole
  <2>2. rolePerms' \subseteq RoleIds \X Perms
    BY <1>2, <2>1
  <2>3. GrantInv'
    BY <1>1, <2>1 DEF GrantInv
  <2> QED
    BY <1>2, <2>1, <2>2, <2>3, CloseKeeps
<1>12. CASE AddPermission(a)
  <2>1. /\ served < MaxRequests /\ served' = served + 1 /\ permissions' \subseteq Perms
        /\ UNCHANGED <<roles, rolePerms, grants, nextRole, admin>>
    BY <1>2, <1>12 DEF AddPermission
  <2>2. served' \in 0..MaxRequests
    BY <1>2, <2>1, RolesAssumption
  <2>3. RolesType' /\ GrantInv'
    BY <1>1, <2>1, <2>2 DEF RolesType, GrantInv
  <2> QED
    BY <2>1, <2>3 DEF RolesKept
<1>13. CASE CommitDeletePermission(a)
  <2>1. Close(a) /\ permissions' \subseteq permissions /\ UNCHANGED <<roles, rolePerms, grants, nextRole>>
    BY <1>13 DEF CommitDeletePermission
  <2>2. GrantInv'
    BY <1>1, <2>1 DEF GrantInv
  <2> QED
    BY <1>2, <2>1, <2>2, CloseKeeps
<1>14. CASE AdminDies(a)
  <2>1. Close(a) /\ UNCHANGED <<roles, rolePerms, permissions, nextRole, grants>>
    BY <1>14 DEF AdminDies, tablevars
  <2>2. GrantInv'
    BY <1>1, <2>1 DEF GrantInv
  <2> QED
    BY <1>2, <2>1, <2>2, CloseKeeps
<1> QED
  BY <1>4, <1>5, <1>6, <1>7, <1>8, <1>9, <1>10, <1>11, <1>12, <1>13, <1>14

LEMMA RolesInv ==
  ASSUME IInv, RolesNext, UNCHANGED accountvars
  PROVE  IInv'
<1>1. RolesKept
  BY AdminKeeps DEF RolesNext
<1>2. UNCHANGED <<user, sessions, age, req, next, wrong, used, resets>>
  BY DEF accountvars
<1>3. RowTypes'
  BY <1>1, <1>2 DEF IInv, RowTypes, RolesKept
<1>4. CountInv'
  <2>1. Fresh' = Fresh
    BY <1>2 DEF Fresh
  <2>2. CountInv /\ Cardinality(Fresh) \in Nat
    BY FS_CardinalityType DEF IInv, CountInv
  <2>3. /\ next \in Nat /\ served \in Nat /\ user.failed \in Nat
        /\ \A r \in Reqs : req[r].seen.failed \in Nat
    BY Typed
  <2>4. served' \in {served, served + 1}
    BY <1>1 DEF RolesKept
  <2>5. next' + Cardinality(Fresh') <= served' + 2 /\ user'.failed + Cardinality(Fresh') <= served'
    BY <1>2, <2>1, <2>2, <2>3, <2>4 DEF CountInv
  <2>6. \A r \in Reqs : req'[r].op # "none" => req'[r].seen.failed + Cardinality(Fresh') <= served'
    BY <1>2, <2>1, <2>2, <2>3, <2>4 DEF CountInv
  <2> QED
    BY <2>1, <2>2, <2>5, <2>6 DEF CountInv
<1>5. (\A r \in Reqs : Sender(r)' = Sender(r) /\ Holder(r)' = Holder(r)) /\ Stored' = Stored
  BY <1>2 DEF Sender, Holder, Stored
<1>6. NumberInv' /\ CodeInv' /\ MailInv'
  <2>1. NumberInv /\ CodeInv /\ MailInv
    BY DEF IInv
  <2>2. NumberInv'
    BY <1>2, <1>5, <2>1 DEF NumberInv
  <2> QED
    BY <1>2, <1>5, <2>1, <2>2 DEF CodeInv, MailInv
<1>7. PlacesOK' /\ RowInv' /\ SessionInv' /\ LockInv'
  <2>1. PlacesOK /\ RowInv /\ SessionInv /\ LockInv
    BY DEF IInv
  <2> QED
    BY <1>2, <2>1 DEF PlacesOK, RowInv, SessionInv, LockInv
<1> QED
  BY <1>1, <1>3, <1>4, <1>6, <1>7 DEF IInv, RolesKept

LEMMA AgesInv ==
  ASSUME IInv, NEW c \in Ids, Ages(c)
  PROVE  IInv'
<1>1. /\ age' = [age EXCEPT ![c] = "good"] \/ age' = [age EXCEPT ![c] = "old"]
      /\ UNCHANGED <<roles, rolePerms, permissions, grants, nextRole, admin, served, user, sessions, req, next,
                     wrong, used, resets>>
  BY DEF Ages, rolevars, ghosts
<1>2. age \in [Ids -> {"unsent", "new", "good", "old"}]
  BY DEF IInv, RowTypes
<1>3. /\ age' \in [Ids -> {"unsent", "new", "good", "old"}]
      /\ \A d \in Ids : age[d] # "unsent" => age'[d] # "unsent"
  BY <1>1, <1>2
<1>4. (\A r \in Reqs : Sender(r)' = Sender(r) /\ Holder(r)' = Holder(r)) /\ Stored' = Stored /\ Fresh' = Fresh
  BY <1>1 DEF Sender, Holder, Stored, Fresh
<1>5. RolesType' /\ GrantInv'
  <2>1. RolesType /\ GrantInv
    BY DEF IInv
  <2> QED
    BY <1>1, <2>1 DEF RolesType, GrantInv
<1>6. RowTypes'
  BY <1>1, <1>3 DEF IInv, RowTypes
<1>7. CountInv' /\ NumberInv' /\ CodeInv'
  <2>1. CountInv /\ NumberInv /\ CodeInv
    BY DEF IInv
  <2>2. CountInv'
    BY <1>1, <1>4, <2>1 DEF CountInv
  <2>3. NumberInv'
    BY <1>1, <1>4, <2>1 DEF NumberInv
  <2> QED
    BY <1>1, <1>4, <2>1, <2>2, <2>3 DEF CodeInv
<1>8. MailInv'
  <2>1. MailInv /\ Stored \subseteq {0} \cup Ids
    BY DEF IInv, RowTypes, Users, Stored
  <2>2. \A r \in Reqs : req[r].at \in {"flushed mailed", "mailed"} => req[r].code \in Ids
    <3>1. \A r \in Reqs : req[r].at \in {"flushed mailed", "mailed"} => req[r].code # 0
      BY DEF IInv, NumberInv, Sender
    <3> QED
      BY <3>1, Typed
  <2>3. \A d \in Stored' \ {0} : age'[d] # "unsent"
    BY <1>3, <1>4, <2>1 DEF MailInv
  <2>4. \A r \in Reqs : req'[r].at \in {"flushed mailed", "mailed"} => age'[req'[r].code] # "unsent"
    BY <1>1, <1>3, <2>1, <2>2 DEF MailInv
  <2> QED
    BY <2>3, <2>4 DEF MailInv
<1>9. PlacesOK' /\ RowInv' /\ SessionInv' /\ LockInv'
  <2>1. PlacesOK /\ RowInv /\ SessionInv /\ LockInv
    BY DEF IInv
  <2> QED
    BY <1>1, <2>1 DEF PlacesOK, RowInv, SessionInv, LockInv
<1> QED
  BY <1>5, <1>6, <1>7, <1>8, <1>9 DEF IInv

LEMMA LockRunsOutInv ==
  ASSUME IInv, LockRunsOut
  PROVE  IInv'
<1>1. /\ user' = [user EXCEPT !.lock = "over"]
      /\ UNCHANGED <<roles, rolePerms, permissions, grants, nextRole, admin, served, sessions, age, req, next,
                     wrong, used, resets>>
  BY DEF LockRunsOut, rolevars, ghosts
<1>2. user \in Users
  BY Typed
<1>3. /\ user' \in Users /\ user'.id = user.id /\ user'.otp = user.otp /\ user'.link = user.link
      /\ user'.invite = user.invite /\ user'.failed = user.failed /\ user'.lock = "over"
      /\ user'.verified = user.verified /\ user'.password = user.password /\ user'.logged = user.logged
  BY <1>1, <1>2 DEF Users
<1>4. (\A r \in Reqs : Sender(r)' = Sender(r) /\ Holder(r)' = Holder(r)) /\ Stored' = Stored /\ Fresh' = Fresh
  BY <1>1, <1>3 DEF Sender, Holder, Stored, Fresh
<1>5. RolesType' /\ GrantInv'
  <2>1. RolesType /\ GrantInv
    BY DEF IInv
  <2> QED
    BY <1>1, <2>1 DEF RolesType, GrantInv
<1>6. RowTypes'
  BY <1>1, <1>3 DEF IInv, RowTypes
<1>7. CountInv' /\ NumberInv' /\ CodeInv'
  <2>1. CountInv /\ NumberInv /\ CodeInv
    BY DEF IInv
  <2>2. CountInv'
    BY <1>1, <1>3, <1>4, <2>1 DEF CountInv
  <2>3. NumberInv'
    BY <1>1, <1>3, <1>4, <2>1 DEF NumberInv
  <2> QED
    BY <1>1, <1>3, <1>4, <2>1, <2>2, <2>3 DEF CodeInv
<1>8. PlacesOK' /\ MailInv'
  <2>1. PlacesOK /\ MailInv
    BY DEF IInv
  <2> QED
    BY <1>1, <1>4, <2>1 DEF PlacesOK, MailInv
<1>9. RowInv' /\ SessionInv' /\ LockInv'
  <2>1. RowInv /\ SessionInv /\ LockInv
    BY DEF IInv
  <2>2. RowInv'
    BY <1>1, <1>3, <2>1 DEF RowInv
  <2> QED
    BY <1>1, <1>3, <2>1, <2>2 DEF SessionInv, LockInv
<1> QED
  BY <1>5, <1>6, <1>7, <1>8, <1>9 DEF IInv

LEMMA StutterInv ==
  ASSUME IInv, UNCHANGED vars
  PROVE  IInv'
<1>1. UNCHANGED <<roles, rolePerms, permissions, grants, nextRole, admin, served, user, sessions, age, req, next,
                  wrong, used, resets>>
  BY DEF vars, rolevars, accountvars
<1>2. (\A r \in Reqs : Sender(r)' = Sender(r) /\ Holder(r)' = Holder(r)) /\ Stored' = Stored /\ Fresh' = Fresh
  BY <1>1 DEF Sender, Holder, Stored, Fresh
<1>3. RolesType' /\ RowTypes' /\ GrantInv'
  BY <1>1 DEF IInv, RolesType, RowTypes, GrantInv
<1>4. CountInv' /\ NumberInv' /\ CodeInv' /\ MailInv'
  BY <1>1, <1>2 DEF IInv, CountInv, NumberInv, CodeInv, MailInv
<1>5. PlacesOK' /\ RowInv' /\ SessionInv' /\ LockInv'
  BY <1>1 DEF IInv, PlacesOK, RowInv, SessionInv, LockInv
<1> QED
  BY <1>3, <1>4, <1>5 DEF IInv

LEMMA StepInv == IInv /\ [Next]_vars => IInv'
<1> SUFFICES ASSUME IInv, [Next]_vars PROVE IInv'
  OBVIOUS
<1>1. ASSUME NEW r \in Reqs, AccountStep(r) PROVE IInv'
  <2>1. \/ \/ BeginLogin(r) \/ BeginRefresh(r) \/ BeginLogout(r) \/ BeginRegister(r) \/ BeginAddUser(r)
           \/ BeginResendOtp(r) \/ BeginForgot(r) \/ BeginActivate(r) \/ BeginAccept(r) \/ BeginReset(r)
           \/ BeginChange(r) \/ BeginUpdateUser(r) \/ BeginDeleteUser(r)
        \/ LoginSucceeds(r) \/ LoginFails(r) \/ CommitRefresh(r) \/ CommitLogout(r)
        \/ FlushNewRow(r) \/ MailNewRow(r) \/ CommitNewRow(r) \/ MailCode(r) \/ CommitCode(r)
        \/ CommitActivate(r) \/ CommitAccept(r) \/ CommitReset(r) \/ CommitChange(r)
        \/ CommitUpdateUser(r) \/ CommitDeleteUser(r) \/ Dies(r)
    BY <1>1 DEF AccountStep
  <2>2. CASE \/ BeginLogin(r) \/ BeginRefresh(r) \/ BeginLogout(r) \/ BeginRegister(r) \/ BeginAddUser(r)
             \/ BeginResendOtp(r) \/ BeginForgot(r) \/ BeginActivate(r) \/ BeginAccept(r) \/ BeginReset(r)
             \/ BeginChange(r) \/ BeginUpdateUser(r) \/ BeginDeleteUser(r)
    <3>1. \E op, s, code, role : Begins(r, op, s, code, role)
      BY <2>2, BeginsAs
    <3> QED
      BY <3>1, BeginsInv
  <2>3. CASE LoginSucceeds(r) \/ LoginFails(r) \/ CommitRefresh(r) \/ CommitLogout(r)
    BY <2>3, LoginSucceedsInv, LoginFailsInv, RefreshInv, LogoutInv
  <2>4. CASE FlushNewRow(r) \/ MailNewRow(r) \/ CommitNewRow(r) \/ MailCode(r) \/ CommitCode(r)
    BY <2>4, FlushInv, MailNewRowInv, CommitNewRowInv, MailCodeInv, CommitCodeInv
  <2>5. CASE CommitActivate(r) \/ CommitAccept(r) \/ CommitReset(r) \/ CommitChange(r)
    BY <2>5, ActivateInv, AcceptInv, ResetInv, ChangeInv
  <2>6. CASE CommitUpdateUser(r) \/ CommitDeleteUser(r) \/ Dies(r)
    BY <2>6, UpdateUserInv, DeleteUserInv, DiesInv
  <2> QED
    BY <2>1, <2>2, <2>3, <2>4, <2>5, <2>6
<1>2. CASE RolesNext /\ UNCHANGED accountvars
  BY <1>2, RolesInv
<1>3. ASSUME NEW c \in Ids, Ages(c) PROVE IInv'
  BY <1>3, AgesInv
<1>4. CASE LockRunsOut
  BY <1>4, LockRunsOutInv
<1>5. CASE UNCHANGED vars
  BY <1>5, StutterInv
<1> QED
  BY <1>1, <1>2, <1>3, <1>4, <1>5 DEF Next

\* IInv holds in every reachable state.
LEMMA Invariance == Spec => []IInv
BY InitInv, StepInv, PTL DEF Spec

-----------------------------------------------------------------------------
(* Theorems                                                                 *)

\* Type correctness: the numbers and the failure counter stay within what the
\* requests served can have made of them (a request takes one number at most).
THEOREM TypeCorrect == Spec => []TypeOK
<1>1. IInv => TypeOK
  <2> SUFFICES ASSUME IInv PROVE TypeOK
    OBVIOUS
  <2>1. RolesTypeOK
    BY DEF IInv, RolesType, RolesTypeOK
  <2>2. user.failed \in 0..MaxRequests
    <3>1. user.failed \in Nat /\ served \in Nat /\ served <= MaxRequests
      BY Typed
    <3>2. user.failed + Cardinality(Fresh) <= served /\ Cardinality(Fresh) \in Nat
      BY FS_CardinalityType DEF IInv, CountInv
    <3> QED
      BY <3>1, <3>2, RolesAssumption
  <2>3. user \in [id : {0} \cup Ids, verified : BOOLEAN, password : BOOLEAN, otp : {0} \cup Ids,
                  link : {0} \cup Ids, invite : {0} \cup Ids, failed : 0..MaxRequests,
                  lock : {"none", "on", "over"}, deleted : BOOLEAN, logged : BOOLEAN]
    BY <2>2, Typed DEF Users
  <2>4. \A s \in Ids : (sessions[s].user = 0) <=> (sessions[s] = NoSession)
    BY DEF IInv, SessionInv, NoSession
  <2>5. /\ grants \subseteq (0..MaxRequests + 1) \X RoleIds
        /\ sessions \in [Ids -> [user : {0} \cup Ids, pair : {0} \cup Ids, revoked : BOOLEAN, resets : Nat]]
        /\ age \in [Ids -> {"unsent", "new", "good", "old"}]
    BY DEF IInv, RowTypes, Sessions
  <2> QED
    BY <2>1, <2>3, <2>4, <2>5 DEF TypeOK
<1> QED
  BY <1>1, Invariance, PTL

\* Every code on the row was mailed before it was stored, so the code that opens
\* the account is one its owner was sent, whichever requests interleave.
THEOREM CodesAreMailed == Spec => []StoredCodeWasMailed
<1>1. IInv => StoredCodeWasMailed
  BY DEF IInv, MailInv, Stored, StoredCodeWasMailed
<1> QED
  BY <1>1, Invariance, PTL

\* A live session belongs to the row of the address, verified and with a
\* password: no sign-up ever replaces a row that has been logged into.
THEOREM SessionsHaveTheirUser == Spec => []SessionHasItsUser
<1>1. IInv => SessionHasItsUser
  BY DEF IInv, SessionInv, SessionHasItsUser, Live
<1> QED
  BY <1>1, Invariance, PTL

\* A code is spent once: what has set a password is not stored on the row again
\* by another request that read the row before.
THEOREM CodesAreSpent == Spec => []UsedCodeIsGone
<1>1. IInv => UsedCodeIsGone
  BY DEF IInv, CodeInv, Stored, UsedCodeIsGone
<1> QED
  BY <1>1, Invariance, PTL

\* However many log-ins race on the counter, the account is locked only after
\* MaxFails wrong passwords were committed to the row.
THEOREM LocksAreEarned == Spec => []LockNeedsFailures
<1>1. IInv => LockNeedsFailures
  BY DEF IInv, LockInv, LockNeedsFailures
<1> QED
  BY <1>1, Invariance, PTL

\* A password reset ends every session opened before it.
THEOREM ResetsEndSessions == Spec => []ResetEndsSessions
<1>1. IInv => ResetEndsSessions
  BY DEF IInv, SessionInv, ResetEndsSessions, Live
<1> QED
  BY <1>1, Invariance, PTL

\* A session that was revoked or closed never comes back: no step but a log-in
\* makes a session live, and a log-in takes a new number.
THEOREM SessionsStayDead == Spec => EndedSessionStaysDead
<1>1. IInv /\ [Next]_vars => [\A s \in Ids : s < next /\ ~Live(s) => ~Live(s)']_vars
  <2> SUFFICES ASSUME IInv, [Next]_vars, NEW s \in Ids, s < next, ~Live(s) PROVE ~Live(s)'
    OBVIOUS
  <2>1. sessions \in [Ids -> Sessions] /\ NoSession.user = 0 /\ next \in Nat
    BY SessionsTyped, Typed DEF NoSession
  <2>2. CASE sessions' = sessions
    BY <2>2 DEF Live
  <2>3. ASSUME NEW r \in Reqs, LoginSucceeds(r) PROVE ~Live(s)'
    <3>1. PICK x : sessions' = [sessions EXCEPT ![next] = x]
      BY <2>3 DEF LoginSucceeds
    <3>2. s # next
      BY <2>1
    <3> QED
      BY <2>1, <3>1, <3>2 DEF Live
  <2>4. ASSUME NEW r \in Reqs, CommitRefresh(r) PROVE ~Live(s)'
    <3>1. sessions' = [sessions EXCEPT ![req[r].session].pair = next]
      BY <2>4 DEF CommitRefresh
    <3>2. sessions'[s].user = sessions[s].user /\ sessions'[s].revoked = sessions[s].revoked
      BY <2>1, <3>1 DEF Sessions
    <3> QED
      BY <3>2 DEF Live
  <2>5. ASSUME NEW r \in Reqs, CommitLogout(r) PROVE ~Live(s)'
    <3>1. sessions' = [sessions EXCEPT ![req[r].session] = NoSession]
      BY <2>5 DEF CommitLogout
    <3> QED
      BY <2>1, <3>1 DEF Live
  <2>6. ASSUME NEW r \in Reqs, CommitReset(r) PROVE ~Live(s)'
    <3>1. sessions'[s] = IF sessions[s].user = user.id THEN [sessions[s] EXCEPT !.revoked = TRUE] ELSE sessions[s]
      BY <2>6 DEF CommitReset
    <3>2. sessions'[s].user = sessions[s].user /\ (sessions'[s].revoked \/ sessions'[s].revoked = sessions[s].revoked)
      BY <2>1, <3>1 DEF Sessions
    <3> QED
      BY <3>2 DEF Live
  <2>7. ASSUME NEW r \in Reqs, CommitDeleteUser(r) PROVE ~Live(s)'
    <3>1. sessions'[s] = IF sessions[s].user = user.id THEN NoSession ELSE sessions[s]
      BY <2>7 DEF CommitDeleteUser
    <3> QED
      BY <2>1, <3>1 DEF Live
  <2>8. \/ sessions' = sessions
        \/ \E r \in Reqs : LoginSucceeds(r) \/ CommitRefresh(r) \/ CommitLogout(r) \/ CommitReset(r) \/ CommitDeleteUser(r)
    <3>1. ASSUME NEW r \in Reqs, AccountStep(r)
          PROVE  \/ sessions' = sessions
                 \/ LoginSucceeds(r) \/ CommitRefresh(r) \/ CommitLogout(r) \/ CommitReset(r) \/ CommitDeleteUser(r)
      <4>1. \/ BeginLogin(r) \/ BeginRefresh(r) \/ BeginLogout(r) \/ BeginRegister(r) \/ BeginAddUser(r)
            \/ BeginResendOtp(r) \/ BeginForgot(r) \/ BeginActivate(r) \/ BeginAccept(r) \/ BeginReset(r)
            \/ BeginChange(r) \/ BeginUpdateUser(r) \/ BeginDeleteUser(r)
            => sessions' = sessions
        BY BeginsAs DEF Begins, Read
      <4>2. LoginFails(r) \/ CommitActivate(r) \/ CommitAccept(r) \/ CommitChange(r) => sessions' = sessions
        BY DEF LoginFails, CommitActivate, CommitAccept, CommitChange
      <4>3. FlushNewRow(r) \/ MailNewRow(r) \/ CommitNewRow(r) \/ MailCode(r) \/ CommitCode(r) => sessions' = sessions
        BY DEF FlushNewRow, MailNewRow, SendCode, CommitNewRow, MailCode, CommitCode
      <4>4. CommitUpdateUser(r) \/ Dies(r) => sessions' = sessions
        BY DEF CommitUpdateUser, Dies
      <4> QED
        BY <3>1, <4>1, <4>2, <4>3, <4>4 DEF AccountStep
    <3>2. ASSUME NEW c \in Ids, Ages(c) PROVE sessions' = sessions
      BY <3>2 DEF Ages
    <3>3. (RolesNext /\ UNCHANGED accountvars) \/ LockRunsOut \/ UNCHANGED vars => sessions' = sessions
      BY DEF accountvars, LockRunsOut, vars
    <3> QED
      BY <3>1, <3>2, <3>3 DEF Next
  <2> QED
    BY <2>2, <2>3, <2>4, <2>5, <2>6, <2>7, <2>8
<1> QED
  BY <1>1, Invariance, PTL DEF Spec, EndedSessionStaysDead

\* A user who holds a role goes on holding one: no request takes the last role of
\* the user as it stands, not even a re-assignment to a role deleted meanwhile.
THEOREM UsersKeepARole == Spec => UserKeepsARole
<1> DEFINE Held(g) == {x \in g : x[1] = user.id}
<1>1. IInv /\ [Next]_vars =>
        (user.id = user'.id /\ ~user'.deleted /\ roles' = roles /\ Held(grants) # {} => Held(grants') # {})
  <2> SUFFICES ASSUME IInv, [Next]_vars, user.id = user'.id, ~user'.deleted, roles' = roles, Held(grants) # {}
               PROVE  Held(grants') # {}
    OBVIOUS
  <2>1. CASE grants \subseteq grants'
    BY <2>1
  <2>2. CASE \E role : <<user.id, role>> \in grants'
    BY <2>2
  <2>3. ASSUME NEW r \in Reqs, CommitNewRow(r) PROVE FALSE
    <3>1. user'.id = req[r].code /\ Sender(r)
      BY <2>3 DEF CommitNewRow, NoRow, Sender
    <3> QED
      BY <3>1 DEF IInv, NumberInv
  <2>4. ASSUME NEW r \in Reqs, CommitActivate(r) PROVE grants \subseteq grants'
    BY <2>4 DEF CommitActivate
  <2>5. ASSUME NEW r \in Reqs, CommitUpdateUser(r)
        PROVE  grants \subseteq grants' \/ \E role : <<user.id, role>> \in grants'
    <3>1. \/ grants' = grants
          \/ grants' = {g \in grants : g[1] # user.id} \cup {<<user.id, req[r].role>>}
      BY <2>5 DEF CommitUpdateUser, AssignedGrants
    <3>2. CASE grants' = {g \in grants : g[1] # user.id} \cup {<<user.id, req[r].role>>}
      <4>1. <<user.id, req[r].role>> \in grants'
        BY <3>2
      <4> QED
        BY <4>1
    <3> QED
      BY <3>1, <3>2
  <2>6. ASSUME NEW r \in Reqs, CommitDeleteUser(r) PROVE FALSE
    <3>1. user'.deleted
      BY <2>6, Typed DEF CommitDeleteUser, Users
    <3> QED
      BY <3>1
  <2>7. ASSUME NEW a \in Admins, CommitRemoveRole(a) PROVE grants \subseteq grants'
    <3>1. roles' = roles \ {admin[a].role} /\ grants' = {g \in grants : g[2] # admin[a].role}
      BY <2>7 DEF CommitRemoveRole
    <3>2. \A g \in grants : g[2] \in roles
      BY DEF IInv, GrantInv
    <3> QED
      BY <3>1, <3>2
  <2>8. \/ grants' = grants
        \/ \E r \in Reqs : CommitNewRow(r) \/ CommitActivate(r) \/ CommitUpdateUser(r) \/ CommitDeleteUser(r)
        \/ \E a \in Admins : CommitRemoveRole(a)
    <3>1. ASSUME NEW r \in Reqs, AccountStep(r)
          PROVE  \/ grants' = grants
                 \/ CommitNewRow(r) \/ CommitActivate(r) \/ CommitUpdateUser(r) \/ CommitDeleteUser(r)
      <4>1. \/ BeginLogin(r) \/ BeginRefresh(r) \/ BeginLogout(r) \/ BeginRegister(r) \/ BeginAddUser(r)
            \/ BeginResendOtp(r) \/ BeginForgot(r) \/ BeginActivate(r) \/ BeginAccept(r) \/ BeginReset(r)
            \/ BeginChange(r) \/ BeginUpdateUser(r) \/ BeginDeleteUser(r)
            => grants' = grants
        BY BeginsAs DEF Begins, Read
      <4>2. LoginSucceeds(r) \/ LoginFails(r) \/ CommitRefresh(r) \/ CommitLogout(r) => grants' = grants
        BY DEF LoginSucceeds, LoginFails, CommitRefresh, CommitLogout
      <4>3. FlushNewRow(r) \/ MailNewRow(r) \/ MailCode(r) \/ CommitCode(r) => grants' = grants
        BY DEF FlushNewRow, MailNewRow, SendCode, MailCode, CommitCode
      <4>4. CommitAccept(r) \/ CommitReset(r) \/ CommitChange(r) \/ Dies(r) => grants' = grants
        BY DEF CommitAccept, CommitReset, CommitChange, Dies
      <4> QED
        BY <3>1, <4>1, <4>2, <4>3, <4>4 DEF AccountStep
    <3>2. ASSUME NEW a \in Admins,
                 \/ BeginRemoveRole(a) \/ BeginAddRole(a) \/ CommitNewRole(a) \/ CommitNewRolePerms(a)
                 \/ BeginUpdateRole(a) \/ CommitUpdateRole(a) \/ AddPermission(a)
                 \/ BeginDeletePermission(a) \/ CommitDeletePermission(a) \/ AdminDies(a)
          PROVE  grants' = grants
      <4>1. CASE \/ BeginRemoveRole(a) \/ BeginAddRole(a) \/ BeginUpdateRole(a) \/ BeginDeletePermission(a)
        BY <4>1 DEF BeginRemoveRole, BeginAddRole, BeginUpdateRole, BeginDeletePermission, Open
      <4>2. CASE \/ CommitNewRole(a) \/ CommitNewRolePerms(a) \/ CommitUpdateRole(a) \/ AddPermission(a)
                 \/ CommitDeletePermission(a) \/ AdminDies(a)
        BY <4>2 DEF CommitNewRole, CommitNewRolePerms, CommitUpdateRole, AddPermission, CommitDeletePermission, AdminDies
      <4> QED
        BY <3>2, <4>1, <4>2
    <3>3. RolesNext => grants' = grants \/ \E a \in Admins : CommitRemoveRole(a)
      BY <3>2 DEF RolesNext
    <3>4. ASSUME NEW c \in Ids, Ages(c) PROVE grants' = grants
      BY <3>4 DEF Ages, rolevars
    <3>5. LockRunsOut \/ UNCHANGED vars => grants' = grants
      BY DEF LockRunsOut, vars, rolevars
    <3> QED
      BY <3>1, <3>3, <3>4, <3>5 DEF Next
  <2> QED
    BY <2>1, <2>2, <2>3, <2>4, <2>5, <2>6, <2>7, <2>8
<1>2. IInv /\ [Next]_vars =>
        [LET H(g) == {x \in g : x[1] = user.id}
         IN user.id = user'.id /\ ~user'.deleted /\ roles' = roles /\ H(grants) # {} => H(grants') # {}]_vars
  BY <1>1
<1> QED
  BY <1>2, Invariance, PTL DEF Spec, UserKeepsARole
=============================================================================
