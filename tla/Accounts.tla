------------------------------- MODULE Accounts -------------------------------
(***************************************************************************)
(* Accounts and sessions (controllers/auth_controller.py,                  *)
(* controllers/user_controller.py, services/user.py, the session check of  *)
(* routes/auth_middleware.py), for one e-mail address.                     *)
(*                                                                         *)
(* A request reads and checks in its first step and commits in a later one.*)
(* What it read is a snapshot: an attribute set on a row that was read is  *)
(* written as UPDATE ... WHERE id, only the columns that changed, and fails*)
(* the request when no row has that id any more (StaleDataError).  A       *)
(* request refused at its checks changes nothing and is no step.  Sign-up  *)
(* and invitation flush their rows before they send mail, so they hold row *)
(* locks meanwhile (Blocked); the other requests send mail first.          *)
(***************************************************************************)
EXTENDS Roles

CONSTANTS
  Reqs,          \* the account requests in flight at once
  MaxFails       \* AUTH_MAX_FAILED_LOGIN_ATTEMPTS

ASSUME MaxFailsAssumption == MaxFails \in Nat \ {0}

Ids == 1..MaxRequests + 1     \* users, sessions, codes and token pairs, numbered as they are made

VARIABLES
  user,          \* the users row of the address
  sessions,      \* the user_sessions rows
  age,           \* how old each mailed code is, "unsent" if it never was mailed
  req,           \* what each account request is doing
  next,          \* the next number
  \* Ghosts, for the properties.
  wrong,         \* wrong passwords committed against the row
  used,          \* codes that have set a password
  resets,        \* password resets committed
  issued,        \* token pairs handed out: pairs <<pair, session>>
  presented      \* token pairs a client has rotated or tried to

accountvars == <<user, sessions, age, req, next, wrong, used, resets, issued, presented>>
vars        == <<rolevars, accountvars>>
ghosts      == <<wrong, used, resets, issued, presented>>

NoRow == [id |-> 0, verified |-> FALSE, password |-> FALSE, otp |-> 0, link |-> 0, invite |-> 0,
          failed |-> 0, lock |-> "none", deleted |-> FALSE, logged |-> FALSE]
NoSession == [user |-> 0, pair |-> 0, revoked |-> FALSE, resets |-> 0]
NoReq     == [op |-> "none", at |-> "idle", seen |-> NoRow, session |-> 0, code |-> 0, role |-> 0]

Seeded == [NoRow EXCEPT !.id = 1, !.verified = TRUE, !.password = TRUE]

Init ==
  /\ RolesInit
  /\ \/ user = NoRow /\ grants = {}
     \/ user = Seeded /\ grants = {<<1, Customer>>}
  /\ sessions = [s \in Ids |-> NoSession]
  /\ age = [c \in Ids |-> "unsent"]
  /\ req = [r \in Reqs |-> NoReq]
  /\ next = 2
  /\ wrong = 0 /\ used = {} /\ resets = 0 /\ issued = {} /\ presented = {}

-----------------------------------------------------------------------------
(* The row, and the life of a request                                       *)

Exists    == user.id # 0 /\ ~user.deleted
Pending   == Exists /\ ~user.verified
\* assert_session_is_live: what the middleware and the chat socket accept.
Live(s)   == sessions[s].user # 0 /\ ~sessions[s].revoked

\* A request that reads the row (and a session) and passes its checks.
Read(r, op, s, code, role) ==
  /\ req[r].op = "none"
  /\ served < MaxRequests
  /\ served' = served + 1
  /\ req' = [req EXCEPT ![r] = [op |-> op, at |-> "read", seen |-> user,
                                session |-> s, code |-> code, role |-> role]]
  /\ UNCHANGED <<tablevars, grants, admin, user, sessions, age, next, wrong, used, resets, issued>>

At(r, op, at) == req[r].op = op /\ req[r].at = at

Ends(r) ==
  /\ req' = [req EXCEPT ![r] = NoReq]
  /\ UNCHANGED <<tablevars, admin, served, age, presented>>

\* Another request holds the row, or the key of the row it inserts.
Blocked(r) == \E q \in Reqs \ {r} : req[q].at \in {"flushed", "flushed mailed"}

\* The row the request read is still there to be updated.
Matched(r) == user.id = req[r].seen.id /\ ~Blocked(r)

\* Validation, a refused statement, a mail that cannot be sent or a dropped
\* connection: the transaction is rolled back.
Dies(r) ==
  /\ req[r].op # "none"
  /\ Ends(r)
  /\ UNCHANGED <<grants, user, sessions, next, wrong, used, resets, issued>>

-----------------------------------------------------------------------------
(* Sessions                                                                 *)

BeginLogin(r) ==
  /\ Exists /\ user.verified /\ user.lock # "on" /\ user.password
  /\ Read(r, "login", 0, 0, 0) /\ UNCHANGED presented

\* Mutant: the log entry is forgotten.
LoginUnlogged(r) ==
  /\ At(r, "login", "read") /\ Matched(r)
  /\ user' = [user EXCEPT !.failed = 0, !.lock = "none"]
  /\ sessions' = [sessions EXCEPT ![next] =
                   [user |-> user.id, pair |-> next, revoked |-> FALSE, resets |-> resets]]
  /\ issued' = issued \cup {<<next, next>>}
  /\ next' = next + 1
  /\ UNCHANGED <<grants, wrong, used, resets>> /\ Ends(r)

\* The counters are written only if they were not already clear; the log entry
\* refers to the row either way.
LoginSucceeds(r) ==
  LET seen == req[r].seen IN
  /\ At(r, "login", "read") /\ Matched(r)
  /\ user' = [user EXCEPT !.failed = IF seen.failed # 0 THEN 0 ELSE @,
                          !.lock   = IF seen.lock # "none" THEN "none" ELSE @,
                          !.logged = TRUE]
  /\ sessions' = [sessions EXCEPT ![next] =
                   [user |-> seen.id, pair |-> next, revoked |-> FALSE, resets |-> resets]]
  /\ issued' = issued \cup {<<next, next>>}
  /\ next' = next + 1
  /\ UNCHANGED <<grants, wrong, used, resets>> /\ Ends(r)

\* Mutant: the limit is passed one failure early.
LoginFailsEarly(r) ==
  LET failed == req[r].seen.failed + 1 IN
  /\ At(r, "login", "read") /\ Matched(r)
  /\ user' = [user EXCEPT !.failed = failed, !.lock = IF failed + 1 >= MaxFails THEN "on" ELSE @]
  /\ wrong' = wrong + 1
  /\ UNCHANGED <<grants, sessions, next, used, resets, issued>> /\ Ends(r)

\* Counted from what was read.
LoginFails(r) ==
  LET failed == req[r].seen.failed + 1 IN
  /\ At(r, "login", "read") /\ Matched(r)
  /\ user' = [user EXCEPT !.failed = failed, !.lock = IF failed >= MaxFails THEN "on" ELSE @]
  /\ wrong' = wrong + 1
  /\ UNCHANGED <<grants, sessions, next, used, resets, issued>> /\ Ends(r)

\* A client presents the refresh token of the pair its session row holds.
BeginRefresh(r) ==
  \E s \in Ids : /\ Live(s) /\ Read(r, "refresh", s, 0, 0)
                 /\ presented' = presented \cup {sessions[s].pair}

\* Mutant: an upsert, which brings a row back that was revoked or deleted.
RefreshUpserts(r) ==
  LET s == req[r].session IN
  /\ At(r, "refresh", "read") /\ Matched(r)
  /\ sessions' = [sessions EXCEPT ![s] = [user |-> user.id, pair |-> next, revoked |-> FALSE, resets |-> resets]]
  /\ issued' = issued \cup {<<next, s>>}
  /\ next' = next + 1
  /\ UNCHANGED <<grants, user, wrong, used, resets>> /\ Ends(r)

CommitRefresh(r) ==
  LET s == req[r].session IN
  /\ At(r, "refresh", "read")
  /\ sessions[s].user # 0
  /\ sessions' = [sessions EXCEPT ![s].pair = next]
  /\ issued' = issued \cup {<<next, s>>}
  /\ next' = next + 1
  /\ UNCHANGED <<grants, user, wrong, used, resets>> /\ Ends(r)

BeginLogout(r) == (\E s \in Ids : Live(s) /\ Read(r, "logout", s, 0, 0)) /\ UNCHANGED presented

\* Mutant: the row is emptied but its token stays.
LogoutKeepsPair(r) ==
  LET s == req[r].session IN
  /\ At(r, "logout", "read")
  /\ sessions[s].user \in {0, user.id} /\ ~Blocked(r)
  /\ sessions' = [sessions EXCEPT ![s].user = 0]
  /\ user' = [user EXCEPT !.logged = TRUE]
  /\ UNCHANGED <<grants, next, wrong, used, resets, issued>> /\ Ends(r)

\* The log entry names the user: it cannot be written once that row is gone.
CommitLogout(r) ==
  LET s == req[r].session IN
  /\ At(r, "logout", "read")
  /\ sessions[s].user \in {0, user.id} /\ ~Blocked(r)
  /\ sessions' = [sessions EXCEPT ![s] = NoSession]
  /\ user' = [user EXCEPT !.logged = TRUE]
  /\ UNCHANGED <<grants, next, wrong, used, resets, issued>> /\ Ends(r)

-----------------------------------------------------------------------------
(* Codes: the sign-up code, the invitation and the reset link               *)

\* The mail is out; the code is the client's from now on.
SendCode(r, from, to) ==
  /\ req[r].at = from
  /\ req' = [req EXCEPT ![r].at = to, ![r].code = IF from = "flushed" THEN @ ELSE next]
  /\ age' = [age EXCEPT ![req'[r].code] = "new"]
  /\ next' = IF from = "flushed" THEN next ELSE next + 1
  /\ UNCHANGED <<tablevars, grants, admin, served, user, sessions, wrong, used, resets, issued, presented>>

BeginRegister(r) ==
  /\ ~(Exists /\ user.verified)
  /\ Read(r, "register", 0, 0, 0) /\ UNCHANGED presented

\* add_user reads no row by address: an existing one makes its insert fail.
BeginAddUser(r) ==
  (\E role \in roles : Read(r, "add user", 0, 0, role)) /\ UNCHANGED presented

\* The row read by register is deleted by id, whatever it holds by now, unless
\* log entries refer to it; a row that is left makes the unique key refuse.
FlushNewRow(r) ==
  LET seen == IF req[r].op = "register" /\ ~req[r].seen.deleted THEN req[r].seen.id ELSE 0 IN
  /\ req[r].op \in {"register", "add user"} /\ req[r].at = "read"
  /\ ~Blocked(r)
  /\ user.id = seen /\ ~user.logged
  /\ req' = [req EXCEPT ![r].at = "flushed", ![r].code = next]
  /\ next' = next + 1
  /\ UNCHANGED <<tablevars, grants, admin, served, user, sessions, age, wrong, used, resets, issued, presented>>

MailNewRow(r) == req[r].at = "flushed" /\ SendCode(r, "flushed", "flushed mailed")

\* The deleted row takes its user_roles with it.
CommitNewRow(r) ==
  LET q == req[r] IN
  /\ q.at = "flushed mailed"
  /\ q.op = "add user" => q.role \in roles
  /\ user' = [NoRow EXCEPT !.id = q.code, !.otp = IF q.op = "register" THEN q.code ELSE 0,
                           !.invite = IF q.op = "add user" THEN q.code ELSE 0]
  /\ grants' = {g \in grants : g[1] # user.id}
                 \cup (IF q.op = "add user" THEN {<<q.code, q.role>>} ELSE {})
  /\ wrong' = 0
  /\ UNCHANGED <<sessions, next, used, resets, issued>> /\ Ends(r)

BeginResendOtp(r) ==
  /\ Pending /\ (user.otp # 0 => age[user.otp] # "new")
  /\ Read(r, "resend otp", 0, 0, 0) /\ UNCHANGED presented

BeginForgot(r) ==
  /\ Exists /\ user.verified
  /\ Read(r, "forgot", 0, 0, 0) /\ UNCHANGED presented

MailCode(r) ==
  /\ req[r].op \in {"resend otp", "forgot"} /\ SendCode(r, "read", "mailed")

\* Mutant: the code is stored first and mailed afterwards.
StoreUnsent(r) ==
  /\ req[r].op \in {"resend otp", "forgot"} /\ req[r].at = "read" /\ Matched(r)
  /\ user' = IF req[r].op = "forgot" THEN [user EXCEPT !.link = next] ELSE [user EXCEPT !.otp = next]
  /\ next' = next + 1
  /\ UNCHANGED <<grants, sessions, wrong, used, resets, issued>> /\ Ends(r)

CommitCode(r) ==
  LET q == req[r] IN
  /\ q.at = "mailed" /\ Matched(r)
  /\ user' = IF q.op = "forgot" THEN [user EXCEPT !.link = q.code] ELSE [user EXCEPT !.otp = q.code]
  /\ UNCHANGED <<grants, sessions, next, wrong, used, resets, issued>> /\ Ends(r)

-----------------------------------------------------------------------------
(* Passwords                                                                *)

\* set_password_after_registration: the code of the address, within ten minutes.
BeginActivate(r) ==
  /\ Pending /\ user.otp # 0 /\ age[user.otp] # "old"
  /\ Read(r, "activate", 0, user.otp, 0) /\ UNCHANGED presented

CommitActivate(r) ==
  /\ At(r, "activate", "read") /\ Matched(r)
  /\ user' = [user EXCEPT !.password = TRUE, !.verified = TRUE, !.otp = 0, !.logged = TRUE]
  /\ grants' = IF Customer \in roles THEN grants \cup {<<user.id, Customer>>} ELSE grants
  /\ used' = used \cup {req[r].code}
  /\ UNCHANGED <<sessions, next, wrong, resets, issued>> /\ Ends(r)

\* set_user_password: whoever holds the invitation, within two days.
BeginAccept(r) ==
  /\ user.invite # 0 /\ age[user.invite] # "old"
  /\ Read(r, "accept", 0, user.invite, 0) /\ UNCHANGED presented

CommitAccept(r) ==
  /\ At(r, "accept", "read") /\ Matched(r)
  /\ user' = [user EXCEPT !.password = TRUE, !.verified = TRUE, !.invite = 0]
  /\ used' = used \cup {req[r].code}
  /\ UNCHANGED <<grants, sessions, next, wrong, resets, issued>> /\ Ends(r)

BeginReset(r) ==
  /\ user.link # 0 /\ age[user.link] # "old"
  /\ Read(r, "reset", 0, user.link, 0) /\ UNCHANGED presented

\* Mutants: the link stays; the sessions stay.
ResetKeepsLink(r) ==
  /\ At(r, "reset", "read") /\ Matched(r)
  /\ user' = [user EXCEPT !.password = TRUE]
  /\ sessions' = [s \in Ids |-> IF sessions[s].user = user.id
                                THEN [sessions[s] EXCEPT !.revoked = TRUE] ELSE sessions[s]]
  /\ resets' = resets + 1
  /\ used' = used \cup {req[r].code}
  /\ UNCHANGED <<grants, next, wrong, issued>> /\ Ends(r)

ResetKeepsSessions(r) ==
  /\ At(r, "reset", "read") /\ Matched(r)
  /\ user' = [user EXCEPT !.password = TRUE, !.link = 0]
  /\ resets' = resets + 1
  /\ used' = used \cup {req[r].code}
  /\ UNCHANGED <<grants, sessions, next, wrong, issued>> /\ Ends(r)

\* One UPDATE revokes every session the user has when it runs.
CommitReset(r) ==
  /\ At(r, "reset", "read") /\ Matched(r)
  /\ user' = [user EXCEPT !.password = TRUE, !.link = 0]
  /\ sessions' = [s \in Ids |-> IF sessions[s].user = user.id
                                THEN [sessions[s] EXCEPT !.revoked = TRUE] ELSE sessions[s]]
  /\ resets' = resets + 1
  /\ used' = used \cup {req[r].code}
  /\ UNCHANGED <<grants, next, wrong, issued>> /\ Ends(r)

\* change_password and update_user end no session; both are logged, the first
\* against the user's own row.
BeginChange(r) ==
  /\ user.id # 0 /\ user.password /\ \E s \in Ids : Live(s) /\ sessions[s].user = user.id
  /\ Read(r, "change", 0, 0, 0) /\ UNCHANGED presented

CommitChange(r) ==
  /\ At(r, "change", "read") /\ Matched(r)
  /\ user' = [user EXCEPT !.logged = TRUE]
  /\ UNCHANGED <<grants, sessions, next, wrong, used, resets, issued>> /\ Ends(r)

-----------------------------------------------------------------------------
(* Administration of the row                                                *)

BeginUpdateUser(r) ==
  Exists /\ (\E role \in RoleIds : Read(r, "update user", 0, 0, role)) /\ UNCHANGED presented

CommitUpdateUser(r) ==
  /\ At(r, "update user", "read") /\ ~Blocked(r)
  /\ grants' = IF user.id = req[r].seen.id THEN AssignedGrants(user.id, req[r].role) ELSE grants
  /\ UNCHANGED <<user, sessions, next, wrong, used, resets, issued>> /\ Ends(r)

BeginDeleteUser(r) ==
  Exists /\ Read(r, "delete user", 0, 0, 0) /\ UNCHANGED presented

CommitDeleteUser(r) ==
  /\ At(r, "delete user", "read") /\ Matched(r)
  /\ user' = [user EXCEPT !.deleted = TRUE]
  /\ grants' = {g \in grants : g[1] # user.id}
  /\ sessions' = [s \in Ids |-> IF sessions[s].user = user.id THEN NoSession ELSE sessions[s]]
  /\ UNCHANGED <<next, wrong, used, resets, issued>> /\ Ends(r)

-----------------------------------------------------------------------------
(* Time                                                                     *)

\* new: under the resend limit; old: past its expiry.
Ages(c) ==
  /\ \/ age[c] = "new"  /\ age' = [age EXCEPT ![c] = "good"]
     \/ age[c] = "good" /\ age' = [age EXCEPT ![c] = "old"]
  /\ UNCHANGED <<rolevars, user, sessions, req, next, ghosts>>

LockRunsOut ==
  /\ user.lock = "on"
  /\ user' = [user EXCEPT !.lock = "over"]
  /\ UNCHANGED <<rolevars, sessions, age, req, next, ghosts>>

AccountStep(r) ==
  \/ BeginLogin(r) \/ LoginSucceeds(r) \/ LoginFails(r)
  \/ BeginRefresh(r) \/ CommitRefresh(r)
  \/ BeginLogout(r) \/ CommitLogout(r)
  \/ BeginRegister(r) \/ BeginAddUser(r) \/ FlushNewRow(r) \/ MailNewRow(r) \/ CommitNewRow(r)
  \/ BeginResendOtp(r) \/ BeginForgot(r) \/ MailCode(r) \/ CommitCode(r)
  \/ BeginActivate(r) \/ CommitActivate(r)
  \/ BeginAccept(r) \/ CommitAccept(r)
  \/ BeginReset(r) \/ CommitReset(r)
  \/ BeginChange(r) \/ CommitChange(r)
  \/ BeginUpdateUser(r) \/ CommitUpdateUser(r)
  \/ BeginDeleteUser(r) \/ CommitDeleteUser(r)
  \/ Dies(r)

Next ==
  \/ \E r \in Reqs : AccountStep(r)
  \/ RolesNext /\ UNCHANGED accountvars
  \/ \E c \in Ids : Ages(c)
  \/ LockRunsOut

Spec == Init /\ [][Next]_vars

-----------------------------------------------------------------------------
(* Properties                                                               *)

\* A session row exists exactly when it holds a pair, and belongs to a user.
TypeOK ==
  /\ RolesTypeOK
  /\ grants \subseteq (0..MaxRequests + 1) \X RoleIds
  /\ user \in [id : {0} \cup Ids, verified : BOOLEAN, password : BOOLEAN, otp : {0} \cup Ids,
               link : {0} \cup Ids, invite : {0} \cup Ids, failed : 0..MaxRequests,
               lock : {"none", "on", "over"}, deleted : BOOLEAN, logged : BOOLEAN]
  /\ sessions \in [Ids -> [user : {0} \cup Ids, pair : {0} \cup Ids, revoked : BOOLEAN, resets : Nat]]
  /\ \A s \in Ids : (sessions[s].user = 0) <=> (sessions[s] = NoSession)
  /\ age \in [Ids -> {"unsent", "new", "good", "old"}]

\* A code that opens the account is one its owner was sent: mail goes out before
\* the commit that stores the code (auth_controller.py:286-295, 430-436, 511-521).
StoredCodeWasMailed ==
  \A c \in {user.otp, user.link, user.invite} \ {0} : age[c] # "unsent"

\* A live session belongs to the row of the address as it is now, an active one
\* with a password: a sign-up that replaces the row it read (lines 395-397) cannot
\* replace one that has been logged into, because the log entry refers to it.
SessionHasItsUser ==
  \A s \in Ids : Live(s) => sessions[s].user = user.id /\ user.verified /\ user.password

\* A code that has set a password is not on the row any more, however the
\* requests that write other columns of the row interleave (lines 261-264,
\* 327-329, 568-571).
UsedCodeIsGone == {user.otp, user.link, user.invite} \cap used = {}

\* An account is locked only after MaxFails wrong passwords (lines 107-112),
\* although the counter is read, incremented and written back by many requests.
LockNeedsFailures == user.lock = "on" => wrong >= MaxFails

\* A password reset ends every session opened before it (lines 330-334), also one
\* that is being rotated at that moment.
ResetEndsSessions == \A s \in Ids : Live(s) /\ sessions[s].user = user.id => sessions[s].resets = resets

\* A session that was revoked or closed never comes back: a refresh that read it
\* before writes its columns only (lines 178-183).
EndedSessionStaysDead ==
  [][\A s \in Ids : s < next /\ ~Live(s) => ~Live(s)']_vars

\* A user who holds a role goes on holding one, unless deleted, replaced by a new
\* sign-up or its role removed: a failed re-assignment restores what it deleted
\* (services/user.py:81-93).
UserKeepsARole ==
  [][LET Held(g) == {x \in g : x[1] = user.id}
     IN user.id = user'.id /\ ~user'.deleted /\ roles' = roles /\ Held(grants) # {} => Held(grants') # {}]_vars

\* What the live test of rotation asks (tests/live/test_auth_live.py:378): a pair
\* that was handed out is usable until it is itself rotated or its session ends.
RotationIsUsable ==
  \A i \in issued : i[1] \in presented \/ ~Live(i[2]) \/ sessions[i[2]].pair = i[1]
=============================================================================
