-------------------------------- MODULE Sessions --------------------------------
(***************************************************************************)
(* Accounts and sign-in sessions of the tenant-api (routes/auth.routes.ts, *)
(* routes/user.routes.ts, services/twoFactorService.ts).                   *)
(*                                                                         *)
(* A request is a sequence of statements with no transaction around them:  *)
(* it works on the row it read and writes later.  A sign-in opens a family *)
(* of refresh tokens; a refresh deletes the token it was given and inserts *)
(* the next one of the family; the browser keeps what the last response    *)
(* brought.  Durations are events: a token, a lock, a reset link runs out. *)
(* Left out: the rate limit (a refused sign-in does not start), e-mails,   *)
(* and access tokens, which nothing stores.                                *)
(***************************************************************************)
EXTENDS Naturals, Sequences, FiniteSets

CONSTANTS
    User, Device,
    Proc,           \* requests that may overlap
    Secret,         \* TOTP secrets
    NoSecret, NoUser, NoDevice,
    LoginLimit,     \* 10 failed passwords
    BackupLimit,    \* 5 failed backup codes
    MaxTokens,      \* bound: refresh tokens ever issued
    MaxRequests,    \* bound: requests ever made
    MaxWrong,       \* bound: wrong passwords and codes
    MaxResets,      \* bound: passwords set by a reset, per user
    MaxFaults       \* bound: failed statements, crashes, lost responses

ASSUME SessionsAssumption ==
    /\ NoSecret \notin Secret /\ NoUser \notin User /\ NoDevice \notin Device
    /\ LoginLimit \in Nat \ {0} /\ BackupLimit \in Nat \ {0}
    /\ MaxTokens \in Nat /\ MaxRequests \in Nat /\ MaxWrong \in Nat /\ MaxResets \in Nat /\ MaxFaults \in Nat

VARIABLES
    acct,       \* the row of each user
    issued,     \* every refresh token ever inserted: its user, family, password
    live,       \* those in the table refresh_tokens
    stale,      \* those past expires_at
    cookie,     \* hk_refresh_token of each browser, 0 for none
    req,        \* the requests
    requests, wrong, faults,    \* counted for their bounds
    ended,      \* history: families that were signed out, revoked or expired
    frayed,     \* history: families an overlap or a fault has split
    confirmed,  \* history: the secret each user last proved to have
    mixed       \* history: users whose 2FA requests overlapped

vars == <<acct, issued, live, stale, cookie, req, requests, wrong, faults, ended, frayed, confirmed, mixed>>
tables == <<acct, issued, live, stale>>
history == <<ended, frayed, confirmed, mixed>>

Token == 1 .. MaxTokens
Row == [status : {"none", "unverified", "verified"}, subscribed : BOOLEAN, password : 0 .. MaxResets,
        fails : 0 .. MaxWrong, locked : BOOLEAN, reset : BOOLEAN,
        enabled : BOOLEAN, secret : Secret \cup {NoSecret}, temp : Secret \cup {NoSecret},
        fails2 : 0 .. MaxWrong]
NewRow == [status |-> "none", subscribed |-> FALSE, password |-> 0, fails |-> 0, locked |-> FALSE,
           reset |-> FALSE, enabled |-> FALSE, secret |-> NoSecret, temp |-> NoSecret, fails2 |-> 0]

Steps == {"free", "insertUser", "subscribe", "compare", "backup", "count", "insert", "respond",
          "drop", "dropFamily", "rotate", "hash", "purge", "enable"}
\* `given` is the token presented, `got` the one inserted, `seen` the row as
\* read, `crossed` that other 2FA settings of the account came in between.
Idle == [at |-> "free", user |-> NoUser, dev |-> NoDevice, given |-> 0, got |-> 0,
         seen |-> NewRow, good |-> TRUE, crossed |-> FALSE]

\* Types: rows, tokens and requests have their shape.  Tokens are numbered in
\* the order of their INSERTs and a family bears the number of its first one.
TypeOK ==
    /\ acct \in [User -> Row]
    /\ issued \in Seq([user : User, family : Token, password : 0 .. MaxResets])
    /\ Len(issued) <= MaxTokens
    /\ live \subseteq DOMAIN issued /\ stale \subseteq live
    /\ cookie \in [Device -> {0} \cup DOMAIN issued]
    /\ req \in [Proc -> [at : Steps, user : User \cup {NoUser}, dev : Device \cup {NoDevice},
                         given : {0} \cup DOMAIN issued, got : {0} \cup DOMAIN issued,
                         seen : Row, good : BOOLEAN, crossed : BOOLEAN]]
    /\ requests \in 0 .. MaxRequests /\ wrong \in 0 .. MaxWrong /\ faults \in 0 .. MaxFaults
    /\ ended \subseteq Token /\ frayed \subseteq Token
    /\ confirmed \in [User -> Secret \cup {NoSecret}] /\ mixed \subseteq User

Init ==
    /\ acct \in [User -> {NewRow, [NewRow EXCEPT !.status = "verified", !.subscribed = TRUE]}]
    /\ issued = <<>> /\ live = {} /\ stale = {}
    /\ cookie = [d \in Device |-> 0]
    /\ req = [p \in Proc |-> Idle]
    /\ requests = 0 /\ wrong = 0 /\ faults = 0
    /\ ended = {} /\ frayed = {} /\ mixed = {}
    /\ confirmed = [u \in User |-> NoSecret]

-----------------------------------------------------------------------------
Family(t) == issued[t].family
FamilyOf(t) == {s \in live : Family(s) = Family(t)}

\* A refresh of family f is under way, in a request not among ps.
Refreshing(f, ps) == \E q \in Proc \ ps :
    /\ req[q].at \in {"rotate", "insert", "respond"}
    /\ req[q].given # 0 /\ Family(req[q].given) = f

Ask == requests < MaxRequests /\ requests' = requests + 1
Begin(p, r) == Ask /\ req[p] = Idle /\ req' = [req EXCEPT ![p] = r]
Request(at, u) == [Idle EXCEPT !.at = at, !.user = u]
\* What is used of the row later on.
Seen(u, fields) == [f \in DOMAIN NewRow |-> IF f \in fields THEN acct[u][f] ELSE NewRow[f]]

Goto(p, at) == req' = [req EXCEPT ![p].at = at]
End(p) == req' = [req EXCEPT ![p] = Idle]

\* p ends (there is no p for a request of one statement), having set 2FA
\* fields that other requests of the user have read.
Cross(ps, u) ==
    req' = [q \in Proc |-> IF q \in ps THEN Idle
                           ELSE [req[q] EXCEPT !.crossed = @ \/ (req[q].at = "enable" /\ req[q].user = u)]]

\* The families fs end at the hands of the requests ps (one or none).
EndFamilies(ps, fs) ==
    /\ ended' = ended \cup fs
    /\ frayed' = frayed \cup {f \in fs : Refreshing(f, ps)}
    /\ UNCHANGED <<confirmed, mixed>>

\* Mutant: the flag outlives its row.
BugDeleteLeavesFlag(ts) == live' = live \ ts /\ UNCHANGED <<stale, acct, issued>>

Delete(ts) == live' = live \ ts /\ stale' = stale \ ts /\ UNCHANGED <<acct, issued>>

-----------------------------------------------------------------------------
(* Registration and e-mail verification *)

\* handleRegister after its check for the e-mail.  With no transaction, a user
\* may be left without the trial subscription.
Register(p, u) ==
    /\ acct[u].status = "none"
    /\ Begin(p, Request("insertUser", u))
    /\ UNCHANGED <<tables, cookie, wrong, faults, history>>

\* UNIQUE (tenant_id, email) refuses the second of two registrations.
InsertUser(p) ==
    LET u == req[p].user IN
    /\ req[p].at = "insertUser"
    /\ IF acct[u].status = "none"
       THEN acct' = [acct EXCEPT ![u].status = "unverified"] /\ Goto(p, "subscribe")
       ELSE UNCHANGED acct /\ End(p)
    /\ UNCHANGED <<issued, live, stale, cookie, requests, wrong, faults, history>>

Subscribe(p) ==
    /\ req[p].at = "subscribe"
    /\ acct' = [acct EXCEPT ![req[p].user].subscribed = TRUE]
    /\ End(p)
    /\ UNCHANGED <<issued, live, stale, cookie, requests, wrong, faults, history>>

VerifyEmail(u) ==
    /\ Ask
    /\ acct[u].status = "unverified"
    /\ acct' = [acct EXCEPT ![u].status = "verified"]
    /\ UNCHANGED <<issued, live, stale, cookie, req, wrong, faults, history>>

-----------------------------------------------------------------------------
(* Sign-in *)

\* A wrong password or code, counted for the bound.
Guess(good) == wrong' = IF good THEN wrong ELSE wrong + 1

Login(p, u, d, good) ==
    /\ acct[u].status # "none" /\ ~acct[u].locked
    /\ Guess(good) /\ wrong' <= MaxWrong
    /\ Begin(p, [Request("compare", u) EXCEPT !.dev = d, !.good = good,
                    !.seen = Seen(u, {"status", "password", "fails", "enabled"})])
    /\ UNCHANGED <<tables, cookie, faults, history>>

LoginFails(p) ==
    LET u == req[p].user  n == req[p].seen.fails + 1 IN
    /\ req[p].at = "compare" /\ ~req[p].good
    /\ acct' = [acct EXCEPT ![u].fails = n, ![u].locked = @ \/ n >= LoginLimit]
    /\ End(p)
    /\ UNCHANGED <<issued, live, stale, cookie, requests, wrong, faults, history>>

LoginPasses(p) ==
    LET u == req[p].user IN
    /\ req[p].at = "compare" /\ req[p].good
    /\ acct' = [acct EXCEPT ![u].fails = 0, ![u].locked = FALSE]
    /\ IF req[p].seen.status = "verified" /\ ~req[p].seen.enabled
       THEN req' = [req EXCEPT ![p].at = "insert",
                               ![p].seen = [NewRow EXCEPT !.password = req[p].seen.password]]
       ELSE End(p)
    /\ UNCHANGED <<issued, live, stale, cookie, requests, wrong, faults, history>>

\* POST /login/2fa.
SecondFactor(p, u, d, good) ==
    /\ acct[u].enabled /\ acct[u].secret # NoSecret
    /\ Guess(good) /\ wrong' <= MaxWrong
    /\ Begin(p, [Request(IF good THEN "insert" ELSE "backup", u) EXCEPT !.dev = d,
                    !.seen = Seen(u, {"password"})])
    /\ UNCHANGED <<tables, cookie, faults, history>>

\* verifyBackupCode reads the row anew.  No code is ever stored (see
\* EnableSecondFactor), so none matches; it answers with an object, which the
\* caller tests for truth alone.
ReadBackup(p) ==
    LET u == req[p].user IN
    /\ req[p].at = "backup"
    /\ req' = [req EXCEPT ![p].seen.fails2 = acct[u].fails2,
                           ![p].at = IF acct[u].locked THEN "insert" ELSE "count"]
    /\ UNCHANGED <<tables, cookie, requests, wrong, faults, history>>

CountBackup(p) ==
    LET u == req[p].user  n == req[p].seen.fails2 + 1 IN
    /\ req[p].at = "count"
    /\ acct' = [acct EXCEPT ![u].fails2 = n, ![u].locked = n >= BackupLimit]
    /\ Goto(p, "insert")
    /\ UNCHANGED <<issued, live, stale, cookie, requests, wrong, faults, history>>

\* A sign-in begins a family; a refresh goes on with that of its token.
NewFamily(r, t) == [user |-> r.user, family |-> t, password |-> r.seen.password]
SameFamily(r) == issued[r.given]

\* INSERT INTO refresh_tokens, by both sign-ins and by refresh.
InsertToken(p) ==
    LET r == req[p]  t == Len(issued) + 1 IN
    /\ r.at = "insert" /\ t <= MaxTokens
    /\ issued' = Append(issued, IF r.given = 0 THEN NewFamily(r, t) ELSE SameFamily(r))
    /\ live' = live \cup {t}
    /\ req' = [req EXCEPT ![p].at = "respond", ![p].got = t]
    \* a sign-in that a reset has overtaken
    /\ frayed' = IF r.given = 0 /\ r.seen.password # acct[r.user].password THEN frayed \cup {t} ELSE frayed
    /\ UNCHANGED <<acct, stale, cookie, requests, wrong, faults, ended, confirmed, mixed>>

\* The response reaches the browser, after others of later requests perhaps.
Respond(p) ==
    /\ req[p].at = "respond"
    /\ cookie' = [cookie EXCEPT ![req[p].dev] = req[p].got]
    /\ End(p)
    /\ UNCHANGED <<tables, requests, wrong, faults, history>>

RespondLogin(p) == req[p].given = 0 /\ Respond(p)
RespondRefresh(p) == req[p].given # 0 /\ Respond(p)

-----------------------------------------------------------------------------
(* Refresh *)

\* A browser whose network or agent has `moved' fails the fingerprint check.
\* An unknown token is answered 401 and changes nothing.
Refresh(p, d, moved) ==
    LET t == cookie[d] IN
    /\ t \in live
    /\ Begin(p, [Request(IF t \in stale THEN "drop" ELSE IF moved THEN "dropFamily" ELSE "rotate",
                         issued[t].user) EXCEPT !.dev = d, !.given = t])
    /\ frayed' = IF \E q \in Proc : req[q].at = "rotate" /\ req[q].given = t
                 THEN frayed \cup {Family(t)} ELSE frayed
    /\ UNCHANGED <<tables, cookie, wrong, faults, ended, confirmed, mixed>>

DropExpired(p) ==
    /\ req[p].at = "drop"
    /\ Delete({req[p].given})
    /\ EndFamilies({p}, {Family(req[p].given)})
    /\ End(p)
    /\ UNCHANGED <<cookie, requests, wrong, faults>>

DropFamily(p) ==
    LET r == req[p] IN
    /\ r.at = "dropFamily"
    /\ Delete(FamilyOf(r.given))
    /\ cookie' = [cookie EXCEPT ![r.dev] = 0]
    /\ EndFamilies({p}, {Family(r.given)})
    /\ End(p)
    /\ UNCHANGED <<requests, wrong, faults>>

\* Mutant: the old token is not deleted.
BugRotateKeepsOld(p) ==
    /\ req[p].at = "rotate"
    /\ Goto(p, "insert")
    /\ UNCHANGED <<tables, cookie, requests, wrong, faults, history>>

\* DELETE by id: no matter whether the row is still there.
Rotate(p) ==
    /\ req[p].at = "rotate"
    /\ Delete({req[p].given})
    /\ Goto(p, "insert")
    /\ UNCHANGED <<cookie, requests, wrong, faults, history>>

-----------------------------------------------------------------------------
(* Signing out and passwords *)

\* handleLogout deletes the token of the cookie alone, and clears the cookie.
Logout(d) ==
    /\ Ask
    /\ cookie[d] # 0
    /\ Delete({cookie[d]})
    /\ EndFamilies({}, {Family(cookie[d])})
    /\ cookie' = [cookie EXCEPT ![d] = 0]
    /\ UNCHANGED <<req, wrong, faults>>

\* The failure of its DELETE is swallowed.
LogoutUnheard(d) ==
    /\ Ask
    /\ cookie[d] # 0 /\ faults < MaxFaults
    /\ cookie' = [cookie EXCEPT ![d] = 0]
    /\ faults' = faults + 1
    /\ UNCHANGED <<tables, req, wrong, history>>

\* DELETE /api/user/sessions/:id
Revoke(t) ==
    /\ Ask
    /\ t \in live
    /\ Delete({t})
    /\ EndFamilies({}, {Family(t)})
    /\ UNCHANGED <<cookie, req, wrong, faults>>

ForgotPassword(u) ==
    /\ Ask
    /\ acct[u].status # "none" /\ acct[u].password < MaxResets
    /\ acct' = [acct EXCEPT ![u].reset = TRUE]
    /\ UNCHANGED <<issued, live, stale, cookie, req, wrong, faults, history>>

ResetPassword(p, u) ==
    /\ acct[u].reset
    /\ Begin(p, Request("hash", u))
    /\ UNCHANGED <<tables, cookie, wrong, faults, history>>

SetPassword(p) ==
    LET u == req[p].user IN
    /\ req[p].at = "hash" /\ acct[u].password < MaxResets
    /\ acct' = [acct EXCEPT ![u].password = @ + 1, ![u].reset = FALSE]
    /\ Goto(p, "purge")
    /\ UNCHANGED <<issued, live, stale, cookie, requests, wrong, faults, history>>

\* Mutant: the reset keeps the sessions of the browser it is made in.
BugPurgeOthers(p) ==
    LET mine == {t \in DOMAIN issued : issued[t].user = req[p].user /\ \A d \in Device : cookie[d] # t} IN
    /\ req[p].at = "purge"
    /\ Delete(mine)
    /\ EndFamilies({p}, {Family(t) : t \in mine})
    /\ End(p)
    /\ UNCHANGED <<cookie, requests, wrong, faults>>

PurgeTokens(p) ==
    LET mine == {t \in DOMAIN issued : issued[t].user = req[p].user} IN
    /\ req[p].at = "purge"
    /\ Delete(mine)
    /\ EndFamilies({p}, {Family(t) : t \in mine})
    /\ End(p)
    /\ UNCHANGED <<cookie, requests, wrong, faults>>

-----------------------------------------------------------------------------
(* Two-factor settings *)

\* Mutant: no temporary secret once 2FA is on.
BugSetUpInPlace(u, s) ==
    /\ Ask
    /\ acct[u].status = "verified" /\ s # acct[u].temp
    /\ acct' = [acct EXCEPT ![u].temp = s, ![u].secret = IF @ = NoSecret THEN @ ELSE s]
    /\ Cross({}, u)
    /\ UNCHANGED <<issued, live, stale, cookie, wrong, faults, history>>

SetUpSecondFactor(u, s) ==
    /\ Ask
    /\ acct[u].status = "verified" /\ s # acct[u].temp
    /\ acct' = [acct EXCEPT ![u].temp = s]
    /\ Cross({}, u)
    /\ UNCHANGED <<issued, live, stale, cookie, wrong, faults, history>>

\* The code was right for the temporary secret as read.
VerifySecondFactor(p, u) ==
    /\ acct[u].temp # NoSecret
    /\ Begin(p, [Request("enable", u) EXCEPT !.seen = Seen(u, {"temp"})])
    /\ UNCHANGED <<tables, cookie, wrong, faults, history>>

\* The UPDATE takes the temporary secret of that moment.  It stores no backup
\* codes: it picks `hashedCodes' from a result that has no such field.
EnableSecondFactor(p) ==
    LET u == req[p].user IN
    /\ req[p].at = "enable"
    /\ acct' = [acct EXCEPT ![u].enabled = TRUE, ![u].secret = acct[u].temp, ![u].temp = NoSecret]
    /\ Cross({p}, u)
    /\ confirmed' = [confirmed EXCEPT ![u] = req[p].seen.temp]
    /\ mixed' = IF req[p].crossed THEN mixed \cup {u} ELSE mixed \ {u}
    /\ UNCHANGED <<issued, live, stale, cookie, requests, wrong, faults, ended, frayed>>

DisableSecondFactor(u) ==
    /\ Ask
    /\ acct[u].enabled \/ acct[u].temp # NoSecret
    /\ acct' = [acct EXCEPT ![u].enabled = FALSE, ![u].secret = NoSecret, ![u].temp = NoSecret]
    /\ Cross({}, u)
    /\ confirmed' = [confirmed EXCEPT ![u] = NoSecret]
    /\ mixed' = mixed \ {u}
    /\ UNCHANGED <<issued, live, stale, cookie, wrong, faults, ended, frayed>>

-----------------------------------------------------------------------------
(* Time and faults *)

TokenExpires(t) ==
    /\ t \in live \ stale
    /\ stale' = stale \cup {t}
    /\ UNCHANGED <<acct, issued, live, cookie, req, requests, wrong, faults, history>>

LockExpires(u) ==
    /\ acct[u].locked
    /\ acct' = [acct EXCEPT ![u].locked = FALSE]
    /\ UNCHANGED <<issued, live, stale, cookie, req, requests, wrong, faults, history>>

ResetExpires(u) ==
    /\ acct[u].reset
    /\ acct' = [acct EXCEPT ![u].reset = FALSE]
    /\ UNCHANGED <<issued, live, stale, cookie, req, requests, wrong, faults, history>>

\* A statement fails, the server dies, or the response is lost: the request
\* ends where it stands.  A refresh may leave its family without a token the
\* browser knows, a reset may leave the sessions it should have ended.
Abort(p) ==
    LET r == req[p] IN
    /\ r.at # "free" /\ faults < MaxFaults
    /\ faults' = faults + 1
    /\ frayed' = frayed \cup
           IF r.at \in {"insert", "respond"} /\ r.given # 0 THEN {Family(r.given)}
           ELSE IF r.at = "purge" THEN {Family(t) : t \in DOMAIN issued} ELSE {}
    /\ End(p)
    /\ UNCHANGED <<tables, cookie, requests, wrong, ended, confirmed, mixed>>

Step(p) ==
    \/ InsertUser(p) \/ Subscribe(p)
    \/ LoginFails(p) \/ LoginPasses(p) \/ ReadBackup(p) \/ CountBackup(p)
    \/ InsertToken(p) \/ RespondLogin(p) \/ RespondRefresh(p)
    \/ DropExpired(p) \/ DropFamily(p) \/ Rotate(p)
    \/ SetPassword(p) \/ PurgeTokens(p) \/ EnableSecondFactor(p)

Next ==
    \/ \E p \in Proc : Step(p) \/ Abort(p)
    \/ \E p \in Proc, u \in User : Register(p, u) \/ ResetPassword(p, u) \/ VerifySecondFactor(p, u)
    \/ \E p \in Proc, u \in User, d \in Device, good \in BOOLEAN :
            Login(p, u, d, good) \/ SecondFactor(p, u, d, good)
    \/ \E p \in Proc, d \in Device, moved \in BOOLEAN : Refresh(p, d, moved)
    \/ \E d \in Device : Logout(d) \/ LogoutUnheard(d)
    \/ \E t \in Token : Revoke(t) \/ TokenExpires(t)
    \/ \E u \in User : \/ VerifyEmail(u) \/ ForgotPassword(u) \/ DisableSecondFactor(u)
                        \/ LockExpires(u) \/ ResetExpires(u)
    \/ \E u \in User, s \in Secret : SetUpSecondFactor(u, s)

Spec == Init /\ [][Next]_vars

-----------------------------------------------------------------------------
\* A family that was signed out, revoked, dropped or ended by a reset has no
\* live token, and none lives on from an old password once the reset is over,
\* unless a refresh or sign-in was under way beside it or a fault struck
\* (DELETE and INSERT in handleRegister .. handleResetPassword are separate).
EndedStaysEnded == \A t \in live :
    Family(t) \notin frayed =>
        /\ Family(t) \notin ended
        /\ \/ issued[t].password = acct[issued[t].user].password
           \/ \E p \in Proc : req[p].at = "purge" /\ req[p].user = issued[t].user

\* A session goes on: a family has one live token at most, and the browser
\* holds it, unless two refreshes of one token overlapped or one was cut short.
SessionKept ==
    /\ \A s, t \in live : Family(s) = Family(t) /\ Family(s) \notin frayed => s = t
    /\ \A d \in Device : LET t == cookie[d] IN
            t # 0 => \/ t \in live \/ Family(t) \in ended \cup frayed
                     \/ Refreshing(Family(t), {})

\* Two-factor sign-in asks for the secret its user has proved to have, and can
\* be passed at all, unless requests for it overlapped.
SecondFactorWorks == \A u \in User :
    acct[u].enabled /\ u \notin mixed => acct[u].secret = confirmed[u] /\ confirmed[u] # NoSecret
================================================================================
