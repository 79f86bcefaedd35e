------------------------------ MODULE Sessions ------------------------------
(***************************************************************************)
(* How one browser tab gets, keeps and loses a session.                    *)
(*                                                                         *)
(* The browser holds a refresh token in an httpOnly cookie; the tab holds  *)
(* an access token in a module variable of api.ts and the profile in       *)
(* AuthContext.  Both tokens are stateless: the backend accepts them when  *)
(* the account exists and its password has not changed in a later second   *)
(* than they were issued in.  Route handlers mirror the backend's cookies, *)
(* and proxy.ts looks only at whether there is a cookie.                   *)
(*                                                                         *)
(* Every exchange goes out with the credential of that moment, is answered *)
(* by the server, and comes back later: the cookie changes then, and the   *)
(* code behind the await goes on.  Exchanges of different callers overlap. *)
(***************************************************************************)
EXTENDS Naturals, FiniteSets

CONSTANTS
  Fetches,   \* the requests of the mounted page (polls, loads, edits)
  MaxTime,   \* bound: the seconds the run lasts
  MaxLinks,  \* password reset links an account may have open
  MaxCalls,  \* bound: nobody starts a call while so many are under way
  None       \* no token

ASSUME SessionsAssumption ==
  /\ MaxTime \in Nat \ {0} /\ MaxLinks \in Nat /\ MaxCalls \in Nat /\ None \notin Nat
  /\ Fetches \cap {"mount", "login", "save", "secure", "logout", "refresh"} = {}

VARIABLES
  now,       \* the server's clock, in seconds
  account,   \* "absent", "present" or "deleted"
  changed,   \* password_changed_at, in whole seconds; 0: never
  links,     \* reset links mailed and not used
  jar,       \* the refresh cookie: when its token was issued, or None
  cached,    \* localStorage has the profile of the last user
  page,      \* the page the tab shows
  user,      \* AuthContext has a user
  loading,   \* AuthContext's isLoading
  loggedIn,  \* loggedInRef
  token,     \* the access token in api.ts: when it was issued, or None
  call       \* the exchange each caller has under way

server == <<now, account, changed, links>>
auth == <<user, loading, loggedIn, token, cached>>
sessionsVars == <<server, jar, page, auth, call>>

Callers == {"mount", "login", "save", "secure", "logout", "refresh"} \cup Fetches
AuthRoutes == {"login", "register"}
Pages == AuthRoutes \cup {"app", "home", "forgot", "reset"}
Times == 0 .. MaxTime
Tokens == Times \cup {None}

ProfileOps == {"me", "loginMe", "registerMe"}  \* fetchMe, of the mount and of the two forms
Ops == ProfileOps \cup
  {"none", "refresh", "login", "register", "forgot", "reset", "patch", "change", "logoutAll",
   "delete", "logout", "leave", "fetch", "retry"}  \* "leave": the logout behind "delete"
Calls == [
  at : {"idle", "out", "back", "wait"},  \* "wait": for the shared refresh
  op : Ops,
  cred : Tokens,                         \* the cookie or bearer token it was sent with
  status : {"none", "ok", "unauthorized", "refused", "error"},
  mint : Tokens]                         \* the token its answer brings

NoCall == [at |-> "idle", op |-> "none", cred |-> None, status |-> "none", mint |-> None]
Out(op, cred) == [NoCall EXCEPT !.at = "out", !.op = op, !.cred = cred]

Quiet(c) == call[c].at = "idle"
Back(c, op) == call[c].at = "back" /\ call[c].op = op
Ok(c) == call[c].status = "ok"
Put(c, x) == call' = [call EXCEPT ![c] = x]
Free(c) == Quiet(c) /\ Cardinality({d \in Callers \ {"refresh"} : ~Quiet(d)}) < MaxCalls

(* proxy.ts: protected pages need the cookie, the sign-in pages must not   *)
(* have it.                                                                *)
Proxy(p, cookie) ==
  IF p = "app" /\ cookie = None THEN "login"
  ELSE IF p \in AuthRoutes /\ cookie # None THEN "app" ELSE p

SessionsInit ==
  /\ now = 1 /\ changed = 0 /\ links = 0
  /\ account \in {"absent", "present"}
  /\ jar \in IF account = "present" THEN {None, 0} ELSE {None}
  /\ cached \in IF account = "present" THEN BOOLEAN ELSE {FALSE}
  /\ page \in {Proxy("app", jar), "home"}
  /\ user = FALSE /\ loading = TRUE /\ loggedIn = FALSE /\ token = None
  /\ call = [c \in Callers |-> IF c = "mount" THEN Out("refresh", jar) ELSE NoCall]

-----------------------------------------------------------------------------
(* The server.                                                             *)

(* decode_token_claims, the lookup of the user and                         *)
(* issued_before_password_change: a token of the second of the change is   *)
(* still good.                                                             *)
Valid(t) == t # None /\ account = "present" /\ t >= changed

(* (The credential is kept where the code behind the await looks at it.)   *)
Responds(c, status, mint) ==
  Put(c, [call[c] EXCEPT !.at = "back", !.status = status, !.mint = mint,
                         !.cred = IF call[c].op \in ProfileOps \cup {"refresh"} THEN @ ELSE None])

(* Whether the bearer token of a call lets it in; an access token that is  *)
(* not of this second may have expired.                                    *)
BearerStatuses(c) ==
  IF ~Valid(call[c].cred) THEN {"unauthorized"}
  ELSE IF call[c].cred < now THEN {"ok", "unauthorized"} ELSE {"ok"}

ServeRefresh(c) ==
  /\ call[c].op = "refresh"
  /\ IF Valid(call[c].cred) THEN Responds(c, "ok", now) ELSE Responds(c, "unauthorized", None)
  /\ UNCHANGED <<now, account, changed, links>>

ServeLogin(c) ==
  /\ call[c].op = "login"
  /\ \/ account = "present" /\ Responds(c, "ok", now)
     \/ Responds(c, "refused", None)
  /\ UNCHANGED <<now, account, changed, links>>

ServeRegister(c) ==
  /\ call[c].op = "register"
  /\ IF account = "absent"
     THEN account' = "present" /\ Responds(c, "ok", now)
     ELSE account' = account /\ Responds(c, "refused", None)
  /\ UNCHANGED <<now, changed, links>>

(* GET and PATCH /auth/me, and the requests of the pages.                  *)
ServeData(c) ==
  /\ call[c].op \in ProfileOps \cup {"patch", "fetch", "retry"}
  /\ \E s \in BearerStatuses(c) : Responds(c, s, None)
  /\ UNCHANGED <<now, account, changed, links>>

ServeChange(c) ==
  /\ call[c].op = "change"
  /\ \E s \in BearerStatuses(c) :
       \/ s = "ok" /\ changed' = now /\ Responds(c, "ok", now)
       \/ /\ Responds(c, IF s = "ok" THEN "refused" ELSE s, None)
          /\ UNCHANGED changed
  /\ UNCHANGED <<now, account, links>>

ServeLogoutAll(c) ==
  /\ call[c].op = "logoutAll"
  /\ \E s \in BearerStatuses(c) :
       /\ changed' = IF s = "ok" THEN now ELSE changed
       /\ Responds(c, s, None)
  /\ UNCHANGED <<now, account, links>>

ServeDelete(c) ==
  /\ call[c].op = "delete"
  /\ \E s \in BearerStatuses(c) :
       \/ s = "ok" /\ account' = "deleted" /\ Responds(c, "ok", None)
       \/ /\ Responds(c, IF s = "ok" THEN "refused" ELSE s, None)
          /\ UNCHANGED account
  /\ UNCHANGED <<now, changed, links>>

ServeLogout(c) ==
  /\ call[c].op \in {"logout", "leave"}
  /\ Responds(c, "ok", None)
  /\ UNCHANGED <<now, account, changed, links>>

(* Always 202; the link is mailed when there is an account and the cap is  *)
(* not reached.                                                            *)
ServeForgot(c) ==
  /\ call[c].op = "forgot"
  /\ links' = IF account = "present" /\ links < MaxLinks THEN links + 1 ELSE links
  /\ Responds(c, "ok", None)
  /\ UNCHANGED <<now, account, changed>>

ServeReset(c) ==
  /\ call[c].op = "reset"
  /\ IF links > 0 /\ account = "present"
     THEN links' = links - 1 /\ changed' = now /\ Responds(c, "ok", None)
     ELSE UNCHANGED <<links, changed>> /\ Responds(c, "refused", None)
  /\ UNCHANGED <<now, account>>

Serve(c) ==
  /\ call[c].at = "out"
  /\ \/ ServeRefresh(c) \/ ServeLogin(c) \/ ServeRegister(c) \/ ServeData(c)
     \/ ServeChange(c) \/ ServeLogoutAll(c) \/ ServeDelete(c) \/ ServeLogout(c)
     \/ ServeForgot(c) \/ ServeReset(c)
  /\ UNCHANGED <<jar, page, auth>>

(* A 429, a 5xx or a backend the route handler cannot reach: not the 401    *)
(* of a refused refresh.  (For the other calls it is as good as no answer, *)
(* see Lost.)                                                              *)
ServeError(c) ==
  /\ call[c].at = "out" /\ call[c].op = "refresh"
  /\ Responds(c, "error", None)
  /\ UNCHANGED <<server, jar, page, auth>>

Tick ==
  /\ now < MaxTime /\ now' = now + 1
  /\ UNCHANGED <<account, changed, links, jar, page, auth, call>>

(* Another device changes the password or signs out everywhere.            *)
RevokeElsewhere ==
  /\ account = "present" /\ changed < now /\ changed' = now
  /\ UNCHANGED <<now, account, links, jar, page, auth, call>>

-----------------------------------------------------------------------------
(* The route handlers: what the answer of a call does to the cookie.       *)

(* A mistake the properties must notice: the cookie of a refused refresh   *)
(* stays.                                                                  *)
RefreshJarKept(c) == IF Ok(c) THEN call[c].mint ELSE jar

(* A refresh token the backend refuses with 401 is dead for good.          *)
RefreshJar(c) ==
  IF Ok(c) THEN call[c].mint
  ELSE IF call[c].status = "unauthorized" /\ call[c].cred # None THEN None
  ELSE jar

(* forwardRefreshCookie and its twins mirror the cookie of the backend.    *)
Mirrored(c) == IF Ok(c) THEN call[c].mint ELSE jar
Dropped(c) == IF Ok(c) THEN None ELSE jar

LoginJar(c) == Mirrored(c)
RegisterJar(c) == Mirrored(c)
ChangeJar(c) == Mirrored(c)
LogoutAllJar(c) == Dropped(c)
DeleteJar(c) == Dropped(c)
ResetJar(c) == Dropped(c)
LogoutJar == None

JarAfter(c) ==
  CASE call[c].op = "refresh" -> RefreshJar(c)
    [] call[c].op = "login" -> LoginJar(c)
    [] call[c].op = "register" -> RegisterJar(c)
    [] call[c].op = "change" -> ChangeJar(c)
    [] call[c].op = "logoutAll" -> LogoutAllJar(c)
    [] call[c].op = "delete" -> DeleteJar(c)
    [] call[c].op = "reset" -> ResetJar(c)
    [] call[c].op \in {"logout", "leave"} -> LogoutJar
    [] OTHER -> jar

-----------------------------------------------------------------------------
(* AuthContext: restoring the session when the document loads.             *)

(* A mistake: the refresh of the mount ends as if nobody had signed in.    *)
MountRefusedAlways ==
  /\ Back("mount", "refresh") /\ ~Ok("mount")
  /\ jar' = JarAfter("mount")
  /\ Put("mount", NoCall)
  /\ user' = FALSE /\ loading' = FALSE
  /\ UNCHANGED <<server, page, loggedIn, token, cached>>

(* Refused: nobody is signed in, unless somebody has signed in meanwhile.  *)
MountRefused ==
  /\ Back("mount", "refresh") /\ ~Ok("mount")
  /\ jar' = JarAfter("mount")
  /\ Put("mount", NoCall)
  /\ user' = (loggedIn /\ user) /\ loading' = (loggedIn /\ loading)
  /\ UNCHANGED <<server, page, loggedIn, token, cached>>

MountRefreshed ==
  /\ Back("mount", "refresh") /\ Ok("mount")
  /\ jar' = JarAfter("mount")
  /\ Put("mount", Out("me", call["mount"].mint))
  /\ UNCHANGED <<server, page, auth>>

(* fetchMe has answered: the token is taken whether or not there is a      *)
(* profile.                                                                *)
MountProfile ==
  /\ Back("mount", "me")
  /\ cached' = (cached \/ Ok("mount"))
  /\ IF loggedIn THEN UNCHANGED <<user, loading, token>>
     ELSE user' = Ok("mount") /\ loading' = FALSE /\ token' = call["mount"].cred
  /\ Put("mount", NoCall)
  /\ UNCHANGED <<server, jar, page, loggedIn>>

(* The refresh never came back: offline, the last user is kept without a   *)
(* token.                                                                  *)
MountLost ==
  /\ call["mount"].at = "out" /\ call["mount"].op = "refresh"
  /\ Put("mount", NoCall)
  /\ \E offline \in BOOLEAN :
       IF loggedIn THEN UNCHANGED <<user, loading>>
       ELSE user' = (offline /\ cached) /\ loading' = FALSE
  /\ UNCHANGED <<server, jar, page, loggedIn, token, cached>>

(* A new document: the tab forgets everything, and the calls of the old    *)
(* one are dropped, whatever the server has made of them.                  *)
Load(p, cookie) ==
  /\ page' = Proxy(p, cookie)
  /\ user' = FALSE /\ loading' = TRUE /\ loggedIn' = FALSE /\ token' = None
  /\ call' = [c \in Callers |-> IF c = "mount" THEN Out("refresh", cookie) ELSE NoCall]

Reload ==
  /\ \E p \in {page} \cup (IF links > 0 THEN {"reset"} ELSE {}) : Load(p, jar)
  /\ UNCHANGED <<server, jar, cached>>

-----------------------------------------------------------------------------
(* The pages outside the session: signing in, registering, resetting.      *)

(* A form sends when its fields are well formed and it is not pending.     *)
Submit(p) ==
  /\ page = p /\ Free("login")
  /\ Put("login", Out(p, None))
  /\ UNCHANGED <<server, jar, page, auth>>

SubmitLogin == Submit("login")
SubmitRegister == Submit("register")
SubmitForgot == Submit("forgot")
SubmitReset == Submit("reset")

(* login and register take the cookie with the answer, and the profile     *)
(* before they say that anybody is signed in.                              *)
SubmitAnswered ==
  /\ call["login"].at = "back" /\ call["login"].op \in AuthRoutes
  /\ jar' = JarAfter("login")
  /\ Put("login",
         IF ~Ok("login") THEN NoCall
         ELSE Out(IF Back("login", "login") THEN "loginMe" ELSE "registerMe", call["login"].mint))
  /\ UNCHANGED <<server, page, auth>>

(* The login page goes on in an effect, so only while it is mounted; the   *)
(* register page goes on in its handler.                                   *)
SignedIn ==
  /\ Back("login", "loginMe") \/ Back("login", "registerMe")
  /\ Ok("login")
  /\ user' = TRUE /\ loading' = FALSE /\ loggedIn' = TRUE /\ cached' = TRUE
  /\ token' = call["login"].cred
  /\ page' = IF page = "login" \/ Back("login", "registerMe") THEN Proxy("app", jar) ELSE page
  /\ Put("login", NoCall)
  /\ UNCHANGED <<server, jar>>

SignInFailed ==
  /\ Back("login", "loginMe") \/ Back("login", "registerMe")
  /\ ~Ok("login")
  /\ Put("login", NoCall)
  /\ UNCHANGED <<server, jar, page, auth>>

(* A reset sends the user to the login page; a mailed link leaves the page *)
(* as it is.                                                               *)
ResetAnswered ==
  /\ call["login"].at = "back" /\ call["login"].op \in {"forgot", "reset"}
  /\ jar' = JarAfter("login")
  /\ page' = IF Back("login", "reset") /\ Ok("login")
             THEN Proxy("login", jar') ELSE page
  /\ Put("login", NoCall)
  /\ UNCHANGED <<server, auth>>

-----------------------------------------------------------------------------
(* The settings page and the menu.                                         *)

Setting(c, op) ==
  /\ page = "app" /\ user /\ Free(c)
  /\ Put(c, Out(op, token))
  /\ UNCHANGED <<server, jar, page, auth>>

SaveProfile == Setting("save", "patch")
SavePreferences == Setting("save", "patch")
ChangePassword == Setting("secure", "change")
SignOutEverywhere == Setting("secure", "logoutAll")
DeleteAccount == Setting("secure", "delete")

(* onSaved is setUser, whoever is signed in by then.                       *)
ProfileSaved ==
  /\ Back("save", "patch")
  /\ user' = (user \/ Ok("save")) /\ cached' = (cached \/ Ok("save"))
  /\ Put("save", NoCall)
  /\ UNCHANGED <<server, jar, page, loading, loggedIn, token>>

PasswordChanged ==
  /\ Back("secure", "change")
  /\ jar' = JarAfter("secure")
  /\ token' = IF Ok("secure") THEN call["secure"].mint ELSE token
  /\ Put("secure", NoCall)
  /\ UNCHANGED <<server, page, user, loading, loggedIn, cached>>

(* Signing out everywhere and deleting the account go on to logout(), in   *)
(* the same caller.                                                        *)
SessionEnded ==
  /\ call["secure"].at = "back" /\ call["secure"].op \in {"logoutAll", "delete"}
  /\ jar' = JarAfter("secure")
  /\ Put("secure",
         IF ~Ok("secure") THEN NoCall
         ELSE Out(IF Back("secure", "delete") THEN "leave" ELSE "logout", jar'))
  /\ UNCHANGED <<server, page, auth>>

SignOut ==
  /\ user /\ page \in {"app", "home"} /\ Free("logout")
  /\ Put("logout", Out("logout", jar))
  /\ UNCHANGED <<server, jar, page, auth>>

LoggingOut(c) == call[c].op \in {"logout", "leave"}

(* logout() clears the tab whatever became of the request; the menu goes   *)
(* to the login page, the deletion of the account to the home page.        *)
SignedOut(c, cookie) ==
  /\ jar' = cookie
  /\ user' = FALSE /\ loading' = FALSE /\ loggedIn' = FALSE /\ token' = None /\ cached' = FALSE
  /\ page' = IF call[c].op = "leave" THEN "home" ELSE Proxy("login", cookie)
  /\ Put(c, NoCall)
  /\ UNCHANGED server

LogoutAnswered ==
  \E c \in {"logout", "secure"} :
    LoggingOut(c) /\ call[c].at = "back" /\ SignedOut(c, JarAfter(c))

LogoutLost ==
  \E c \in {"logout", "secure"} :
    LoggingOut(c) /\ call[c].at = "out" /\ SignedOut(c, jar)

-----------------------------------------------------------------------------
(* api.ts: the requests of the page and the refresh they share.            *)

Fetch(r) ==
  /\ page = "app" /\ user /\ Free(r)
  /\ Put(r, Out("fetch", token))
  /\ UNCHANGED <<server, jar, page, auth>>

FetchDone(r) ==
  /\ \/ Back(r, "retry")
     \/ Back(r, "fetch") /\ call[r].status # "unauthorized"
  /\ Put(r, NoCall)
  /\ UNCHANGED <<server, jar, page, auth>>

(* A 401 on the first try: wait for the refresh under way, or start one.   *)
FetchRefused(r) ==
  /\ Back(r, "fetch") /\ call[r].status = "unauthorized"
  /\ call' = [call EXCEPT ![r].at = "wait",
                          !["refresh"] = IF Quiet("refresh") THEN Out("refresh", jar) ELSE @]
  /\ UNCHANGED <<server, jar, page, auth>>

(* A mistake: only the request that started the refresh goes on.           *)
ResumeOne(mint) ==
  LET first == CHOOSE r \in Fetches : call[r].at = "wait"
  IN  [c \in Callers |-> IF c = "refresh" THEN NoCall
                         ELSE IF c = first THEN Out("retry", mint) ELSE call[c]]

(* Everybody who waits tries again with the new token.                     *)
Resume(mint) ==
  [c \in Callers |-> IF c = "refresh" THEN NoCall
                     ELSE IF call[c].at = "wait" THEN Out("retry", mint) ELSE call[c]]

Refreshed ==
  /\ Back("refresh", "refresh") /\ Ok("refresh")
  /\ jar' = JarAfter("refresh")
  /\ token' = call["refresh"].mint
  /\ call' = Resume(call["refresh"].mint)
  /\ UNCHANGED <<server, page, user, loading, loggedIn, cached>>

(* Whatever the reason: the session is taken for expired, and a page that  *)
(* is not the login page is left for it.                                   *)
RefreshFailed(cookie) ==
  /\ jar' = cookie
  /\ IF page # "login" THEN Load("login", cookie)
     ELSE /\ token' = None
          /\ call' = [c \in Callers |-> IF c = "refresh" \/ call[c].at = "wait"
                                        THEN NoCall ELSE call[c]]
          /\ UNCHANGED <<page, user, loading, loggedIn>>
  /\ UNCHANGED <<server, cached>>

RefreshRefused == Back("refresh", "refresh") /\ ~Ok("refresh") /\ RefreshFailed(JarAfter("refresh"))

RefreshLost == call["refresh"].at = "out" /\ RefreshFailed(jar)

(* Any other answer that does not come back is an error its caller reports.*)
Lost(c) ==
  /\ call[c].at \in {"out", "back"} /\ c # "refresh"
  /\ call[c].op \notin {"refresh", "logout", "leave"}
  /\ \/ c # "mount" /\ Put(c, NoCall) /\ UNCHANGED auth
     \/ c = "mount" /\ call[c].at = "out" /\ Responds(c, "error", None) /\ UNCHANGED auth
  /\ UNCHANGED <<server, jar, page>>

-----------------------------------------------------------------------------
(* Navigation inside the document.                                         *)

(* The effect of every page that needs a user: replace by the login page,  *)
(* which the proxy may turn back.                                          *)
Guard ==
  /\ page = "app" /\ ~loading /\ ~user
  /\ page' = Proxy("login", jar)
  /\ UNCHANGED <<server, jar, auth, call>>

Links(p) ==
  CASE p = "login" -> {"register", "forgot", "home"}
    [] p = "register" -> {"login", "home"}
    [] p = "forgot" -> {"login"}
    [] p = "reset" -> {"forgot"}
    [] p = "home" -> IF user THEN {"app"} ELSE {"login", "register"}
    [] p = "app" -> {"home"} \cup (IF user THEN {} ELSE {"login", "register"})

Follow ==
  /\ \E p \in Links(page) : page' = Proxy(p, jar)
  /\ UNCHANGED <<server, jar, auth, call>>

Deliver ==
  \/ MountRefused \/ MountRefreshed \/ MountProfile
  \/ SubmitAnswered \/ SignedIn \/ SignInFailed \/ ResetAnswered
  \/ ProfileSaved \/ PasswordChanged \/ SessionEnded \/ LogoutAnswered
  \/ Refreshed \/ RefreshRefused
  \/ \E r \in Fetches : FetchDone(r) \/ FetchRefused(r)

Act ==
  \/ SubmitLogin \/ SubmitRegister \/ SubmitForgot \/ SubmitReset
  \/ SaveProfile \/ SavePreferences \/ ChangePassword \/ SignOutEverywhere \/ DeleteAccount
  \/ SignOut \/ Reload \/ Follow
  \/ \E r \in Fetches : Fetch(r)

Fails ==
  \/ MountLost \/ LogoutLost \/ RefreshLost
  \/ \E c \in Callers : ServeError(c) \/ Lost(c)

SessionsNext ==
  \/ Deliver \/ Act \/ Fails \/ Guard \/ Tick \/ RevokeElsewhere
  \/ \E c \in Callers : Serve(c)

SessionsSpec == SessionsInit /\ [][SessionsNext]_sessionsVars

(* Calls are answered, answers are handled, and effects run; nobody has to *)
(* click, and nothing has to fail.                                         *)
FairSpec ==
  /\ SessionsSpec
  /\ \A c \in Callers : WF_sessionsVars(Serve(c))
  /\ WF_sessionsVars(MountRefused) /\ WF_sessionsVars(MountRefreshed) /\ WF_sessionsVars(MountProfile)
  /\ WF_sessionsVars(Refreshed) /\ WF_sessionsVars(RefreshRefused)
  /\ WF_sessionsVars(Guard)

-----------------------------------------------------------------------------
SessionsTypeOK ==
  /\ now \in Times /\ changed \in Times /\ links \in 0 .. MaxLinks
  /\ account \in {"absent", "present", "deleted"}
  /\ jar \in Tokens /\ token \in Tokens
  /\ page \in Pages
  /\ user \in BOOLEAN /\ loading \in BOOLEAN /\ loggedIn \in BOOLEAN /\ cached \in BOOLEAN
  /\ call \in [Callers -> Calls]

(* Nobody waits for a refresh that is not under way: concurrent 401s share *)
(* one call, and its end, whatever it is, goes to all of them (api.ts:18). *)
WaitersServed ==
  \A r \in Fetches : call[r].at = "wait" => ~Quiet("refresh")

(* The refresh of the mount, answered late, does not take away the session *)
(* of a user who has signed in meanwhile: once login or register is done,  *)
(* the user stays until a logout or a new document (AuthContext.tsx:68).   *)
LoginKept == [][loggedIn /\ user /\ loggedIn' => user']_sessionsVars

Reloading == call["mount"].at = "out"
RefusedOnLoad == Back("mount", "refresh") /\ call["mount"].status = "unauthorized"

(* A session the backend refuses ends: its cookie does not keep the tab    *)
(* bouncing between the login page and a page that needs a user; the tab   *)
(* leaves that page, gets a user, or its document is loaded anew, provided *)
(* no call is under way that brings another cookie (refresh/route.ts:28).  *)
DeadSessionEnds ==
  RefusedOnLoad /\ call["mount"].cred = jar /\ page = "app" /\ Quiet("login") /\ Quiet("secure")
    ~> page # "app" \/ user \/ Reloading

(* The same for every reason a tab may have for having no user.            *)
NoBouncing == page = "app" /\ ~user /\ ~loading ~> page # "app" \/ user \/ loading
=============================================================================
