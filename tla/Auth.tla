-------------------------------- MODULE Auth --------------------------------
(***************************************************************************)
(* Sessions and the founding of an instance, with the tabs of one browser  *)
(* that share its cookie: AuthProvider resolving the session on mount, the *)
(* sign-in and first-run forms, refresh and logout.  A request carries the *)
(* cookie of the moment it is sent; what its answer does to the cookie     *)
(* happens when the answer arrives.  Passwords are always right or wrong   *)
(* as a whole, and an email is told apart by its letter case only.         *)
(***************************************************************************)
EXTENDS Naturals

CONSTANTS
    AuthTabs,
    MaxTokens,   \* bound: session tokens ever issued
    MaxEndings,  \* bound: logouts, expiries and lost answers
    Emails       \* how the founder may type the address: "lower", "mixed"

ASSUME AuthAssumption == MaxTokens \in Nat /\ Emails \subseteq {"lower", "mixed"} /\ MaxEndings \in Nat

VARIABLES
    accounts,   \* which accounts exist: the founder's, OIDC ones
    founded,    \* organisations created by the first-run form
    typed,      \* history: the address as the founder typed it
    lock,       \* a bootstrap transaction holds the advisory lock
    session,    \* [Tokens -> {"unborn", "live", "revoked", "expired"}]
    cookie,     \* the browser's session cookie
    atab,       \* [AuthTabs -> [status, avail, call]]
    endings     \* logouts, expiries and lost answers so far

authVars == <<accounts, founded, typed, lock, session, cookie, atab, endings>>

Tokens == 1..MaxTokens
NoToken == 0
Call(kind, pc, tok, new, email) == [kind |-> kind, pc |-> pc, tok |-> tok, new |-> new, email |-> email]
NoFetch == Call("none", "idle", NoToken, NoToken, "none")

\* a request in flight: pc is its progress in the server, then its answer
Form(kind, email) == Call(kind, "sent", cookie, NoToken, email)
Fetch(kind) == Form(kind, "none")

\* AuthProvider mounts: status loading, GET /me sent with the cookie given
Mounted(avail, tok) == [status |-> "loading", avail |-> avail, call |-> Call("me", "sent", tok, NoToken, "none")]

AuthInit ==
    /\ accounts = {} /\ founded = 0 /\ typed = "none" /\ lock = FALSE
    /\ session = [t \in Tokens |-> "unborn"]
    /\ cookie = NoToken
    /\ atab = [c \in AuthTabs |-> Mounted(FALSE, NoToken)]
    /\ endings = 0

Answered(c, answer, new) == [atab EXCEPT ![c].call = Call(@.kind, answer, @.tok, new, @.email)]

At(c, kind, pc) == atab[c].call.kind = kind /\ atab[c].call.pc = pc

-----------------------------------------------------------------------------
(* session.ts                                                              *)

\* a random token: the identities are used in order
Fresh(t) == session[t] = "unborn" /\ \A s \in Tokens : session[s] = "unborn" => s >= t

VerifySession(t) == t \in Tokens /\ session[t] = "live"

\* requireSession, before the handler of me, refresh and logout
RequireSession(c) ==
    /\ atab[c].call.kind \in {"me", "refresh", "retry", "logout"} /\ atab[c].call.pc = "sent"
    /\ atab' = [atab EXCEPT ![c].call.pc = IF VerifySession(atab[c].call.tok) THEN "verified" ELSE "refused"]
    /\ UNCHANGED <<accounts, founded, typed, lock, session, cookie, endings>>

\* GET /me; the rate limit, or the server, may also answer with an error
Me(c) ==
    /\ At(c, "me", "verified") \/ At(c, "retry", "verified")
    /\ \E answer \in {"ok", "refused"} : atab' = Answered(c, answer, NoToken)
    /\ UNCHANGED <<accounts, founded, typed, lock, session, cookie, endings>>

\* rotateSession: its transaction reads the row ...
RotateRead(c) ==
    /\ At(c, "refresh", "verified")
    /\ atab' = [atab EXCEPT ![c].call.pc = IF VerifySession(atab[c].call.tok) THEN "read" ELSE "refused"]
    /\ UNCHANGED <<accounts, founded, typed, lock, session, cookie, endings>>

\* mutant: the rotation revokes every session the user has
RotateAll(c, t) ==
    /\ At(c, "refresh", "read") /\ Fresh(t)
    /\ session' = [s \in Tokens |-> IF s = t THEN "live" ELSE IF session[s] = "live" THEN "revoked" ELSE session[s]]
    /\ atab' = Answered(c, "ok", t)
    /\ UNCHANGED <<accounts, founded, typed, lock, cookie, endings>>

\* ... and revokes it by id, whatever became of it, and inserts the successor
RotateWrite(c, t) ==
    /\ At(c, "refresh", "read") /\ Fresh(t)
    /\ session' = [session EXCEPT ![atab[c].call.tok] = "revoked", ![t] = "live"]
    /\ atab' = Answered(c, "ok", t)
    /\ UNCHANGED <<accounts, founded, typed, lock, cookie, endings>>

\* POST /auth/logout
RevokeSession(c) ==
    /\ At(c, "logout", "verified")
    /\ session' = [session EXCEPT ![atab[c].call.tok] = IF @ = "live" THEN "revoked" ELSE @]
    /\ atab' = Answered(c, "ok", NoToken)
    /\ UNCHANGED <<accounts, founded, typed, lock, cookie, endings>>

Expire(t) ==
    /\ session[t] = "live" /\ endings < MaxEndings
    /\ session' = [session EXCEPT ![t] = "expired"]
    /\ endings' = endings + 1
    /\ UNCHANGED <<accounts, founded, typed, lock, cookie, atab>>

-----------------------------------------------------------------------------
(* firstRun.ts and accounts.ts                                             *)

NormalizeEmail(email) == IF email = "none" THEN "none" ELSE "lower"

IsInstanceUninitialized == accounts = {}

\* POST /auth/first-run: the check before the body is even parsed
FirstRunCheck(c) ==
    /\ At(c, "found", "sent")
    /\ atab' = [atab EXCEPT ![c].call.pc = IF IsInstanceUninitialized THEN "checked" ELSE "refused"]
    /\ UNCHANGED <<accounts, founded, typed, lock, session, cookie, endings>>

\* mutant: the check made before the transaction is trusted
BootstrapTrusting(c) ==
    /\ At(c, "found", "checked") /\ ~lock
    /\ lock' = TRUE /\ atab' = [atab EXCEPT ![c].call.pc = "locked"]
    /\ UNCHANGED <<accounts, founded, typed, session, cookie, endings>>

\* bootstrapInstance: the advisory lock, then the check again
BootstrapLock(c) ==
    /\ At(c, "found", "checked") /\ ~lock
    /\ IF IsInstanceUninitialized
       THEN lock' = TRUE /\ atab' = [atab EXCEPT ![c].call.pc = "locked"]
       ELSE atab' = Answered(c, "refused", NoToken) /\ UNCHANGED lock
    /\ UNCHANGED <<accounts, founded, typed, session, cookie, endings>>

\* account, organisation, workspace and both memberships, committed together
BootstrapCommit(c) ==
    /\ At(c, "found", "locked")
    /\ accounts' = accounts \cup {"founder"} /\ founded' = founded + 1
    /\ typed' = atab[c].call.email /\ lock' = FALSE
    /\ atab' = [atab EXCEPT ![c].call.pc = "committed"]
    /\ UNCHANGED <<session, cookie, endings>>

\* the new account's session, after the audit record
FirstRunSession(c, t) ==
    /\ At(c, "found", "committed") /\ Fresh(t)
    /\ session' = [session EXCEPT ![t] = "live"]
    /\ atab' = Answered(c, "ok", t)
    /\ UNCHANGED <<accounts, founded, typed, lock, cookie, endings>>

\* the lookup compares the address as typed
VerifyLocalPassword(email) == "founder" \in accounts /\ email = NormalizeEmail(typed)

Login(c, t) ==
    /\ At(c, "login", "sent")
    /\ IF VerifyLocalPassword(atab[c].call.email)
       THEN /\ Fresh(t)
            /\ session' = [session EXCEPT ![t] = "live"]
            /\ atab' = Answered(c, "ok", t)
       ELSE atab' = Answered(c, "refused", NoToken) /\ UNCHANGED session
    /\ UNCHANGED <<accounts, founded, typed, lock, cookie, endings>>

\* /auth/oidc/callback: the account by its subject, made at the first login,
\* then a session like any other; any failure leads back to the login page
OidcCallback(c, t) ==
    /\ At(c, "oidc", "sent") /\ Fresh(t)
    /\ \/ atab' = Answered(c, "refused", NoToken) /\ UNCHANGED <<accounts, session>>
       \/ /\ accounts' = accounts \cup {"oidc"}
          /\ session' = [session EXCEPT ![t] = "live"]
          /\ atab' = Answered(c, "ok", t)
    /\ UNCHANGED <<founded, typed, lock, cookie, endings>>

-----------------------------------------------------------------------------
(* The browser.                                                            *)

\* an answer ends the request in flight
Settled(c, status, avail) == [atab EXCEPT ![c] = [status |-> status, avail |-> avail, call |-> NoFetch]]

\* resolveSession: /me, on any failure one refresh, then /me again
Resolve(c) ==
    LET call == atab[c].call
        Next1(kind, tok) == [atab EXCEPT ![c].call = Call(kind, "sent", tok, NoToken, "none")]
    IN
    /\ call.kind \in {"me", "refresh", "retry"} /\ call.pc \in {"ok", "refused"}
    /\ IF call.kind = "me" /\ call.pc = "refused" THEN atab' = Next1("refresh", cookie) /\ UNCHANGED cookie
       ELSE IF call.kind = "refresh" /\ call.pc = "ok"
       THEN cookie' = call.new /\ atab' = Next1("retry", call.new)
       ELSE atab' = Settled(c, IF call.pc = "ok" THEN "authenticated" ELSE "anonymous", atab[c].avail) /\ UNCHANGED cookie
    /\ UNCHANGED <<accounts, founded, typed, lock, session, endings>>

\* useLogout: the tab becomes anonymous whatever the answer; only a success
\* clears the cookie
Logout(c) ==
    /\ atab[c].status = "authenticated" /\ atab[c].call = NoFetch
    /\ endings < MaxEndings /\ endings' = endings + 1
    /\ atab' = [atab EXCEPT ![c].call = Fetch("logout")]
    /\ UNCHANGED <<accounts, founded, typed, lock, session, cookie>>

LoggedOut(c) ==
    /\ atab[c].call.kind = "logout" /\ atab[c].call.pc \in {"ok", "refused"}
    /\ cookie' = IF atab[c].call.pc = "ok" THEN NoToken ELSE cookie
    /\ atab' = Settled(c, "anonymous", atab[c].avail)
    /\ UNCHANGED <<accounts, founded, typed, lock, session, endings>>

\* LoginPage: which form the route shows is what the server last said
CheckAvailability(c) ==
    /\ atab[c].status # "authenticated" /\ atab[c].avail # IsInstanceUninitialized
    /\ atab' = [atab EXCEPT ![c].avail = IsInstanceUninitialized]
    /\ UNCHANGED <<accounts, founded, typed, lock, session, cookie, endings>>

\* handleSubmit of the form shown, or the SSO link
Submit(c, email) ==
    /\ atab[c].status = "anonymous" /\ atab[c].call = NoFetch
    /\ \/ atab[c].avail /\ atab' = [atab EXCEPT ![c].call = Form("found", email)]
       \/ ~atab[c].avail /\ \E kind \in {"login", "oidc"} :
              atab' = [atab EXCEPT ![c].call = Form(kind, email)]
    /\ UNCHANGED <<accounts, founded, typed, lock, session, cookie, endings>>

\* a session was set: a hard navigation mounts the application again; a
\* refusal leaves the form, the first-run one giving way to credentials
Submitted(c) ==
    LET call == atab[c].call IN
    /\ call.kind \in {"found", "login", "oidc"} /\ call.pc \in {"ok", "refused"}
    /\ IF call.pc = "ok"
       THEN cookie' = call.new /\ atab' = [atab EXCEPT ![c] = Mounted(FALSE, call.new)]
       ELSE atab' = Settled(c, atab[c].status, FALSE) /\ UNCHANGED cookie
    /\ UNCHANGED <<accounts, founded, typed, lock, session, endings>>

\* the answer never arrives: resolveSession and logout do not catch it, and
\* the tab stays as it is
Lose(c) ==
    /\ atab[c].call.pc \in {"ok", "refused"} /\ endings < MaxEndings
    /\ atab' = [atab EXCEPT ![c].call = NoFetch]
    /\ endings' = endings + 1
    /\ UNCHANGED <<accounts, founded, typed, lock, session, cookie>>

Reload(c) ==
    /\ atab[c].call = NoFetch
    /\ atab' = [atab EXCEPT ![c] = Mounted(FALSE, cookie)]
    /\ UNCHANGED <<accounts, founded, typed, lock, session, cookie, endings>>

AuthNext ==
    \/ \E c \in AuthTabs :
        \/ RequireSession(c) \/ Me(c) \/ RotateRead(c) \/ RevokeSession(c)
        \/ FirstRunCheck(c) \/ BootstrapLock(c) \/ BootstrapCommit(c)
        \/ \E t \in Tokens : RotateWrite(c, t) \/ FirstRunSession(c, t) \/ Login(c, t) \/ OidcCallback(c, t)
        \/ Resolve(c) \/ Logout(c) \/ LoggedOut(c) \/ CheckAvailability(c)
        \/ \E email \in Emails : Submit(c, email)
        \/ Submitted(c) \/ Lose(c) \/ Reload(c)
    \/ \E t \in Tokens : Expire(t)

AuthSpec == AuthInit /\ [][AuthNext]_authVars

-----------------------------------------------------------------------------
(* Properties.                                                             *)

TokenOrNone == Tokens \cup {NoToken}

Tab == [status : {"loading", "authenticated", "anonymous"}, avail : BOOLEAN,
        call : [kind : {"none", "me", "refresh", "retry", "logout", "found", "login", "oidc"},
                pc : {"idle", "sent", "verified", "refused", "ok", "read", "checked", "locked", "committed"},
                tok : TokenOrNone, new : TokenOrNone, email : Emails \cup {"none"}]]

AuthTypeOK ==
    /\ accounts \subseteq {"founder", "oidc"} /\ founded \in Nat /\ endings \in Nat
    /\ lock \in BOOLEAN /\ cookie \in TokenOrNone
    /\ session \in [Tokens -> {"unborn", "live", "revoked", "expired"}]
    /\ atab \in [AuthTabs -> Tab]

\* However many first-run submissions and SSO logins race, the instance is
\* founded at most once (BOOT-08: "The winner already created the administrator").
FoundedOnce == founded <= 1

\* Refreshing never costs a browser its session: while nobody signs out, no
\* session expires and no answer is lost, the cookie names a live session or a
\* refresh with its successor is on the way, even when two tabs rotate the
\* same token at once.
RefreshKeepsSession ==
    endings = 0 /\ cookie # NoToken =>
        \/ session[cookie] = "live"
        \/ \E c \in AuthTabs : atab[c].call.kind = "refresh" /\ atab[c].call.new \in Tokens
                               /\ session[atab[c].call.new] = "live"
=============================================================================
