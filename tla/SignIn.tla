---------------------------- MODULE SignIn ----------------------------
(***************************************************************************)
(* One browser's identity: the anonymous session that joining, paying and  *)
(* the channel heartbeat ask for (src/lib/convex/session.ts), the password *)
(* forms that replace it (AuthPage.tsx, PasswordRecoveryPage.tsx,          *)
(* src/lib/convex/hooks.ts), sign-out, and the redirects that follow from  *)
(* what users.me answers (ProtectedRoute.tsx, AuthPage.tsx).               *)
(*                                                                         *)
(* Each tab has a session and a shared promise of its own; the browser     *)
(* hands a token that one tab stores to the others (Hear).  A sign-in is   *)
(* over for the tab when its token is stored; the server sees it later     *)
(* (Attach), React later still (Notice), and the live users.me             *)
(* subscription pushes its own answer (Push).  The library's sign-in call  *)
(* and its token transport are external.  One of the tabs moves between    *)
(* the pages; the others stay on a hotline.                                *)
(***************************************************************************)
EXTENDS Integers, FiniteSets

CONSTANTS
  SessionTabs, \* tabs of the browser
  ThisTab,     \* the one that leaves the hotline
  Askers,      \* what may ask for a session: the heartbeat, a join, a payment
  TabOf,       \* the tab of each
  MaxGuests,   \* bound: anonymous accounts
  MaxLogins    \* bound: submitted password forms

ASSUME SignInAssumption ==
  /\ {MaxGuests, MaxLogins} \subseteq Nat
  /\ ThisTab \in SessionTabs /\ TabOf \in [Askers -> SessionTabs]

VARIABLES
  session,     \* of each tab: the token it holds, the identity the server sees,
               \* and React's flag
  news,        \* of each tab: a token that another has stored
  asker,       \* what each asker does
  pending,     \* of each tab: the shared promise of ensureSession
  login,       \* the submitted password form
  screen,      \* the page on screen in this tab
  me,          \* its cached answer of users.me and the last one pushed
  guests,      \* anonymous accounts made
  made,        \* how many of them each tab made
  pardon       \* what the properties excuse

pageParts == <<login, screen, me>>
signInVars ==
  <<session, news, asker, pending, pageParts, guests, made, pardon>>

Guests == 1..MaxGuests
NoOne == 0
Member == MaxGuests + 1
Identities == Guests \cup {NoOne, Member}
Nothing == -1
Public == {"hotline", "login", "code"}

-----------------------------------------------------------------------------

\* hasSession: anonymous callers count.
HasSession(t) == session[t].served # NoOne

\* users.me: anonymous callers are not signed in to the app.
Me(identity) == IF identity = Member THEN Member ELSE NoOne

SignInInit ==
  /\ session = [t \in SessionTabs |-> [token |-> NoOne, served |-> NoOne, shown |-> FALSE]]
  /\ news = [t \in SessionTabs |-> Nothing]
  /\ asker = [a \in Askers |-> "idle"]
  /\ pending = [t \in SessionTabs |-> "none"]
  /\ login = [at |-> "idle", sent |-> 0]
  /\ screen = "hotline"
  /\ me = [cached |-> NoOne, pushed |-> NoOne]
  /\ guests = 0 /\ made = [t \in SessionTabs |-> 0]
  /\ pardon = [guests |-> [t \in SessionTabs |-> 0], signedOut |-> FALSE, landed |-> FALSE]

\* A tab stores its token, and the browser tells the others.
Stores(t, token) ==
  /\ session' = [session EXCEPT ![t].token = token]
  /\ news' = [u \in SessionTabs |-> IF u = t THEN news[u] ELSE token]

-----------------------------------------------------------------------------
(* ensureSession                                                           *)

\* Everything in a tab that waits on its promise, when it resolves or rejects.
Resolved(t, to) ==
  [a \in Askers |-> IF TabOf[a] = t /\ asker[a] = "waits" THEN to ELSE asker[a]]

\* The promise that an asker waits on: one is made when the tab has none.
Shared(t) == IF pending[t] = "none" THEN "asks" ELSE pending[t]

\* A heartbeat, a join or a payment needs a session.
AskSession(a) ==
  LET t == TabOf[a]
  IN /\ t = ThisTab => screen = "hotline"
     /\ asker[a] = "idle"
     /\ \/ /\ session[t].shown
           /\ asker' = [asker EXCEPT ![a] = "calls"]
           /\ UNCHANGED pending
        \/ /\ ~session[t].shown
           /\ asker' = [asker EXCEPT ![a] = "waits"]
           /\ pending' = [pending EXCEPT ![t] = Shared(t)]
     /\ UNCHANGED <<session, news, pageParts, guests, made, pardon>>

\* Fault: the sign-in starts without asking the server.
SignsAnyway(t) == "signs"

\* The server is asked first, because React's state lags.
AfterAsking(t) == IF HasSession(t) THEN "none" ELSE "signs"

AskServer(t) ==
  /\ pending[t] = "asks"
  /\ pending' = [pending EXCEPT ![t] = AfterAsking(t)]
  /\ asker' = IF AfterAsking(t) = "none" THEN Resolved(t, "calls") ELSE asker
  /\ UNCHANGED <<session, news, pageParts, guests, made, pardon>>

\* After the sign-in the promise waits for the server to see the session.
AfterSignIn == "waits"

SignInAnonymously(t) ==
  /\ pending[t] = "signs"
  /\ guests < MaxGuests
  /\ guests' = guests + 1
  /\ made' = [made EXCEPT ![t] = @ + 1]
  /\ Stores(t, guests + 1)
  /\ pending' = [pending EXCEPT ![t] = AfterSignIn]
  /\ asker' = IF AfterSignIn = "none" THEN Resolved(t, "calls") ELSE asker
  /\ pardon' = [pardon EXCEPT !.landed = @ /\ t # ThisTab]
  /\ UNCHANGED pageParts

\* The sign-in fails; when only its answer was lost the account is made.
SignInFails(t) ==
  /\ pending[t] = "signs"
  /\ \E lost \in 0..1 :
       /\ guests + lost <= MaxGuests
       /\ guests' = guests + lost
       /\ made' = [made EXCEPT ![t] = @ + lost]
       /\ pardon' = [pardon EXCEPT !.guests[t] = @ + lost]
  /\ asker' = Resolved(t, "idle")
  /\ pending' = [pending EXCEPT ![t] = "none"]
  /\ UNCHANGED <<session, news, pageParts>>

\* waitForServerSession; any of its rounds may be the last one, which throws.
AwaitServer(t) ==
  /\ pending[t] = "waits"
  /\ asker' = Resolved(t, IF HasSession(t) THEN "calls" ELSE "idle")
  /\ pending' = [pending EXCEPT ![t] = "none"]
  /\ pardon' = [pardon EXCEPT !.guests[t] = IF HasSession(t) THEN @ ELSE @ + 1]
  /\ UNCHANGED <<session, news, pageParts, guests, made>>

\* The join, payment or heartbeat itself.
Call(a) ==
  /\ asker[a] = "calls"
  /\ asker' = [asker EXCEPT ![a] = "idle"]
  /\ UNCHANGED <<session, news, pending, pageParts, guests, made, pardon>>

-----------------------------------------------------------------------------
(* The client's connection                                                 *)

\* The connection presents the tab's newest token.
Attach(t) ==
  /\ session[t].served # session[t].token
  /\ session' = [session EXCEPT ![t].served = session[t].token]
  /\ UNCHANGED <<news, asker, pending, pageParts, guests, made, pardon>>

\* A tab takes over the token that another has stored.
Hear(t) ==
  /\ news[t] # Nothing
  /\ session' = [session EXCEPT ![t].token = news[t]]
  /\ news' = [news EXCEPT ![t] = Nothing]
  /\ pardon' = [pardon EXCEPT !.landed = @ /\ (t = ThisTab => news[t] = Member)]
  /\ UNCHANGED <<asker, pending, pageParts, guests, made>>

\* useConvexAuth learns what the server sees.
NoticeSession(t) ==
  /\ session[t].shown # HasSession(t)
  /\ session' = [session EXCEPT ![t].shown = HasSession(t)]
  /\ UNCHANGED <<news, asker, pending, pageParts, guests, made, pardon>>

\* The users.me subscription pushes a changed answer.
Push ==
  LET served == session[ThisTab].served
  IN /\ me.pushed # Me(served)
     /\ me' = [cached |-> Me(served), pushed |-> Me(served)]
     /\ UNCHANGED <<session, news, asker, pending, login, screen, guests, made, pardon>>

-----------------------------------------------------------------------------
(* Password sign-in, sign-up and reset verification                        *)

SubmitPassword ==
  /\ screen \in {"login", "code"}
  /\ login.at = "idle"
  /\ login.sent < MaxLogins
  /\ login' = [login EXCEPT !.at = "signs", !.sent = @ + 1]
  /\ UNCHANGED <<session, news, asker, pending, screen, me, guests, made, pardon>>

\* Wrong credentials, a taken email or username, a wrong code, an outage.
Refuse ==
  /\ login.at = "signs"
  /\ login' = [login EXCEPT !.at = "idle"]
  /\ UNCHANGED <<session, news, asker, pending, screen, me, guests, made, pardon>>

Accept ==
  /\ login.at = "signs"
  /\ login' = [login EXCEPT !.at = "settles"]
  /\ Stores(ThisTab, Member)
  /\ UNCHANGED <<asker, pending, screen, me, guests, made, pardon>>

\* settleSignIn primes useMe with the account it read.
Primed == [me EXCEPT !.cached = Member]

\* settleSignIn; onDone leaves the form, also when any of its rounds gives up.
Settle ==
  /\ login.at = "settles"
  /\ login' = [login EXCEPT !.at = "idle"]
  /\ screen' = "dashboard"
  /\ \/ /\ Me(session[ThisTab].served) = Member
        /\ me' = Primed
        /\ pardon' = [pardon EXCEPT !.landed = session[ThisTab].token = Member]
     \/ /\ Me(session[ThisTab].served) # Member
        /\ UNCHANGED <<me, pardon>>
  /\ UNCHANGED <<session, news, asker, pending, guests, made>>

\* signOut drops the token; then the social queries go and useMe is cleared.
SignOut ==
  /\ screen = "dashboard"
  /\ me.cached = Member
  /\ Stores(ThisTab, NoOne)
  /\ me' = [me EXCEPT !.cached = NoOne]
  /\ pardon' = [guests |-> [t \in SessionTabs |-> pardon.guests[t] + 1],
                signedOut |-> TRUE, landed |-> FALSE]
  /\ UNCHANGED <<asker, pending, login, screen, guests, made>>

-----------------------------------------------------------------------------
(* Pages                                                                   *)

\* A link or the address bar.
Visit ==
  /\ screen' \in Public \cup {"dashboard"}
  /\ screen' # screen
  /\ UNCHANGED <<session, news, asker, pending, login, me, guests, made, pardon>>

\* ProtectedRoute sends a guest to the login page.
Bounce ==
  /\ screen = "dashboard"
  /\ me.cached = NoOne
  /\ screen' = "login"
  /\ UNCHANGED <<session, news, asker, pending, login, me, guests, made, pardon>>

\* AuthPage sends an account on.
Redirect ==
  /\ screen = "login"
  /\ me.cached = Member
  /\ screen' = "dashboard"
  /\ UNCHANGED <<session, news, asker, pending, login, me, guests, made, pardon>>

SignInNext ==
  \/ \E a \in Askers : AskSession(a) \/ Call(a)
  \/ \E t \in SessionTabs :
       \/ AskServer(t) \/ SignInAnonymously(t) \/ SignInFails(t) \/ AwaitServer(t)
       \/ Attach(t) \/ Hear(t) \/ NoticeSession(t)
  \/ Push
  \/ SubmitPassword
  \/ Refuse
  \/ Accept
  \/ Settle
  \/ SignOut
  \/ Visit
  \/ Bounce
  \/ Redirect

SignInSpec == SignInInit /\ [][SignInNext]_signInVars

-----------------------------------------------------------------------------
(* Properties                                                              *)

SignInTypeOK ==
  /\ session \in [SessionTabs -> [token : Identities, served : Identities, shown : BOOLEAN]]
  /\ news \in [SessionTabs -> Identities \cup {Nothing}]
  /\ asker \in [Askers -> {"idle", "waits", "calls"}]
  /\ pending \in [SessionTabs -> {"none", "asks", "signs", "waits"}]
  /\ login \in [at : {"idle", "signs", "settles"}, sent : 0..MaxLogins]
  /\ screen \in Public \cup {"dashboard"}
  /\ me \in [cached : {NoOne, Member}, pushed : {NoOne, Member}]
  /\ guests \in 0..MaxGuests /\ made \in [SessionTabs -> 0..MaxGuests]
  /\ pardon \in [guests : [SessionTabs -> Nat], signedOut : BOOLEAN,
                landed : BOOLEAN]

\* A tab makes one anonymous account, however many joins, payments and heartbeats
\* ask at once: another one only after a sign-in whose answer was lost, a wait that
\* gave up, or a sign-out (session.ts).  The promise is shared in a tab, not in the
\* browser: tabs that ask before they hear of each other make one each.
OneAnonymousAccount ==
  \A t \in SessionTabs : made[t] <= 1 + pardon.guests[t]

\* Once ensureSession has returned, the call it was for finds a session at the
\* server; only a sign-out in between can take it away (session.ts).
CallsFindSession ==
  \A a \in Askers :
    asker[a] = "calls" /\ ~pardon.signedOut => HasSession(TabOf[a])

\* After a password sign-in that settled, useMe knows the account until it is
\* signed out or replaced, so the dashboard never sends its owner back to the
\* login page (settleSignIn, ProtectedRoute).
SignedInIsKnown == pardon.landed => me.cached = Member
=============================================================================
