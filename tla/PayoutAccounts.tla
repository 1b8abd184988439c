--------------------------- MODULE PayoutAccounts ---------------------------
(***************************************************************************)
(* A creator's payout account: the account part of payouts.ts, the         *)
(* account.updated event of webhooks.ts, and the setup part of             *)
(* PayoutSettings.tsx.                                                     *)
(*                                                                         *)
(* Stripe keeps the account and decides when it is ready; Bling keeps a    *)
(* copy, on which the start of a paid show and the monthly payout rest.    *)
(* Three actions refresh the copy: the settings page asks for the status,  *)
(* an event makes the server look, and the first session creates the       *)
(* account.  Each reads the account, then its banks, and saves in a later  *)
(* mutation, while Stripe goes on changing it.                             *)
(*                                                                         *)
(* What projectAccount keeps is whether the account is ready (capabilities *)
(* active and nothing due) and whether a usable bank account is there.     *)
(***************************************************************************)
EXTENDS Integers, FiniteSets

CONSTANTS
    MaxAccounts,  \* bound: accounts made at Stripe for the creator
    MaxChanges,   \* bound: none changes at Stripe once an account has changed so often
    MaxActions    \* bound: actions running at a time

ASSUME PayoutAccountsAssumption ==
    {MaxAccounts, MaxChanges, MaxActions} \subseteq Nat

VARIABLES
    connect,   \* Stripe: accounts made for the creator so far
    repeats,   \* Stripe: the account it repeats for the creator's key (0: none)
    standing,  \* Stripe: what projectAccount would make of each account now
    changes,   \* Stripe: changes of each account so far
    notices,   \* account.updated events of each account not yet delivered
    copy,      \* the payoutAccounts row: the account (0: no row) and what is kept of it
    actions,   \* status, accountSession and reconcileAccount actions
    newest,    \* the change that the newest read ever saved had seen
    overtaken, \* the row was saved last by an action that had read before another that
               \* saved
    missed,    \* an event was lost on the way, and nothing was read and saved since
    forgotten, \* whether Stripe has forgotten a key: "between" requests that found no
               \* account, or "during" one
    settings   \* the page: payout status, and the mutation of each component

stripeVars == <<connect, repeats, standing, changes>>
accountVars == <<stripeVars, notices, copy, actions, newest, overtaken, missed, forgotten, settings>>

StripeAccounts == 1..MaxAccounts
Account == [ready : BOOLEAN, bank : BOOLEAN]
NewAccount == [ready |-> FALSE, bank |-> FALSE]

\* Each of them calls usePayoutAccountSession, and has a mutation of its own.
Components == {"PayoutSettings", "SetupPrompt", "BalanceCard"}

\* The same page in another tab.
Callers == Components \cup {"elsewhere"}

\* of: the account (0: not known yet); got: what was read so far; at: the change seen by
\* the first read; by: the component that hears the answer of a session.
Action == [op : {"status", "session", "reconcile"}, by : Callers,
           phase : {"find", "create", "account", "banks", "save", "none", "done", "failed"},
           of : 0..MaxAccounts, got : Account, at : 0..MaxChanges]
Starts(op, by, of) ==
    [op |-> op, by |-> by, phase |-> "find", of |-> of, got |-> NewAccount, at |-> 0]

AccountInit ==
    /\ connect = 0 /\ repeats = 0
    /\ standing = [n \in StripeAccounts |-> NewAccount]
    /\ changes = [n \in StripeAccounts |-> 0] /\ notices = [n \in StripeAccounts |-> 0]
    /\ copy = [of |-> 0, got |-> NewAccount] /\ actions = {} /\ newest = 0
    /\ overtaken = FALSE /\ missed = FALSE /\ forgotten = "never"
    /\ settings = [status |-> "pending",
                   session |-> [c \in Components |-> "idle"]]

-----------------------------------------------------------------------------
(* Stripe.                                                                 *)

\* The creator or Stripe's checks change an account; an event follows.
AccountChanges(n, new) ==
    /\ n <= connect /\ new # standing[n]
    /\ \A m \in StripeAccounts : changes[m] < MaxChanges
    /\ standing' = [standing EXCEPT ![n] = new]
    /\ changes' = [changes EXCEPT ![n] = @ + 1]
    /\ notices' = [notices EXCEPT ![n] = @ + 1]
    /\ UNCHANGED <<connect, repeats, copy, actions, newest, overtaken, missed, forgotten,
                   settings>>

\* A session that found no account and has not saved one.
Creating(a) == a.op = "session" /\ a.phase \in {"create", "save"}

\* Stripe forgets an idempotency key.
KeyForgotten ==
    /\ repeats # 0
    /\ repeats' = 0
    /\ forgotten' = IF \E a \in actions : Creating(a) THEN "during"
                    ELSE IF forgotten = "never" /\ copy.of = 0 THEN "between" ELSE forgotten
    /\ UNCHANGED <<connect, standing, changes, notices, copy, actions, newest, overtaken,
                   missed, settings>>

\* webhooks.apply schedules reconcileAccount.
ScheduledAction(a) == {a}

\* account.updated.
Notice(n) ==
    LET a == Starts("reconcile", "PayoutSettings", n)
    IN /\ notices[n] > 0 /\ Cardinality(actions) < MaxActions /\ a \notin actions
       /\ notices' = [notices EXCEPT ![n] = @ - 1]
       /\ actions' = actions \cup ScheduledAction(a)
       /\ UNCHANGED <<stripeVars, copy, newest, overtaken, missed, forgotten, settings>>

-----------------------------------------------------------------------------
(* payouts.ts.                                                             *)

Becomes(a, b) == actions' = (actions \ {a}) \cup {b}

\* creatorForAccount: the creator whose row names the account of an event, and creator:
\* the row, if there is one, says which account to ask for.
Finds(a) == copy.of # 0 /\ (a.op = "reconcile" => copy.of = a.of)

\* A reconciliation that finds none has nothing to do.
Find(a) ==
    /\ a.phase = "find"
    /\ IF Finds(a)
       THEN Becomes(a, [a EXCEPT !.of = copy.of,
                                 !.phase = IF a.op = "session" THEN "done" ELSE "account"])
       ELSE Becomes(a, [a EXCEPT !.phase = IF a.op = "session" THEN "create" ELSE "none"])
    /\ missed' = (missed \/ (a.op = "reconcile" /\ copy.of = 0))
    /\ UNCHANGED <<stripeVars, notices, copy, newest, overtaken, forgotten, settings>>

\* ensureAccount asks for an account under the creator's key; Stripe repeats its first
\* answer as long as it knows the key.
MakesAccount(n) ==
    IF repeats # 0 THEN n = repeats /\ UNCHANGED <<connect, repeats>>
    ELSE n = connect + 1 /\ n <= MaxAccounts /\ connect' = n /\ repeats' = n

CreateAccount(a, n) ==
    /\ a.phase = "create"
    /\ MakesAccount(n)
    /\ Becomes(a, [a EXCEPT !.phase = "save", !.of = n])
    /\ UNCHANGED <<standing, changes, notices, copy, newest, overtaken, missed, forgotten,
                   settings>>

\* readAccount, in two requests.
ReadAccount(a) ==
    /\ a.phase = "account"
    /\ Becomes(a, [a EXCEPT !.phase = "banks", !.got.ready = standing[a.of].ready,
                            !.at = changes[a.of]])
    /\ UNCHANGED <<stripeVars, notices, copy, newest, overtaken, missed, forgotten, settings>>

ReadBanks(a) ==
    /\ a.phase = "banks"
    /\ Becomes(a, [a EXCEPT !.phase = "save", !.got.bank = standing[a.of].bank])
    /\ UNCHANGED <<stripeVars, notices, copy, newest, overtaken, missed, forgotten, settings>>

\* Fault: the last account is kept.
AdoptsAny(n) == TRUE

\* saveAccount: "A creator keeps their first account; a different id is never adopted."
Adopts(n) == copy.of \in {0, n}

\* It replaces the row.  The action goes on with its own account either way.
Save(a) ==
    /\ a.phase = "save"
    /\ IF Adopts(a.of)
       THEN /\ copy' = [of |-> a.of, got |-> a.got]
            /\ newest' = IF a.at > newest THEN a.at ELSE newest
            /\ overtaken' = (a.at < newest)
            /\ missed' = (missed /\ a.at # changes[a.of])
       ELSE UNCHANGED <<copy, newest, overtaken, missed>>
    /\ Becomes(a, [a EXCEPT !.phase = "done"])
    /\ UNCHANGED <<stripeVars, notices, forgotten, settings>>

\* A request to Stripe fails, or the action dies: PAYOUT_PROVIDER_ERROR for the page; a
\* reconciliation is not tried again.  An account may have been made, and the last request
\* of a session is the session itself.
Fails(a) ==
    /\ \/ a.phase \in {"create", "account", "banks", "save"}
       \/ a.op = "session" /\ a.phase = "done"
    /\ Becomes(a, [a EXCEPT !.phase = "failed"])
    /\ missed' = (missed \/ a.op = "reconcile")
    /\ UNCHANGED <<stripeVars, notices, copy, newest, overtaken, forgotten, settings>>

-----------------------------------------------------------------------------
(* PayoutSettings.tsx.                                                     *)

\* usePayoutStatus, shared by the components; one request at a time.
Refetch ==
    /\ Cardinality(actions) < MaxActions
    /\ \A a \in actions : a.op # "status"
    /\ actions' = actions \cup {Starts("status", "PayoutSettings", 0)}
    /\ UNCHANGED <<stripeVars, notices, copy, newest, overtaken, missed, forgotten, settings>>

\* statusFor what the action has just read.  A failed refetch keeps what was there.
StatusOf(a) == CASE a.phase = "failed" -> IF settings.status = "pending" THEN "error"
                                          ELSE settings.status
                 [] a.phase = "none" -> "none"
                 [] a.phase = "done" -> IF a.got.ready /\ a.got.bank THEN "ready" ELSE "started"

\* The embedded setup, and the buttons that ask for a session.
ShowsSetup == settings.session["PayoutSettings"] = "open"
Offers == (IF ~ShowsSetup /\ settings.status \in {"none", "started", "error"}
           THEN {"SetupPrompt"} ELSE {})
          \cup (IF settings.status \in {"started", "ready"}
                   /\ settings.session["BalanceCard"] # "open"
                THEN {"BalanceCard"} ELSE {})

\* "Set up payouts", "Continue setup" or "Manage bank account".
Press(c) ==
    /\ c \in Offers /\ settings.session[c] # "pending"
    /\ Cardinality(actions) < MaxActions
    /\ actions' = actions \cup {Starts("session", c, 0)}
    /\ settings' = [settings EXCEPT !.session[c] = "pending"]
    /\ UNCHANGED <<stripeVars, notices, copy, newest, overtaken, missed, forgotten>>

\* The same in another tab, which has a status of its own; only the request that
\* finds no account matters.
PressElsewhere ==
    /\ copy.of = 0 /\ Cardinality(actions) < MaxActions
    /\ \A a \in actions : a.by # "elsewhere"
    /\ actions' = actions \cup {Starts("session", "elsewhere", 0)}
    /\ UNCHANGED <<stripeVars, notices, copy, newest, overtaken, missed, forgotten, settings>>

\* The page hears of the status, or of the session its component asked for.
Returned(a) ==
    /\ a.phase \in {"none", "done", "failed"}
    /\ actions' = actions \ {a}
    /\ settings' = CASE a.op = "status" -> [settings EXCEPT !.status = StatusOf(a)]
                     [] a.op = "session" /\ a.by \in Components ->
                            [settings EXCEPT !.session[a.by] =
                                IF a.phase = "done" THEN "open" ELSE "error"]
                     [] OTHER -> settings
    /\ UNCHANGED <<stripeVars, notices, copy, newest, overtaken, missed, forgotten>>

-----------------------------------------------------------------------------
ActionStep(a) ==
    \/ Find(a) \/ ReadAccount(a) \/ ReadBanks(a) \/ Save(a) \/ Returned(a)
    \/ \E n \in StripeAccounts : CreateAccount(a, n)

AccountNext ==
    \/ \E n \in StripeAccounts : Notice(n) \/ \E new \in Account : AccountChanges(n, new)
    \/ KeyForgotten \/ Refetch \/ PressElsewhere
    \/ \E c \in Components : Press(c)
    \/ \E a \in actions : ActionStep(a) \/ Fails(a)

AccountSpec == AccountInit /\ [][AccountNext]_accountVars

-----------------------------------------------------------------------------
(* Properties.                                                             *)

AccountTypeOK ==
    /\ {connect, repeats} \subseteq 0..MaxAccounts
    /\ standing \in [StripeAccounts -> Account]
    /\ changes \in [StripeAccounts -> 0..MaxChanges]
    /\ notices \in [StripeAccounts -> 0..MaxChanges]
    /\ copy \in [of : 0..MaxAccounts, got : Account]
    /\ actions \subseteq Action /\ newest \in 0..MaxChanges
    /\ forgotten \in {"never", "between", "during"}
    /\ settings.status \in {"pending", "none", "started", "ready", "error"}

\* docs/delivery-plan.md: "repeated onboarding requests reuse one connected account",
\* from whichever buttons and however many at a time: a second one is made only after
\* Stripe has forgotten the key of the first before a row named it.  Whatever an action
\* has found or saved, the row goes on naming; and a session is for the row's account,
\* unless the key was forgotten while a request that found no account was under way.
OneStripeAccount ==
    /\ forgotten = "never" => connect <= 1
    /\ \A a \in actions :
        \/ a.op \in {"status", "reconcile"} /\ a.phase \in {"account", "banks", "save", "done"}
        \/ a.op = "session" /\ a.phase = "done" /\ forgotten # "during"
        => a.of = copy.of

\* When everything is quiet the copy says what Stripe says, although the account and
\* its banks are read one after the other while they change.  Two things may delay it
\* until the next read is saved: a slow action that read before the newest change and
\* saved after an action that had read it, and an event that came before there was a
\* row or whose action failed.
SettledAccountIsCurrent ==
    (actions = {} /\ copy.of # 0 /\ notices[copy.of] = 0 /\ ~missed /\ ~overtaken)
        => copy.got = standing[copy.of]

\* docs/payments.md: "The dashboard creates a short-lived Stripe Account Session for
\* the signed-in creator and renders Connect embedded onboarding inside Bling."
SessionOpensSetup ==
    (\E c \in Components : settings.session[c] = "open") => ShowsSetup
=============================================================================
