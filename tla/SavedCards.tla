----------------------------- MODULE SavedCards -----------------------------
(***************************************************************************)
(* Saved cards: paymentMethods.ts, PaymentMethodsCard of                   *)
(* PaymentSettings.tsx and the hooks between them.                         *)
(*                                                                         *)
(* Cards live at Stripe, with the customer that the paymentProfiles row    *)
(* names.  The row is written after the customer was made, so two requests *)
(* (two tabs, or a tab and a paid call) may each make one; Stripe repeats  *)
(* its answer to a known key, but forgets keys after a day.  The page      *)
(* keeps the list it last fetched.                                         *)
(***************************************************************************)
EXTENDS Integers, FiniteSets

CONSTANTS
    Pages,         \* pages of the user that may save a card
    Here,          \* the one whose list is modelled
    Cards,         \* cards
    MaxCustomers,  \* bound: customers made at Stripe
    MaxFailures    \* bound: requests that fail

ASSUME SavedCardsAssumption == Here \in Pages /\ {MaxCustomers, MaxFailures} \subseteq Nat

VARIABLES
    customers,  \* customers made at Stripe so far
    keyed,      \* the customer Stripe remembers for the user's key (0: none)
    row,        \* paymentProfiles: stripeCustomerId (0: none)
    owner,      \* the customer each saved card is attached to (0: none)
    setup,      \* by page: the setup action, then the form it opened
    methods,    \* the query: its data, and its fetch ("none", "asked" or "read")
    removing,   \* the dialog: the card it asks about, and how far remove has come
    failures,
    unseen      \* a card came or went without this page being told

cardVars == <<customers, keyed, row, owner, setup, methods, removing, failures, unseen>>

NoCard == "no card"
Phases == {"none", "find", "create", "save", "secrets", "open", "confirmed"}

CardsInit ==
    /\ customers = 0 /\ keyed = 0 /\ row = 0
    /\ owner = [c \in Cards |-> 0]
    /\ setup = [p \in Pages |-> [phase |-> "none", customer |-> 0]]
    /\ methods = [data |-> {}, fetch |-> "asked", got |-> {}]
    /\ removing = [card |-> NoCard, phase |-> "none", target |-> NoCard]
    /\ failures = 0 /\ unseen = FALSE

-----------------------------------------------------------------------------
(* Listing.                                                                *)

\* listMethods: the cards of the row's customer.
ListMethods == IF row = 0 THEN {} ELSE {c \in Cards : owner[c] = row}

\* invalidateQueries: the answer to a fetch that is under way is dropped.
Invalidated(m) == [m EXCEPT !.fetch = "asked", !.got = {}]

\* The query is stale (a fetch that fails is repeated): the page has the focus again, or was mounted.
Refetches ==
    /\ methods.fetch = "none"
    /\ methods' = Invalidated(methods)
    /\ unseen' = FALSE
    /\ UNCHANGED <<customers, keyed, row, owner, setup, removing, failures>>

FetchReads ==
    /\ methods.fetch = "asked"
    /\ methods' = [methods EXCEPT !.fetch = "read", !.got = ListMethods]
    /\ UNCHANGED <<customers, keyed, row, owner, setup, removing, failures, unseen>>

FetchEnds ==
    /\ methods.fetch = "read"
    /\ methods' = [data |-> methods.got, fetch |-> "none", got |-> {}]
    /\ UNCHANGED <<customers, keyed, row, owner, setup, removing, failures, unseen>>

-----------------------------------------------------------------------------
(* Adding a card.                                                          *)

OffersAdd(p) == setup[p].phase = "none"

To(p, phase) == setup' = [setup EXCEPT ![p].phase = phase]

\* "Add card": paymentMethods.setup.
AddCard(p) ==
    /\ OffersAdd(p)
    /\ To(p, "find")
    /\ UNCHANGED <<customers, keyed, row, owner, methods, removing, failures, unseen>>

\* ensureCustomer.
FindCustomer(p) ==
    /\ setup[p].phase = "find"
    /\ setup' = [setup EXCEPT ![p] = IF row = 0 THEN [phase |-> "create", customer |-> 0]
                                     ELSE [phase |-> "secrets", customer |-> row]]
    /\ UNCHANGED <<customers, keyed, row, owner, methods, removing, failures, unseen>>

CreateCustomer(p) ==
    /\ setup[p].phase = "create"
    /\ keyed # 0 \/ customers < MaxCustomers
    /\ LET c == IF keyed # 0 THEN keyed ELSE customers + 1
       IN /\ customers' = IF keyed # 0 THEN customers ELSE c
          /\ keyed' = c
          /\ setup' = [setup EXCEPT ![p] = [phase |-> "save", customer |-> c]]
    /\ UNCHANGED <<row, owner, methods, removing, failures, unseen>>

\* saveProfile: "Keeps the first customer if two requests raced to create one."
Keeps(c) == IF row # 0 THEN row ELSE c

SaveProfile(p) ==
    /\ setup[p].phase = "save"
    /\ row' = Keeps(setup[p].customer)
    /\ setup' = [setup EXCEPT ![p] = [phase |-> "secrets", customer |-> row']]
    /\ UNCHANGED <<customers, keyed, owner, methods, removing, failures, unseen>>

\* The setup intent and the customer session; the form opens.
OpenForm(p) ==
    /\ setup[p].phase = "secrets"
    /\ To(p, "open")
    /\ UNCHANGED <<customers, keyed, row, owner, methods, removing, failures, unseen>>

\* Stripe cannot be reached, or the action dies between two steps.
SetupFails(p) ==
    /\ setup[p].phase \in {"create", "save", "secrets"} /\ failures < MaxFailures
    /\ failures' = failures + 1
    /\ To(p, "none")
    /\ UNCHANGED <<customers, keyed, row, owner, methods, removing, unseen>>

CancelForm(p) ==
    /\ setup[p].phase = "open"
    /\ To(p, "none")
    /\ UNCHANGED <<customers, keyed, row, owner, methods, removing, failures, unseen>>

\* confirmSetup attaches the card to the customer of the intent.
ConfirmSetup(p, c) ==
    /\ setup[p].phase = "open" /\ owner[c] = 0
    /\ owner' = [owner EXCEPT ![c] = setup[p].customer]
    /\ To(p, "confirmed")
    /\ unseen' = (unseen \/ p # Here)
    /\ UNCHANGED <<customers, keyed, row, methods, removing, failures>>

\* saved(): the form goes and the list is fetched again.  Another page refreshes its own.
Saved(p) ==
    /\ setup[p].phase = "confirmed"
    /\ To(p, "none")
    /\ methods' = IF p = Here THEN Invalidated(methods) ELSE methods
    /\ UNCHANGED <<customers, keyed, row, owner, removing, failures, unseen>>

-----------------------------------------------------------------------------
(* Removing a card.                                                        *)

\* "Remove" opens the dialog.  The list is hidden while the form is open.
AskRemove(c) ==
    /\ setup[Here].phase \notin {"open", "confirmed"}
    /\ removing.card = NoCard /\ c \in methods.data
    /\ removing' = [removing EXCEPT !.card = c]
    /\ UNCHANGED <<customers, keyed, row, owner, setup, methods, failures, unseen>>

\* The dialog is closed; a removal that has begun goes on.
CloseDialog ==
    /\ removing.card # NoCard
    /\ removing' = [removing EXCEPT !.card = NoCard]
    /\ UNCHANGED <<customers, keyed, row, owner, setup, methods, failures, unseen>>

\* "Remove card": paymentMethods.remove.
RemoveCard ==
    /\ removing.card # NoCard /\ removing.phase = "none"
    /\ removing' = [removing EXCEPT !.phase = "check", !.target = removing.card]
    /\ UNCHANGED <<customers, keyed, row, owner, setup, methods, failures, unseen>>

Settled == removing' = [card |-> NoCard, phase |-> "none", target |-> NoCard]

\* Only the user's own saved cards can be removed; the page hears PAYMENT_METHOD_NOT_FOUND
\* of one that is gone already, and keeps its list.
CheckOwn ==
    /\ removing.phase = "check"
    /\ IF removing.target \in ListMethods
       THEN removing' = [removing EXCEPT !.phase = "detach"]
       ELSE Settled
    /\ UNCHANGED <<customers, keyed, row, owner, setup, methods, failures, unseen>>

Detach ==
    /\ removing.phase = "detach"
    /\ owner' = [owner EXCEPT ![removing.target] = 0]
    /\ removing' = [removing EXCEPT !.phase = "done"]
    /\ UNCHANGED <<customers, keyed, row, setup, methods, failures, unseen>>

\* onSuccess and onSettled.
Removed ==
    /\ removing.phase = "done"
    /\ Settled
    /\ methods' = Invalidated(methods)
    /\ UNCHANGED <<customers, keyed, row, owner, setup, failures, unseen>>

\* The request fails, and the card may be gone all the same.
RemoveFails ==
    /\ removing.phase \in {"check", "detach", "done"} /\ failures < MaxFailures
    /\ failures' = failures + 1
    /\ Settled
    /\ unseen' = (unseen \/ removing.phase = "done")
    /\ UNCHANGED <<customers, keyed, row, owner, setup, methods>>

\* Another page removes a card.
RemovedElsewhere(c) ==
    /\ c \in ListMethods
    /\ owner' = [owner EXCEPT ![c] = 0]
    /\ unseen' = TRUE
    /\ UNCHANGED <<customers, keyed, row, setup, methods, removing, failures>>

\* Stripe forgets an idempotency key.
KeyExpires ==
    /\ keyed # 0
    /\ keyed' = 0
    /\ UNCHANGED <<customers, row, owner, setup, methods, removing, failures, unseen>>

-----------------------------------------------------------------------------
CardsNext ==
    \/ Refetches \/ FetchReads \/ FetchEnds \/ CloseDialog \/ RemoveCard \/ CheckOwn \/ Detach
    \/ Removed \/ RemoveFails \/ KeyExpires
    \/ \E p \in Pages :
        \/ AddCard(p) \/ FindCustomer(p) \/ CreateCustomer(p) \/ SaveProfile(p)
        \/ OpenForm(p) \/ SetupFails(p) \/ CancelForm(p) \/ Saved(p)
        \/ \E c \in Cards : ConfirmSetup(p, c)
    \/ \E c \in Cards : AskRemove(c) \/ RemovedElsewhere(c)

CardsSpec == CardsInit /\ [][CardsNext]_cardVars

-----------------------------------------------------------------------------
(* Properties.                                                             *)

CardsTypeOK ==
    /\ customers \in 0..MaxCustomers
    /\ {keyed, row} \subseteq 0..MaxCustomers
    /\ owner \in [Cards -> 0..MaxCustomers]
    /\ setup \in [Pages -> [phase : Phases, customer : 0..MaxCustomers]]
    /\ methods \in [data : SUBSET Cards, fetch : {"none", "asked", "read"}, got : SUBSET Cards]
    /\ removing.card \in Cards \cup {NoCard}

\* A card that was saved is one the user can see and remove: it is attached to the
\* customer the row names, although several requests may have made customers and
\* Stripe has forgotten the key of the first.
SavedCardsAreFound == \A c \in Cards : owner[c] # 0 => owner[c] = row

\* When nothing is under way the page lists the cards there are: the answer to a fetch
\* that read them before one was saved or removed here never comes to stay.
ListIsCurrent ==
    (methods.fetch = "none" /\ setup[Here].phase # "confirmed"
     /\ removing.phase # "done" /\ ~unseen) => methods.data = ListMethods
=============================================================================
