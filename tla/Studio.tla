------------------------------- MODULE Studio -------------------------------
(***************************************************************************)
(* A creator's studio: StudioOverview with ScheduleRow and                 *)
(* TierConfiguration, in two tabs, over shows.create, schedule, start and  *)
(* end and tiers.replace, and the public profile they keep in step.        *)
(*                                                                         *)
(* A tab shows what its subscriptions last delivered.  Convex delivers     *)
(* the results of all queries of a tab at one moment, and a mutation's     *)
(* promise resolves only when its writes have been delivered, so that a    *)
(* button is busy until its tab has seen what it did.                      *)
(*                                                                         *)
(* Of a tier configuration only matters whether a tier that is enabled has *)
(* a price.                                                                *)
(***************************************************************************)
EXTENDS Integers, Sequences, FiniteSets

CONSTANTS
    Tabs,       \* the creator's tabs
    Times,      \* openings that can be announced
    MaxShows,   \* bound: shows created
    MaxSaves    \* bound: tier configurations saved

ASSUME StudioAssumption == {MaxShows, MaxSaves} \subseteq Nat

VARIABLES
    shows,     \* shows with their showTiers, oldest first
    profile,   \* profiles row of the creator
    payable,   \* accountReady(payoutAccounts row)
    tab,       \* what each tab has and shows
    saves      \* configurations saved so far, which name the tiers' ids

studioVars == <<shows, profile, payable, tab, saves>>

Prices == {"free", "paid"}
Nobody == "nobody"

\* by: the tab that saved them.
TierSet == [id : 0..MaxSaves, price : Prices, by : Tabs \cup {Nobody}]
Standard == [id |-> 0, price |-> "free", by |-> Nobody]

Show == [status : {"CREATED", "LIVE", "ENDED"}, at : Times \cup {"unset"},
         tiers : TierSet]
Draft == [status |-> "CREATED", at |-> "unset", tiers |-> Standard]

Buttons == {"create", "schedule", "save", "start", "end"}

\* n: the current show (0: none), seen: as it was delivered; edit: unsaved changes
\* of the form; busy: buttons whose promise is open; ready: payouts.ready as last
\* fetched.
Tab == [n : 0..MaxShows, seen : Show, edit : Prices \cup {"unset"},
        busy : SUBSET Buttons, ready : BOOLEAN]

StudioInit ==
    /\ shows = <<>>
    /\ profile = [published |-> FALSE, live |-> 0, next |-> "unset"]
    /\ payable = FALSE
    /\ tab = [t \in Tabs |-> [n |-> 0, seen |-> Draft, edit |-> "unset",
                              busy |-> {}, ready |-> FALSE]]
    /\ saves = 0

-----------------------------------------------------------------------------
(* The queries.                                                            *)

With(status) == {n \in DOMAIN shows : shows[n].status = status}

\* shows.current: the live show, or else the newest draft.
Current == CASE With("LIVE") # {} -> CHOOSE n \in With("LIVE") : TRUE
             [] With("LIVE") = {} /\ With("CREATED") # {} ->
                    CHOOSE n \in With("CREATED") : \A m \in With("CREATED") : m <= n
             [] OTHER -> 0

\* profiles.get, upcoming: what the public page says of the creator.
Upcoming == IF profile.live # 0 THEN "unset" ELSE profile.next

\* A delivery.  The key of the form is made of the tiers' ids, so that it is
\* mounted anew, without the edits, when they change.
Deliver(t) ==
    LET new == IF Current = 0 THEN Draft ELSE shows[Current]
        same == tab[t].n = Current /\ tab[t].seen.tiers.id = new.tiers.id
                /\ new.status = "CREATED"
    IN /\ tab[t].n # Current \/ tab[t].seen # new \/ tab[t].busy # {}
       /\ tab' = [tab EXCEPT ![t] = [tab[t] EXCEPT !.n = Current, !.seen = new, !.busy = {},
                               !.edit = IF same THEN tab[t].edit ELSE "unset"]]
       /\ UNCHANGED <<shows, profile, payable, saves>>

\* usePayoutStatus.
FetchStatus(t) ==
    /\ tab[t].ready # payable
    /\ tab' = [tab EXCEPT ![t].ready = payable]
    /\ UNCHANGED <<shows, profile, payable, saves>>

\* payouts.ts saves a new projection of the account.
PayoutsChange ==
    /\ payable' = ~payable
    /\ UNCHANGED <<shows, profile, tab, saves>>

-----------------------------------------------------------------------------
(* What a tab offers.                                                      *)

Shows(t, status) == tab[t].n # 0 /\ tab[t].seen.status = status
Dirty(t) == tab[t].edit # "unset"
OnScreen(t) == IF Dirty(t) THEN tab[t].edit ELSE tab[t].seen.tiers.price

PaidWithoutPayouts(t) == OnScreen(t) = "paid" /\ ~tab[t].ready

\* Fault: Start does not mind edits.
OffersStartAlways(t) == Shows(t, "CREATED") /\ ~PaidWithoutPayouts(t)
OffersStart(t) == Shows(t, "CREATED") /\ ~Dirty(t) /\ ~PaidWithoutPayouts(t)

\* A button is disabled while its own mutation runs.
Pressable(t, button) == button \notin tab[t].busy
Busy(t, button) == tab' = [tab EXCEPT ![t].busy = @ \cup {button}]

\* A mutation that fails is answered at once; the others are heard with a delivery.
Refused == UNCHANGED <<shows, profile, saves, tab>>

-----------------------------------------------------------------------------
(* The mutations.                                                          *)

\* "Set up Hotline": shows.create and onShowCreated.
Create(t) ==
    /\ tab[t].n = 0 /\ Pressable(t, "create") /\ Len(shows) < MaxShows
    /\ shows' = Append(shows, Draft)
    /\ profile' = [profile EXCEPT !.published = TRUE]
    /\ Busy(t, "create")
    /\ UNCHANGED <<payable, saves>>

\* "Announce" and "Remove": shows.schedule and onShowScheduled.
Schedule(t, at) ==
    /\ Shows(t, "CREATED") /\ Pressable(t, "schedule")
    /\ at # tab[t].seen.at
    /\ IF shows[tab[t].n].status = "CREATED"
       THEN /\ shows' = [shows EXCEPT ![tab[t].n].at = at]
            /\ profile' = [profile EXCEPT !.next = at]
            /\ Busy(t, "schedule")
            /\ UNCHANGED saves
       ELSE Refused
    /\ UNCHANGED payable

\* The creator changes a price, or takes the change back.  A tier is made paid only
\* when payouts are ready.
Edit(t, price) ==
    /\ Shows(t, "CREATED")
    /\ price = "paid" => tab[t].ready
    /\ tab' = [tab EXCEPT ![t].edit = IF price = tab[t].seen.tiers.price THEN "unset" ELSE price]
    /\ UNCHANGED <<shows, profile, payable, saves>>

\* "Save tiers": tiers.replace puts new rows in the place of the old ones.
SaveTiers(t) ==
    /\ Shows(t, "CREATED") /\ Dirty(t) /\ Pressable(t, "save") /\ saves < MaxSaves
    /\ IF shows[tab[t].n].status = "CREATED"
       THEN /\ saves' = saves + 1
            /\ shows' = [shows EXCEPT ![tab[t].n].tiers =
                            [id |-> saves + 1, price |-> tab[t].edit, by |-> t]]
            /\ Busy(t, "save")
            /\ UNCHANGED profile
       ELSE Refused
    /\ UNCHANGED payable

\* A show that charges needs an account that can be paid.
CanCharge(n) == shows[n].tiers.price = "paid" => payable

\* Fault: starting does not look at other shows.
NeverLive(n) == TRUE
NoOtherLive(n) == With("LIVE") \ {n} = {}

\* onShowLive takes the announcement down.
NextWhenLive == "unset"

\* "Start Hotline": shows.start and onShowLive.
Start(t) ==
    LET n == tab[t].n
    IN /\ OffersStart(t) /\ Pressable(t, "start")
       /\ IF shows[n].status = "CREATED" /\ CanCharge(n) /\ NoOtherLive(n)
          THEN /\ shows' = [shows EXCEPT ![n].status = "LIVE"]
               /\ profile' = [published |-> TRUE, live |-> n, next |-> NextWhenLive]
               /\ Busy(t, "start")
               /\ UNCHANGED saves
          ELSE Refused
       /\ UNCHANGED payable

\* onShowEnded takes down only its own show.
LiveAfter(n) == IF profile.live = n THEN 0 ELSE profile.live

\* "End Hotline": shows.end and onShowEnded.
EndShow(t) ==
    LET n == tab[t].n
    IN /\ Shows(t, "LIVE") /\ Pressable(t, "end")
       /\ IF shows[n].status = "LIVE"
          THEN /\ shows' = [shows EXCEPT ![n].status = "ENDED"]
               /\ profile' = [profile EXCEPT !.live = LiveAfter(n)]
               /\ Busy(t, "end")
               /\ UNCHANGED saves
          ELSE Refused
       /\ UNCHANGED payable

-----------------------------------------------------------------------------
StudioNext ==
    \/ PayoutsChange
    \/ \E t \in Tabs :
        \/ Deliver(t) \/ FetchStatus(t) \/ Create(t) \/ SaveTiers(t) \/ Start(t) \/ EndShow(t)
        \/ \E at \in Times \cup {"unset"} : Schedule(t, at)
        \/ \E price \in Prices : Edit(t, price)

StudioSpec == StudioInit /\ [][StudioNext]_studioVars

-----------------------------------------------------------------------------
(* Properties.                                                             *)

StudioTypeOK ==
    /\ shows \in Seq(Show) /\ Len(shows) <= MaxShows
    /\ profile \in [published : BOOLEAN, live : 0..MaxShows, next : Times \cup {"unset"}]
    /\ payable \in BOOLEAN
    /\ tab \in [Tabs -> Tab]
    /\ saves \in 0..MaxSaves

\* However the tabs interleave over several drafts, the public profile is live for
\* exactly the show that is, of which there is at most one (shows.start: "One live
\* show per creator").
PublicPageIsTrue == With("LIVE") = {profile.live} \ {0}

\* An announced opening is that of a draft which can still open: never of a show that
\* is live or over, whichever draft was announced last (onShowScheduled: "Mirrors a
\* draft's announced opening onto the public profile").
AnnouncedCanOpen ==
    Upcoming # "unset" => \E n \in With("CREATED") : shows[n].at = Upcoming

Opens(n) == n \in With("CREATED") /\ shows'[n].status = "LIVE"
Starter(t) == "start" \in tab'[t].busy \ tab[t].busy

\* Another configuration has been saved than the one the tab has in front of it: by
\* another tab, or by itself while it waits for the answer.
SavedUnseen(t, n) ==
    /\ shows[n].tiers.id # tab[t].seen.tiers.id
    /\ shows[n].tiers.by # t \/ "save" \in tab[t].busy

\* A show goes live with the prices that are on the screen of the tab which starts
\* it, edits included, unless a save has reached the server that the tab has not heard
\* of (TierConfigurationForm: Start is disabled by unsaved edits, not by a save that
\* is under way, and shows.start is not told which tiers the creator saw).
StartsAsShown ==
    [][\A n \in DOMAIN shows, t \in Tabs : (Opens(n) /\ Starter(t)) =>
        shows[n].tiers.price = OnScreen(t) \/ SavedUnseen(t, n)]_studioVars

\* The public profile follows the creator's shows, whichever tab changes them
\* (onShowScheduled, onShowLive, onShowEnded of lib/social.ts).
PublicProfileIsSound ==
    /\ StudioTypeOK
    /\ PublicPageIsTrue
    /\ AnnouncedCanOpen
=============================================================================
