------------------------------ MODULE MCPages ------------------------------
(***************************************************************************)
(* What people have in front of them, and what reaches them there: the     *)
(* realtime hub's rooms, the emails of a show that goes live, and the      *)
(* pages: the caller's, the studio with its microphone check, payout       *)
(* account, earnings and cards, signing in, and following.  They share     *)
(* nothing they change, so a behaviour follows one of them: the scene, and *)
(* the others stay as they are.                                            *)
(***************************************************************************)
EXTENDS RealtimeHub, LiveAlerts, CallerPage, Studio, MicCheck, SettingsPages,
        Identity, FollowCache, TLC

CONSTANTS k1, k2, k3, viewer, u1, u2, u3

VARIABLE scene

\* The room of a show's public events, which are for everybody in it.
ThreeSockets == {k1, k2, k3}
OneRole == {viewer}
RoleOfSocket == [k \in ThreeSockets |-> viewer]

ThreeReaders == {u1, u2, u3}

\* Two keys for one tier, one for the other.
KeysOfTwoTiers == <<"short", "short", "long">>

\* The query's scan stops on its own day, within the month, or within the year.
SomeStops == {0, 10, 200}

\* Another tab on a hotline asks for a session, too.
TwoTabs == {"this", "other"}
TabOfAsker == [a \in Askers |-> IF a = "elsewhere" THEN "other" ELSE "this"]

\* Signing in with a password is looked at in one tab, and the two tabs on their hotline.
OtherTabRests == asker'["elsewhere"] = "idle" /\ session'["other"] = session["other"]

pageVars == <<scene, hubVars, alertVars, callerVars, studioVars, micVars, accountVars,
              chartVars, cardVars, signInVars, resetVars, followVars>>

MCInit ==
    /\ HubInit /\ AlertsInit /\ CallerInit /\ StudioInit /\ MicInit
    /\ AccountInit /\ ChartInit /\ CardsInit /\ SignInInit /\ ResetInit
    /\ FollowInit
    /\ scene \in {"hub", "alerts", "caller", "studio", "mic", "account", "chart",
                  "cards", "signin", "tabs", "reset", "follow"}
    /\ scene # "reset" => known
    /\ scene # "chart" => /\ today.day = FirstDay(FirstMonth)
                          /\ chart.back = today.day
    /\ scene # "follow" => followed = {} /\ route = "directory"
    /\ scene # "mic" => storage = "kept" /\ stored = NoDevice

MCNext ==
    /\ UNCHANGED scene
    /\ \/ /\ scene = "hub" /\ HubNext
          /\ UNCHANGED <<alertVars, callerVars, studioVars, micVars, accountVars,
                         chartVars, cardVars, signInVars, resetVars, followVars>>
       \/ /\ scene = "alerts" /\ AlertsNext
          /\ UNCHANGED <<hubVars, callerVars, studioVars, micVars, accountVars,
                         chartVars, cardVars, signInVars, resetVars, followVars>>
       \/ /\ scene = "caller" /\ CallerNext
          /\ UNCHANGED <<hubVars, alertVars, studioVars, micVars, accountVars,
                         chartVars, cardVars, signInVars, resetVars, followVars>>
       \/ /\ scene = "studio" /\ StudioNext
          /\ UNCHANGED <<hubVars, alertVars, callerVars, micVars, accountVars,
                         chartVars, cardVars, signInVars, resetVars, followVars>>
       \/ /\ scene = "mic" /\ MicNext
          /\ UNCHANGED <<hubVars, alertVars, callerVars, studioVars, accountVars,
                         chartVars, cardVars, signInVars, resetVars, followVars>>
       \/ /\ scene = "account" /\ AccountNext
          /\ UNCHANGED <<hubVars, alertVars, callerVars, studioVars, micVars, chartVars,
                         cardVars, signInVars, resetVars, followVars>>
       \/ /\ scene = "chart" /\ ChartNext
          /\ UNCHANGED <<hubVars, alertVars, callerVars, studioVars, micVars,
                         accountVars, cardVars, signInVars, resetVars, followVars>>
       \/ /\ scene = "cards" /\ CardsNext
          /\ UNCHANGED <<hubVars, alertVars, callerVars, studioVars, micVars,
                         accountVars, chartVars, signInVars, resetVars, followVars>>
       \/ /\ scene \in {"signin", "tabs"} /\ SignInNext
          /\ IF scene = "tabs" THEN screen' = "hotline" ELSE OtherTabRests
          /\ UNCHANGED <<hubVars, alertVars, callerVars, studioVars, micVars,
                         accountVars, chartVars, cardVars, resetVars, followVars>>
       \/ /\ scene = "reset" /\ ResetNext
          /\ UNCHANGED <<hubVars, alertVars, callerVars, studioVars, micVars,
                         accountVars, chartVars, cardVars, signInVars, followVars>>
       \/ /\ scene = "follow" /\ FollowNext
          /\ UNCHANGED <<hubVars, alertVars, callerVars, studioVars, micVars,
                         accountVars, chartVars, cardVars, signInVars, resetVars>>

(* What tells two states apart: only the scene, since the others stay as they were. *)

\* The sockets are alike: a state of the hub is how many of them are where.  What the
\* subscription of a room off the map holds is thrown away by Broadcast and by
\* CloseSubscription, and such a room is never on the map again.
SocketView(c) ==
    <<handler[c], room = c, room # NoRoom /\ c \in clients[room], channel[c],
      IF c \in toClose THEN <<>> ELSE arriving[c], buffer[c], c \in stopped,
      c \in toClose, owed[c]>>
HubView == LET of == [c \in Connections |-> SocketView(c)]
           IN <<sent, [v \in {of[c] : c \in Connections} |->
                          Cardinality({c \in Connections : of[c] = v})]>>

\* The caller's page: of a payment that is over only how it ended matters, of a call only
\* one that waits for its payment names it, of an entry that was left not which payment
\* it had, of `paying` nothing once its answer has come, of an answer that nobody hears
\* not what it says, and once the show is over the forms and their keys are gone for good.
HoldView(h) == IF h.status \in {"CAPTURED", "CANCELED", "FAILED"}
               THEN <<h.status, h.intent, h.queued, h.spare>> ELSE h
TalkView(talk) == IF talk.status = "PAYMENT_PENDING" THEN talk ELSE talk.status
AskView(a) == IF ~a.heard /\ a.phase = "done" THEN [a EXCEPT !.phase = "failed"] ELSE a
Paying == IF page.awaiting = "confirm" THEN page.paying ELSE 0
PageView == IF hotline.status = "LIVE" THEN [page EXCEPT !.paying = Paying]
            ELSE <<page.awaiting, page.leaving, page.card # 0, Paying>>
CallerView ==
    <<hotline, IF entry.status = "LEFT" THEN "LEFT" ELSE entry,
      [n \in DOMAIN talks |-> TalkView(talks[n])],
      [k \in PayKeys |-> HoldView(hold[k])], declines, releasing, {AskView(a) : a \in asks},
      PageView, errors>>

\* The two tabs are alike: a state of the studio is what each of them sees of it, with
\* which tiers it saved itself.  The opening and the tiers of a show that is live or over
\* are not looked at again.
ShowView(show) == IF show.status = "CREATED" THEN <<show.at, show.tiers.id, show.tiers.price>>
                  ELSE <<show.status>>
FromTab(t) == <<tab[t].n, tab[t].edit, tab[t].busy, tab[t].ready, ShowView(tab[t].seen),
                {n \in With("CREATED") : shows[n].tiers.by = t}>>
StudioView == <<[n \in DOMAIN shows |-> ShowView(shows[n])], profile, payable, saves,
                {FromTab(t) : t \in Tabs}>>

\* Of the page only what it offers and asks for decides what comes next, and of an action
\* of the page that has come to its end, what it tells the page.
Told(a) ==
    CASE a.op # "reconcile" /\ a.phase \in {"none", "failed"} ->
            [a EXCEPT !.of = 0, !.got = NewAccount, !.at = 0]
      [] a.op # "reconcile" /\ a.phase = "done" -> [a EXCEPT !.at = 0]
      [] OTHER -> a
AccountView ==
    <<stripeVars, notices, copy, {Told(a) : a \in actions}, newest, overtaken, missed,
      forgotten, {c \in Components : settings.session[c] = "pending"},
      settings.session["BalanceCard"] = "open",
      IF settings.status = "error" THEN "none" ELSE settings.status>>

\* Who has asked for a form has no customer yet, and once there is a row only a request
\* that found none before asks Stripe to make one.
SetupView(p) == IF setup[p].phase \in {"none", "find"} THEN setup[p].phase ELSE setup[p]
Makes == row = 0 \/ \E p \in Pages : setup[p].phase = "create"
CardsView == <<IF Makes THEN <<customers, keyed>> ELSE <<>>, row, owner,
               [p \in Pages |-> SetupView(p)], methods, removing, failures, unseen>>

\* The two creators are alike, and of a change only one that is under way names its own.
CreatorView(c) ==
    <<c \in followed, [l \in Lists |-> <<c \in list[l], c \in fetch[l].read>>],
      IF change.at \in {"sent", "done"} THEN c = change.creator ELSE FALSE,
      [l \in Lists |-> c \in change.before[l]]>>
FollowView == <<[l \in Lists |-> <<fetch[l].at, fetch[l].sound>>], invalid, route,
                change.at, change.to, presses, doubted, {CreatorView(c) : c \in Creators}>>

SceneView ==
    <<scene,
      CASE scene = "hub" -> HubView
        [] scene = "alerts" -> alertVars
        [] scene = "caller" -> CallerView
        [] scene = "studio" -> StudioView
        [] scene = "mic" -> micVars
        [] scene = "account" -> AccountView
        [] scene = "chart" -> chartVars
        [] scene = "cards" -> CardsView
        [] scene \in {"signin", "tabs"} -> signInVars
        [] scene = "reset" -> resetVars
        [] scene = "follow" -> FollowView>>

MCSpec == MCInit /\ [][MCNext]_pageVars
=============================================================================
