----------------------------- MODULE MCAccounts -----------------------------
(***************************************************************************)
(* What administrators and accounts change, on small instances: a recharge *)
(* order with three notifications, an invite code of one use with two      *)
(* registrations, a redemption code that three users redeem, and the route *)
(* index under changes. They share no state; a behaviour follows one of    *)
(* them, chosen at its start, while the others rest.                       *)
(***************************************************************************)
EXTENDS RechargeOrder, InviteCodes, Redemption, RouteIndex

CONSTANTS p1, p2, p3, e1, c1, c2

BothRoles == {"master", "replica"}
OneEndpoint == {e1}
TwoChanges == {c1, c2}
Two == {p1, p2}
Three == {p1, p2, p3}
EveryTrouble == AllTroubles
NoTrouble == {"none"}
EverySetting == AllSettings
EveryScenario == AllScenarios

VARIABLE active

AnyOf(S) == CHOOSE x \in S : TRUE

Init ==
  /\ OrderInit /\ InviteInit /\ RedemptionInit /\ RouteInit
  /\ active \in {"order", "invite", "coupon", "route"}
  /\ active # "order" => trouble = AnyOf(Troubles)
  /\ active # "invite" => setting = AnyOf(Settings)
  /\ active # "coupon" => scenario = AnyOf(Scenarios)
  /\ active # "route" => role = "master"

Next ==
  /\ UNCHANGED active
  /\ \/ active = "order" /\ OrderNext /\ UNCHANGED <<inviteVars, redemptionVars, routeVars>>
     \/ active = "invite" /\ InviteNext /\ UNCHANGED <<orderVars, redemptionVars, routeVars>>
     \/ active = "coupon" /\ RedemptionNext /\ UNCHANGED <<orderVars, inviteVars, routeVars>>
     \/ active = "route" /\ RouteNext /\ UNCHANGED <<orderVars, inviteVars, redemptionVars>>

(* The fair steps are disabled in a part that rests. *)
Spec ==
  /\ Init /\ [][Next]_<<active, orderVars, inviteVars, redemptionVars, routeVars>>
  /\ OrderFairness /\ InviteFairness /\ RouteFairness

(* A payment notification and a registration get their locks and end. *)
CallsEnd == CallbackEnds /\ SignupEnds
=============================================================================
