---- MODULE PhoneRouting ----
(***************************************************************************)
(* One phone number: the campaign its row in the database names, and the   *)
(* route in Redis that a call is sent by (cache::routing), which the API   *)
(* writes after the row.  A route has no expiry.                           *)
(***************************************************************************)
EXTENDS Naturals

CONSTANTS
  Clerks,      \* requests to the API about the number
  Campaigns,
  None,        \* no campaign, no route
  Serial       \* whether one request is answered before the next one is made

ASSUME NoneAssumption == None \notin Campaigns

VARIABLES
  existing,    \* the campaigns that have a row
  assigned,    \* the number's campaign in its row
  provisioned, \* whether there is a row
  route,       \* the campaign in Redis
  writing,     \* of each request: idle, answered, or the route it is about to write
  routeLost    \* whether the last write of the route failed

routingVars == <<existing, assigned, provisioned, route, writing, routeLost>>

Idle == [pending |-> FALSE, route |-> None]
Pending == {a \in Clerks : writing[a].pending}

RoutingTypeOK ==
  /\ existing \subseteq Campaigns
  /\ assigned \in Campaigns \cup {None}
  /\ provisioned \in BOOLEAN
  /\ route \in Campaigns \cup {None}
  /\ writing \in [Clerks -> [pending : BOOLEAN, route : Campaigns \cup {None}]]
  /\ routeLost \in BOOLEAN

\* provision_phone_number: a row without a campaign, and no route.
RoutingInit ==
  /\ existing = Campaigns
  /\ assigned = None /\ provisioned = TRUE
  /\ route = None
  /\ writing = [a \in Clerks |-> Idle]
  /\ routeLost = FALSE

\* A row that is gone is NotFound, and nothing is written.
Begins(a, campaign) ==
  /\ provisioned
  /\ a \notin Pending
  /\ Serial => Pending = {}
  /\ writing' = [writing EXCEPT ![a] = [pending |-> TRUE, route |-> campaign]]

\* assign_campaign: the UPDATE, which the row's foreign key refuses for a campaign
\* that is not there,
Assign(a) ==
  /\ \E campaign \in existing : Begins(a, campaign) /\ assigned' = campaign
  /\ UNCHANGED <<existing, provisioned, route, routeLost>>

\* unassign_campaign: the UPDATE,
Unassign(a) ==
  /\ Begins(a, None)
  /\ assigned' = None
  /\ UNCHANGED <<existing, provisioned, route, routeLost>>

\* Mutant: the row is deleted, and its route is nobody's business.
DeleteNumberOnly(a) ==
  /\ provisioned /\ a \notin Pending
  /\ Serial => Pending = {}
  /\ assigned' = None /\ provisioned' = FALSE
  /\ UNCHANGED <<existing, route, writing, routeLost>>

\* delete_phone_number: the DELETE,
DeleteNumber(a) ==
  /\ Begins(a, None)
  /\ assigned' = None /\ provisioned' = FALSE
  /\ UNCHANGED <<existing, route, routeLost>>

\* and then set_route or del_route, whose failure is only logged.
WriteRoute(a) ==
  /\ a \in Pending
  /\ writing' = [writing EXCEPT ![a] = Idle]
  /\ \/ route' = writing[a].route /\ routeLost' = FALSE
     \/ routeLost' = TRUE /\ UNCHANGED route
  /\ UNCHANGED <<existing, assigned, provisioned>>

\* delete_campaign: the DELETE, by which the database takes the campaign out of the
\* number's row (ON DELETE SET NULL).  The number's route is left alone.
DeleteCampaign(campaign) ==
  /\ campaign \in existing
  /\ Serial => Pending = {}
  /\ existing' = existing \ {campaign}
  /\ assigned' = IF assigned = campaign THEN None ELSE assigned
  /\ UNCHANGED <<provisioned, route, writing, routeLost>>

RoutingNext ==
  \/ \E a \in Clerks : Assign(a) \/ Unassign(a) \/ DeleteNumber(a) \/ WriteRoute(a)
  \/ \E campaign \in Campaigns : DeleteCampaign(campaign)

\* get_route: the route, and nothing if Redis fails.
RouteRead(campaign) == campaign \in {route, None}

----
\* The number's campaign was deleted from under its route.
Dangling == provisioned /\ assigned = None /\ route \in Campaigns \ existing

\* With requests one at a time, whenever none is under way and the last write of the
\* route did not fail, calls are routed as the database says.  Only a number whose campaign
\* was deleted goes on to be routed to it; a deleted number is routed nowhere, and no
\* number to a campaign that exists and is not its own.
RouteFollowsRow == Pending = {} /\ ~routeLost => route = assigned \/ Dangling

====
