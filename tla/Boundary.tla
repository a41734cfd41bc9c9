------------------------------ MODULE Boundary ------------------------------
(***************************************************************************)
(* One request on its way through the checks of its handler.               *)
(* What can be wrong with it is wrong from its arrival, or, where it is a  *)
(* matter of the database, can become so and cease to be so between two    *)
(* checks: the session is revoked, the role loses its permissions, all of  *)
(* them or those that do more than look, the maintenance mode is switched  *)
(* on and off.  Every check reads the database anew and none holds a lock, *)
(* and the body is awaited after most of them: what a check has seen may   *)
(* no longer be so when the work is done.                                  *)
(***************************************************************************)
EXTENDS Naturals, FiniteSets, ServiceRoutes, LedgerRoutes

CONSTANT MaxWrong    \* things that are wrong at a time

VARIABLES route,     \* the handler the request is for
          at,        \* the number of its next check
          reply,    \* "NONE" while it is checked
          wrong,     \* what is wrong now
          always,    \* what has been wrong ever since the request arrived
          traces     \* what its checks have written

boundaryVars == <<route, at, reply, wrong, always, traces>>

Routes ==
    UNION {AccountingRoutes, AuthRoutes, CatalogRoutes, CustomersRoutes, HealthRoutes,
           InvoicesRoutes, NotificationsRoutes, PlatformRoutes, PurchasesRoutes,
           SubscriptionsRoutes, SuppliersRoutes, SupportRoutes, TreasuryRoutes}
-----------------------------------------------------------------------------
Sent == {"ORIGIN", "CSRF", "PARAMS", "TYPE", "KEY", "BODY", "SCHEMA", "LIMIT", "REPEATED",
         "UNAVAILABLE"}
\* LOOKING: the role has only permissions to look; NOTHING: it has none.
Role == {"LOOKING", "NOTHING"}
Stored == {"SESSION", "MAINTENANCE"} \cup Role

Conditions == Sent \cup Stored \cup {"MAINTENANCE_IF_SIGNED_IN", "NEVER"}
Viewing == {"Accounting.View", "Billing.View", "Catalog.View", "Customers.View",
            "Purchases.View", "Subscriptions.View", "Subscriptions.ViewRenewalWaivers",
            "Suppliers.View", "Support.View", "Support.ViewCommunications",
            "Support.ViewGlobalIndicators", "Support.ViewIndicators", "Treasury.ViewBanking",
            "Treasury.ViewCustomerCredits", "Treasury.ViewSupplierCredits",
            "Treasury.ViewSupplierPayments", "Platform.ViewAudit"}

\* The session is looked for first, then the permission among those of its user.
Denied(permission) ==
    \/ "NOTHING" \in wrong
    \/ "LOOKING" \in wrong /\ permission \notin Viewing
Blocked == "MAINTENANCE" \in wrong
Fails(check) ==
    CASE check = "NEVER" -> TRUE
      [] check = "MAINTENANCE_IF_SIGNED_IN" -> Blocked /\ "SESSION" \notin wrong
      [] check \in Sent \cup Stored -> check \in wrong
      [] OTHER -> "SESSION" \in wrong \/ Denied(check)

OfSession == {"SESSION", "MAINTENANCE_IF_SIGNED_IN"}
\* The last activity of a valid session, the audit events of refusals, and the bucket
\* of a rate limit, which counts what it lets pass too.
Written(check) ==
    UNION {IF "SESSION" \in wrong \/ check \in Conditions \ OfSession THEN {} ELSE {"ACTIVITY"},
           IF check \notin Conditions /\ "SESSION" \notin wrong /\ Denied(check)
           THEN {"ACCESS_DENIED"} ELSE {},
           IF check \in {"MAINTENANCE", "MAINTENANCE_IF_SIGNED_IN"} /\ Fails(check)
           THEN {"MAINTENANCE_MUTATION_BLOCKED"} ELSE {},
           IF check = "LIMIT" THEN {"BUCKET"} ELSE {}}
-----------------------------------------------------------------------------
BoundaryInit ==
    /\ route \in Routes
    /\ at = 1
    /\ reply = "NONE"
    /\ wrong \in {w \in SUBSET (Sent \cup Stored) : Cardinality(w) <= MaxWrong}
    /\ always = wrong
    /\ traces = {}

Checking == reply = "NONE" /\ at <= Len(route.checks)
Check == route.checks[at]

Pass ==
    /\ Checking /\ ~ Fails(Check)
    /\ at' = at + 1
    /\ traces' = traces \cup Written(Check)
    /\ UNCHANGED <<route, reply, wrong, always>>

TurnDown ==
    /\ Checking /\ Fails(Check)
    /\ reply' = "REFUSED"
    /\ traces' = traces \cup Written(Check)
    /\ UNCHANGED <<route, at, wrong, always>>

Work ==
    /\ reply = "NONE" /\ at > Len(route.checks)
    /\ reply' = "WORKED"
    /\ UNCHANGED <<route, at, wrong, always, traces>>

\* Another transaction takes away what a check looks for, one thing at a time.
Withdraw(f) ==
    /\ reply = "NONE" /\ f \in Stored \ wrong /\ Cardinality(wrong) < MaxWrong
    /\ wrong' = wrong \cup {f}
    /\ UNCHANGED <<route, at, reply, always, traces>>

\* Maintenance ends and permissions come back; a session that was revoked does not.
Regain(f) ==
    /\ reply = "NONE" /\ f \in wrong \cap (Stored \ {"SESSION"})
    /\ wrong' = wrong \ {f} /\ always' = always \ {f}
    /\ UNCHANGED <<route, at, reply, traces>>

BoundaryNext == Pass \/ TurnDown \/ Work \/ \E f \in Stored : Withdraw(f) \/ Regain(f)

BoundarySpec == BoundaryInit /\ [][BoundaryNext]_boundaryVars
-----------------------------------------------------------------------------
\* What the work of a handler takes, by what the handler does.
Required ==
    [WRITE    |-> {"ORIGIN", "CSRF", "KEY", "SESSION", "MAINTENANCE"} \cup Role,
     CONTROL  |-> {"ORIGIN", "CSRF", "KEY", "SESSION"} \cup Role,
     OWN      |-> {"ORIGIN", "CSRF", "KEY", "SESSION", "MAINTENANCE"},
     LEAVE    |-> {"ORIGIN", "CSRF", "KEY", "SESSION"},
     ENTER    |-> {"ORIGIN"},
     SHOW     |-> {"ORIGIN", "CSRF", "SESSION"} \cup Role,
     READ     |-> {"SESSION", "NOTHING"},
     OWN_READ |-> {"SESSION"},
     OPEN     |-> {}]
Posted == {"WRITE", "CONTROL", "OWN", "LEAVE", "SHOW"}

(***************************************************************************)
(* No handler forgets a check and none makes it too late: for each thing   *)
(* its work takes there was a moment, since the request arrived, at which  *)
(* it was so (a later one is not promised, nor one moment for all), and a  *)
(* request from another origin or without the token of its session leaves  *)
(* nothing in the database, not even the activity of that session, the     *)
(* audit of a refusal or a count against its user's rate limits.           *)
(***************************************************************************)
RequestsGuarded ==
    /\ reply = "WORKED" => always \cap Required[route.does] = {}
    /\ route.does \in Posted /\ always \cap {"ORIGIN", "CSRF"} # {} => traces = {}
=============================================================================
