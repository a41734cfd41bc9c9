------------------------------ MODULE Handlers ------------------------------
(***************************************************************************)
(* What every handler under app/api looks at before it does its work, in   *)
(* the order of its code, one definition per method and path.  A check is  *)
(*   ORIGIN, CSRF     the Origin header and the token of the session;      *)
(*   a permission     requirePermission: a valid session whose user's role *)
(*                    grants it now;                                       *)
(*   SESSION          a valid session;                                     *)
(*   MAINTENANCE      requireMaintenanceModeInactive;                      *)
(*   PARAMS           the path and the query;                              *)
(*   TYPE, KEY        the Content-Type and the Idempotency-Key headers;    *)
(*   BODY, SCHEMA     the body can be read, and has the fields asked for;  *)
(*   LIMIT            a rate limit, whose bucket counts the request;       *)
(*   REPEATED         a request already worked on is answered as it was;   *)
(*   UNAVAILABLE      what the work needs is not configured, or is busy.   *)
(* The names of the definitions are the method and the path, without the   *)
(* identifiers in it; One ends the path of a single resource.              *)
(***************************************************************************)
EXTENDS Sequences

\* WRITE changes the data of the company, READ answers it, SHOW does so by POST.
Route(does, checks) == [does |-> does, checks |-> checks]

Guard == <<"ORIGIN", "CSRF">>
Body == <<"MAINTENANCE", "TYPE", "KEY", "BODY", "SCHEMA">>
\* The same checks with the identifiers of the path among them.
BodyOf == <<"MAINTENANCE", "TYPE", "KEY", "PARAMS", "BODY", "SCHEMA">>
OfBody == <<"MAINTENANCE", "PARAMS", "TYPE", "KEY", "BODY", "SCHEMA">>
OfGatedBody == <<"PARAMS">> \o Body
BodyThenOf == <<"MAINTENANCE", "TYPE", "KEY", "BODY", "PARAMS", "SCHEMA">>
KeyOnly == <<"MAINTENANCE", "KEY">>
KeyThenOf == <<"MAINTENANCE", "KEY", "PARAMS">>

Writes(permissions, rest) == Route("WRITE", Guard \o permissions \o rest)
Write(permission, rest) == Writes(<<permission>>, rest)
AddressedWrites(permissions, rest) ==
    Route("WRITE", <<"PARAMS">> \o Guard \o permissions \o rest)
AddressedWrite(permission, rest) == AddressedWrites(<<permission>>, rest)

\* The functions that several handlers call.
Banking(permission) == Write(permission, Body)
Credit(permission) == Write(permission, BodyThenOf)
CustomerRefundAction(permission) == Credit(permission)
SupplierRefundAction(permission) == Credit(permission)
Credential(rest) ==
    Writes(<<"Billing.ManageVerifactuCredentials">>,
           <<"MAINTENANCE", "KEY", "LIMIT", "TYPE", "BODY">> \o rest)

Reads(checks) == Route("READ", checks)
List(permission) == Reads(<<permission, "PARAMS">>)
Show(permission) == Reads(<<"PARAMS", permission>>)
=============================================================================
