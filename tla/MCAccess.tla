------------------------------ MODULE MCAccess ------------------------------
(* An account with two devices and an app, under loads of what it asks for. *)
EXTENDS AccessProps

CONSTANTS d1, d2, c1, c2, g1, k1, k2, s1, s2, r1, r2

Base == [ops |-> {}, asks |-> 0, calm |-> TRUE, devices |-> {d1}, scopes |-> {}]

(* Devices are enrolled, log in and are revoked, all at once. *)
Logins == [Base EXCEPT !.ops = {"enroll", "login", "revoke", "expire"}, !.asks = 3, !.calm = FALSE]
Founding == [Logins EXCEPT !.ops = @ \cup {"create"}, !.devices = {}]
(* An app is authorised and revoked, with a code and without. *)
Grants == [Base EXCEPT !.ops = {"authorize", "code", "poll", "approve", "deny", "revokeGrant",
                                "logout", "expire"}, !.asks = 3, !.scopes = {"rooms"}]
Crossing == [Grants EXCEPT !.calm = FALSE, !.ops = @ \ {"logout", "expire"}]
(* Sockets, while a device or the app is revoked. *)
Devices == [Base EXCEPT !.ops = {"hello", "revoke"}, !.asks = 2, !.devices = {d1, d2}]
Sockets == [Base EXCEPT !.ops = {"hello", "revokeGrant", "authorize"}, !.asks = 2, !.scopes = {"rooms"}]
Cutting == [Devices EXCEPT !.calm = FALSE]
(* Two instances of the app write the same keys. *)
Storing == [Base EXCEPT !.ops = {"get", "put"}, !.scopes = {"storage"}]
Deleting == [Storing EXCEPT !.ops = {"get", "put", "delete"}]

AllLoads == {Logins, Founding, Grants, Crossing, Devices, Sockets, Cutting, Storing, Deleting}
=============================================================================
