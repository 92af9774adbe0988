--------------------------- MODULE MCOrganization ---------------------------
(* Organization with two owners, a disabled third, an admin, and two people who *)
(* share an email, of whom one may log in with another.                        *)
EXTENDS Organization, TLC

CONSTANTS ann, ben, cat, dan, eli, fay, c1, c2, c3, given, spare, mail, post

MCInitialRole == [u \in Users |-> IF u \in {ann, ben, fay} THEN "owner" ELSE IF u = cat THEN "admin" ELSE NoRole]
MCGivenInvitation == [i \in Given |-> [email |-> mail, role |-> "admin"]]
MCProfiles == [u \in Users |-> CASE u = dan -> {[email |-> mail, verified |-> TRUE], [email |-> mail, verified |-> FALSE],
                                                [email |-> post, verified |-> TRUE]}
                                 [] u = eli -> {[email |-> mail, verified |-> TRUE]}
                                 [] OTHER -> {[email |-> spare, verified |-> TRUE]}]

Change(actor, user, from, to) ==
  [op |-> "member.role_changed", actor |-> actor, subject |-> user, expected |-> from, role |-> to]
Other(op, actor, subject) ==
  [op |-> op, actor |-> actor, subject |-> subject, role |-> "viewer", expected |-> NoRole]

MCInputs == [c \in Calls |->
  {Change(ann, ann, "owner", "viewer"), Change(ben, ben, "owner", "admin"), Change(ann, cat, "admin", "owner"),
   Change(ben, cat, "admin", "viewer"),
   Other("member.removed", ann, cat), Other("member.removed", cat, ben),
   Other("invitation.created", cat, post), Other("invitation.created", ann, mail),
   Other("invitation.revoked", cat, given), Other("invitation.accepted", dan, given),
   Other("invitation.accepted", eli, given),
   Other("api_key.created", cat, NoInput), Other("api_key.revoked", cat, given),
   Other("api_key.revoked", ann, given), Other("project.created", ann, NoInput)}]
=============================================================================
