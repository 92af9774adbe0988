---------------------------- MODULE Organization ----------------------------
(***************************************************************************)
(* One organization of the control plane in PostgreSQL: its memberships,   *)
(* invitations and project write keys, its audit log, and the concurrent   *)
(* transactions that change them (apps/api/src/                            *)
(* postgres-organization-members.ts, postgres-project-write-keys.ts,       *)
(* postgres-workspaces.ts) beside logins that refresh a profile            *)
(* (postgres-auth-control-plane.ts).                                       *)
(*                                                                         *)
(* PostgreSQL runs them at READ COMMITTED.  A step of a call is one of its *)
(* statements: it waits for the row locks it asks for, reads what is       *)
(* committed when it gets them, and keeps them until the call ends.  now() *)
(* is the time the transaction began.  What a call writes is visible when  *)
(* it commits; nobody else reads those rows without a lock on the way.     *)
(***************************************************************************)
EXTENDS Integers, Sequences, FiniteSets

CONSTANTS
  Users,         \* rows of console_users
  Disabled,      \* those with disabled_at set; no code sets or clears it
  Emails,        \* addresses of profiles and invitations
  Profiles,      \* Profiles[u]: the profiles a login of u may bring
  InitialRole,   \* InitialRole[u]: memberships before the calls
  NoRole,        \* no membership (and a null role in the audit log)
  Calls,         \* transactions; a call's name is also the random id of the row it inserts
  Inputs,        \* Inputs[c]: what call c may be asked to do
  Given,         \* invitations pending and keys active before the calls
  GivenInvitation, \* GivenInvitation[i]: the email and the role of a given invitation
  NoInput,       \* a call not made yet
  MaxPending     \* pending invitations of an organization (100 in the code)

Roles == {"owner", "admin", "member", "viewer"}
Ids == Calls \cup Given
MemberOps == {"member.role_changed", "member.removed"}
InvitationOps == {"invitation.created", "invitation.revoked"}
ProjectOps == {"project.created", "api_key.created", "api_key.revoked"}
Ops == MemberOps \cup InvitationOps \cup ProjectOps \cup {"invitation.accepted"}

\* What the handlers have validated: the roles, and the ids of rows there may be.
IsInput(input) ==
  /\ input.op \in Ops /\ input.actor \in Users
  /\ input.op \in MemberOps => input.subject \in Users
  /\ input.op = "invitation.created" => input.subject \in Emails
  /\ input.op \in {"invitation.accepted", "invitation.revoked", "api_key.revoked"} => input.subject \in Ids
  /\ input.op \in {"member.role_changed", "invitation.created"} => input.role \in Roles

ASSUME UsersAssumption ==
  /\ Disabled \subseteq Users /\ NoRole \notin Roles
  /\ InitialRole \in [Users -> Roles \cup {NoRole}]
  /\ \E u \in Users \ Disabled : InitialRole[u] = "owner"
  /\ \A u \in Users : Profiles[u] \subseteq [email : Emails, verified : BOOLEAN] /\ Profiles[u] # {}
ASSUME CallsAssumption ==
  /\ Calls \cap Given = {}
  /\ GivenInvitation \in [Given -> [email : Emails, role : Roles]]
  /\ MaxPending \in Nat
  /\ \A c \in Calls : NoInput \notin Inputs[c] /\ \A input \in Inputs[c] : IsInput(input)
\* The invitations given were created within the same bounds.
ASSUME GivenAssumption ==
  /\ IsFiniteSet(Given) /\ Cardinality(Given) <= MaxPending
  /\ \A i, j \in Given : i # j => GivenInvitation[i].email # GivenInvitation[j].email

VARIABLES
  role,        \* role[u]: the committed membership of u, or NoRole
  profile,     \* profile[u]: email and email_verified
  invitation,  \* invitation[i]
  key,         \* key[k]: "none", "active" or "revoked"
  audit,       \* committed rows of workspace_audit_log, in the order of their ids
  call,        \* call[c]: where the transaction is, its input, and what it has read
  locks        \* row locks held

vars == <<role, profile, invitation, key, audit, call, locks>>

-----------------------------------------------------------------------------
(* Row locks.                                                              *)

organization == <<"organization">>
Membership(u) == <<"membership", u>>
Person(u) == <<"person", u>>
Key(k) == <<"key", k>>
Resources == {organization} \cup {Membership(u) : u \in Users} \cup {Person(u) : u \in Users}
             \cup {Key(k) : k \in Ids}
Modes == {"key share", "share", "no key update", "update"}

\* PostgreSQL's table of conflicting row-level locks.
Conflicts(m, n) ==
  \/ "update" \in {m, n}
  \/ "no key update" \in {m, n} /\ {m, n} # {"no key update", "key share"}

\* The locks the next statement of c asks for.
Wants(c) ==
  LET input == call[c].input IN
  CASE \/ call[c].pc = "begun" /\ input.op \in MemberOps \cup InvitationOps
       \/ call[c].pc = "found" ->
         {<<"update", organization>>}                              \* FOR UPDATE
    [] \/ call[c].pc = "begun" /\ input.op \in ProjectOps          \* FOR SHARE OF membership, person
       \/ call[c].pc = "locked" /\ input.op \in MemberOps \cup InvitationOps ->
         {<<"share", Membership(input.actor)>>, <<"share", Person(input.actor)>>}
    [] call[c].pc = "locked" /\ input.op = "invitation.accepted" ->
         {<<"share", Person(input.actor)>>}                        \* FOR SHARE
    [] call[c].pc = "allowed" /\ input.op \in MemberOps ->
         {<<"update", Membership(input.subject)>>}                 \* FOR UPDATE
    [] call[c].pc = "allowed" /\ input.op = "api_key.revoked" ->
         {<<"no key update", Key(input.subject)>>}                 \* UPDATE
    [] call[c].pc = "checked" ->
         {<<"key share", organization>>}                           \* foreign key of the inserted rows
    [] OTHER -> {}

WaitsFor(c, d) ==
  c # d /\ \E w \in Wants(c), l \in locks : l.by = d /\ l.on = w[2] /\ Conflicts(w[1], l.mode)

Granted(c) == \A d \in Calls : ~WaitsFor(c, d)

Locked(c) == locks \cup {[by |-> c, mode |-> w[1], on |-> w[2]] : w \in Wants(c)}

-----------------------------------------------------------------------------
Init ==
  /\ role = InitialRole
  /\ profile \in {p \in [Users -> UNION {Profiles[u] : u \in Users}] : \A u \in Users : p[u] \in Profiles[u]}
  /\ invitation = [i \in Ids |->
       IF i \in Given
       THEN [state |-> "pending", expired |-> FALSE, by |-> NoInput,
             email |-> GivenInvitation[i].email, role |-> GivenInvitation[i].role]
       ELSE [state |-> "none", expired |-> FALSE, by |-> NoInput, email |-> NoInput, role |-> NoRole]]
  /\ key = [k \in Ids |-> IF k \in Given THEN "active" ELSE "none"]
  /\ audit = <<>>
  /\ call = [c \in Calls |->
       [pc |-> "new", input |-> NoInput, role |-> NoRole, previous |-> NoRole, expired |-> {}]]
  /\ locks = {}

\* Invitations the transaction can use: not revoked, accepted, or expired when it began.
Available(c, i) == invitation[i].state = "pending" /\ i \notin call[c].expired

CanManageMember(actor, target, next) ==
  actor = "owner" \/ (actor = "admin" /\ target # "owner" /\ next # "owner")

\* member:manage and project:manage
Manages(r) == r \in {"owner", "admin"}

\* The transaction ends and its locks are released.
End(c) ==
  /\ call' = [call EXCEPT ![c].pc = "done"]
  /\ locks' = {l \in locks : l.by # c}

\* A statement that got its locks: the call goes on to pc, or ends if the
\* statement's check fails.
Proceed(c, ok, pc) ==
  IF ok THEN call' = [call EXCEPT ![c].pc = pc] /\ locks' = Locked(c) ELSE End(c)

Begin(c) ==
  /\ call[c].pc = "new"
  /\ \E input \in Inputs[c] :
       call' = [call EXCEPT ![c] = [@ EXCEPT !.pc = "begun", !.input = input,
                                             !.expired = {i \in Ids : invitation[i].expired}]]
  /\ UNCHANGED <<role, profile, invitation, key, audit, locks>>

\* acceptInvitation finds its invitation before it knows the organization to lock.
FindInvitation(c) ==
  /\ call[c].pc = "begun" /\ call[c].input.op = "invitation.accepted"
  /\ call' = [call EXCEPT ![c].pc = IF Available(c, call[c].input.subject) THEN "found" ELSE "done"]
  /\ UNCHANGED <<role, profile, invitation, key, audit, locks>>

\* Mutant: the organization is read without FOR UPDATE.
LockOrganizationUnlocked(c) ==
  /\ \/ call[c].pc = "begun" /\ call[c].input.op \in MemberOps \cup InvitationOps
     \/ call[c].pc = "found"
  /\ Granted(c)
  /\ call' = [call EXCEPT ![c].pc = "locked"]
  /\ UNCHANGED <<role, profile, invitation, key, audit, locks>>

LockOrganization(c) ==
  /\ \/ call[c].pc = "begun" /\ call[c].input.op \in MemberOps \cup InvitationOps
     \/ call[c].pc = "found"
  /\ Granted(c)
  /\ Proceed(c, TRUE, "locked")
  /\ UNCHANGED <<role, profile, invitation, key, audit>>

\* Mutant: the actor is read without FOR SHARE.
CheckActorUnlocked(c) ==
  /\ \/ call[c].pc = "locked" /\ call[c].input.op \in MemberOps \cup InvitationOps
     \/ call[c].pc = "begun" /\ call[c].input.op \in ProjectOps
  /\ LET actor == call[c].input.actor
     IN IF actor \notin Disabled /\ Manages(role[actor])
        THEN /\ call' = [call EXCEPT ![c] = [@ EXCEPT !.pc = "allowed", !.role = role[actor]]]
             /\ locks' = locks
        ELSE End(c)
  /\ UNCHANGED <<role, profile, invitation, key, audit>>

\* The actor is an enabled member and holds a role that manages.
CheckActor(c) ==
  /\ \/ call[c].pc = "locked" /\ call[c].input.op \in MemberOps \cup InvitationOps
     \/ call[c].pc = "begun" /\ call[c].input.op \in ProjectOps
  /\ Granted(c)
  /\ LET actor == call[c].input.actor
     IN IF actor \notin Disabled /\ Manages(role[actor])
        THEN /\ call' = [call EXCEPT ![c] = [@ EXCEPT !.pc = "allowed", !.role = role[actor]]]
             /\ locks' = Locked(c)
        ELSE End(c)
  /\ UNCHANGED <<role, profile, invitation, key, audit>>

ProtectOwner(u) == role[u] = "owner" => \E v \in Users \ ({u} \cup Disabled) : role[v] = "owner"

\* Mutant: the role that the caller saw is not compared.
CheckTargetUnexpected(c) ==
  LET input == call[c].input
      target == role[input.subject]
      next == IF input.op = "member.removed" THEN NoRole ELSE input.role
  IN /\ call[c].pc = "allowed" /\ input.op \in MemberOps
     /\ Granted(c)
     /\ IF /\ target # NoRole /\ next # target
           /\ CanManageMember(call[c].role, target, next)
           /\ ProtectOwner(input.subject)
        THEN /\ call' = [call EXCEPT ![c] = [@ EXCEPT !.pc = "checked", !.previous = target]]
             /\ locks' = Locked(c)
        ELSE End(c)
     /\ UNCHANGED <<role, profile, invitation, key, audit>>

\* The target is still what the caller saw, may be managed, and is not the last
\* owner; a role it has already ends the call.
CheckTarget(c) ==
  LET input == call[c].input
      target == role[input.subject]
      next == IF input.op = "member.removed" THEN NoRole ELSE input.role
  IN /\ call[c].pc = "allowed" /\ input.op \in MemberOps
     /\ Granted(c)
     /\ IF /\ target # NoRole
           /\ CanManageMember(call[c].role, target, next)
           /\ input.op = "member.role_changed" => target = input.expected
           /\ next # target
           /\ ProtectOwner(input.subject)
        THEN /\ call' = [call EXCEPT ![c] = [@ EXCEPT !.pc = "checked", !.previous = target]]
             /\ locks' = Locked(c)
        ELSE End(c)
     /\ UNCHANGED <<role, profile, invitation, key, audit>>

\* Mutant: one invitation too many.
CheckInvitationOneMore(c) ==
  LET input == call[c].input IN
  /\ call[c].pc = "allowed" /\ input.op = "invitation.created"
  /\ Proceed(c,
       /\ CanManageMember(call[c].role, input.role, NoRole)
       /\ \A u \in Users : role[u] # NoRole => profile[u].email # input.subject
       /\ \A i \in Ids : Available(c, i) => invitation[i].email # input.subject
       /\ Cardinality({i \in Ids : Available(c, i)}) <= MaxPending, "checked")
  /\ UNCHANGED <<role, profile, invitation, key, audit>>

\* The role may be granted, nobody with the email is a member, it has no
\* invitation, and there is room for one more.
CheckInvitation(c) ==
  LET input == call[c].input IN
  /\ call[c].pc = "allowed" /\ input.op = "invitation.created"
  /\ Proceed(c,
       /\ CanManageMember(call[c].role, input.role, NoRole)
       /\ \A u \in Users : role[u] # NoRole => profile[u].email # input.subject
       /\ \A i \in Ids : Available(c, i) => invitation[i].email # input.subject
       /\ Cardinality({i \in Ids : Available(c, i)}) < MaxPending, "checked")
  /\ UNCHANGED <<role, profile, invitation, key, audit>>

\* One that is accepted or revoked ends the call; an expired one can be revoked.
CheckRevocation(c) ==
  LET input == call[c].input IN
  /\ call[c].pc = "allowed" /\ input.op = "invitation.revoked"
  /\ Proceed(c,
       /\ invitation[input.subject].state = "pending"
       /\ CanManageMember(call[c].role, invitation[input.subject].role, NoRole), "checked")
  /\ UNCHANGED <<role, profile, invitation, key, audit>>

\* Mutant: the invitation is not looked up again under the lock.
CheckRecipientOnly(c) ==
  LET input == call[c].input
      person == profile[input.actor]
  IN /\ call[c].pc = "locked" /\ input.op = "invitation.accepted"
     /\ Granted(c)
     /\ Proceed(c,
          /\ input.actor \notin Disabled
          /\ person.verified /\ person.email = invitation[input.subject].email
          /\ role[input.actor] = NoRole, "checked")
     /\ UNCHANGED <<role, profile, invitation, key, audit>>

\* acceptInvitation, under the organization's lock: still available, for the
\* verified email of an enabled user who is not a member.
CheckRecipient(c) ==
  LET input == call[c].input
      person == profile[input.actor]
  IN /\ call[c].pc = "locked" /\ input.op = "invitation.accepted"
     /\ Granted(c)
     /\ Proceed(c,
          /\ Available(c, input.subject)
          /\ input.actor \notin Disabled
          /\ person.verified /\ person.email = invitation[input.subject].email
          /\ role[input.actor] = NoRole, "checked")
     /\ UNCHANGED <<role, profile, invitation, key, audit>>

\* UPDATE ... WHERE revoked_at IS NULL; a key that is revoked already ends the call.
UpdateKey(c) ==
  /\ call[c].pc = "allowed" /\ call[c].input.op = "api_key.revoked"
  /\ Granted(c)
  /\ Proceed(c, key[call[c].input.subject] = "active", "checked")
  /\ UNCHANGED <<role, profile, invitation, key, audit>>

\* Inserting a project or a key checks nothing further.
Insert(c) ==
  /\ call[c].pc = "allowed" /\ call[c].input.op \in {"project.created", "api_key.created"}
  /\ Proceed(c, TRUE, "checked")
  /\ UNCHANGED <<role, profile, invitation, key, audit>>

-----------------------------------------------------------------------------
(* What a call has written when it commits.                                *)

RoleAfter(c) ==
  LET input == call[c].input IN
  CASE input.op = "member.role_changed" -> [role EXCEPT ![input.subject] = input.role]
    [] input.op = "member.removed" -> [role EXCEPT ![input.subject] = NoRole]
    [] input.op = "invitation.accepted" -> [role EXCEPT ![input.actor] = invitation[input.subject].role]
    [] OTHER -> role

\* A new invitation replaces the expired ones to its email.
InvitationAfter(c) ==
  LET input == call[c].input
      Replaced(i) == /\ invitation[i].state = "pending" /\ i \in call[c].expired
                     /\ invitation[i].email = input.subject
  IN CASE input.op = "invitation.created" ->
            [i \in Ids |->
               IF i = c THEN [state |-> "pending", expired |-> FALSE, by |-> NoInput,
                              email |-> input.subject, role |-> input.role]
               ELSE IF Replaced(i) THEN [invitation[i] EXCEPT !.state = "revoked"]
               ELSE invitation[i]]
       [] input.op = "invitation.revoked" -> [invitation EXCEPT ![input.subject].state = "revoked"]
       [] input.op = "invitation.accepted" ->
            [invitation EXCEPT ![input.subject] = [@ EXCEPT !.state = "accepted", !.by = input.actor]]
       [] OTHER -> invitation

KeyAfter(c) ==
  CASE call[c].input.op = "api_key.created" -> [key EXCEPT ![c] = "active"]
    [] call[c].input.op = "api_key.revoked" -> [key EXCEPT ![call[c].input.subject] = "revoked"]
    [] OTHER -> key

\* Mutant: a removal is recorded as a change to the role the member had.
AuditEntryKeepsRole(c) ==
  LET input == call[c].input IN
  [action |-> input.op, actor |-> input.actor,
   resource |-> IF input.op \in {"invitation.created", "api_key.created", "project.created"}
                THEN c ELSE input.subject,
   previous |-> IF input.op = "invitation.revoked" THEN invitation[input.subject].role
                ELSE call[c].previous,
   next |-> CASE input.op \in {"member.role_changed", "invitation.created"} -> input.role
              [] input.op = "invitation.accepted" -> invitation[input.subject].role
              [] OTHER -> call[c].previous]

AuditEntry(c) ==
  LET input == call[c].input IN
  [action |-> input.op, actor |-> input.actor,
   resource |-> IF input.op \in {"invitation.created", "api_key.created", "project.created"}
                THEN c ELSE input.subject,
   previous |-> IF input.op = "invitation.revoked" THEN invitation[input.subject].role
                ELSE call[c].previous,
   next |-> CASE input.op \in {"member.role_changed", "invitation.created"} -> input.role
              [] input.op = "invitation.accepted" -> invitation[input.subject].role
              [] OTHER -> NoRole]

Commit(c) ==
  /\ call[c].pc = "checked"
  /\ Granted(c)
  /\ role' = RoleAfter(c)
  /\ invitation' = InvitationAfter(c)
  /\ key' = KeyAfter(c)
  /\ audit' = Append(audit, AuditEntry(c))
  /\ End(c)
  /\ UNCHANGED profile

\* Mutant: the connection goes back to the pool with its transaction open.
RollbackLocked(c) ==
  /\ call[c].pc \notin {"new", "done"}
  /\ call' = [call EXCEPT ![c].pc = "done"]
  /\ UNCHANGED <<role, profile, invitation, key, audit, locks>>

\* The connection is lost or a statement fails.
Rollback(c) ==
  /\ call[c].pc \notin {"new", "done"}
  /\ End(c)
  /\ UNCHANGED <<role, profile, invitation, key, audit>>

\* PostgreSQL ends one of the transactions that wait for each other in a circle.
Circle(S) == S # {} /\ \A c \in S : \E d \in S : WaitsFor(c, d)
DeadlockVictim(c) ==
  /\ ~Granted(c)
  /\ \E S \in SUBSET Calls :
       c \in S /\ Circle(S) /\ \A T \in SUBSET S : Circle(T) => T = S
  /\ End(c)
  /\ UNCHANGED <<role, profile, invitation, key, audit>>

-----------------------------------------------------------------------------
(* Beside the calls.                                                       *)

\* findOrCreateUser on a login of a known identity: one UPDATE of the person.
RefreshProfile(u) ==
  /\ \A l \in locks : l.on = Person(u) => ~Conflicts("no key update", l.mode)
  /\ \E p \in Profiles[u] \ {profile[u]} : profile' = [profile EXCEPT ![u] = p]
  /\ UNCHANGED <<role, invitation, key, audit, call, locks>>

\* Seven days pass.
Expire(i) ==
  /\ invitation[i].state # "none" /\ ~invitation[i].expired
  /\ invitation' = [invitation EXCEPT ![i].expired = TRUE]
  /\ UNCHANGED <<role, profile, key, audit, call, locks>>

Statement(c) ==
  \/ FindInvitation(c) \/ LockOrganization(c) \/ CheckActor(c)
  \/ CheckTarget(c) \/ CheckInvitation(c) \/ CheckRevocation(c) \/ CheckRecipient(c)
  \/ UpdateKey(c) \/ Insert(c) \/ Commit(c)

Next ==
  \/ \E c \in Calls : Begin(c) \/ Statement(c) \/ Rollback(c) \/ DeadlockVictim(c)
  \/ \E u \in Users : RefreshProfile(u)
  \/ \E i \in Ids : Expire(i)

Spec == Init /\ [][Next]_vars

\* A transaction goes on whenever its locks are granted, and the database's
\* deadlock detector runs; whether calls are made at all is not assumed.
FairSpec == Spec /\ \A c \in Calls : WF_vars(Statement(c)) /\ WF_vars(DeadlockVictim(c))

-----------------------------------------------------------------------------
(* Correctness.                                                            *)

TypeOK ==
  /\ role \in [Users -> Roles \cup {NoRole}]
  /\ \A u \in Users : profile[u] \in Profiles[u]
  /\ invitation \in [Ids -> [state : {"none", "pending", "revoked", "accepted"}, expired : BOOLEAN,
                             by : Users \cup {NoInput}, email : Emails \cup {NoInput},
                             role : Roles \cup {NoRole}]]
  /\ key \in [Ids -> {"none", "active", "revoked"}]
  /\ \A c \in Calls : /\ call[c].pc \in {"new", "begun", "found", "locked", "allowed", "checked", "done"}
                      /\ call[c].pc # "new" => call[c].input \in Inputs[c]
                      /\ call[c].role \in Roles \cup {NoRole}
                      /\ call[c].previous \in Roles \cup {NoRole}
                      /\ call[c].expired \subseteq Ids
  /\ locks \subseteq [by : {c \in Calls : call[c].pc \notin {"new", "done"}}, mode : Modes, on : Resources]

\* ADR-053: "Removing or demoting the last active Owner is rejected, including
\* concurrent requests", owners who demote themselves side by side included.
AnOwnerRemains == \E u \in Users \ Disabled : role[u] = "owner"

\* A user joins only by accepting, once, an invitation that is pending, names the
\* user's verified email at that moment and gives the role; nobody joins twice.
JoinsAreInvited ==
  [][\A u \in Users : role[u] = NoRole /\ role'[u] # NoRole =>
       \E i \in Ids :
         /\ invitation[i].state = "pending" /\ invitation'[i].state = "accepted"
         /\ invitation'[i].by = u
         /\ profile[u] = [email |-> invitation[i].email, verified |-> TRUE]
         /\ role'[u] = invitation[i].role]_vars

\* What is audited was done by a user who at that moment, not only when asked,
\* was an enabled manager, and an owner where an owner is concerned.
AuthorityHolds ==
  [][audit' # audit =>
       LET e == audit'[Len(audit')] IN
       e.action # "invitation.accepted" =>
         /\ e.actor \notin Disabled /\ Manages(role[e.actor])
         /\ "owner" \in {e.previous, e.next} => role[e.actor] = "owner"]_vars

\* The user whose role an audit row changes, and the users' roles by the first n rows.
Subject(e) == IF e.action = "invitation.accepted" THEN e.actor ELSE e.resource
AuditedRole(n, u) ==
  LET rows == {i \in 1 .. n : audit[i].action \in MemberOps \cup {"invitation.accepted"}
                              /\ Subject(audit[i]) = u}
  IN IF rows = {} THEN InitialRole[u] ELSE audit[CHOOSE i \in rows : \A j \in rows : j <= i].next

\* apps/api/README.md: "stale role changes return 409".  Of managers who change
\* one member side by side, with removals and joins beside them, each change
\* starts from the role that its caller saw: none is lost under another.
ChangesAreExpected ==
  [][\A u \in Users : role[u] # role'[u] /\ NoRole \notin {role[u], role'[u]} =>
       \E c \in Calls :
         /\ call[c].pc = "checked" /\ call'[c].pc = "done"
         /\ call[c].input.op = "member.role_changed" /\ call[c].input.subject = u
         /\ call[c].input.expected = role[u] /\ call[c].input.role = role'[u]]_vars

\* The audit log alone explains every membership, each change starting from the
\* role the one before it gave, and every key: it was created once, and revoked
\* once however many calls revoke it.
AuditExplainsState ==
  /\ \A u \in Users : role[u] = AuditedRole(Len(audit), u)
  /\ \A i \in DOMAIN audit :
       audit[i].action \in MemberOps => audit[i].previous = AuditedRole(i - 1, audit[i].resource)
  /\ \A k \in Ids :
       LET Rows(op) == Cardinality({i \in DOMAIN audit : audit[i].action = op /\ audit[i].resource = k})
       IN  /\ Rows("api_key.created") = IF k \in Calls /\ key[k] # "none" THEN 1 ELSE 0
           /\ Rows("api_key.revoked") = IF key[k] = "revoked" THEN 1 ELSE 0

\* ADR-053: at most MaxPending invitations wait, and never two for one email,
\* although they expire while calls run.
InvitationsAreBounded ==
  /\ Cardinality({i \in Ids : invitation[i].state = "pending" /\ ~invitation[i].expired}) <= MaxPending
  /\ \A i, j \in Ids : invitation[i].state = "pending" /\ invitation[j].state = "pending" /\ i # j =>
       invitation[i].email # invitation[j].email

\* Calls that wait for each other's locks all end, one of them as a victim.
EveryCallEnds == \A c \in Calls : call[c].pc = "begun" ~> call[c].pc = "done"
=============================================================================
