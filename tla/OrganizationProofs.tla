-------------------------- MODULE OrganizationProofs -------------------------
(***************************************************************************)
(* The control plane of an organization, for every number of users and of  *)
(* concurrent transactions: an owner remains, nobody joins uninvited,      *)
(* authority holds at the moment of a change, a role is changed from what  *)
(* its manager saw, invitations stay within their bounds, and the audit    *)
(* log explains roles and keys.                                            *)
(***************************************************************************)
EXTENDS Organization, SequenceTheorems, FiniteSetTheorems, WellFoundedInduction, TLAPS

-----------------------------------------------------------------------------
(* The inductive invariant: what a call has found out stays true, because  *)
(* of the row locks that it holds until it ends.                           *)

\* The fields of a call, of which some may hold anything.
Shape(r) ==
  [pc : {"new", "begun", "found", "locked", "allowed", "checked", "done"}, input : {r.input},
   role : Roles \cup {NoRole}, previous : Roles \cup {NoRole}, expired : SUBSET Ids]

CallsOK ==
  /\ call = [c \in Calls |-> call[c]]
  /\ \A c \in Calls : call[c] \in Shape(call[c]) /\ (call[c].pc # "new" => call[c].input \in Inputs[c])

ProfilesOK ==
  /\ profile = [u \in Users |-> profile[u]]
  /\ \A u \in Users : profile[u] \in [email : Emails, verified : BOOLEAN] /\ profile[u] \in Profiles[u]

RowsOK ==
  /\ role \in [Users -> Roles \cup {NoRole}]
  /\ invitation \in [Ids -> [state : {"none", "pending", "revoked", "accepted"}, expired : BOOLEAN,
                             by : Users \cup {NoInput}, email : Emails \cup {NoInput},
                             role : Roles \cup {NoRole}]]
  /\ key \in [Ids -> {"none", "active", "revoked"}]

Holding == {"locked", "allowed", "checked"}

\* No two transactions hold conflicting locks, and only open ones hold any.
LocksOK ==
  /\ locks \subseteq [by : Calls, mode : Modes, on : Resources]
  /\ \A l \in locks : call[l.by].pc \in Holding
  /\ \A l, m \in locks : l.on = m.on /\ l.by # m.by => ~Conflicts(l.mode, m.mode)

Holds(c, mode, on) == [by |-> c, mode |-> mode, on |-> on] \in locks

Serial == MemberOps \cup InvitationOps \cup {"invitation.accepted"}
Inside(c) == call[c].pc \in Holding /\ call[c].input.op \in Serial
Checked(c, ops) == call[c].pc = "checked" /\ call[c].input.op \in ops

\* Calls that change memberships or invitations go through the organization.
InsideOK(c) ==
  /\ Inside(c) => Holds(c, "update", organization)
  /\ call[c].pc = "found" => call[c].input.op = "invitation.accepted"
  /\ call[c].pc = "locked" => call[c].input.op \in Serial
  /\ call[c].pc = "allowed" => call[c].input.op # "invitation.accepted"

\* The actor still holds the role that allowed the call.
ActorOK(c) ==
  call[c].pc \in {"allowed", "checked"} /\ call[c].input.op # "invitation.accepted" =>
    LET actor == call[c].input.actor
    IN  /\ actor \notin Disabled /\ Manages(role[actor]) /\ call[c].role = role[actor]
        /\ Holds(c, "share", Membership(actor))

\* The member still has the role that was checked.
TargetOK(c) ==
  Checked(c, MemberOps) =>
    LET input == call[c].input
    IN  /\ role[input.subject] = call[c].previous /\ call[c].previous # NoRole
        /\ input.op = "member.role_changed" => input.expected = call[c].previous
        /\ CanManageMember(call[c].role, call[c].previous,
                           IF input.op = "member.removed" THEN NoRole ELSE input.role)
        /\ ProtectOwner(input.subject)
        /\ Holds(c, "update", Membership(input.subject))

PreviousOK(c) ==
  call[c].pc # "done" /\ ~Checked(c, MemberOps) => call[c].previous = NoRole

\* The invitation, its recipient and what may be granted are still as checked.
InvitationOK(c) ==
  LET input == call[c].input IN
  /\ Checked(c, {"invitation.created"}) => CanManageMember(call[c].role, input.role, NoRole)
  /\ Checked(c, {"invitation.revoked"}) =>
       /\ invitation[input.subject].state = "pending"
       /\ CanManageMember(call[c].role, invitation[input.subject].role, NoRole)
  /\ Checked(c, {"invitation.accepted"}) =>
       /\ invitation[input.subject].state = "pending"
       /\ role[input.actor] = NoRole
       /\ profile[input.actor].verified
       /\ profile[input.actor].email = invitation[input.subject].email
       /\ Holds(c, "share", Person(input.actor))

CallOK(c) == InsideOK(c) /\ ActorOK(c) /\ TargetOK(c) /\ PreviousOK(c) /\ InvitationOK(c)

IInv ==
  /\ CallsOK
  /\ ProfilesOK
  /\ RowsOK
  /\ LocksOK
  /\ \A c \in Calls : CallOK(c)
  /\ AnOwnerRemains

LEMMA InputsHaveTypes ==
  ASSUME CallsOK, NEW c \in Calls, call[c].pc # "new"
  PROVE  IsInput(call[c].input)
  BY CallsAssumption DEF CallsOK

LEMMA InitIInv == Init => IInv
<1> SUFFICES ASSUME Init PROVE IInv
  OBVIOUS
<1>1. CallsOK
  BY DEF Init, CallsOK, Shape
<1>2. ProfilesOK
  BY UsersAssumption DEF Init, ProfilesOK
<1>3. RowsOK
  BY UsersAssumption, CallsAssumption DEF Init, RowsOK
<1>4. LocksOK /\ AnOwnerRemains
  BY UsersAssumption DEF Init, LocksOK, AnOwnerRemains
<1>5. \A c \in Calls : CallOK(c)
  BY DEF Init, CallOK, InsideOK, Inside, Holding, ActorOK, TargetOK, PreviousOK, InvitationOK, Checked
<1> QED
  BY <1>1, <1>2, <1>3, <1>4, <1>5 DEF IInv

-----------------------------------------------------------------------------
(* Locks.                                                                  *)

\* Only one call at a time is inside the organization.
LEMMA OneInside ==
  ASSUME IInv, NEW c \in Calls, NEW d \in Calls, Inside(c), Inside(d)
  PROVE  c = d
<1>1. Holds(c, "update", organization) /\ Holds(d, "update", organization)
  BY DEF IInv, CallOK, InsideOK
<1> QED
  BY <1>1 DEF IInv, LocksOK, Holds, Conflicts

LEMMA LockTypes ==
  ASSUME NEW m \in Modes, NEW on \in Resources
  PROVE  <<m, on>> \in Modes \X Resources
  OBVIOUS

LEMMA WantedLocks ==
  ASSUME CallsOK, NEW c \in Calls, call[c].pc # "new"
  PROVE  Wants(c) \subseteq Modes \X Resources
<1>1. IsInput(call[c].input)
  BY InputsHaveTypes
<1> DEFINE input == call[c].input
<1>2. /\ organization \in Resources /\ Membership(input.actor) \in Resources /\ Person(input.actor) \in Resources
      /\ input.op \in MemberOps => Membership(input.subject) \in Resources
      /\ input.op = "api_key.revoked" => Key(input.subject) \in Resources
  BY <1>1 DEF IsInput, Resources
<1>3. {"update", "share", "no key update", "key share"} \subseteq Modes
  BY DEF Modes
<1>4. /\ <<"update", organization>> \in Modes \X Resources
      /\ <<"key share", organization>> \in Modes \X Resources
      /\ <<"share", Membership(input.actor)>> \in Modes \X Resources
      /\ <<"share", Person(input.actor)>> \in Modes \X Resources
      /\ input.op \in MemberOps => <<"update", Membership(input.subject)>> \in Modes \X Resources
      /\ input.op = "api_key.revoked" => <<"no key update", Key(input.subject)>> \in Modes \X Resources
  BY <1>2, <1>3, LockTypes
<1> DEFINE R == Modes \X Resources
<1> HIDE DEF R
<1>5. /\ <<"update", organization>> \in R /\ <<"key share", organization>> \in R
      /\ <<"share", Membership(input.actor)>> \in R /\ <<"share", Person(input.actor)>> \in R
      /\ input.op \in MemberOps => <<"update", Membership(input.subject)>> \in R
      /\ input.op = "api_key.revoked" => <<"no key update", Key(input.subject)>> \in R
  BY <1>4 DEF R
<1>6. Wants(c) \subseteq R
  BY <1>5 DEF Wants
<1> QED
  BY <1>6 DEF R

LEMMA ConflictsBothWays ==
  ASSUME NEW m, NEW n
  PROVE  Conflicts(m, n) <=> Conflicts(n, m)
<1>1. {m, n} = {n, m}
  OBVIOUS
<1> QED
  BY <1>1, Zenon DEF Conflicts

\* A statement that gets its locks, and whose call goes on.
LEMMA GrantedLocks ==
  ASSUME IInv, NEW c \in Calls, Granted(c), call[c].pc # "new", locks' = Locked(c),
         call' = [call EXCEPT ![c] = call'[c]], call'[c].pc \in Holding
  PROVE  LocksOK'
<1>1. Wants(c) \subseteq Modes \X Resources
  BY WantedLocks DEF IInv
<1>2. locks' \subseteq [by : Calls, mode : Modes, on : Resources]
  BY <1>1 DEF IInv, LocksOK, Locked
<1>3. ASSUME NEW l \in locks' PROVE call'[l.by].pc \in Holding
  <2>1. CASE l \in locks
    BY <2>1 DEF IInv, LocksOK, CallsOK
  <2>2. CASE l \notin locks
    <3>1. l.by = c
      BY <1>3, <2>2 DEF Locked
    <3> QED
      BY <3>1
  <2> QED
    BY <2>1, <2>2
<1>4. ASSUME NEW l \in locks, NEW m \in locks', m \notin locks, l.on = m.on, l.by # m.by
      PROVE  ~Conflicts(l.mode, m.mode) /\ ~Conflicts(m.mode, l.mode)
  <2>1. PICK w \in Wants(c) : m = [by |-> c, mode |-> w[1], on |-> w[2]]
    BY <1>4 DEF Locked
  <2>2. l.by \in Calls /\ l.by # c /\ l.on = w[2] /\ m.mode = w[1]
    BY <1>4, <2>1 DEF IInv, LocksOK
  <2>3. ~WaitsFor(c, l.by)
    BY <2>2 DEF Granted
  <2> QED
    BY <2>2, <2>3, ConflictsBothWays DEF WaitsFor
<1>5. ASSUME NEW l \in locks', NEW m \in locks', l \notin locks, m \notin locks PROVE l.by = m.by
  BY <1>5 DEF Locked
<1> QED
  BY <1>2, <1>3, <1>4, <1>5 DEF IInv, LocksOK

-----------------------------------------------------------------------------
(* Steps that commit nothing.                                              *)

\* What a step of another may not disturb.
LEMMA Stable ==
  ASSUME IInv, NEW d \in Calls, UNCHANGED role, call'[d] = call[d],
         \A l \in locks : l.by = d => l \in locks',
         \A i \in Ids : /\ invitation'[i].state = invitation[i].state
                        /\ invitation'[i].role = invitation[i].role
                        /\ invitation'[i].email = invitation[i].email,
         \A u \in Users : Holds(d, "share", Person(u)) => profile'[u] = profile[u]
  PROVE  CallOK(d)'
<1>1. CallOK(d)
  BY DEF IInv
<1>2. \A mode, on : Holds(d, mode, on) => Holds(d, mode, on)'
  BY DEF Holds
<1>3. InsideOK(d)'
  BY <1>1, <1>2 DEF CallOK, InsideOK, Inside
<1>4. ActorOK(d)'
  BY <1>1, <1>2 DEF CallOK, ActorOK
<1>5. TargetOK(d)'
  BY <1>1, <1>2 DEF CallOK, TargetOK, Checked, ProtectOwner
<1>6. PreviousOK(d)'
  BY <1>1 DEF CallOK, PreviousOK, Checked
<1>7. InvitationOK(d)'
  <2>1. call[d].pc # "new" => IsInput(call[d].input)
    BY InputsHaveTypes DEF IInv
  <2> QED
    BY <1>1, <1>2, <2>1 DEF CallOK, InvitationOK, Checked, IsInput
<1> QED
  BY <1>3, <1>4, <1>5, <1>6, <1>7 DEF CallOK

LEMMA RecordedCalls ==
  ASSUME IInv, NEW c \in Calls, NEW r, r \in Shape(r), r.pc # "new" => r.input \in Inputs[c],
         call' = [call EXCEPT ![c] = r]
  PROVE  CallsOK' /\ call'[c] = r /\ \A d \in Calls : d # c => call'[d] = call[d]
  BY DEF IInv, CallsOK

\* The call goes on with the locks that it waited for.
LEMMA AdvanceIInv ==
  ASSUME IInv, NEW c \in Calls, Granted(c), locks' = Locked(c), call[c].pc # "new",
         NEW r, r \in Shape(r), r.input = call[c].input, r.pc \in Holding,
         call' = [call EXCEPT ![c] = r], UNCHANGED <<role, profile, invitation, key>>,
         CallOK(c)'
  PROVE  IInv'
<1>1. CallsOK' /\ call'[c] = r /\ \A d \in Calls : d # c => call'[d] = call[d]
  BY RecordedCalls DEF IInv, CallsOK
<1>2. LocksOK'
  <2>1. call' = [call EXCEPT ![c] = call'[c]] /\ call'[c].pc \in Holding
    BY <1>1
  <2> QED
    BY <2>1, GrantedLocks
<1>3. ASSUME NEW d \in Calls, d # c PROVE CallOK(d)'
  BY <1>1, <1>3, Stable DEF Locked
<1> QED
  BY <1>1, <1>2, <1>3 DEF IInv, ProfilesOK, RowsOK, AnOwnerRemains

LEMMA EndedCall ==
  ASSUME IInv, NEW c \in Calls, call[c].pc # "new", End(c)
  PROVE  /\ CallsOK' /\ LocksOK' /\ CallOK(c)' /\ call'[c].pc = "done"
         /\ \A d \in Calls : d # c => call'[d] = call[d] /\ \A l \in locks : l.by = d => l \in locks'
<1> DEFINE r == [call[c] EXCEPT !.pc = "done"]
<1>1. r \in Shape(r) /\ r.pc = "done" /\ r.input = call[c].input
  BY DEF IInv, CallsOK, Shape
<1> HIDE DEF r
<1>2. CallsOK' /\ call'[c] = r /\ \A d \in Calls : d # c => call'[d] = call[d]
  BY <1>1, RecordedCalls DEF IInv, CallsOK, End, r
<1>3. LocksOK'
  BY <1>2 DEF IInv, LocksOK, End
<1>4. CallOK(c)'
  BY <1>1, <1>2 DEF CallOK, InsideOK, Inside, Holding, ActorOK, TargetOK, PreviousOK, InvitationOK, Checked
<1> QED
  BY <1>1, <1>2, <1>3, <1>4 DEF End

LEMMA EndIInv ==
  ASSUME IInv, NEW c \in Calls, call[c].pc # "new", End(c), UNCHANGED <<role, profile, invitation, key>>
  PROVE  IInv'
<1>1. ASSUME NEW d \in Calls PROVE CallOK(d)'
  BY EndedCall, Stable
<1> QED
  BY <1>1, EndedCall DEF IInv, ProfilesOK, RowsOK, AnOwnerRemains

-----------------------------------------------------------------------------
(* The statements.                                                         *)

LEMMA Acquired ==
  ASSUME NEW c \in Calls, locks' = Locked(c)
  PROVE  /\ \A w \in Wants(c) : Holds(c, w[1], w[2])'
         /\ \A mode, on : Holds(c, mode, on) => Holds(c, mode, on)'
  BY DEF Locked, Holds

\* A statement that asks for no locks gets them.
LEMMA NothingWanted ==
  ASSUME NEW c \in Calls, Wants(c) = {}
  PROVE  Granted(c) /\ Locked(c) = locks
  BY DEF Granted, WaitsFor, Locked

\* A step of a call that holds no locks and takes none.
LEMMA LocklessIInv ==
  ASSUME IInv, NEW c \in Calls, call[c].pc \notin Holding, NEW r, r \in Shape(r), r.input \in Inputs[c],
         r.pc = "begun" \/ r.pc = "done" \/ (r.pc = "found" /\ r.input.op = "invitation.accepted"),
         r.pc = "done" \/ r.previous = NoRole,
         call' = [call EXCEPT ![c] = r], UNCHANGED <<role, profile, invitation, key, locks>>
  PROVE  IInv'
<1>1. CallsOK' /\ call'[c] = r /\ \A d \in Calls : d # c => call'[d] = call[d]
  BY RecordedCalls
<1>2. LocksOK'
  BY <1>1 DEF IInv, LocksOK
<1>3. CallOK(c)'
  BY <1>1 DEF CallOK, InsideOK, Inside, Holding, ActorOK, TargetOK, PreviousOK, InvitationOK, Checked
<1>4. ASSUME NEW d \in Calls, d # c PROVE CallOK(d)'
  BY <1>1, <1>4, Stable
<1> QED
  BY <1>1, <1>2, <1>3, <1>4 DEF IInv, ProfilesOK, RowsOK, AnOwnerRemains

LEMMA BeginIInv ==
  ASSUME IInv, NEW c \in Calls, Begin(c)
  PROVE  IInv'
<1> PICK input \in Inputs[c] :
      call' = [call EXCEPT ![c] = [@ EXCEPT !.pc = "begun", !.input = input,
                                            !.expired = {i \in Ids : invitation[i].expired}]]
  BY DEF Begin
<1> DEFINE r == [call[c] EXCEPT !.pc = "begun", !.input = input,
                                !.expired = {i \in Ids : invitation[i].expired}]
<1>1. call[c] \in Shape(call[c]) /\ call[c].pc = "new" /\ call[c].previous = NoRole
  BY DEF Begin, IInv, CallsOK, CallOK, PreviousOK, Checked
<1>2. r \in Shape(r) /\ r.input = input /\ r.pc = "begun" /\ r.previous = NoRole
  BY <1>1 DEF Shape
<1>3. call' = [call EXCEPT ![c] = r] /\ UNCHANGED <<role, profile, invitation, key, locks>>
  BY DEF Begin
<1> HIDE DEF r
<1> QED
  BY <1>1, <1>2, <1>3, LocklessIInv DEF Holding

LEMMA FindInvitationIInv ==
  ASSUME IInv, NEW c \in Calls, FindInvitation(c)
  PROVE  IInv'
<1> PICK pc \in {"found", "done"} : call' = [call EXCEPT ![c].pc = pc]
  BY DEF FindInvitation
<1> DEFINE r == [call[c] EXCEPT !.pc = pc]
<1>1. /\ call[c] \in Shape(call[c]) /\ call[c].pc = "begun" /\ call[c].previous = NoRole
      /\ call[c].input \in Inputs[c] /\ call[c].input.op = "invitation.accepted"
  BY DEF FindInvitation, IInv, CallsOK, CallOK, PreviousOK, Checked
<1>2. r \in Shape(r) /\ r.input = call[c].input /\ r.pc = pc /\ r.previous = NoRole
  BY <1>1 DEF Shape
<1>3. call' = [call EXCEPT ![c] = r] /\ UNCHANGED <<role, profile, invitation, key, locks>>
  BY DEF FindInvitation
<1> HIDE DEF r
<1> QED
  BY <1>1, <1>2, <1>3, LocklessIInv DEF Holding

LEMMA LockOrganizationIInv ==
  ASSUME IInv, NEW c \in Calls, LockOrganization(c)
  PROVE  IInv'
<1> DEFINE r == [call[c] EXCEPT !.pc = "locked"]
<1>1. /\ call[c] \in Shape(call[c]) /\ call[c].pc \in {"begun", "found"} /\ call[c].previous = NoRole
      /\ call[c].input.op \in Serial /\ <<"update", organization>> \in Wants(c)
  <2>1. /\ call[c] \in Shape(call[c]) /\ call[c].pc \in {"begun", "found"}
        /\ call[c].previous = NoRole /\ call[c].input.op \in Serial
    BY DEF LockOrganization, IInv, CallsOK, CallOK, InsideOK, PreviousOK, Checked, Serial
  <2>2. Wants(c) = {<<"update", organization>>}
    BY DEF LockOrganization, Wants, MemberOps, InvitationOps, ProjectOps
  <2> QED
    BY <2>1, <2>2
<1>2. r \in Shape(r) /\ r.input = call[c].input /\ r.pc = "locked" /\ r.previous = NoRole
  BY <1>1 DEF Shape
<1>3. call' = [call EXCEPT ![c] = r] /\ UNCHANGED <<role, profile, invitation, key>>
      /\ Granted(c) /\ locks' = Locked(c)
  BY DEF LockOrganization, Proceed
<1> HIDE DEF r
<1>4. call'[c] = r
  BY <1>3 DEF IInv, CallsOK
<1>5. Holds(c, "update", organization)'
  BY <1>1, <1>3, Acquired
<1>6. CallOK(c)'
  BY <1>1, <1>2, <1>4, <1>5 DEF CallOK, InsideOK, ActorOK, TargetOK, PreviousOK, InvitationOK, Checked
<1> QED
  BY <1>1, <1>2, <1>3, <1>6, AdvanceIInv DEF Holding

LEMMA CheckActorIInv ==
  ASSUME IInv, NEW c \in Calls, CheckActor(c)
  PROVE  IInv'
<1> PICK actor : actor = call[c].input.actor
  OBVIOUS
<1> DEFINE r == [call[c] EXCEPT !.pc = "allowed", !.role = role[actor]]
<1>1. /\ call[c] \in Shape(call[c]) /\ call[c].pc \in {"locked", "begun"} /\ call[c].previous = NoRole
      /\ call[c].input.op # "invitation.accepted" /\ IsInput(call[c].input)
      /\ call[c].pc = "begun" => call[c].input.op \notin Serial
      /\ <<"share", Membership(actor)>> \in Wants(c)
  BY InputsHaveTypes DEF CheckActor, IInv, CallsOK, CallOK, InsideOK, PreviousOK, Checked, Serial, Wants,
     MemberOps, InvitationOps, ProjectOps
<1>2. role[actor] \in Roles \cup {NoRole}
  BY <1>1 DEF IInv, RowsOK, IsInput
<1>3. /\ r \in Shape(r) /\ r.input = call[c].input /\ r.pc = "allowed" /\ r.previous = NoRole
      /\ r.role = role[actor]
  BY <1>1, <1>2 DEF Shape
<1>4. CASE ~(actor \notin Disabled /\ Manages(role[actor]))
  BY <1>1, <1>4, EndIInv DEF CheckActor
<1>5. CASE actor \notin Disabled /\ Manages(role[actor])
  <2>1. call' = [call EXCEPT ![c] = r] /\ UNCHANGED <<role, profile, invitation, key>>
        /\ Granted(c) /\ locks' = Locked(c)
    BY <1>5 DEF CheckActor
  <2> HIDE DEF r
  <2>2. call'[c] = r
    BY <2>1 DEF IInv, CallsOK
  <2>3. Holds(c, "share", Membership(actor))'
    BY <1>1, <2>1, Acquired
  <2>4. ActorOK(c)'
    BY <1>3, <1>5, <2>1, <2>2, <2>3 DEF ActorOK
  <2>5. InsideOK(c)'
    BY <1>1, <1>3, <2>1, <2>2, Acquired DEF IInv, CallOK, InsideOK, Inside, Holding
  <2>6. CallOK(c)'
    BY <1>1, <1>3, <2>2, <2>4, <2>5 DEF CallOK, TargetOK, PreviousOK, InvitationOK, Checked
  <2> QED
    BY <1>1, <1>3, <2>1, <2>6, AdvanceIInv DEF Holding
<1> QED
  BY <1>4, <1>5

\* The checks that take no lock or one, after which the call has only to commit.
LEMMA CheckedIInv ==
  ASSUME IInv, NEW c \in Calls, call[c].pc \in {"allowed", "locked"}, Granted(c), locks' = Locked(c),
         call[c].pc = "locked" => call[c].input.op = "invitation.accepted",
         NEW r, r \in Shape(r), r.input = call[c].input, r.role = call[c].role, r.pc = "checked",
         call' = [call EXCEPT ![c] = r], UNCHANGED <<role, profile, invitation, key>>,
         r.input.op \notin MemberOps => r.previous = NoRole, TargetOK(c)', InvitationOK(c)'
  PROVE  IInv'
<1>1. call'[c] = r
  BY DEF IInv, CallsOK
<1>2. InsideOK(c)'
  BY <1>1, Acquired DEF IInv, CallOK, InsideOK, Inside, Holding, Serial
<1>3. ActorOK(c)'
  BY <1>1, Acquired DEF IInv, CallOK, ActorOK, InsideOK
<1>4. CallOK(c)'
  BY <1>1, <1>2, <1>3 DEF CallOK, PreviousOK, Checked
<1> QED
  BY <1>4, AdvanceIInv DEF Holding

LEMMA CheckTargetIInv ==
  ASSUME IInv, NEW c \in Calls, CheckTarget(c)
  PROVE  IInv'
<1> PICK subject : subject = call[c].input.subject
  OBVIOUS
<1> DEFINE target == role[subject]
           next == IF call[c].input.op = "member.removed" THEN NoRole ELSE call[c].input.role
           checked == /\ target # NoRole
                      /\ CanManageMember(call[c].role, target, next)
                      /\ call[c].input.op = "member.role_changed" => target = call[c].input.expected
                      /\ next # target
                      /\ ProtectOwner(subject)
           r == [call[c] EXCEPT !.pc = "checked", !.previous = target]
<1>1. /\ call[c] \in Shape(call[c]) /\ call[c].pc = "allowed" /\ call[c].input.op \in MemberOps
      /\ IsInput(call[c].input)
  BY InputsHaveTypes DEF CheckTarget, IInv, CallsOK
<1>2. subject \in Users /\ target \in Roles \cup {NoRole}
  BY <1>1 DEF IInv, RowsOK, IsInput
<1>3. /\ r \in Shape(r) /\ r.input = call[c].input /\ r.pc = "checked" /\ r.previous = target
      /\ r.role = call[c].role
  BY <1>1, <1>2 DEF Shape
<1>4. CASE ~checked
  BY <1>1, <1>4, EndIInv DEF CheckTarget
<1>5. CASE checked
  <2>1. call' = [call EXCEPT ![c] = r] /\ UNCHANGED <<role, profile, invitation, key>>
        /\ Granted(c) /\ locks' = Locked(c)
    BY <1>5 DEF CheckTarget
  <2> HIDE DEF r
  <2>2. call'[c] = r
    BY <2>1 DEF IInv, CallsOK
  <2>3. <<"update", Membership(subject)>> \in Wants(c)
    BY <1>1 DEF Wants, MemberOps, InvitationOps, ProjectOps
  <2>4. Holds(c, "update", Membership(subject))'
    BY <2>1, <2>3, Acquired
  <2>5. ProtectOwner(subject)'
    BY <1>5, <2>1 DEF ProtectOwner
  <2>6. TargetOK(c)'
    BY <1>3, <1>5, <2>1, <2>2, <2>4, <2>5 DEF TargetOK
  <2>7. InvitationOK(c)'
    BY <1>1, <1>3, <2>2 DEF InvitationOK, Checked, MemberOps
  <2> QED
    BY <1>1, <1>3, <2>1, <2>6, <2>7, CheckedIInv
<1> QED
  BY <1>4, <1>5

\* The checks of other operations record nothing that they read.
LEMMA ProceedIInv ==
  ASSUME IInv, NEW c \in Calls, call[c].pc \in {"allowed", "locked"}, Granted(c), NEW ok,
         call[c].pc = "locked" => call[c].input.op = "invitation.accepted",
         call[c].input.op \notin MemberOps, Proceed(c, ok, "checked"),
         UNCHANGED <<role, profile, invitation, key>>,
         ASSUME ok, call' = [call EXCEPT ![c] = [call[c] EXCEPT !.pc = "checked"]], locks' = Locked(c)
         PROVE  InvitationOK(c)'
  PROVE  IInv'
<1> DEFINE r == [call[c] EXCEPT !.pc = "checked"]
<1>1. call[c] \in Shape(call[c]) /\ call[c].previous = NoRole
  BY DEF IInv, CallsOK, CallOK, PreviousOK, Checked
<1>2. /\ r \in Shape(r) /\ r.input = call[c].input /\ r.pc = "checked" /\ r.previous = NoRole
      /\ r.role = call[c].role
  BY <1>1 DEF Shape
<1>3. CASE ~ok
  BY <1>3, EndIInv DEF Proceed
<1>4. CASE ok
  <2>1. call' = [call EXCEPT ![c] = r] /\ locks' = Locked(c)
    BY <1>4 DEF Proceed
  <2>2. InvitationOK(c)'
    BY <1>4, <2>1
  <2> HIDE DEF r
  <2>3. call'[c] = r
    BY <2>1 DEF IInv, CallsOK
  <2>4. TargetOK(c)'
    BY <1>2, <2>3 DEF TargetOK, Checked
  <2> QED
    BY <1>2, <2>1, <2>2, <2>4, CheckedIInv
<1> QED
  BY <1>3, <1>4

LEMMA CheckInvitationIInv ==
  ASSUME IInv, NEW c \in Calls, CheckInvitation(c)
  PROVE  IInv'
<1> USE DEF CheckInvitation
<1>1. Wants(c) = {}
  BY DEF Wants, MemberOps, InvitationOps, ProjectOps
<1>2. ASSUME CanManageMember(call[c].role, call[c].input.role, NoRole),
             call' = [call EXCEPT ![c] = [call[c] EXCEPT !.pc = "checked"]]
      PROVE  InvitationOK(c)'
  <2>1. /\ call'[c].input = call[c].input /\ call'[c].role = call[c].role
        /\ call'[c].input.op = "invitation.created"
    BY <1>2 DEF IInv, CallsOK, Shape
  <2> QED
    BY <1>2, <2>1 DEF InvitationOK, Checked
<1> QED
  BY <1>1, <1>2, NothingWanted, ProceedIInv DEF MemberOps

LEMMA CheckRevocationIInv ==
  ASSUME IInv, NEW c \in Calls, CheckRevocation(c)
  PROVE  IInv'
<1> USE DEF CheckRevocation
<1>1. Wants(c) = {}
  BY DEF Wants, MemberOps, InvitationOps, ProjectOps
<1>2. ASSUME invitation[call[c].input.subject].state = "pending",
             CanManageMember(call[c].role, invitation[call[c].input.subject].role, NoRole),
             call' = [call EXCEPT ![c] = [call[c] EXCEPT !.pc = "checked"]]
      PROVE  InvitationOK(c)'
  <2>1. /\ call'[c].input = call[c].input /\ call'[c].role = call[c].role
        /\ call'[c].input.op = "invitation.revoked"
    BY <1>2 DEF IInv, CallsOK, Shape
  <2> QED
    BY <1>2, <2>1 DEF InvitationOK, Checked
<1> QED
  BY <1>1, <1>2, NothingWanted, ProceedIInv DEF MemberOps

LEMMA CheckRecipientIInv ==
  ASSUME IInv, NEW c \in Calls, CheckRecipient(c)
  PROVE  IInv'
<1> USE DEF CheckRecipient
<1> PICK input : input = call[c].input
  OBVIOUS
<1>1. <<"share", Person(input.actor)>> \in Wants(c)
  BY DEF Wants, MemberOps, InvitationOps, ProjectOps
<1>2. ASSUME invitation[input.subject].state = "pending", role[input.actor] = NoRole,
             profile[input.actor].verified, profile[input.actor].email = invitation[input.subject].email,
             call' = [call EXCEPT ![c] = [call[c] EXCEPT !.pc = "checked"]], locks' = Locked(c)
      PROVE  InvitationOK(c)'
  <2>1. call'[c].input = input /\ input.op = "invitation.accepted"
    BY <1>2 DEF IInv, CallsOK, Shape
  <2>2. Holds(c, "share", Person(input.actor))'
    BY <1>1, <1>2, Acquired
  <2> QED
    BY <1>2, <2>1, <2>2 DEF InvitationOK, Checked
<1> QED
  BY <1>2, ProceedIInv DEF MemberOps, Available

LEMMA KeyAndProjectIInv ==
  ASSUME IInv, NEW c \in Calls, UpdateKey(c) \/ Insert(c)
  PROVE  IInv'
<1> USE DEF UpdateKey, Insert
<1>1. Granted(c)
  <2>1. Insert(c) => Wants(c) = {}
    BY DEF Wants, MemberOps, InvitationOps, ProjectOps
  <2> QED
    BY <2>1, NothingWanted
<1>2. ASSUME call' = [call EXCEPT ![c] = [call[c] EXCEPT !.pc = "checked"]]
      PROVE  InvitationOK(c)'
  <2>1. call'[c].input = call[c].input /\ call[c].input.op \in ProjectOps
    BY <1>2 DEF IInv, CallsOK, Shape, ProjectOps
  <2> QED
    BY <2>1 DEF InvitationOK, Checked, ProjectOps
<1> QED
  BY <1>1, <1>2, ProceedIInv DEF MemberOps

-----------------------------------------------------------------------------
(* Commit.                                                                 *)

LEMMA CommitStart ==
  ASSUME IInv, NEW c \in Calls, Commit(c)
  PROVE  /\ call[c].pc = "checked" /\ IsInput(call[c].input) /\ CallOK(c)
         /\ CallsOK' /\ LocksOK' /\ CallOK(c)' /\ ProfilesOK'
         /\ \A d \in Calls : d # c => call'[d] = call[d] /\ \A l \in locks : l.by = d => l \in locks'
<1>1. call[c].pc = "checked" /\ End(c) /\ UNCHANGED profile
  BY DEF Commit
<1>2. IsInput(call[c].input) /\ CallOK(c)
  BY <1>1, InputsHaveTypes DEF IInv
<1>3. ProfilesOK'
  BY <1>1 DEF IInv, ProfilesOK
<1> QED
  BY <1>1, <1>2, <1>3, EndedCall

\* Whose role a commit may change.
LEMMA RolesAfter ==
  ASSUME IInv, NEW c \in Calls, Commit(c)
  PROVE  \/ /\ call[c].input.op \in MemberOps /\ call[c].input.subject \in Users
            /\ \E r \in Roles \cup {NoRole} : role' = [role EXCEPT ![call[c].input.subject] = r]
         \/ /\ call[c].input.op = "invitation.accepted" /\ call[c].input.actor \in Users
            /\ call[c].input.subject \in Ids
            /\ role' = [role EXCEPT ![call[c].input.actor] = invitation[call[c].input.subject].role]
         \/ call[c].input.op \in InvitationOps \cup ProjectOps /\ UNCHANGED role
<1>1. IsInput(call[c].input)
  BY CommitStart
<1>2. role' = RoleAfter(c)
  BY DEF Commit
<1> QED
  BY <1>1, <1>2 DEF RoleAfter, IsInput, Ops, MemberOps, InvitationOps, ProjectOps

LEMMA CommitRows ==
  ASSUME IInv, NEW c \in Calls, Commit(c)
  PROVE  RowsOK'
<1>1. IsInput(call[c].input) /\ c \in Ids
  BY CommitStart DEF Ids
<1>2. RowsOK
  BY DEF IInv
<1>3. role' \in [Users -> Roles \cup {NoRole}]
  BY <1>2, RolesAfter DEF RowsOK
<1>4. key' \in [Ids -> {"none", "active", "revoked"}]
  <2>1. key' = KeyAfter(c)
    BY DEF Commit
  <2> QED
    BY <1>1, <1>2, <2>1 DEF RowsOK, KeyAfter
<1> DEFINE Row == [state : {"none", "pending", "revoked", "accepted"}, expired : BOOLEAN,
                   by : Users \cup {NoInput}, email : Emails \cup {NoInput}, role : Roles \cup {NoRole}]
<1>5. invitation' \in [Ids -> Row]
  <2>1. invitation' = InvitationAfter(c)
    BY DEF Commit
  <2>2. CASE call[c].input.op = "invitation.created"
    <3>1. [state |-> "pending", expired |-> FALSE, by |-> NoInput,
           email |-> call[c].input.subject, role |-> call[c].input.role] \in Row
      BY <1>1, <2>2 DEF IsInput
    <3>2. \A i \in Ids : invitation[i] \in Row /\ [invitation[i] EXCEPT !.state = "revoked"] \in Row
      BY <1>2 DEF RowsOK
    <3> HIDE DEF Row
    <3> QED
      BY <2>1, <2>2, <3>1, <3>2 DEF InvitationAfter
  <2>3. CASE call[c].input.op = "invitation.revoked"
    <3>1. \A i \in Ids : [invitation[i] EXCEPT !.state = "revoked"] \in Row
      BY <1>2 DEF RowsOK
    <3>2. call[c].input.subject \in Ids /\ invitation \in [Ids -> Row]
      BY <1>1, <1>2, <2>3 DEF IsInput, RowsOK
    <3>3. invitation' = [invitation EXCEPT ![call[c].input.subject] =
            [invitation[call[c].input.subject] EXCEPT !.state = "revoked"]]
      BY <2>1, <2>3, <3>2 DEF InvitationAfter
    <3> HIDE DEF Row
    <3> QED
      BY <3>1, <3>2, <3>3
  <2>4. CASE call[c].input.op = "invitation.accepted"
    <3>1. \A i \in Ids :
            [invitation[i] EXCEPT !.state = "accepted", !.by = call[c].input.actor] \in Row
      BY <1>1, <1>2, ZenonT(40) DEF RowsOK, IsInput
    <3>2. invitation' = [invitation EXCEPT ![call[c].input.subject] =
            [invitation[call[c].input.subject] EXCEPT !.state = "accepted", !.by = call[c].input.actor]]
      BY <1>1, <1>2, <2>1, <2>4 DEF RowsOK, InvitationAfter
    <3>3. call[c].input.subject \in Ids /\ invitation \in [Ids -> Row]
      BY <1>1, <1>2, <2>4 DEF IsInput, RowsOK
    <3> HIDE DEF Row
    <3> QED
      BY <3>1, <3>2, <3>3
  <2>5. CASE call[c].input.op \notin {"invitation.created", "invitation.revoked", "invitation.accepted"}
    BY <1>2, <2>1, <2>5 DEF RowsOK, InvitationAfter
  <2> QED
    BY <2>2, <2>3, <2>4, <2>5
<1> QED
  BY <1>3, <1>4, <1>5 DEF RowsOK

\* The actors of other calls keep their roles: their memberships are share-locked,
\* and who accepts an invitation is not a member.
LEMMA CommitKeepsActors ==
  ASSUME IInv, NEW c \in Calls, Commit(c), NEW d \in Calls, d # c
  PROVE  ActorOK(d)'
<1>1. /\ call[c].pc = "checked" /\ CallOK(c) /\ CallOK(d) /\ call'[d] = call[d]
      /\ \A mode, on : Holds(d, mode, on) => Holds(d, mode, on)'
  BY CommitStart DEF IInv, Holds
<1> SUFFICES ASSUME call[d].pc \in {"allowed", "checked"}, call[d].input.op # "invitation.accepted",
                    role'[call[d].input.actor] # role[call[d].input.actor]
             PROVE  FALSE
  BY <1>1 DEF CallOK, ActorOK
<1> PICK actor : actor = call[d].input.actor
  OBVIOUS
<1>2. Holds(d, "share", Membership(actor)) /\ Manages(role[actor]) /\ actor \in Users
  BY <1>1, InputsHaveTypes DEF IInv, CallOK, ActorOK, IsInput
<1>3. role \in [Users -> Roles \cup {NoRole}]
  BY DEF IInv, RowsOK
<1>4. CASE call[c].input.op \in MemberOps
  <2>1. actor = call[c].input.subject
    BY <1>2, <1>3, <1>4, RolesAfter DEF MemberOps, InvitationOps, ProjectOps
  <2>2. Holds(c, "update", Membership(actor))
    BY <1>1, <1>4, <2>1 DEF CallOK, TargetOK, Checked
  <2> QED
    BY <1>2, <2>2 DEF IInv, LocksOK, Holds, Conflicts
<1>5. CASE call[c].input.op = "invitation.accepted"
  <2>1. actor = call[c].input.actor
    BY <1>2, <1>3, <1>5, RolesAfter DEF MemberOps, InvitationOps, ProjectOps
  <2>2. role[actor] = NoRole
    BY <1>1, <1>5, <2>1 DEF CallOK, InvitationOK, Checked
  <2> QED
    BY <1>2, <2>2, UsersAssumption DEF Manages, Roles
<1> QED
  BY <1>4, <1>5, RolesAfter

LEMMA CommitOthers ==
  ASSUME IInv, NEW c \in Calls, Commit(c), NEW d \in Calls, d # c
  PROVE  CallOK(d)'
<1>1. /\ call[c].pc = "checked" /\ CallOK(d) /\ call'[d] = call[d] /\ IsInput(call[c].input)
      /\ \A l \in locks : l.by = d => l \in locks'
  BY CommitStart DEF IInv
<1>2. \A mode, on : Holds(d, mode, on) => Holds(d, mode, on)'
  BY <1>1 DEF Holds
<1>3. CASE call[c].input.op \in ProjectOps
  <2>1. UNCHANGED <<role, profile, invitation>>
    BY <1>3, RolesAfter DEF Commit, InvitationAfter, MemberOps, InvitationOps, ProjectOps
  <2> QED
    BY <1>1, <2>1, Stable
<1>4. CASE call[c].input.op \in Serial
  <2>1. ~Inside(d)
    BY <1>1, <1>4, OneInside DEF Inside, Holding
  <2>2. InsideOK(d)'
    BY <1>1, <2>1 DEF CallOK, InsideOK, Inside
  <2>3. TargetOK(d)' /\ InvitationOK(d)'
    BY <1>1, <2>1 DEF TargetOK, InvitationOK, Checked, Inside, Holding, Serial, MemberOps, InvitationOps
  <2>4. PreviousOK(d)'
    BY <1>1 DEF CallOK, PreviousOK, Checked
  <2> QED
    BY <2>2, <2>3, <2>4, CommitKeepsActors DEF CallOK
<1> QED
  BY <1>1, <1>3, <1>4 DEF IsInput, Ops, Serial

LEMMA CommitOwner ==
  ASSUME IInv, NEW c \in Calls, Commit(c)
  PROVE  AnOwnerRemains'
<1> PICK u \in Users \ Disabled : role[u] = "owner"
  BY DEF IInv, AnOwnerRemains
<1>1. call[c].pc = "checked" /\ CallOK(c) /\ role \in [Users -> Roles \cup {NoRole}]
  BY CommitStart DEF IInv, RowsOK
<1>2. CASE call[c].input.op \in MemberOps
  <2>1. PICK r : role' = [role EXCEPT ![call[c].input.subject] = r]
    BY <1>2, RolesAfter DEF MemberOps, InvitationOps, ProjectOps
  <2>2. ProtectOwner(call[c].input.subject)
    BY <1>1, <1>2 DEF CallOK, TargetOK, Checked
  <2>3. PICK v \in Users \ Disabled : role[v] = "owner" /\ v # call[c].input.subject
    BY <2>2 DEF ProtectOwner
  <2> QED
    BY <1>1, <2>1, <2>3 DEF AnOwnerRemains
<1>3. CASE call[c].input.op = "invitation.accepted"
  <2>1. role[call[c].input.actor] = NoRole
    BY <1>1, <1>3 DEF CallOK, InvitationOK, Checked
  <2>2. u # call[c].input.actor
    BY <2>1, UsersAssumption DEF Roles
  <2> QED
    BY <1>1, <1>3, <2>2, RolesAfter DEF AnOwnerRemains, MemberOps, InvitationOps, ProjectOps
<1>4. CASE UNCHANGED role
  BY <1>4 DEF AnOwnerRemains
<1> QED
  BY <1>2, <1>3, <1>4, RolesAfter

LEMMA CommitIInv ==
  ASSUME IInv, NEW c \in Calls, Commit(c)
  PROVE  IInv'
<1>1. \A d \in Calls : CallOK(d)'
  BY CommitStart, CommitOthers
<1> QED
  BY <1>1, CommitStart, CommitRows, CommitOwner DEF IInv

-----------------------------------------------------------------------------
(* The other ends of a call, and what happens beside the calls.            *)

LEMMA GiveUpIInv ==
  ASSUME IInv, NEW c \in Calls, Rollback(c) \/ DeadlockVictim(c)
  PROVE  IInv'
<1>1. call[c].pc # "new"
  <2>1. call[c].pc = "new" => Wants(c) = {}
    BY DEF Wants
  <2>2. call[c].pc = "new" => Granted(c)
    BY <2>1, NothingWanted
  <2> QED
    BY <2>2 DEF Rollback, DeadlockVictim
<1> QED
  BY <1>1, EndIInv DEF Rollback, DeadlockVictim

\* Who accepts an invitation holds the person's row, which a login updates.
LEMMA RefreshProfileIInv ==
  ASSUME IInv, NEW u \in Users, RefreshProfile(u)
  PROVE  IInv'
<1>1. PICK p \in Profiles[u] : profile' = [profile EXCEPT ![u] = p]
  BY DEF RefreshProfile
<1>2. UNCHANGED <<role, invitation, key, call, locks>>
  BY DEF RefreshProfile
<1>3. ProfilesOK'
  BY <1>1, UsersAssumption DEF IInv, ProfilesOK
<1>4. ASSUME NEW d \in Calls PROVE CallOK(d)'
  <2>1. ~Holds(d, "share", Person(u))
    <3>1. Conflicts("no key update", "share")
      <4>1. {"no key update", "share"} # {"no key update", "key share"}
        <5>1. "share" \notin {"no key update", "key share"}
          OBVIOUS
        <5> QED
          BY <5>1, Zenon
      <4> QED
        BY <4>1 DEF Conflicts
    <3>2. \A l \in locks : l.on = Person(u) => l.mode # "share"
      BY <3>1 DEF RefreshProfile
    <3> QED
      BY <3>2, Zenon DEF Holds
  <2>2. \A v \in Users : v # u => profile'[v] = profile[v]
    BY <1>1 DEF IInv, ProfilesOK
  <2> QED
    BY <1>2, <2>1, <2>2, Stable
<1>5. CallsOK' /\ RowsOK' /\ LocksOK' /\ AnOwnerRemains'
  BY <1>2 DEF IInv, CallsOK, RowsOK, LocksOK, AnOwnerRemains
<1> QED
  BY <1>3, <1>4, <1>5 DEF IInv

LEMMA ExpireIInv ==
  ASSUME IInv, NEW i \in Ids, Expire(i)
  PROVE  IInv'
<1>1. UNCHANGED <<role, profile, key, call, locks>>
  BY DEF Expire
<1> DEFINE Row == [state : {"none", "pending", "revoked", "accepted"}, expired : BOOLEAN,
                   by : Users \cup {NoInput}, email : Emails \cup {NoInput}, role : Roles \cup {NoRole}]
           row == [invitation[i] EXCEPT !.expired = TRUE]
<1>2. invitation \in [Ids -> Row]
  BY DEF IInv, RowsOK
<1>3. /\ row \in Row /\ row.state = invitation[i].state /\ row.role = invitation[i].role
      /\ row.email = invitation[i].email
  BY <1>2
<1>4. invitation' = [invitation EXCEPT ![i] = row]
  BY DEF Expire
<1>5. RowsOK'
  <2>1. invitation' \in [Ids -> Row]
    <3> HIDE DEF Row, row
    <3> QED
      BY <1>2, <1>3, <1>4
  <2> QED
    BY <1>1, <2>1 DEF IInv, RowsOK
<1>6. ASSUME NEW d \in Calls PROVE CallOK(d)'
  <2>1. \A j \in Ids : /\ invitation'[j].state = invitation[j].state
                       /\ invitation'[j].role = invitation[j].role
                       /\ invitation'[j].email = invitation[j].email
    <3> HIDE DEF Row, row
    <3> QED
      BY <1>2, <1>3, <1>4
  <2> QED
    BY <1>1, <2>1, Stable
<1>7. CallsOK' /\ ProfilesOK' /\ LocksOK' /\ AnOwnerRemains'
  BY <1>1 DEF IInv, CallsOK, ProfilesOK, LocksOK, AnOwnerRemains
<1> QED
  BY <1>5, <1>6, <1>7 DEF IInv

LEMMA StepIInv == IInv /\ [Next]_vars => IInv'
<1> SUFFICES ASSUME IInv, [Next]_vars PROVE IInv'
  OBVIOUS
<1>1. ASSUME NEW c \in Calls, Begin(c) PROVE IInv'
  BY <1>1, BeginIInv
<1>2. ASSUME NEW c \in Calls, Statement(c) PROVE IInv'
  BY <1>2, FindInvitationIInv, LockOrganizationIInv, CheckActorIInv, CheckTargetIInv, CheckInvitationIInv,
     CheckRevocationIInv, CheckRecipientIInv, KeyAndProjectIInv, CommitIInv DEF Statement
<1>3. ASSUME NEW c \in Calls, Rollback(c) \/ DeadlockVictim(c) PROVE IInv'
  BY <1>3, GiveUpIInv
<1>4. ASSUME NEW u \in Users, RefreshProfile(u) PROVE IInv'
  BY <1>4, RefreshProfileIInv
<1>5. ASSUME NEW i \in Ids, Expire(i) PROVE IInv'
  BY <1>5, ExpireIInv
<1>6. ASSUME UNCHANGED vars PROVE IInv'
  <2>1. CallsOK' /\ ProfilesOK' /\ RowsOK' /\ LocksOK' /\ AnOwnerRemains'
    BY <1>6 DEF vars, IInv, CallsOK, ProfilesOK, RowsOK, LocksOK, AnOwnerRemains
  <2>2. \A d \in Calls : CallOK(d)'
    BY <1>6, Stable DEF vars
  <2> QED
    BY <2>1, <2>2 DEF IInv
<1> QED
  BY <1>1, <1>2, <1>3, <1>4, <1>5, <1>6 DEF Next

LEMMA Inductive == Spec => []IInv
  BY InitIInv, StepIInv, PTL DEF Spec

-----------------------------------------------------------------------------
(* The theorems.                                                           *)

\* Rows, calls and locks have their types; only open transactions hold locks.
THEOREM TypeCorrect == Spec => []TypeOK
<1>1. IInv => TypeOK
  <2> SUFFICES ASSUME IInv PROVE TypeOK
    OBVIOUS
  <2>1. \A u \in Users : profile[u] \in Profiles[u]
    BY DEF IInv, ProfilesOK
  <2>2. ASSUME NEW c \in Calls
        PROVE  /\ call[c].pc \in {"new", "begun", "found", "locked", "allowed", "checked", "done"}
               /\ call[c].pc # "new" => call[c].input \in Inputs[c]
               /\ call[c].role \in Roles \cup {NoRole}
               /\ call[c].previous \in Roles \cup {NoRole}
               /\ call[c].expired \subseteq Ids
    BY DEF IInv, CallsOK, Shape
  <2>3. locks \subseteq [by : {c \in Calls : call[c].pc \notin {"new", "done"}}, mode : Modes, on : Resources]
    BY DEF IInv, LocksOK, Holding
  <2> QED
    BY <2>1, <2>2, <2>3 DEF TypeOK, IInv, RowsOK
<1> QED
  BY <1>1, Inductive, PTL

\* However many owners demote, remove or invite each other at once, and wherever
\* their transactions are rolled back, an enabled owner remains.
THEOREM OwnerRemains == Spec => []AnOwnerRemains
<1>1. IInv => AnOwnerRemains
  BY DEF IInv
<1> QED
  BY <1>1, Inductive, PTL

\* Only a commit writes a membership or the audit log.
LEMMA OnlyCommits ==
  ASSUME [Next]_vars, role' # role \/ audit' # audit
  PROVE  \E c \in Calls : Commit(c)
  BY DEF Next, vars, Statement, Begin, FindInvitation, LockOrganization, CheckActor, CheckTarget, CheckInvitation,
     CheckRevocation, CheckRecipient, UpdateKey, Insert, Rollback, DeadlockVictim, RefreshProfile, Expire

\* What acceptInvitation checked of the invitation, the profile and the membership
\* is still so when it commits, although logins and other calls run beside it.
THEOREM JoinsInvited == Spec => JoinsAreInvited
<1> DEFINE Invited(u) ==
      \E i \in Ids : /\ invitation[i].state = "pending" /\ invitation'[i].state = "accepted"
                     /\ invitation'[i].by = u
                     /\ profile[u] = [email |-> invitation[i].email, verified |-> TRUE]
                     /\ role'[u] = invitation[i].role
<1>1. IInv /\ [Next]_vars =>
        [\A u \in Users : role[u] = NoRole /\ role'[u] # NoRole => Invited(u)]_vars
  <2> SUFFICES ASSUME IInv, [Next]_vars, NEW u \in Users, role[u] = NoRole, role'[u] # NoRole
               PROVE  Invited(u)
    BY Zenon
  <2>1. PICK c \in Calls : Commit(c)
    BY OnlyCommits
  <2>2. /\ call[c].pc = "checked" /\ CallOK(c) /\ IsInput(call[c].input)
        /\ role \in [Users -> Roles \cup {NoRole}]
    BY <2>1, CommitStart DEF IInv, RowsOK
  <2>3. call[c].input.op \notin MemberOps
    <3> SUFFICES ASSUME call[c].input.op \in MemberOps PROVE FALSE
      OBVIOUS
    <3>1. u = call[c].input.subject
      BY <2>1, <2>2, RolesAfter DEF MemberOps, InvitationOps, ProjectOps
    <3> QED
      BY <2>2, <3>1 DEF CallOK, TargetOK, Checked
  <2>4. call[c].input.op = "invitation.accepted" /\ u = call[c].input.actor
    BY <2>1, <2>2, <2>3, RolesAfter
  <2>5. PICK i \in Ids : i = call[c].input.subject
    BY <2>2, <2>4 DEF IsInput
  <2>6. /\ invitation[i].state = "pending" /\ profile[u].verified
        /\ profile[u].email = invitation[i].email
    BY <2>2, <2>4, <2>5 DEF CallOK, InvitationOK, Checked
  <2>7. profile[u] = [email |-> invitation[i].email, verified |-> TRUE]
    BY <2>6 DEF IInv, ProfilesOK
  <2>8. role'[u] = invitation[i].role
    BY <2>1, <2>2, <2>4, <2>5, RolesAfter DEF MemberOps, InvitationOps, ProjectOps
  <2>9. invitation'[i].state = "accepted" /\ invitation'[i].by = u
    <3>1. invitation[i] \in [state : {"none", "pending", "revoked", "accepted"}, expired : BOOLEAN,
                             by : Users \cup {NoInput}, email : Emails \cup {NoInput},
                             role : Roles \cup {NoRole}]
      BY DEF IInv, RowsOK
    <3>2. invitation'[i] = [invitation[i] EXCEPT !.state = "accepted", !.by = u]
      BY <2>1, <2>4, <2>5 DEF Commit, InvitationAfter, IInv, RowsOK
    <3> QED
      BY <3>1, <3>2
  <2> QED
    BY <2>6, <2>7, <2>8, <2>9
<1> QED
  BY <1>1, Inductive, PTL DEF Spec, JoinsAreInvited

\* The role that a manager saw is still the member's role when the change
\* commits, for the member's row and the organization stay locked since it was
\* compared (changeMemberRole).
THEOREM ChangesExpected == Spec => ChangesAreExpected
<1> DEFINE Expected(u) ==
      \E c \in Calls :
        /\ call[c].pc = "checked" /\ call'[c].pc = "done"
        /\ call[c].input.op = "member.role_changed" /\ call[c].input.subject = u
        /\ call[c].input.expected = role[u] /\ call[c].input.role = role'[u]
<1>1. IInv /\ [Next]_vars =>
        [\A u \in Users : role[u] # role'[u] /\ NoRole \notin {role[u], role'[u]} => Expected(u)]_vars
  <2> SUFFICES ASSUME IInv, [Next]_vars, NEW u \in Users, role[u] # role'[u],
                      role[u] # NoRole, role'[u] # NoRole
               PROVE  Expected(u)
    BY Zenon
  <2>1. PICK c \in Calls : Commit(c)
    BY OnlyCommits
  <2>2. /\ call[c].pc = "checked" /\ CallOK(c) /\ IsInput(call[c].input)
        /\ role \in [Users -> Roles \cup {NoRole}]
    BY <2>1, CommitStart DEF IInv, RowsOK
  <2>3. call[c].input.op # "invitation.accepted"
    <3> SUFFICES ASSUME call[c].input.op = "invitation.accepted" PROVE FALSE
      OBVIOUS
    <3>1. u = call[c].input.actor
      BY <2>1, <2>2, RolesAfter DEF MemberOps, InvitationOps, ProjectOps
    <3> QED
      BY <2>2, <3>1 DEF CallOK, InvitationOK, Checked
  <2>4. call[c].input.op \in MemberOps /\ u = call[c].input.subject
    BY <2>1, <2>2, <2>3, RolesAfter
  <2>5. role' = RoleAfter(c) /\ call'[c].pc = "done"
    <3>1. role' = RoleAfter(c) /\ call' = [call EXCEPT ![c].pc = "done"]
      BY <2>1 DEF Commit, End
    <3>2. call[c] \in Shape(call[c]) /\ call = [d \in Calls |-> call[d]]
      BY DEF IInv, CallsOK
    <3> QED
      BY <3>1, <3>2 DEF Shape
  <2>6. call[c].input.op = "member.role_changed"
    <3> SUFFICES ASSUME call[c].input.op = "member.removed" PROVE FALSE
      BY <2>4 DEF MemberOps
    <3> QED
      BY <2>2, <2>4, <2>5 DEF RoleAfter
  <2>7. role'[u] = call[c].input.role
    BY <2>2, <2>4, <2>5, <2>6 DEF RoleAfter
  <2>8. call[c].input.expected = role[u]
    BY <2>2, <2>4, <2>6 DEF CallOK, TargetOK, Checked
  <2> QED
    BY <2>2, <2>4, <2>5, <2>6, <2>7, <2>8
<1> QED
  BY <1>1, Inductive, PTL DEF Spec, ChangesAreExpected

\* The audit log is a sequence.
AuditIsLog == \E S : audit \in Seq(S)

LEMMA AuditGrows ==
  ASSUME AuditIsLog, NEW c \in Calls, Commit(c)
  PROVE  AuditIsLog' /\ audit'[Len(audit')] = AuditEntry(c)
<1> PICK S : audit \in Seq(S)
  BY DEF AuditIsLog
<1> PICK e : e = AuditEntry(c)
  OBVIOUS
<1>1. audit \in Seq(S \cup {e}) /\ audit' = Append(audit, e)
  BY SeqMonotonic DEF Commit
<1> QED
  BY <1>1, AppendProperties DEF AuditIsLog

LEMMA AuditLog == Spec => []AuditIsLog
<1>1. Init => AuditIsLog
  BY EmptySeq DEF Init, AuditIsLog
<1>2. AuditIsLog /\ [Next]_vars => AuditIsLog'
  <2> SUFFICES ASSUME AuditIsLog, [Next]_vars PROVE AuditIsLog'
    OBVIOUS
  <2>1. CASE audit' = audit
    BY <2>1 DEF AuditIsLog
  <2> QED
    BY <2>1, OnlyCommits, AuditGrows
<1> QED
  BY <1>1, <1>2, PTL DEF Spec

\* An owner is concerned only by what an owner does.
LEMMA OwnersManageOwners ==
  ASSUME NEW a, NEW t, NEW n, CanManageMember(a, t, n), "owner" \in {t, n}
  PROVE  a = "owner"
  BY DEF CanManageMember

\* The role that allowed a call is still the actor's when the call commits, and
\* what it may do to an owner is still so: each check keeps its row locked.
THEOREM AuthorityAtCommit == Spec => AuthorityHolds
<1> DEFINE Allowed ==
      audit' # audit =>
        LET e == audit'[Len(audit')] IN
        e.action # "invitation.accepted" =>
          /\ e.actor \notin Disabled /\ Manages(role[e.actor])
          /\ "owner" \in {e.previous, e.next} => role[e.actor] = "owner"
<1>1. IInv /\ AuditIsLog /\ [Next]_vars => [Allowed]_vars
  <2> SUFFICES ASSUME IInv, AuditIsLog, [Next]_vars, audit' # audit PROVE Allowed
    BY Zenon
  <2>1. PICK c \in Calls : Commit(c)
    BY OnlyCommits
  <2>2. PICK e : e = audit'[Len(audit')] /\ e = AuditEntry(c)
    BY <2>1, AuditGrows
  <2> SUFFICES ASSUME e.action # "invitation.accepted"
               PROVE  /\ e.actor \notin Disabled /\ Manages(role[e.actor])
                      /\ "owner" \in {e.previous, e.next} => role[e.actor] = "owner"
    BY <2>2
  <2> PICK input : input = call[c].input
    OBVIOUS
  <2>3. /\ call[c].pc = "checked" /\ CallOK(c) /\ IsInput(input) /\ NoRole # "owner"
    BY <2>1, CommitStart, UsersAssumption DEF Roles
  <2>4. e.action = input.op /\ e.actor = input.actor
    BY <2>2 DEF AuditEntry
  <2>5. e.actor \notin Disabled /\ Manages(role[e.actor]) /\ call[c].role = role[e.actor]
    BY <2>3, <2>4 DEF CallOK, ActorOK
  <2>6. CASE input.op \in MemberOps
    <3>1. e.previous = call[c].previous
          /\ e.next = IF input.op = "member.removed" THEN NoRole ELSE input.role
      BY <2>2, <2>6 DEF AuditEntry, MemberOps
    <3>2. CanManageMember(call[c].role, e.previous, e.next)
      BY <2>3, <2>6, <3>1 DEF CallOK, TargetOK, Checked
    <3> QED
      BY <2>5, <3>2, OwnersManageOwners
  <2>7. CASE input.op = "invitation.created"
    <3>1. e.previous = NoRole /\ e.next = input.role
      BY <2>2, <2>3, <2>7 DEF AuditEntry, CallOK, PreviousOK, Checked, MemberOps
    <3>2. CanManageMember(call[c].role, input.role, NoRole)
      BY <2>3, <2>7 DEF CallOK, InvitationOK, Checked
    <3> QED
      BY <2>3, <2>5, <3>1, <3>2, OwnersManageOwners
  <2>8. CASE input.op = "invitation.revoked"
    <3>1. e.previous = invitation[input.subject].role /\ e.next = NoRole
      BY <2>2, <2>8 DEF AuditEntry
    <3>2. CanManageMember(call[c].role, invitation[input.subject].role, NoRole)
      BY <2>3, <2>8 DEF CallOK, InvitationOK, Checked
    <3> QED
      BY <2>3, <2>5, <3>1, <3>2, OwnersManageOwners
  <2>9. CASE input.op \in ProjectOps
    <3>1. e.previous = NoRole /\ e.next = NoRole
      BY <2>2, <2>3, <2>9 DEF AuditEntry, CallOK, PreviousOK, Checked, MemberOps, ProjectOps
    <3> QED
      BY <2>3, <2>5, <3>1
  <2> QED
    BY <2>3, <2>4, <2>5, <2>6, <2>7, <2>8, <2>9 DEF IsInput, Ops, InvitationOps
<1> QED
  BY <1>1, Inductive, AuditLog, PTL DEF Spec, AuthorityHolds

-----------------------------------------------------------------------------
(* The bounds on invitations and the audit log.  A second invariant, over  *)
(* the first one: what a call found of invitations, of keys and of the ids *)
(* it will use is so until it commits, and the log tells what is committed. *)

\* The random id of a row is not in use before the call has inserted it.
FreshOK(c) ==
  call[c].pc # "done" => invitation[c].state = "none" /\ ~invitation[c].expired /\ key[c] = "none"

\* now() only grows.
ExpiredOK(c) == \A i \in call[c].expired : invitation[i].expired

AvailableTo(c) == {i \in Ids : Available(c, i)}

\* The email has no invitation, and there is room for one.
RoomOK(c) ==
  Checked(c, {"invitation.created"}) =>
    /\ \A i \in AvailableTo(c) : invitation[i].email # call[c].input.subject
    /\ Cardinality(AvailableTo(c)) < MaxPending

\* The key that is updated stays locked and active.
KeyOK(c) ==
  Checked(c, {"api_key.revoked"}) =>
    key[call[c].input.subject] = "active" /\ Holds(c, "no key update", Key(call[c].input.subject))

FoundOK(c) == FreshOK(c) /\ ExpiredOK(c) /\ RoomOK(c) /\ KeyOK(c)

PendingRows == {i \in Ids : invitation[i].state = "pending"}
Waiting == {i \in Ids : invitation[i].state = "pending" /\ ~invitation[i].expired}

BoundsInv ==
  /\ \A c \in Calls : FoundOK(c)
  /\ IsFiniteSet(PendingRows)
  /\ InvitationsAreBounded

LEMMA InitBounds == Init => BoundsInv
<1> SUFFICES ASSUME Init PROVE BoundsInv
  OBVIOUS
<1>1. \A i \in Ids : /\ i \in Given => invitation[i].state = "pending" /\ invitation[i].email = GivenInvitation[i].email
                     /\ i \notin Given => invitation[i].state = "none" /\ ~invitation[i].expired /\ key[i] = "none"
  BY DEF Init
<1>2. ASSUME NEW c \in Calls PROVE FoundOK(c)
  <2>1. c \in Ids /\ c \notin Given /\ call[c].expired = {} /\ call[c].pc = "new"
    BY CallsAssumption DEF Init, Ids
  <2> QED
    BY <1>1, <2>1 DEF FoundOK, FreshOK, ExpiredOK, RoomOK, KeyOK, Checked
<1>3. PendingRows = Given /\ Waiting \subseteq Given
  BY <1>1 DEF PendingRows, Waiting, Ids
<1>4. IsFiniteSet(Given) /\ Cardinality(Given) <= MaxPending /\ MaxPending \in Nat
  BY GivenAssumption, CallsAssumption
<1>5. Cardinality(Waiting) <= MaxPending
  <2>1. Cardinality(Waiting) <= Cardinality(Given)
    BY <1>3, <1>4, FS_Subset
  <2>2. IsFiniteSet(Waiting)
    BY <1>3, <1>4, FS_Subset
  <2> QED
    BY <1>4, <2>1, <2>2, FS_CardinalityType
<1>6. \A i, j \in Ids : invitation[i].state = "pending" /\ invitation[j].state = "pending" /\ i # j =>
        invitation[i].email # invitation[j].email
  <2>1. \A i \in Ids : invitation[i].state = "pending" => i \in Given
    BY <1>1
  <2> QED
    BY <1>1, <2>1, GivenAssumption
<1> QED
  BY <1>2, <1>3, <1>4, <1>5, <1>6 DEF BoundsInv, InvitationsAreBounded, Waiting

\* A step that writes no row keeps the bounds, if the calls' findings hold.
LEMMA NoRowsBounds ==
  ASSUME BoundsInv, UNCHANGED invitation, \A d \in Calls : FoundOK(d)'
  PROVE  BoundsInv'
<1>1. PendingRows' = PendingRows /\ Waiting' = Waiting
  BY DEF PendingRows, Waiting
<1>2. InvitationsAreBounded'
  BY <1>1 DEF BoundsInv, InvitationsAreBounded, Waiting
<1> QED
  BY <1>1, <1>2 DEF BoundsInv

\* What a step of another call that writes no row leaves as it was.
LEMMA FoundByOthers ==
  ASSUME NEW d \in Calls, FoundOK(d), UNCHANGED <<invitation, key>>, call'[d] = call[d],
         \A l \in locks : l.by = d => l \in locks'
  PROVE  FoundOK(d)'
<1>1. \A mode, on : Holds(d, mode, on) => Holds(d, mode, on)'
  BY DEF Holds
<1>2. AvailableTo(d)' = AvailableTo(d)
  BY DEF AvailableTo, Available
<1>3. FreshOK(d)' /\ ExpiredOK(d)'
  BY DEF FoundOK, FreshOK, ExpiredOK
<1>4. RoomOK(d)'
  BY <1>2 DEF FoundOK, RoomOK, Checked
<1>5. KeyOK(d)'
  BY <1>1 DEF FoundOK, KeyOK, Checked
<1> QED
  BY <1>3, <1>4, <1>5 DEF FoundOK

\* What a call that writes no row keeps or has just found.
LEMMA FoundByItself ==
  ASSUME NEW c \in Calls, FoundOK(c), UNCHANGED <<invitation, key>>, call[c].pc # "done",
         call'[c].expired = call[c].expired \/ call'[c].expired = {i \in Ids : invitation[i].expired},
         call'[c].pc # "checked" \/ (RoomOK(c)' /\ KeyOK(c)')
  PROVE  FoundOK(c)'
<1>1. FreshOK(c)' /\ ExpiredOK(c)'
  BY DEF FoundOK, FreshOK, ExpiredOK
<1>2. RoomOK(c)' /\ KeyOK(c)'
  BY DEF RoomOK, KeyOK, Checked
<1> QED
  BY <1>1, <1>2 DEF FoundOK

\* The call of a statement that commits nothing: it ends, or it goes on with its
\* input, what it has taken for expired, and its locks.
Kept(c) ==
  /\ UNCHANGED <<invitation, key>> /\ call[c].pc # "done"
  /\ \A d \in Calls : d # c => call'[d] = call[d] /\ \A l \in locks : l.by = d => l \in locks'
  /\ call'[c].expired = call[c].expired /\ call'[c].input = call[c].input

LEMMA EndKeeps ==
  ASSUME IInv, NEW c \in Calls, End(c), call[c].pc # "done", UNCHANGED <<invitation, key>>
  PROVE  Kept(c) /\ call'[c].pc = "done"
<1> DEFINE r == [call[c] EXCEPT !.pc = "done"]
<1>1. r.expired = call[c].expired /\ r.input = call[c].input /\ r.pc = "done"
  BY DEF IInv, CallsOK, Shape
<1>2. call' = [call EXCEPT ![c] = r]
  BY DEF End
<1> HIDE DEF r
<1>3. call'[c] = r /\ \A d \in Calls : d # c => call'[d] = call[d]
  BY <1>2 DEF IInv, CallsOK
<1> QED
  BY <1>1, <1>3 DEF Kept, End

LEMMA ProceedKeeps ==
  ASSUME IInv, NEW c \in Calls, NEW ok, NEW pc \in {"locked", "checked"}, Proceed(c, ok, pc),
         call[c].pc # "done", UNCHANGED <<invitation, key>>
  PROVE  /\ Kept(c)
         /\ ok => call'[c].pc = pc /\ locks' = Locked(c)
         /\ ~ok => call'[c].pc = "done"
<1>1. CASE ~ok
  BY <1>1, EndKeeps DEF Proceed
<1>2. CASE ok
  <2> DEFINE r == [call[c] EXCEPT !.pc = pc]
  <2>1. r.expired = call[c].expired /\ r.input = call[c].input /\ r.pc = pc
    BY DEF IInv, CallsOK, Shape
  <2>2. call' = [call EXCEPT ![c] = r] /\ locks' = Locked(c)
    BY <1>2 DEF Proceed
  <2> HIDE DEF r
  <2>3. call'[c] = r /\ \A d \in Calls : d # c => call'[d] = call[d]
    BY <2>2 DEF IInv, CallsOK
  <2>4. \A l \in locks : l \in locks'
    BY <2>2 DEF Locked
  <2> QED
    BY <1>2, <2>1, <2>2, <2>3, <2>4 DEF Kept
<1> QED
  BY <1>1, <1>2

LEMMA KeptBounds ==
  ASSUME BoundsInv, NEW c \in Calls, Kept(c), call'[c].pc # "checked" \/ (RoomOK(c)' /\ KeyOK(c)')
  PROVE  BoundsInv'
<1>1. UNCHANGED <<invitation, key>>
  BY DEF Kept
<1>2. FoundOK(c)'
  BY <1>1, FoundByItself DEF BoundsInv, Kept
<1>3. ASSUME NEW d \in Calls, d # c PROVE FoundOK(d)'
  BY <1>1, <1>3, FoundByOthers DEF BoundsInv, Kept
<1> QED
  BY <1>1, <1>2, <1>3, NoRowsBounds

LEMMA BeginBounds ==
  ASSUME IInv, BoundsInv, NEW c \in Calls, Begin(c)
  PROVE  BoundsInv'
<1> PICK input \in Inputs[c] :
      call' = [call EXCEPT ![c] = [@ EXCEPT !.pc = "begun", !.input = input,
                                            !.expired = {i \in Ids : invitation[i].expired}]]
  BY DEF Begin
<1> DEFINE r == [call[c] EXCEPT !.pc = "begun", !.input = input,
                                !.expired = {i \in Ids : invitation[i].expired}]
<1>1. call' = [call EXCEPT ![c] = r] /\ UNCHANGED <<invitation, key, locks>> /\ call[c].pc = "new"
  BY DEF Begin
<1>2. r.pc = "begun" /\ r.expired = {i \in Ids : invitation[i].expired}
  BY DEF IInv, CallsOK, Shape
<1> HIDE DEF r
<1>3. call'[c] = r /\ \A d \in Calls : d # c => call'[d] = call[d]
  BY <1>1 DEF IInv, CallsOK
<1>4. FoundOK(c)'
  BY <1>1, <1>2, <1>3, FoundByItself DEF BoundsInv
<1>5. ASSUME NEW d \in Calls, d # c PROVE FoundOK(d)'
  BY <1>1, <1>3, <1>5, FoundByOthers DEF BoundsInv
<1> QED
  BY <1>1, <1>4, <1>5, NoRowsBounds

LEMMA FindInvitationBounds ==
  ASSUME IInv, BoundsInv, NEW c \in Calls, FindInvitation(c)
  PROVE  BoundsInv'
<1> PICK pc \in {"found", "done"} : call' = [call EXCEPT ![c].pc = pc]
  BY DEF FindInvitation
<1> DEFINE r == [call[c] EXCEPT !.pc = pc]
<1>1. r.expired = call[c].expired /\ r.input = call[c].input /\ r.pc = pc
  BY DEF IInv, CallsOK, Shape
<1>2. call' = [call EXCEPT ![c] = r] /\ UNCHANGED <<invitation, key, locks>> /\ call[c].pc = "begun"
  BY DEF FindInvitation
<1> HIDE DEF r
<1>3. call'[c] = r /\ \A d \in Calls : d # c => call'[d] = call[d]
  BY <1>2 DEF IInv, CallsOK
<1> QED
  BY <1>1, <1>2, <1>3, KeptBounds DEF Kept

LEMMA CheckActorBounds ==
  ASSUME IInv, BoundsInv, NEW c \in Calls, CheckActor(c)
  PROVE  BoundsInv'
<1> PICK actor : actor = call[c].input.actor
  OBVIOUS
<1>1. UNCHANGED <<invitation, key>> /\ call[c].pc # "done"
  BY DEF CheckActor
<1>2. CASE End(c)
  BY <1>1, <1>2, EndKeeps, KeptBounds
<1>3. CASE ~End(c)
  <2> DEFINE r == [call[c] EXCEPT !.pc = "allowed", !.role = role[actor]]
  <2>1. r.expired = call[c].expired /\ r.input = call[c].input /\ r.pc = "allowed"
    BY DEF IInv, CallsOK, Shape
  <2>2. call' = [call EXCEPT ![c] = r] /\ locks' = Locked(c)
    BY <1>3 DEF CheckActor
  <2> HIDE DEF r
  <2>3. call'[c] = r /\ \A d \in Calls : d # c => call'[d] = call[d]
    BY <2>2 DEF IInv, CallsOK
  <2>4. \A l \in locks : l \in locks'
    BY <2>2 DEF Locked
  <2> QED
    BY <1>1, <2>1, <2>3, <2>4, KeptBounds DEF Kept
<1> QED
  BY <1>2, <1>3

LEMMA CheckTargetBounds ==
  ASSUME IInv, BoundsInv, NEW c \in Calls, CheckTarget(c)
  PROVE  BoundsInv'
<1> PICK target : target = role[call[c].input.subject]
  OBVIOUS
<1>1. UNCHANGED <<invitation, key>> /\ call[c].pc # "done" /\ call[c].input.op \in MemberOps
  BY DEF CheckTarget
<1>2. CASE End(c)
  BY <1>1, <1>2, EndKeeps, KeptBounds
<1>3. CASE ~End(c)
  <2> DEFINE r == [call[c] EXCEPT !.pc = "checked", !.previous = target]
  <2>1. r.expired = call[c].expired /\ r.input = call[c].input
    BY DEF IInv, CallsOK, Shape
  <2>2. call' = [call EXCEPT ![c] = r] /\ locks' = Locked(c)
    BY <1>3 DEF CheckTarget
  <2> HIDE DEF r
  <2>3. call'[c] = r /\ \A d \in Calls : d # c => call'[d] = call[d]
    BY <2>2 DEF IInv, CallsOK
  <2>4. \A l \in locks : l \in locks'
    BY <2>2 DEF Locked
  <2>5. RoomOK(c)' /\ KeyOK(c)'
    BY <1>1, <2>1, <2>3 DEF RoomOK, KeyOK, Checked, MemberOps
  <2> QED
    BY <1>1, <2>1, <2>3, <2>4, <2>5, KeptBounds DEF Kept
<1> QED
  BY <1>2, <1>3

LEMMA CheckInvitationBounds ==
  ASSUME IInv, BoundsInv, NEW c \in Calls, CheckInvitation(c)
  PROVE  BoundsInv'
<1> DEFINE ok == /\ CanManageMember(call[c].role, call[c].input.role, NoRole)
                 /\ \A u \in Users : role[u] # NoRole => profile[u].email # call[c].input.subject
                 /\ \A i \in Ids : Available(c, i) => invitation[i].email # call[c].input.subject
                 /\ Cardinality({i \in Ids : Available(c, i)}) < MaxPending
<1>1. /\ Proceed(c, ok, "checked") /\ UNCHANGED <<invitation, key>> /\ call[c].pc # "done"
      /\ call[c].input.op = "invitation.created"
  BY DEF CheckInvitation
<1>2. ok => /\ \A i \in AvailableTo(c) : invitation[i].email # call[c].input.subject
            /\ Cardinality(AvailableTo(c)) < MaxPending
  BY DEF AvailableTo
<1> HIDE DEF ok
<1>3. Kept(c) /\ (~ok => call'[c].pc = "done")
  BY <1>1, ProceedKeeps
<1>4. AvailableTo(c)' = AvailableTo(c)
  BY <1>3 DEF Kept, AvailableTo, Available
<1>5. ok => RoomOK(c)'
  BY <1>2, <1>3, <1>4 DEF RoomOK, Kept
<1>6. KeyOK(c)'
  BY <1>1, <1>3 DEF KeyOK, Checked, Kept
<1> QED
  BY <1>3, <1>5, <1>6, KeptBounds

LEMMA UpdateKeyBounds ==
  ASSUME IInv, BoundsInv, NEW c \in Calls, UpdateKey(c)
  PROVE  BoundsInv'
<1> PICK subject : subject = call[c].input.subject
  OBVIOUS
<1>1. /\ Proceed(c, key[subject] = "active", "checked") /\ UNCHANGED <<invitation, key>>
      /\ call[c].pc # "done" /\ call[c].input.op = "api_key.revoked"
  BY DEF UpdateKey
<1>2. Kept(c) /\ (key[subject] # "active" => call'[c].pc = "done")
              /\ (key[subject] = "active" => locks' = Locked(c))
  BY <1>1, ProceedKeeps
<1>3. RoomOK(c)'
  BY <1>1, <1>2 DEF RoomOK, Checked, Kept
<1>4. <<"no key update", Key(subject)>> \in Wants(c)
  BY DEF UpdateKey, Wants, MemberOps, InvitationOps, ProjectOps
<1>5. key[subject] = "active" => Holds(c, "no key update", Key(subject))'
  BY <1>2, <1>4, Acquired
<1>6. key[subject] = "active" => KeyOK(c)'
  BY <1>2, <1>5 DEF KeyOK, Kept
<1> QED
  BY <1>2, <1>3, <1>6, KeptBounds

\* The checks of other operations find nothing that these bounds rest on.
LEMMA OtherChecksBounds ==
  ASSUME IInv, BoundsInv, NEW c \in Calls,
         LockOrganization(c) \/ CheckRevocation(c) \/ CheckRecipient(c) \/ Insert(c)
  PROVE  BoundsInv'
<1>1. /\ UNCHANGED <<invitation, key>> /\ call[c].pc # "done"
      /\ \/ \E ok : Proceed(c, ok, "locked")
         \/ /\ \E ok : Proceed(c, ok, "checked")
            /\ call[c].input.op \notin {"invitation.created", "api_key.revoked"}
  BY DEF LockOrganization, CheckRevocation, CheckRecipient, Insert
<1>2. Kept(c) /\ (\/ call'[c].pc \in {"locked", "done"}
                  \/ call[c].input.op \notin {"invitation.created", "api_key.revoked"})
  BY <1>1, ProceedKeeps
<1>3. call'[c].pc = "checked" => RoomOK(c)' /\ KeyOK(c)'
  BY <1>2 DEF RoomOK, KeyOK, Checked, Kept
<1> QED
  BY <1>2, <1>3, KeptBounds

LEMMA GiveUpBounds ==
  ASSUME IInv, BoundsInv, NEW c \in Calls, Rollback(c) \/ DeadlockVictim(c)
  PROVE  BoundsInv'
<1>1. call[c].pc # "done"
  <2>1. call[c].pc = "done" => Wants(c) = {}
    BY DEF Wants
  <2>2. call[c].pc = "done" => Granted(c)
    BY <2>1, NothingWanted
  <2> QED
    BY <2>2 DEF Rollback, DeadlockVictim
<1>2. End(c) /\ UNCHANGED <<invitation, key>>
  BY DEF Rollback, DeadlockVictim
<1> QED
  BY <1>1, <1>2, EndKeeps, KeptBounds

\* What a commit does to the invitations: each keeps its email and whether it has
\* expired, and is no longer pending or as it was, except for a new one.
LEMMA InvitationsAfter ==
  ASSUME IInv, NEW c \in Calls, Commit(c), NEW i \in Ids
  PROVE  \/ /\ i = c /\ call[c].input.op = "invitation.created"
            /\ invitation'[i].state = "pending" /\ ~invitation'[i].expired
            /\ invitation'[i].email = call[c].input.subject
         \/ /\ i # c \/ call[c].input.op # "invitation.created"
            /\ invitation'[i].email = invitation[i].email /\ invitation'[i].expired = invitation[i].expired
            /\ \/ invitation'[i].state = invitation[i].state
               \/ invitation[i].state = "pending" /\ invitation'[i].state \in {"revoked", "accepted"}
            /\ call[c].input.op = "invitation.created" /\ invitation[i].state = "pending"
                 /\ i \in call[c].expired /\ invitation[i].email = call[c].input.subject
               => invitation'[i].state = "revoked"
<1> PICK input : input = call[c].input
  OBVIOUS
<1>1. /\ IsInput(input) /\ call[c].pc = "checked" /\ CallOK(c) /\ invitation' = InvitationAfter(c)
  BY CommitStart DEF Commit
<1> DEFINE Row == [state : {"none", "pending", "revoked", "accepted"}, expired : BOOLEAN,
                   by : Users \cup {NoInput}, email : Emails \cup {NoInput}, role : Roles \cup {NoRole}]
<1>2. invitation \in [Ids -> Row] /\ invitation[i] \in Row
  BY DEF IInv, RowsOK
<1> DEFINE revoked == [invitation[i] EXCEPT !.state = "revoked"]
           accepted == [invitation[i] EXCEPT !.state = "accepted", !.by = input.actor]
<1>3. revoked.state = "revoked" /\ revoked.email = invitation[i].email
      /\ revoked.expired = invitation[i].expired
  BY <1>2
<1>4. accepted.state = "accepted" /\ accepted.email = invitation[i].email
      /\ accepted.expired = invitation[i].expired
  BY <1>2
<1>5. CASE input.op = "invitation.created"
  <2>1. CASE i = c
    <3>1. invitation'[i] = [state |-> "pending", expired |-> FALSE, by |-> NoInput,
                            email |-> input.subject, role |-> input.role]
      BY <1>1, <1>5, <2>1 DEF InvitationAfter
    <3> QED
      BY <1>5, <2>1, <3>1
  <2>2. CASE i # c
    <3>1. invitation'[i] = IF /\ invitation[i].state = "pending" /\ i \in call[c].expired
                              /\ invitation[i].email = input.subject
                           THEN revoked ELSE invitation[i]
      BY <1>1, <1>5, <2>2 DEF InvitationAfter
    <3> HIDE DEF Row, revoked
    <3> QED
      BY <1>3, <2>2, <3>1
  <2> QED
    BY <2>1, <2>2
<1>6. CASE input.op = "invitation.revoked"
  <2>1. invitation[input.subject].state = "pending"
    BY <1>1, <1>6 DEF CallOK, InvitationOK, Checked
  <2>2. invitation'[i] = IF i = input.subject THEN revoked ELSE invitation[i]
    BY <1>1, <1>2, <1>6 DEF InvitationAfter
  <2> HIDE DEF Row, revoked
  <2> QED
    BY <1>3, <1>6, <2>1, <2>2
<1>7. CASE input.op = "invitation.accepted"
  <2>1. invitation[input.subject].state = "pending"
    BY <1>1, <1>7 DEF CallOK, InvitationOK, Checked
  <2>2. invitation'[i] = IF i = input.subject THEN accepted ELSE invitation[i]
    BY <1>1, <1>2, <1>7 DEF InvitationAfter
  <2> HIDE DEF Row, accepted
  <2> QED
    BY <1>4, <1>7, <2>1, <2>2
<1>8. CASE input.op \notin {"invitation.created", "invitation.revoked", "invitation.accepted"}
  BY <1>1, <1>8 DEF InvitationAfter
<1> QED
  BY <1>5, <1>6, <1>7, <1>8

LEMMA KeysAfter ==
  ASSUME IInv, NEW c \in Calls, Commit(c), NEW k \in Ids
  PROVE  key'[k] = IF call[c].input.op = "api_key.created" /\ k = c THEN "active"
                   ELSE IF call[c].input.op = "api_key.revoked" /\ k = call[c].input.subject THEN "revoked"
                   ELSE key[k]
<1>1. key' = KeyAfter(c) /\ key \in [Ids -> {"none", "active", "revoked"}]
  BY DEF Commit, IInv, RowsOK
<1> QED
  BY <1>1 DEF KeyAfter

\* A key that a call is about to revoke is no other call's to change.
LEMMA OneRevocation ==
  ASSUME IInv, NEW c \in Calls, NEW d \in Calls, FoundOK(c), FoundOK(d),
         Checked(c, {"api_key.revoked"}), Checked(d, {"api_key.revoked"}),
         call[c].input.subject = call[d].input.subject
  PROVE  c = d
<1>1. Holds(c, "no key update", Key(call[c].input.subject)) /\ Holds(d, "no key update", Key(call[c].input.subject))
  BY DEF FoundOK, KeyOK
<1>2. Conflicts("no key update", "no key update")
  <2>1. {"no key update"} # {"no key update", "key share"}
    <3>1. "key share" \notin {"no key update"}
      OBVIOUS
    <3> QED
      BY <3>1, Zenon
  <2> QED
    BY <2>1 DEF Conflicts
<1> QED
  BY <1>1, <1>2 DEF IInv, LocksOK, Holds

LEMMA CommitFound ==
  ASSUME IInv, BoundsInv, NEW c \in Calls, Commit(c), NEW d \in Calls
  PROVE  FoundOK(d)'
<1> PICK input : input = call[c].input
  OBVIOUS
<1>1. /\ call[c].pc = "checked" /\ IsInput(input) /\ FoundOK(c) /\ FoundOK(d) /\ call'[c].pc = "done"
      /\ d # c => call'[d] = call[d] /\ \A l \in locks : l.by = d => l \in locks'
  <2>1. call[c].pc = "checked" /\ End(c)
    BY DEF Commit
  <2> QED
    BY <2>1, CommitStart, EndedCall DEF BoundsInv
<1>2. call'[d].expired = call[d].expired
  <2> DEFINE r == [call[c] EXCEPT !.pc = "done"]
  <2>1. r.expired = call[c].expired
    BY DEF IInv, CallsOK, Shape
  <2>2. call' = [call EXCEPT ![c] = r]
    BY DEF Commit, End
  <2> HIDE DEF r
  <2>3. call'[c] = r
    BY <2>2 DEF IInv, CallsOK
  <2> QED
    BY <1>1, <2>1, <2>3
<1>3. c \in Ids /\ d \in Ids /\ invitation[c].state = "none" /\ ~invitation[c].expired /\ key[c] = "none"
  BY <1>1 DEF FoundOK, FreshOK, Ids
<1>4. ExpiredOK(d)'
  <2>1. \A i \in call[d].expired : i \in Ids /\ invitation[i].expired
    BY <1>1 DEF FoundOK, ExpiredOK, IInv, CallsOK, Shape
  <2>2. \A i \in call[d].expired : i # c /\ invitation'[i].expired = invitation[i].expired
    BY <1>3, <2>1, InvitationsAfter
  <2> QED
    BY <1>2, <2>1, <2>2 DEF ExpiredOK
<1>5. CASE d = c
  BY <1>1, <1>4, <1>5 DEF FoundOK, FreshOK, RoomOK, KeyOK, Checked
<1>6. CASE d # c
  <2>1. FreshOK(d)'
    <3>1. call[d].pc # "done" => invitation'[d].state = "none" /\ ~invitation'[d].expired
      BY <1>1, <1>3, <1>6, InvitationsAfter DEF FoundOK, FreshOK
    <3>2. call[d].pc # "done" => key'[d] = "none"
      <4>1. input.op = "api_key.revoked" => key[input.subject] = "active"
        BY <1>1 DEF FoundOK, KeyOK, Checked
      <4> QED
        BY <1>1, <1>3, <1>6, <4>1, KeysAfter DEF FoundOK, FreshOK
    <3> QED
      BY <1>1, <1>6, <3>1, <3>2 DEF FreshOK
  <2>2. RoomOK(d)'
    <3> SUFFICES ASSUME Checked(d, {"invitation.created"}) PROVE RoomOK(d)'
      BY <1>1, <1>6 DEF RoomOK, Checked
    <3>1. input.op \notin Serial
      BY <1>1, <1>6, OneInside DEF Inside, Holding, Checked, Serial, InvitationOps
    <3>2. UNCHANGED invitation
      BY <3>1 DEF Commit, InvitationAfter, Serial, InvitationOps
    <3>3. AvailableTo(d)' = AvailableTo(d)
      BY <1>1, <1>6, <3>2 DEF AvailableTo, Available
    <3> QED
      BY <1>1, <1>6, <3>2, <3>3 DEF FoundOK, RoomOK, Checked
  <2>3. KeyOK(d)'
    <3> SUFFICES ASSUME Checked(d, {"api_key.revoked"}) PROVE KeyOK(d)'
      BY <1>1, <1>6 DEF KeyOK, Checked
    <3>1. key[call[d].input.subject] = "active" /\ Holds(d, "no key update", Key(call[d].input.subject))
      BY <1>1 DEF FoundOK, KeyOK
    <3>2. call[d].input.subject \in Ids
      BY InputsHaveTypes DEF IInv, Checked, IsInput
    <3>3. call[d].input.subject # c
      BY <1>3, <3>1
    <3>4. ~(input.op = "api_key.revoked" /\ call[d].input.subject = input.subject)
      BY <1>1, <1>6, OneRevocation DEF Checked
    <3>5. key'[call[d].input.subject] = "active"
      BY <3>1, <3>2, <3>3, <3>4, KeysAfter
    <3> QED
      BY <1>1, <1>6, <3>1, <3>5 DEF KeyOK, Holds
  <2> QED
    BY <1>4, <2>1, <2>2, <2>3 DEF FoundOK
<1> QED
  BY <1>5, <1>6

\* A new invitation takes the place of the expired ones to its email, and the
\* others were available when the call counted them.
LEMMA CommitBounds ==
  ASSUME IInv, BoundsInv, NEW c \in Calls, Commit(c)
  PROVE  BoundsInv'
<1> PICK input : input = call[c].input
  OBVIOUS
<1>1. /\ call[c].pc = "checked" /\ FoundOK(c) /\ c \in Ids /\ MaxPending \in Nat
      /\ IsFiniteSet(PendingRows) /\ InvitationsAreBounded
  BY CallsAssumption DEF Commit, BoundsInv, Ids
<1>2. \A d \in Calls : FoundOK(d)'
  BY CommitFound
<1>3. PendingRows' \subseteq PendingRows \cup {c}
  BY InvitationsAfter DEF PendingRows
<1>4. IsFiniteSet(PendingRows \cup {c})
  BY <1>1, FS_AddElement
<1>5. IsFiniteSet(PendingRows')
  BY <1>3, <1>4, FS_Subset
<1>6. IsFiniteSet(Waiting) /\ Cardinality(Waiting) \in Nat /\ Cardinality(Waiting) <= MaxPending
  <2>1. Waiting \subseteq PendingRows
    BY DEF Waiting, PendingRows
  <2> QED
    BY <1>1, <2>1, FS_Subset, FS_CardinalityType DEF InvitationsAreBounded, Waiting
<1>7. CASE input.op # "invitation.created"
  <2>1. \A i \in Ids : /\ invitation'[i].email = invitation[i].email
                       /\ invitation'[i].expired = invitation[i].expired
                       /\ invitation'[i].state = "pending" => invitation[i].state = "pending"
    BY <1>7, InvitationsAfter
  <2>2. Waiting' \subseteq Waiting
    BY <2>1 DEF Waiting
  <2>3. Cardinality(Waiting') <= MaxPending
    <3>1. IsFiniteSet(Waiting') /\ Cardinality(Waiting') <= Cardinality(Waiting)
      BY <1>6, <2>2, FS_Subset
    <3>2. Cardinality(Waiting') \in Nat
      BY <3>1, FS_CardinalityType
    <3> QED
      BY <1>1, <1>6, <3>1, <3>2
  <2>4. InvitationsAreBounded'
    BY <1>1, <2>1, <2>3 DEF InvitationsAreBounded, Waiting
  <2> QED
    BY <1>2, <1>5, <2>4 DEF BoundsInv
<1>8. CASE input.op = "invitation.created"
  <2>1. /\ \A i \in AvailableTo(c) : invitation[i].email # input.subject
        /\ Cardinality(AvailableTo(c)) < MaxPending
    BY <1>1, <1>8 DEF FoundOK, RoomOK, Checked
  <2>2. \A i \in Ids : i # c =>
          /\ invitation'[i].email = invitation[i].email /\ invitation'[i].expired = invitation[i].expired
          /\ invitation'[i].state = "pending" => invitation[i].state = "pending"
    BY InvitationsAfter
  <2>3. Waiting' \subseteq AvailableTo(c) \cup {c}
    <3> SUFFICES ASSUME NEW i \in Ids, invitation'[i].state = "pending", ~invitation'[i].expired, i # c
                 PROVE  i \in AvailableTo(c)
      BY DEF Waiting
    <3>1. invitation[i].state = "pending" /\ ~invitation[i].expired
      BY <2>2
    <3>2. i \notin call[c].expired
      BY <1>1, <3>1 DEF FoundOK, ExpiredOK
    <3> QED
      BY <3>1, <3>2 DEF AvailableTo, Available
  <2>4. Cardinality(Waiting') <= MaxPending
    <3>1. IsFiniteSet(AvailableTo(c))
      <4>1. AvailableTo(c) \subseteq PendingRows
        BY DEF AvailableTo, Available, PendingRows
      <4> QED
        BY <1>1, <4>1, FS_Subset
    <3>2. /\ IsFiniteSet(AvailableTo(c) \cup {c})
          /\ Cardinality(AvailableTo(c) \cup {c}) <= Cardinality(AvailableTo(c)) + 1
          /\ Cardinality(AvailableTo(c)) \in Nat /\ Cardinality(AvailableTo(c) \cup {c}) \in Nat
      <4>1. /\ IsFiniteSet(AvailableTo(c) \cup {c})
            /\ Cardinality(AvailableTo(c) \cup {c}) =
                 IF c \in AvailableTo(c) THEN Cardinality(AvailableTo(c)) ELSE Cardinality(AvailableTo(c)) + 1
        BY <3>1, FS_AddElement
      <4>2. Cardinality(AvailableTo(c)) \in Nat
        BY <3>1, FS_CardinalityType
      <4> QED
        BY <4>1, <4>2
    <3>3. IsFiniteSet(Waiting') /\ Cardinality(Waiting') <= Cardinality(AvailableTo(c) \cup {c})
      BY <2>3, <3>2, FS_Subset
    <3>4. Cardinality(Waiting') \in Nat
      BY <3>3, FS_CardinalityType
    <3> QED
      BY <1>1, <2>1, <3>2, <3>3, <3>4
  <2>5. ASSUME NEW i \in Ids, NEW j \in Ids, i # j,
               invitation'[i].state = "pending", invitation'[j].state = "pending"
        PROVE  invitation'[i].email # invitation'[j].email
    <3>1. ASSUME NEW k \in Ids, k # c, invitation'[k].state = "pending"
          PROVE  invitation[k].state = "pending" /\ invitation'[k].email = invitation[k].email
                 /\ invitation[k].email # input.subject
      <4>1. invitation[k].state = "pending" /\ invitation'[k].email = invitation[k].email
        BY <2>2, <3>1
      <4>2. CASE k \in call[c].expired
        BY <1>8, <3>1, <4>1, <4>2, InvitationsAfter
      <4>3. CASE k \notin call[c].expired
        BY <2>1, <4>1, <4>3 DEF AvailableTo, Available
      <4> QED
        BY <4>1, <4>2, <4>3
    <3>2. invitation'[c].email = input.subject
      BY <1>1, <1>8, InvitationsAfter
    <3> QED
      BY <1>1, <2>5, <3>1, <3>2 DEF InvitationsAreBounded
  <2>6. InvitationsAreBounded'
    BY <2>4, <2>5 DEF InvitationsAreBounded, Waiting
  <2> QED
    BY <1>2, <1>5, <2>6 DEF BoundsInv
<1> QED
  BY <1>7, <1>8

LEMMA ExpireBounds ==
  ASSUME IInv, BoundsInv, NEW i \in Ids, Expire(i)
  PROVE  BoundsInv'
<1> DEFINE Row == [state : {"none", "pending", "revoked", "accepted"}, expired : BOOLEAN,
                   by : Users \cup {NoInput}, email : Emails \cup {NoInput}, role : Roles \cup {NoRole}]
           row == [invitation[i] EXCEPT !.expired = TRUE]
<1>1. UNCHANGED <<key, call, locks>> /\ invitation[i].state # "none"
  BY DEF Expire
<1>2. invitation \in [Ids -> Row]
  BY DEF IInv, RowsOK
<1>3. row.state = invitation[i].state /\ row.email = invitation[i].email /\ row.expired
  BY <1>2
<1>4. invitation' = [invitation EXCEPT ![i] = row]
  BY DEF Expire
<1>5. \A j \in Ids : /\ invitation'[j].state = invitation[j].state /\ invitation'[j].email = invitation[j].email
                     /\ invitation[j].expired => invitation'[j].expired
                     /\ invitation[j].state = "none" => invitation'[j] = invitation[j]
  <2> HIDE DEF Row, row
  <2> QED
    BY <1>1, <1>2, <1>3, <1>4
<1>6. ASSUME NEW d \in Calls PROVE FoundOK(d)'
  <2>1. d \in Ids /\ FoundOK(d) /\ call[d].expired \subseteq Ids
    BY DEF BoundsInv, Ids, IInv, CallsOK, Shape
  <2>2. FreshOK(d)'
    BY <1>1, <1>5, <2>1 DEF FoundOK, FreshOK
  <2>3. ExpiredOK(d)'
    BY <1>1, <1>5, <2>1 DEF FoundOK, ExpiredOK
  <2>4. AvailableTo(d)' = AvailableTo(d)
    BY <1>1, <1>5 DEF AvailableTo, Available
  <2>5. \A j \in AvailableTo(d) : invitation'[j].email = invitation[j].email
    BY <1>5 DEF AvailableTo
  <2>6. RoomOK(d)'
    BY <1>1, <2>1, <2>4, <2>5 DEF FoundOK, RoomOK, Checked
  <2>7. KeyOK(d)'
    BY <1>1, <2>1 DEF FoundOK, KeyOK, Checked, Holds
  <2> QED
    BY <2>2, <2>3, <2>6, <2>7 DEF FoundOK
<1>7. PendingRows' = PendingRows /\ Waiting' \subseteq Waiting
  BY <1>5 DEF PendingRows, Waiting
<1>8. Cardinality(Waiting') <= MaxPending
  <2>1. Waiting \subseteq PendingRows /\ MaxPending \in Nat /\ Cardinality(Waiting) <= MaxPending
    BY CallsAssumption DEF Waiting, PendingRows, BoundsInv, InvitationsAreBounded
  <2>2. IsFiniteSet(Waiting) /\ Cardinality(Waiting) \in Nat
    BY <2>1, FS_Subset, FS_CardinalityType DEF BoundsInv
  <2>3. IsFiniteSet(Waiting') /\ Cardinality(Waiting') <= Cardinality(Waiting)
    BY <1>7, <2>2, FS_Subset
  <2>4. Cardinality(Waiting') \in Nat
    BY <2>3, FS_CardinalityType
  <2> QED
    BY <2>1, <2>2, <2>3, <2>4
<1>9. InvitationsAreBounded'
  BY <1>5, <1>8 DEF BoundsInv, InvitationsAreBounded, Waiting
<1> QED
  BY <1>6, <1>7, <1>9 DEF BoundsInv

LEMMA StepBounds == IInv /\ BoundsInv /\ [Next]_vars => BoundsInv'
<1> SUFFICES ASSUME IInv, BoundsInv, [Next]_vars PROVE BoundsInv'
  OBVIOUS
<1>1. ASSUME NEW c \in Calls, Begin(c) PROVE BoundsInv'
  BY <1>1, BeginBounds
<1>2. ASSUME NEW c \in Calls, Statement(c) PROVE BoundsInv'
  BY <1>2, FindInvitationBounds, CheckActorBounds, CheckTargetBounds, CheckInvitationBounds, UpdateKeyBounds,
     OtherChecksBounds, CommitBounds DEF Statement
<1>3. ASSUME NEW c \in Calls, Rollback(c) \/ DeadlockVictim(c) PROVE BoundsInv'
  BY <1>3, GiveUpBounds
<1>4. ASSUME UNCHANGED <<invitation, key, call, locks>> PROVE BoundsInv'
  BY <1>4, NoRowsBounds, FoundByOthers DEF BoundsInv
<1>5. ASSUME NEW i \in Ids, Expire(i) PROVE BoundsInv'
  BY <1>5, ExpireBounds
<1>6. (\E u \in Users : RefreshProfile(u)) \/ UNCHANGED vars => UNCHANGED <<invitation, key, call, locks>>
  BY DEF RefreshProfile, vars
<1> QED
  BY <1>1, <1>2, <1>3, <1>4, <1>5, <1>6 DEF Next

LEMMA InductiveBounds == Spec => []BoundsInv
  BY InitBounds, StepBounds, Inductive, PTL DEF Spec

\* However many invitations are created, accepted, revoked and expire at once, no
\* more wait than the organization may have, and none two for the same email.
THEOREM InvitationsBounded == Spec => []InvitationsAreBounded
<1>1. BoundsInv => InvitationsAreBounded
  BY DEF BoundsInv
<1> QED
  BY <1>1, InductiveBounds, PTL

-----------------------------------------------------------------------------
(* The audit log explains the memberships and the keys.                    *)

\* Whether an audit row changes the role of u, and the rows with an action on a key.
MemberRow(e, u) == e.action \in MemberOps \cup {"invitation.accepted"} /\ Subject(e) = u
MemberRows(n, u) == {i \in 1 .. n : MemberRow(audit[i], u)}
KeyRows(op, k) == {i \in DOMAIN audit : audit[i].action = op /\ audit[i].resource = k}

\* A set of positions that is not empty has a greatest one, because the distances
\* to the end have a least one.
LEMMA Greatest ==
  ASSUME NEW n \in Nat, NEW S \in SUBSET (1 .. n), S # {}
  PROVE  \E i \in S : \A j \in S : j <= i
<1> DEFINE R == OpToRel(<, Nat)
           D == {m \in Nat : n - m \in S}
<1>1. D # {}
  <2>1. PICK i \in S : TRUE
    OBVIOUS
  <2>2. n - i \in Nat /\ n - (n - i) = i
    OBVIOUS
  <2> QED
    BY <2>1, <2>2
<1>2. PICK m \in D : \A d \in D : <<d, m>> \notin R
  <2>1. IsWellFoundedOn(R, Nat)
    BY NatLessThanWellFounded
  <2>2. D \subseteq Nat
    OBVIOUS
  <2> HIDE DEF R, D
  <2> QED
    BY <1>1, <2>1, <2>2, WFMin
<1>3. \A d \in D : ~(d < m)
  BY <1>2 DEF OpToRel
<1>4. ASSUME NEW j \in S PROVE j <= n - m
  <2>1. n - j \in Nat /\ n - (n - j) = j
    OBVIOUS
  <2>2. n - j \in D
    BY <2>1
  <2> QED
    BY <1>3, <2>1, <2>2
<1> QED
  BY <1>4

LEMMA GreatestRow ==
  ASSUME NEW n \in Nat, NEW u, MemberRows(n, u) # {}
  PROVE  /\ AuditedRole(n, u) = audit[CHOOSE i \in MemberRows(n, u) : \A j \in MemberRows(n, u) : j <= i].next
         /\ (CHOOSE i \in MemberRows(n, u) : \A j \in MemberRows(n, u) : j <= i) \in MemberRows(n, u)
<1>1. AuditedRole(n, u) = audit[CHOOSE i \in MemberRows(n, u) : \A j \in MemberRows(n, u) : j <= i].next
  BY DEF AuditedRole, MemberRows, MemberRow
<1>2. MemberRows(n, u) \in SUBSET (1 .. n)
  BY DEF MemberRows
<1>3. \E i \in MemberRows(n, u) : \A j \in MemberRows(n, u) : j <= i
  BY <1>2, Greatest
<1> QED
  BY <1>1, <1>3

LEMMA NoRowYet ==
  ASSUME NEW n \in Nat, NEW u, MemberRows(n, u) = {}
  PROVE  AuditedRole(n, u) = InitialRole[u]
  BY DEF AuditedRole, MemberRows, MemberRow

LEMMA LogAfter ==
  ASSUME AuditIsLog, NEW c \in Calls, Commit(c)
  PROVE  /\ Len(audit) \in Nat /\ Len(audit') = Len(audit) + 1
         /\ DOMAIN audit = 1 .. Len(audit) /\ DOMAIN audit' = 1 .. Len(audit')
         /\ \A i \in 1 .. Len(audit) : audit'[i] = audit[i]
         /\ audit'[Len(audit) + 1] = AuditEntry(c)
<1> PICK S : audit \in Seq(S)
  BY DEF AuditIsLog
<1> PICK e : e = AuditEntry(c)
  OBVIOUS
<1>1. audit \in Seq(S \cup {e}) /\ audit' = Append(audit, e)
  BY SeqMonotonic DEF Commit
<1>2. audit' \in Seq(S \cup {e}) /\ Len(audit') = Len(audit) + 1 /\ Len(audit) \in Nat
  BY <1>1
<1> QED
  BY <1>1, <1>2

\* What the first rows say does not change.
LEMMA AuditedBefore ==
  ASSUME AuditIsLog, NEW c \in Calls, Commit(c), NEW n \in 0 .. Len(audit), NEW u
  PROVE  AuditedRole(n, u)' = AuditedRole(n, u)
<1>1. /\ n \in Nat /\ Len(audit) \in Nat /\ \A i \in 1 .. n : audit'[i] = audit[i]
  BY LogAfter
<1>2. MemberRows(n, u)' = MemberRows(n, u)
  BY <1>1 DEF MemberRows
<1>3. CASE MemberRows(n, u) = {}
  <2>1. AuditedRole(n, u)' = InitialRole[u]
    BY <1>1, <1>2, <1>3 DEF AuditedRole, MemberRows, MemberRow
  <2> QED
    BY <1>1, <1>3, <2>1, NoRowYet
<1>4. CASE MemberRows(n, u) # {}
  <2> DEFINE last == CHOOSE i \in MemberRows(n, u) : \A j \in MemberRows(n, u) : j <= i
  <2>1. AuditedRole(n, u) = audit[last].next /\ last \in MemberRows(n, u)
    BY <1>1, <1>4, GreatestRow
  <2>2. AuditedRole(n, u)' = audit'[CHOOSE i \in MemberRows(n, u)' : \A j \in MemberRows(n, u)' : j <= i].next
    BY <1>2, <1>4 DEF AuditedRole, MemberRows, MemberRow
  <2>3. AuditedRole(n, u)' = audit'[last].next
    BY <1>2, <2>2
  <2>4. last \in 1 .. n
    BY <2>1 DEF MemberRows
  <2> QED
    BY <1>1, <2>1, <2>3, <2>4
<1> QED
  BY <1>3, <1>4

\* The row added last decides for the user that it is about.
LEMMA AuditedNow ==
  ASSUME AuditIsLog, NEW c \in Calls, Commit(c), NEW u
  PROVE  AuditedRole(Len(audit), u)' = IF MemberRow(AuditEntry(c), u) THEN AuditEntry(c).next
                                       ELSE AuditedRole(Len(audit), u)
<1> PICK n \in Nat : n = Len(audit) + 1
  BY LogAfter
<1> PICK e : e = AuditEntry(c)
  OBVIOUS
<1>1. /\ Len(audit) \in Nat /\ Len(audit') = n /\ n = Len(audit) + 1 /\ audit'[n] = e
      /\ \A i \in 1 .. Len(audit) : audit'[i] = audit[i]
  BY LogAfter
<1>2. MemberRows(n, u)' = MemberRows(Len(audit), u) \cup {i \in {n} : MemberRow(e, u)}
  BY <1>1 DEF MemberRows
<1>3. AuditedRole(Len(audit), u)' = AuditedRole(n, u)'
  BY <1>1 DEF AuditedRole
<1>4. CASE MemberRow(e, u)
  <2>1. n \in MemberRows(n, u)' /\ \A j \in MemberRows(n, u)' : j <= n /\ (n <= j => j = n)
    BY <1>1, <1>2, <1>4 DEF MemberRows
  <2>2. (CHOOSE i \in MemberRows(n, u)' : \A j \in MemberRows(n, u)' : j <= i) = n
    BY <2>1
  <2>3. AuditedRole(n, u)' = audit'[CHOOSE i \in MemberRows(n, u)' : \A j \in MemberRows(n, u)' : j <= i].next
    BY <2>1 DEF AuditedRole, MemberRows, MemberRow
  <2> QED
    BY <1>1, <1>3, <1>4, <2>2, <2>3
<1>5. CASE ~MemberRow(e, u)
  <2>1. AuditedRole(n, u)' = AuditedRole(n - 1, u)'
    <3>1. MemberRows(n, u)' = MemberRows(n - 1, u)'
      BY <1>1, <1>5 DEF MemberRows
    <3>2. AuditedRole(n, u)' =
            IF MemberRows(n, u)' = {} THEN InitialRole[u]
            ELSE audit'[CHOOSE i \in MemberRows(n, u)' : \A j \in MemberRows(n, u)' : j <= i].next
      BY DEF AuditedRole, MemberRows, MemberRow
    <3>3. AuditedRole(n - 1, u)' =
            IF MemberRows(n - 1, u)' = {} THEN InitialRole[u]
            ELSE audit'[CHOOSE i \in MemberRows(n - 1, u)' : \A j \in MemberRows(n - 1, u)' : j <= i].next
      BY DEF AuditedRole, MemberRows, MemberRow
    <3> QED
      BY <3>1, <3>2, <3>3
  <2>2. PICK m \in 0 .. Len(audit) : m = Len(audit) /\ m = n - 1
    BY <1>1
  <2>3. AuditedRole(m, u)' = AuditedRole(m, u)
    BY AuditedBefore
  <2>4. AuditedRole(n - 1, u)' = AuditedRole(m, u)'
    BY <2>2 DEF AuditedRole
  <2> QED
    BY <1>1, <1>3, <1>5, <2>1, <2>2, <2>3, <2>4
<1> QED
  BY <1>4, <1>5

\* What a commit records is what it does to a membership.
LEMMA EntryTellsRole ==
  ASSUME IInv, NEW c \in Calls, Commit(c), NEW u \in Users
  PROVE  /\ role'[u] = IF MemberRow(AuditEntry(c), u) THEN AuditEntry(c).next ELSE role[u]
         /\ AuditEntry(c).action \in MemberOps =>
              AuditEntry(c).resource \in Users /\ AuditEntry(c).previous = role[AuditEntry(c).resource]
<1> PICK input : input = call[c].input
  OBVIOUS
<1> PICK e : e = AuditEntry(c)
  OBVIOUS
<1>1. /\ IsInput(input) /\ call[c].pc = "checked" /\ CallOK(c) /\ role' = RoleAfter(c)
      /\ role \in [Users -> Roles \cup {NoRole}] /\ e.action = input.op
  BY CommitStart DEF Commit, IInv, RowsOK, AuditEntry
<1>2. CASE input.op \in MemberOps
  <2>1. /\ input.subject \in Users /\ e.resource = input.subject /\ e.previous = call[c].previous
        /\ e.next = IF input.op = "member.removed" THEN NoRole ELSE input.role
    BY <1>1, <1>2 DEF AuditEntry, IsInput, MemberOps
  <2>2. role'[u] = IF u = input.subject THEN e.next ELSE role[u]
    BY <1>1, <1>2, <2>1 DEF RoleAfter, MemberOps
  <2>3. MemberRow(e, u) <=> u = input.subject
    BY <1>1, <1>2, <2>1 DEF MemberRow, Subject, MemberOps
  <2>4. call[c].previous = role[input.subject]
    BY <1>1, <1>2 DEF CallOK, TargetOK, Checked
  <2> QED
    BY <2>1, <2>2, <2>3, <2>4
<1>3. CASE input.op = "invitation.accepted"
  <2>1. e.actor = input.actor /\ e.next = invitation[input.subject].role
    BY <1>1, <1>3 DEF AuditEntry
  <2>2. role'[u] = IF u = input.actor THEN e.next ELSE role[u]
    BY <1>1, <1>3, <2>1 DEF RoleAfter
  <2>3. MemberRow(e, u) <=> u = input.actor
    BY <1>1, <1>3, <2>1 DEF MemberRow, Subject
  <2> QED
    BY <1>1, <1>3, <2>2, <2>3 DEF MemberOps
<1>4. CASE input.op \notin MemberOps \cup {"invitation.accepted"}
  BY <1>1, <1>4 DEF RoleAfter, MemberRow, MemberOps
<1> QED
  BY <1>2, <1>3, <1>4

\* The rows about a key, before and after a commit.
LEMMA KeyRowsAfter ==
  ASSUME AuditIsLog, NEW c \in Calls, Commit(c), NEW op, NEW k
  PROVE  /\ IsFiniteSet(KeyRows(op, k))
         /\ Cardinality(KeyRows(op, k)') =
              IF AuditEntry(c).action = op /\ AuditEntry(c).resource = k
              THEN Cardinality(KeyRows(op, k)) + 1 ELSE Cardinality(KeyRows(op, k))
<1> PICK e : e = AuditEntry(c)
  OBVIOUS
<1> PICK n : n = Len(audit) + 1
  OBVIOUS
<1>1. /\ Len(audit) \in Nat /\ n = Len(audit) + 1 /\ audit'[n] = e
      /\ DOMAIN audit = 1 .. Len(audit) /\ DOMAIN audit' = 1 .. n
      /\ \A i \in 1 .. Len(audit) : audit'[i] = audit[i]
  BY LogAfter
<1>2. KeyRows(op, k) \subseteq 1 .. Len(audit) /\ n \notin KeyRows(op, k)
  BY <1>1 DEF KeyRows
<1>3. IsFiniteSet(KeyRows(op, k))
  <2>1. IsFiniteSet(1 .. Len(audit))
    BY <1>1, FS_Interval
  <2> QED
    BY <1>2, <2>1, FS_Subset
<1>4. CASE e.action = op /\ e.resource = k
  <2>1. KeyRows(op, k)' = KeyRows(op, k) \cup {n}
    BY <1>1, <1>4 DEF KeyRows
  <2>2. Cardinality(KeyRows(op, k) \cup {n}) = Cardinality(KeyRows(op, k)) + 1
    BY <1>2, <1>3, FS_AddElement
  <2> QED
    BY <1>3, <1>4, <2>1, <2>2
<1>5. CASE ~(e.action = op /\ e.resource = k)
  <2>1. KeyRows(op, k)' = KeyRows(op, k)
    BY <1>1, <1>5 DEF KeyRows
  <2> QED
    BY <1>3, <1>5, <2>1
<1> QED
  BY <1>4, <1>5

\* The log counts the creation and the revocation of a key.
KeyExplained(k) ==
  /\ Cardinality(KeyRows("api_key.created", k)) = IF k \in Calls /\ key[k] # "none" THEN 1 ELSE 0
  /\ Cardinality(KeyRows("api_key.revoked", k)) = IF key[k] = "revoked" THEN 1 ELSE 0

AuditInv ==
  /\ AuditIsLog
  /\ \A u \in Users : role[u] = AuditedRole(Len(audit), u)
  /\ \A i \in DOMAIN audit : audit[i].action \in MemberOps =>
       audit[i].resource \in Users /\ audit[i].previous = AuditedRole(i - 1, audit[i].resource)
  /\ \A k \in Ids : KeyExplained(k)

LEMMA InitAudit == Init => AuditInv
<1> SUFFICES ASSUME Init PROVE AuditInv
  OBVIOUS
<1>1. audit = <<>> /\ Len(audit) = 0 /\ DOMAIN audit = {} /\ role = InitialRole
  BY DEF Init
<1>2. AuditIsLog
  BY <1>1, EmptySeq DEF AuditIsLog
<1>3. \A u \in Users : role[u] = AuditedRole(Len(audit), u)
  <2>1. \A u \in Users : MemberRows(0, u) = {}
    BY DEF MemberRows
  <2> QED
    BY <1>1, <2>1, NoRowYet
<1>4. ASSUME NEW k \in Ids PROVE KeyExplained(k)
  <2>1. \A op : KeyRows(op, k) = {}
    BY <1>1 DEF KeyRows
  <2>2. (k \in Calls => key[k] = "none") /\ key[k] # "revoked"
    BY CallsAssumption DEF Init
  <2> QED
    BY <2>1, <2>2, FS_EmptySet DEF KeyExplained
<1> QED
  BY <1>1, <1>2, <1>3, <1>4 DEF AuditInv

LEMMA CommitAudit ==
  ASSUME IInv, BoundsInv, AuditInv, NEW c \in Calls, Commit(c)
  PROVE  AuditInv'
<1> PICK input : input = call[c].input
  OBVIOUS
<1> PICK e : e = AuditEntry(c)
  OBVIOUS
<1> PICK n : n = Len(audit) + 1
  OBVIOUS
<1>1. /\ Len(audit) \in Nat /\ n = Len(audit) + 1 /\ Len(audit') = n /\ audit'[n] = e
      /\ DOMAIN audit = 1 .. Len(audit) /\ DOMAIN audit' = 1 .. n
      /\ \A i \in 1 .. Len(audit) : audit'[i] = audit[i]
  BY LogAfter DEF AuditInv
<1>2. AuditIsLog'
  BY AuditGrows DEF AuditInv
<1>3. ASSUME NEW u \in Users PROVE role'[u] = AuditedRole(Len(audit), u)'
  BY EntryTellsRole, AuditedNow DEF AuditInv
<1>4. ASSUME NEW i \in DOMAIN audit', audit'[i].action \in MemberOps
      PROVE  audit'[i].resource \in Users /\ audit'[i].previous = AuditedRole(i - 1, audit[i].resource)'
  <2>1. CASE i \in 1 .. Len(audit)
    <3> PICK u : u = audit[i].resource
      OBVIOUS
    <3>1. audit'[i] = audit[i] /\ u \in Users /\ audit[i].previous = AuditedRole(i - 1, u)
      BY <1>1, <1>4, <2>1 DEF AuditInv
    <3>2. i - 1 \in 0 .. Len(audit)
      BY <1>1, <2>1
    <3>3. AuditedRole(i - 1, u)' = AuditedRole(i - 1, u)
      BY <3>2, AuditedBefore DEF AuditInv
    <3>4. AuditedRole(i - 1, audit[i].resource)' = AuditedRole(i - 1, u)'
      BY <3>1
    <3> QED
      BY <3>1, <3>3, <3>4
  <2>2. CASE i = n
    <3> PICK u : u = e.resource
      OBVIOUS
    <3>1. audit'[i] = e /\ i - 1 = Len(audit) /\ e.action \in MemberOps
      BY <1>1, <1>4, <2>2
    <3>2. u \in Users /\ e.previous = role[u]
      BY <3>1, EntryTellsRole, UsersAssumption
    <3>3. PICK m \in 0 .. Len(audit) : m = i - 1 /\ m = Len(audit)
      BY <1>1, <3>1
    <3>4. AuditedRole(m, u)' = AuditedRole(m, u)
      BY AuditedBefore DEF AuditInv
    <3>5. AuditedRole(m, u) = role[u]
      BY <3>2, <3>3 DEF AuditInv
    <3>6. AuditedRole(i - 1, audit[i].resource)' = AuditedRole(m, u)'
      BY <3>1, <3>3
    <3> QED
      BY <3>1, <3>2, <3>4, <3>5, <3>6
  <2> QED
    BY <1>1, <2>1, <2>2
<1>5. ASSUME NEW k \in Ids PROVE KeyExplained(k)'
  <2>1. /\ e.action = input.op /\ FoundOK(c) /\ call[c].pc = "checked"
        /\ input.op \in {"api_key.created"} => e.resource = c
        /\ input.op = "api_key.revoked" => e.resource = input.subject
    BY DEF AuditEntry, Commit, BoundsInv
  <2>2. key[c] = "none" /\ (input.op = "api_key.revoked" => key[input.subject] = "active")
    BY <2>1 DEF FoundOK, FreshOK, KeyOK, Checked
  <2>3. key'[k] = IF input.op = "api_key.created" /\ k = c THEN "active"
                  ELSE IF input.op = "api_key.revoked" /\ k = input.subject THEN "revoked" ELSE key[k]
    BY KeysAfter
  <2>4. KeyExplained(k) /\ AuditIsLog
    BY DEF AuditInv
  <2>5. Cardinality(KeyRows("api_key.created", k)') = IF k \in Calls /\ key'[k] # "none" THEN 1 ELSE 0
    <3>1. Cardinality(KeyRows("api_key.created", k)') =
            IF input.op = "api_key.created" /\ k = c THEN Cardinality(KeyRows("api_key.created", k)) + 1
            ELSE Cardinality(KeyRows("api_key.created", k))
      BY <2>1, <2>4, KeyRowsAfter
    <3> QED
      BY <2>2, <2>3, <2>4, <3>1 DEF KeyExplained
  <2>6. Cardinality(KeyRows("api_key.revoked", k)') = IF key'[k] = "revoked" THEN 1 ELSE 0
    <3>1. Cardinality(KeyRows("api_key.revoked", k)') =
            IF input.op = "api_key.revoked" /\ k = input.subject THEN Cardinality(KeyRows("api_key.revoked", k)) + 1
            ELSE Cardinality(KeyRows("api_key.revoked", k))
      BY <2>1, <2>4, KeyRowsAfter
    <3> QED
      BY <2>2, <2>3, <2>4, <3>1 DEF KeyExplained
  <2> QED
    BY <2>5, <2>6 DEF KeyExplained
<1> QED
  BY <1>2, <1>3, <1>4, <1>5 DEF AuditInv

\* Only a commit writes the log, a membership or a key.
LEMMA StepAudit == IInv /\ BoundsInv /\ AuditInv /\ [Next]_vars => AuditInv'
<1> SUFFICES ASSUME IInv, BoundsInv, AuditInv, [Next]_vars PROVE AuditInv'
  OBVIOUS
<1>1. CASE \E c \in Calls : Commit(c)
  BY <1>1, CommitAudit
<1>2. CASE ~\E c \in Calls : Commit(c)
  <2>1. UNCHANGED <<role, key, audit>>
    BY <1>2 DEF Next, vars, Statement, Begin, FindInvitation, LockOrganization, CheckActor, CheckTarget,
       CheckInvitation, CheckRevocation, CheckRecipient, UpdateKey, Insert, Rollback, DeadlockVictim,
       RefreshProfile, Expire
  <2>2. \A k \in Ids : KeyExplained(k)'
    BY <2>1 DEF AuditInv, KeyExplained, KeyRows
  <2>3. AuditIsLog' /\ \A u \in Users : role'[u] = AuditedRole(Len(audit), u)'
    BY <2>1 DEF AuditInv, AuditIsLog, AuditedRole, Subject
  <2>4. \A i \in DOMAIN audit' : audit'[i].action \in MemberOps =>
          audit'[i].resource \in Users /\ audit'[i].previous = AuditedRole(i - 1, audit[i].resource)'
    <3>1. ASSUME NEW m, NEW u PROVE AuditedRole(m, u)' = AuditedRole(m, u)
      BY <2>1 DEF AuditedRole, Subject
    <3>2. ASSUME NEW i \in DOMAIN audit PROVE AuditedRole(i - 1, audit[i].resource)' = AuditedRole(i - 1, audit[i].resource)
      BY <2>1, <3>1
    <3> QED
      BY <2>1, <3>2 DEF AuditInv
  <2> QED
    BY <2>2, <2>3, <2>4 DEF AuditInv
<1> QED
  BY <1>1, <1>2

LEMMA InductiveAudit == Spec => []AuditInv
  BY InitAudit, StepAudit, Inductive, InductiveBounds, PTL DEF Spec

\* Nobody can tell a membership, a key or the role before a change from the
\* tables that the log does not tell, wherever transactions have interleaved.
THEOREM AuditExplains == Spec => []AuditExplainsState
<1>1. AuditInv => AuditExplainsState
  BY DEF AuditInv, AuditExplainsState, KeyExplained, KeyRows
<1> QED
  BY <1>1, InductiveAudit, PTL

=============================================================================
