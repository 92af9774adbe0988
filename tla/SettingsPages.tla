----------------------------- MODULE SettingsPages --------------------------
(* The settings pages of the console: the member directory of an           *)
(* organization (apps/web/src/workspace-members.tsx, member-client.ts) and *)
(* the write keys of a project (project-settings.tsx, write-key-client.ts) *)
(* over the handlers of the API (apps/api/src/organization-members.ts,     *)
(* project-write-keys.ts), whose transactions Organization models.         *)
(*                                                                         *)
(* A user looks at cached lists, changes what they show, and goes from one *)
(* organization to another while answers are under way; others change the  *)
(* same organizations.  An organization stands for its project and         *)
(* environment too.  useQuery, useInfiniteQuery and useMutation are        *)
(* modelled as these pages use them.                                       *)
EXTENDS Naturals, Sequences

CONSTANTS
  Organizations,
  InitialMine,    \* InitialMine[o]: the user's role
  InitialMember,  \* InitialMember[o]: the role of the other member
  NotMember,      \* no membership
  Nothing,
  SettingsBounds  \* bounds: [calls, others, turns], of which a behaviour has one: changes
                  \* the user asks for, changes made by others, and pages opened, lists
                  \* read on request and lists that fail

ManagerRoles == {"owner", "admin"}
MemberRoles == ManagerRoles \cup {"member"}
PageKinds == {"members", "invitations", "keys"}
Lists == PageKinds \X Organizations
Elsewhere == <<"elsewhere", Nothing>>
Places == ({"members", "keys"} \X Organizations) \cup {Elsewhere}

ASSUME SettingsAssumption ==
  /\ SettingsBounds \subseteq [calls : Nat, others : Nat, turns : Nat]
  /\ NotMember \notin MemberRoles
  /\ InitialMine \in [Organizations -> MemberRoles]
  /\ InitialMember \in [Organizations -> MemberRoles]

VARIABLES
  mine, member,  \* memberships: of the user and of the other member
  version,       \* version[l]: how often what list l reads has changed
  shown,         \* shown[o]: the user's role as the organizations were last read
  list,          \* list[l]: the query's cache: [data, invalid, failed]
  fetch,         \* fetch[l]: the query's request: [on, read]
  place,         \* the page that is open, and of which organization
  calls,         \* the mutations, in the order they were asked for
  link, key,     \* the organization of the invitation link or key that is displayed once
  spare          \* what the bounds leave

settingsVars == <<mine, member, version, shown, list, fetch, place, calls, link, key, spare>>

Server == <<mine, member, version>>
NotLoaded == [data |-> Nothing, invalid |-> FALSE, failed |-> FALSE]
NoFetch == [on |-> FALSE, read |-> Nothing]
Started == [on |-> TRUE, read |-> Nothing]
Here == place[2]

\* Roles that an actor may manage: canManageMember.
MayManage(actor, target, next) ==
  actor = "owner" \/ (actor = "admin" /\ target # "owner" /\ next # "owner")

-----------------------------------------------------------------------------
(* Lists.                                                                  *)

\* The lists that a page shows; only managers ask for invitations and keys.
Observed(p, roles) ==
  CASE p[1] = "members" ->
         {<<"members", p[2]>>} \cup (IF roles[p[2]] \in ManagerRoles THEN {<<"invitations", p[2]>>} ELSE {})
    [] p[1] = "keys" -> IF roles[p[2]] \in ManagerRoles THEN {<<"keys", p[2]>>} ELSE {}
    [] OTHER -> {}

OnPage == Observed(place, shown)
Usable(l) == l \in OnPage /\ list[l].data # Nothing /\ ~list[l].failed

\* listMembers, listInvitations and list of the stores, for those who may read.
ReadList(l) ==
  LET o == l[2] IN
  /\ fetch[l].on /\ fetch[l].read = Nothing
  /\ IF mine[o] \in ManagerRoles \/ (l[1] = "members" /\ mine[o] # NotMember)
     THEN /\ fetch' = [fetch EXCEPT ![l].read =
                         [version |-> version[l], role |-> IF l[1] = "members" THEN member[o] ELSE Nothing]]
          /\ UNCHANGED list
     ELSE fetch' = [fetch EXCEPT ![l] = NoFetch] /\ list' = [list EXCEPT ![l].failed = TRUE]
  /\ UNCHANGED <<Server, shown, place, calls, link, key, spare>>

ListArrives(l) ==
  /\ fetch[l].read # Nothing
  /\ list' = [list EXCEPT ![l] = [data |-> fetch[l].read, invalid |-> FALSE, failed |-> FALSE]]
  /\ fetch' = [fetch EXCEPT ![l] = NoFetch]
  /\ UNCHANGED <<Server, shown, place, calls, link, key, spare>>

Turned == spare.turns > 0 /\ spare' = [spare EXCEPT !.turns = @ - 1]

ListFails(l) ==
  /\ Turned /\ fetch[l].on
  /\ list' = [list EXCEPT ![l].failed = TRUE]
  /\ fetch' = [fetch EXCEPT ![l] = NoFetch]
  /\ UNCHANGED <<Server, shown, place, calls, link, key>>

\* "Try again", or a page that reconnects.
ReadAgain(l) ==
  /\ Turned /\ l \in OnPage /\ ~fetch[l].on
  /\ fetch' = [fetch EXCEPT ![l] = Started]
  /\ UNCHANGED <<Server, shown, list, place, calls, link, key>>

\* "Load more members": the request takes the place of one that reads the list
\* again, and the rows before it stay as they are.
LoadMore(l) ==
  /\ Turned /\ l[1] # "keys" /\ Usable(l)
  /\ fetch' = [fetch EXCEPT ![l] = [on |-> TRUE, read |-> list[l].data]]
  /\ UNCHANGED <<Server, shown, list, place, calls, link, key>>

-----------------------------------------------------------------------------
(* Pages.                                                                  *)

\* Mutant: the directory has no key, so that it stays when the organization changes.
StaysWithoutKey(p) == p[1] = place[1]

\* The directory is keyed by its organization; the page of keys is one component
\* for every project.
Stays(p) == p[1] = place[1] /\ (p[1] = "members" => p[2] = Here)

\* A page is rendered: lists that are new on it are read if they are not cached,
\* invalidated, or, as `old` says, older than they may be; the requests of lists
\* that have left it are cancelled; what an unmounted component held is gone.
Render(p, roles, old) ==
  LET new == Observed(p, roles)
      start == {l \in new \ OnPage : list[l].data = Nothing \/ list[l].invalid \/ l \in old}
  IN  /\ place' = p /\ shown' = roles
      /\ fetch' = [l \in Lists |-> IF l \in start THEN Started ELSE IF l \in new THEN fetch[l] ELSE NoFetch]
      /\ IF Stays(p) THEN UNCHANGED <<link, key>> ELSE link' = Nothing /\ key' = Nothing
      /\ calls' = [i \in DOMAIN calls |->
           IF ~calls[i].mounted THEN calls[i]
           ELSE IF Stays(p) THEN [calls[i] EXCEPT !.scope = p[2]]
           ELSE [calls[i] EXCEPT !.mounted = FALSE]]

Open(p) ==
  /\ Turned /\ p # place
  /\ p # Elsewhere => shown[p[2]] # NotMember
  /\ \E old \in SUBSET Observed(p, shown) : Render(p, shown, old)
  /\ UNCHANGED <<Server, list>>

\* The organizations are read again; one the user has left is no longer there.
ReadOrganizations ==
  /\ mine # shown
  /\ Render(IF place # Elsewhere /\ mine[Here] = NotMember THEN Elsewhere ELSE place, mine, {})
  /\ UNCHANGED <<Server, list, spare>>

\* "I saved it".
Dismiss ==
  /\ link # Nothing \/ key # Nothing
  /\ link' = Nothing /\ key' = Nothing
  /\ UNCHANGED <<Server, shown, list, fetch, place, calls, spare>>

-----------------------------------------------------------------------------
(* Mutations, as the pages ask for them.                                   *)

Directory == place[1] = "members"
Pending(i) == calls[i].stage \in {"asked", "done", "refused", "told"}
Busy == \E i \in DOMAIN calls : calls[i].mounted /\ Pending(i)

Ask(op, row, next) ==
  /\ spare.calls > 0
  /\ spare' = [spare EXCEPT !.calls = @ - 1]
  /\ calls' = Append(calls, [op |-> op, org |-> Here, scope |-> Here, row |-> row, next |-> next,
                             stage |-> "asked", version |-> 0, mounted |-> TRUE])
  /\ UNCHANGED <<Server, shown, list, fetch, place, link, key>>

SubmitInvitation ==
  /\ Directory /\ shown[Here] \in ManagerRoles /\ ~Busy /\ link = Nothing
  /\ Ask("invite", Nothing, Nothing)

ConfirmRevocation ==
  /\ Directory /\ ~Busy /\ Usable(<<"invitations", Here>>)
  /\ list[<<"invitations", Here>>].data.version > 0
  /\ Ask("revoke invitation", Nothing, Nothing)

\* The row of the other member, as the user sees it.
Row == list[<<"members", Here>>].data.role
RowIsManaged ==
  /\ Directory /\ ~Busy /\ Usable(<<"members", Here>>) /\ Row # NotMember
  /\ shown[Here] = "owner" \/ (shown[Here] = "admin" /\ Row # "owner")

\* window.confirm names the role of the row and the next one.
ConfirmChange(next) ==
  /\ RowIsManaged /\ next # Row /\ (next = "owner" => shown[Here] = "owner")
  /\ Ask("change", Row, next)

ConfirmRemoval == RowIsManaged /\ Ask("remove", Row, NotMember)

\* The user's own row.
ConfirmLeaving ==
  /\ Directory /\ ~Busy /\ Usable(<<"members", Here>>) /\ shown[Here] \in ManagerRoles
  /\ Ask("leave", shown[Here], NotMember)

KeyPending(op) == \E i \in DOMAIN calls : calls[i].mounted /\ Pending(i) /\ calls[i].op = op

SubmitKey ==
  /\ place[1] = "keys" /\ Usable(<<"keys", Here>>) /\ key = Nothing /\ ~KeyPending("create key")
  /\ Ask("create key", Nothing, Nothing)

ConfirmKeyRevocation ==
  /\ place[1] = "keys" /\ Usable(<<"keys", Here>>) /\ list[<<"keys", Here>>].data.version > 0
  /\ ~KeyPending("revoke key")
  /\ Ask("revoke key", Nothing, Nothing)

-----------------------------------------------------------------------------
(* The handlers.                                                           *)

Lists1(c) ==
  CASE c.op \in {"invite", "revoke invitation"} -> {<<"invitations", c.org>>}
    [] c.op \in {"change", "remove", "leave"} -> {<<"members", c.org>>}
    [] OTHER -> {<<"keys", c.org>>}

\* A call of an operation is served: it is refused, or changes what its list reads.
Serve(i, ops, allowed) ==
  LET c == calls[i] IN
  /\ c.stage = "asked" /\ c.op \in ops
  /\ IF allowed
     THEN /\ version' = [l \in Lists |-> IF l \in Lists1(c) THEN version[l] + 1 ELSE version[l]]
          /\ calls' = [calls EXCEPT ![i] = [@ EXCEPT !.stage = "done",
                         !.version = version[CHOOSE l \in Lists1(c) : TRUE] + 1]]
     ELSE calls' = [calls EXCEPT ![i].stage = "refused"] /\ UNCHANGED version
  /\ UNCHANGED <<shown, list, fetch, place, link, key, spare>>

ServeInvitations(i) ==
  /\ Serve(i, {"invite", "revoke invitation"}, mine[calls[i].org] \in ManagerRoles)
  /\ UNCHANGED <<mine, member>>

ServeKeys(i) ==
  /\ Serve(i, {"create key", "revoke key"}, mine[calls[i].org] \in ManagerRoles)
  /\ UNCHANGED <<mine, member>>

\* changeMemberRole sends the role of the row as expectedRole.
ChangeAllowed(c) ==
  /\ MayManage(mine[c.org], member[c.org], c.next)
  /\ member[c.org] # NotMember /\ member[c.org] = c.row

ServeChange(i) ==
  LET c == calls[i] IN
  /\ Serve(i, {"change"}, ChangeAllowed(c))
  /\ member' = IF ChangeAllowed(c) THEN [member EXCEPT ![c.org] = c.next] ELSE member
  /\ UNCHANGED mine

\* Removal of the other member, whatever the role it has by now.
RemovalAllowed(c) == MayManage(mine[c.org], member[c.org], NotMember) /\ member[c.org] # NotMember

ServeRemoval(i) ==
  LET c == calls[i] IN
  /\ Serve(i, {"remove"}, RemovalAllowed(c))
  /\ member' = IF RemovalAllowed(c) THEN [member EXCEPT ![c.org] = NotMember] ELSE member
  /\ UNCHANGED mine

\* Removal of the user, who must not be the last owner.
LeavingAllowed(c) ==
  /\ mine[c.org] \in ManagerRoles
  /\ mine[c.org] = "owner" => member[c.org] = "owner"

ServeLeaving(i) ==
  LET c == calls[i] IN
  /\ Serve(i, {"leave"}, LeavingAllowed(c))
  /\ mine' = IF LeavingAllowed(c) THEN [mine EXCEPT ![c.org] = NotMember] ELSE mine
  /\ UNCHANGED member

\* Others: the role of either member changes, or a membership ends.
OthersChange(o) ==
  /\ spare.others > 0
  /\ spare' = [spare EXCEPT !.others = @ - 1]
  /\ \/ \E r \in (MemberRoles \cup {NotMember}) \ {member[o]} : member' = [member EXCEPT ![o] = r] /\ UNCHANGED mine
     \/ \E r \in (MemberRoles \cup {NotMember}) \ {mine[o]} :
          mine[o] # NotMember /\ mine' = [mine EXCEPT ![o] = r] /\ UNCHANGED member
  /\ version' = [version EXCEPT ![<<"members", o>>] = @ + 1]
  /\ UNCHANGED <<shown, list, fetch, place, calls, link, key>>

-----------------------------------------------------------------------------
(* Answers.                                                                *)

\* invalidateQueries: a list on the page is read again at once, in place of a
\* request under way unless nothing has been loaded yet; others when they are
\* shown.  The mutation is pending until the lists are there.
Invalidate(lists) ==
  /\ list' = [l \in Lists |-> IF l \in lists THEN [list[l] EXCEPT !.invalid = TRUE] ELSE list[l]]
  /\ fetch' = [l \in Lists |->
       IF l \in lists \cap OnPage /\ (list[l].data # Nothing \/ ~fetch[l].on) THEN Started ELSE fetch[l]]

Succeeds(i, ops) ==
  /\ calls[i].stage = "done" /\ calls[i].op \in ops
  /\ calls' = [calls EXCEPT ![i].stage = "told"]
  /\ UNCHANGED <<Server, spare>>

\* onSuccess of the directory's mutations, which run even when it is unmounted;
\* its state is set only while it is there.
DirectoryTold(i) ==
  /\ Succeeds(i, {"invite", "revoke invitation", "change", "remove"})
  /\ Invalidate({"members", "invitations"} \X {calls[i].org})
  /\ link' = IF calls[i].op = "invite" /\ calls[i].mounted THEN calls[i].org ELSE link
  /\ UNCHANGED <<shown, place, key>>

\* After leaving, the console goes to its first page.
LeavingTold(i) ==
  /\ calls[i].stage = "done" /\ calls[i].op = "leave"
  /\ place' = Elsewhere /\ fetch' = [l \in Lists |-> NoFetch]
  /\ link' = Nothing /\ key' = Nothing
  /\ calls' = [j \in DOMAIN calls |->
       [calls[j] EXCEPT !.mounted = FALSE, !.stage = IF j = i THEN "ended" ELSE @]]
  /\ UNCHANGED <<Server, shown, list, spare>>

\* onSuccess of the keys' mutations is that of the last render: it invalidates
\* the list of the project that was shown then.
KeysTold(i) ==
  /\ Succeeds(i, {"create key", "revoke key"})
  /\ Invalidate({<<"keys", calls[i].scope>>})
  /\ key' = IF calls[i].op = "create key" /\ calls[i].mounted THEN calls[i].org ELSE key
  /\ UNCHANGED <<shown, place, link>>

\* The lists that the mutation waited for are there, or are waited for no longer.
CallEnds(i) ==
  /\ calls[i].stage = "told"
  /\ \A l \in Lists1(calls[i]) : ~fetch[l].on
  /\ calls' = [calls EXCEPT ![i].stage = "ended"]
  /\ UNCHANGED <<Server, shown, list, fetch, place, link, key, spare>>

\* The call is refused, or it or its answer is lost: the error is shown.
CallFails(i) ==
  /\ calls[i].stage \in {"asked", "done", "refused"}
  /\ calls' = [calls EXCEPT ![i].stage = "failed"]
  /\ UNCHANGED <<Server, shown, list, fetch, place, link, key, spare>>

-----------------------------------------------------------------------------
SettingsInit ==
  /\ mine = InitialMine /\ member = InitialMember /\ shown = InitialMine
  /\ version = [l \in Lists |-> 0]
  /\ list = [l \in Lists |-> NotLoaded] /\ fetch = [l \in Lists |-> NoFetch]
  /\ place = Elsewhere /\ calls = <<>> /\ link = Nothing /\ key = Nothing
  /\ spare \in SettingsBounds

Served(i) == ServeInvitations(i) \/ ServeKeys(i) \/ ServeChange(i) \/ ServeRemoval(i) \/ ServeLeaving(i)

SettingsNext ==
  \/ \E l \in Lists : ReadList(l) \/ ListArrives(l) \/ ListFails(l) \/ ReadAgain(l) \/ LoadMore(l)
  \/ \E p \in Places : Open(p)
  \/ ReadOrganizations \/ Dismiss
  \/ SubmitInvitation \/ ConfirmRevocation \/ (\E r \in MemberRoles : ConfirmChange(r))
  \/ ConfirmRemoval \/ ConfirmLeaving \/ SubmitKey \/ ConfirmKeyRevocation
  \/ \E o \in Organizations : OthersChange(o)
  \/ \E i \in DOMAIN calls :
       Served(i) \/ DirectoryTold(i) \/ LeavingTold(i) \/ KeysTold(i) \/ CallEnds(i) \/ CallFails(i)

-----------------------------------------------------------------------------
(* Properties.                                                             *)

\* workspace-members.tsx: the link that is shown once is shown in the directory
\* of its own organization, whatever page its answer finds open.
LinkIsOfOrganization == link # Nothing => place = <<"members", link>>

-----------------------------------------------------------------------------
(* What the documentation says and the code does not keep.                 *)

\* docs/operations/workspace-provisioning.md: "Every event's project and
\* environment must match the key scope."  The key that is shown once stays when
\* another project is opened, and the snippet joins it with that project.
SnippetIsOfItsScope ==
  place[1] = "keys" /\ Usable(<<"keys", Here>>) /\ key # Nothing => key = Here

\* A list that is not being read shows the user's changes that were confirmed:
\* "Role updated. Permissions apply immediately."  It may not where more rows
\* were asked for while it was read again, where it was still loading, or where
\* another project's page is open when a key's answer comes.
OwnChangesAreListed ==
  \A i \in DOMAIN calls : calls[i].stage = "ended" =>
    \A l \in Lists1(calls[i]) :
      Usable(l) /\ ~fetch[l].on => list[l].data.version >= calls[i].version
=============================================================================
