---------------------------- MODULE WorkspaceGate ---------------------------
(* How a signed-in user comes to a project in the console: the gate in     *)
(* front of every page and the setup of a first organization and project   *)
(* (apps/web/src/console-app.tsx, console-shell.tsx, workspace-client.ts)  *)
(* and the page that joins an organization (invite-acceptance.tsx), over   *)
(* the handlers of the API (workspaces.ts, organization-members.ts).       *)
(*                                                                         *)
(* The gate looks at the cached organizations and projects and at the URL, *)
(* which it normalizes with a redirect before it shows a page.  Lists are  *)
(* cut at 100 entries, which the model does not reach.                     *)
EXTENDS Naturals, Sequences, FiniteSetsExt

CONSTANTS
  Given,          \* organizations of others, and of the user at first; ids are ordered
  Fresh,          \* ids of organizations that the user may create
  HomeOf,         \* HomeOf[p]: the organization of a project, which exists from the start
                  \* if its organization is given
  Environments,   \* names, numbered in their order
  EnvironmentsOf, \* EnvironmentsOf[p], not empty
  Demo,           \* the project of illustrative data
  Nil,
  GateBounds      \* bounds: [submits, others, turns], of which a behaviour has one: forms
                  \* submitted, changes by others and failed reads, links followed

Projects == DOMAIN HomeOf

ASSUME GateAssumption ==
  /\ Given \cap Fresh = {} /\ Given \cup Fresh \subseteq Nat
  /\ HomeOf \in [Projects -> Given \cup Fresh] /\ Projects \subseteq Nat
  /\ Environments \subseteq Nat /\ EnvironmentsOf \in [Projects -> (SUBSET Environments) \ {{}}]
  /\ {Demo, Nil} \cap (Projects \cup Given \cup Fresh \cup Environments) = {}
  /\ GateBounds \subseteq [submits : Nat, others : Nat, turns : Nat]

VARIABLES
  memberOf,    \* organizations of the user
  existing,    \* projects that have been created
  invited,     \* organizations that have an invitation pending for the user
  cookie,      \* the invitation that the browser holds, in whichever tab it was claimed
  session,     \* the user is signed in
  orgs, projs, \* the queries of organizations, and of the projects of each
  location,    \* the URL: [path, organization, project, environment, live, of, typed], where
               \* of are the projects to which filters and selections in it belong and
               \* typed tells that the user has typed its project over that of a page
  form,        \* WorkspaceSetup: its organization, or Nil where it is not mounted
  submits,     \* submissions of the form, which go on when it is gone
  join,        \* InviteAcceptance: [token, claim, shown]
  room         \* what the bounds leave

gateVars == <<memberOf, existing, invited, cookie, session, orgs, projs, location, form,
              submits, join, room>>

Unread == [data |-> Nil, failed |-> FALSE]
NoForm == [mounted |-> FALSE, org |-> Nil]

-----------------------------------------------------------------------------
(* The gate.                                                               *)

Offered == IF orgs.data = Nil THEN {} ELSE orgs.data
Listed == UNION {IF projs[o].data = Nil THEN {} ELSE projs[o].data : o \in Offered}

\* The requested project, one of the requested organization, or the first.
Selected ==
  LET ofOrganization == {p \in Listed : HomeOf[p] = location.organization}
  IN  IF location.project \in Listed THEN location.project
      ELSE Min(IF ofOrganization # {} THEN ofOrganization ELSE Listed)

SelectedEnvironment ==
  IF location.environment \in EnvironmentsOf[Selected] THEN location.environment
  ELSE Min(EnvironmentsOf[Selected])

SelectionIsCurrent ==
  /\ location.project \in Listed
  /\ location.organization = HomeOf[Selected]
  /\ location.environment = SelectedEnvironment
  /\ location.live

\* AppFrame and WorkspaceGate: what is rendered.
Screen ==
  CASE location.path = "invite" -> "join"
    [] location.path # "invite" /\ ~session -> "sign in"
    [] OTHER ->
       IF orgs.failed THEN "error"
       ELSE IF orgs.data = Nil THEN "loading"
       ELSE IF Offered = {} THEN "setup"
       ELSE IF \E o \in Offered : projs[o] = Unread THEN "loading"
       ELSE IF \E o \in Offered : projs[o].failed THEN "error"
       ELSE IF location.path = "members" /\ location.organization \in Offered THEN "page"
       ELSE IF Listed = {} THEN "setup"
       ELSE IF SelectionIsCurrent THEN "page" ELSE "redirect"

\* The form of the setup is mounted with the first organization that there is,
\* and lasts as long as it is rendered.
Rendered(updated) ==
  form' = IF Screen' # "setup" THEN NoForm
          ELSE IF form.mounted THEN updated
          ELSE [mounted |-> TRUE, org |-> IF Offered' = {} THEN Nil ELSE Min(Offered')]

\* What a submission can still set: the form it came from.
Unmount == submits' = IF form'.mounted THEN submits
                      ELSE [i \in DOMAIN submits |-> [submits[i] EXCEPT !.mounted = FALSE]]

\* Mutant: only illustrative state is dropped, not that of a project out of reach.
ResetIfIllustrative == ~location.live

ResetRouteState == location.project \notin Listed \/ ~location.live

\* WorkspaceSelectionRedirect and buildWorkspaceSelectionHref.
Redirect ==
  /\ Screen = "redirect"
  /\ location' = [path |-> IF ResetRouteState /\ location.path = "session" THEN "list" ELSE location.path,
                  organization |-> HomeOf[Selected], project |-> Selected,
                  environment |-> SelectedEnvironment, live |-> TRUE,
                  of |-> IF ResetRouteState THEN {} ELSE location.of,
                  typed |-> ~ResetRouteState /\ location.typed]
  /\ UNCHANGED <<memberOf, existing, invited, cookie, session, orgs, projs, submits, join, room>>
  /\ Rendered(form)

Navigated == room.turns > 0 /\ room' = [room EXCEPT !.turns = @ - 1]

\* Links that are kept or sent: to a project, with the state of a page of it, to
\* the members of an organization, or to the first page.
Links ==
  {[path |-> path, organization |-> o, project |-> p, environment |-> e, live |-> live,
    of |-> IF live THEN {p} ELSE {Demo}, typed |-> FALSE] :
       path \in {"list", "session"}, o \in Given, p \in Projects, e \in Environments, live \in BOOLEAN}
  \cup {[path |-> path, organization |-> o, project |-> Nil, environment |-> Nil, live |-> TRUE,
           of |-> {}, typed |-> FALSE] :
       path \in {"list", "members"}, o \in Given \cup {Nil}}

FollowLink ==
  /\ location.path # "invite" /\ Navigated
  /\ location' \in {l \in Links : l.project = Nil \/ l.organization = HomeOf[l.project]}
  /\ UNCHANGED <<memberOf, existing, invited, cookie, session, orgs, projs, join>>
  /\ Rendered(form) /\ Unmount

\* WorkspaceSwitcher: the same page of another project, without its state; the
\* list of events in place of a session.
SwitchProject ==
  /\ Screen = "page" /\ Navigated
  /\ \E p \in Listed :
       location' = [path |-> "list", organization |-> HomeOf[p], project |-> p,
                    environment |-> Min(EnvironmentsOf[p]), live |-> TRUE, of |-> {}, typed |-> FALSE]
  /\ UNCHANGED <<memberOf, existing, invited, cookie, session, orgs, projs, submits, join>>
  /\ Rendered(form)

\* What the user does on a page of a project.
UseProject(url) ==
  /\ Screen = "page" /\ location.path \in {"list", "session"} /\ Navigated
  /\ location' = url
  /\ UNCHANGED <<memberOf, existing, invited, cookie, session, orgs, projs, submits, join>>
  /\ Rendered(form)

\* A filter, or a selected event or issue, of the project that the page shows.
SetFilter == UseProject([location EXCEPT !.of = @ \cup {location.project}])

\* A session that a list shows: the link takes over only the scope.
OpenSession ==
  /\ location.path = "list"
  /\ UseProject([location EXCEPT !.path = "session", !.of = {location.project}, !.typed = FALSE])

\* The links of the shell take over only the scope, as clearing the filters does.
Navigate == UseProject([location EXCEPT !.path = "list", !.of = {}, !.typed = FALSE])

\* The Project ID field of the lists: any project may be typed; the selected event
\* or issue goes, but the filters stay, which of does not tell apart.  (A link
\* copied then is this one, followed and typed over.)
TypeProject ==
  /\ location.path = "list"
  /\ \E p \in Projects \ {location.project} :
       UseProject([location EXCEPT !.project = p, !.typed = TRUE])

\* The Environment field of the lists.
TypeEnvironment ==
  /\ location.path = "list"
  /\ \E e \in Environments \ {location.environment} :
       UseProject([location EXCEPT !.environment = e])

-----------------------------------------------------------------------------
(* Queries, read when they are first needed, invalidated, reconnected or   *)
(* tried again.                                                            *)

Othered == room.others > 0 /\ room' = [room EXCEPT !.others = @ - 1]

LoadOrganizations ==
  /\ location.path # "invite" /\ session
  /\ orgs' = [data |-> memberOf, failed |-> FALSE] /\ orgs' # orgs
  /\ UNCHANGED <<memberOf, existing, invited, cookie, session, projs, location, join, room>>
  /\ Rendered(form) /\ Unmount

OrganizationsFail ==
  /\ location.path # "invite" /\ session /\ Othered
  /\ orgs' = [orgs EXCEPT !.failed = TRUE]
  /\ UNCHANGED <<memberOf, existing, invited, cookie, session, projs, location, join>>
  /\ Rendered(form) /\ Unmount

\* Refused where the user is no longer a member.
LoadProjects(o) ==
  /\ location.path # "invite" /\ session /\ o \in Offered
  /\ projs' = [projs EXCEPT ![o] =
                 IF o \in memberOf THEN [data |-> {p \in existing : HomeOf[p] = o}, failed |-> FALSE]
                 ELSE [@ EXCEPT !.failed = TRUE]]
  /\ projs' # projs
  /\ UNCHANGED <<memberOf, existing, invited, cookie, session, orgs, location, join, room>>
  /\ Rendered(form) /\ Unmount

\* The user is removed from an organization.
Removed(o) ==
  /\ o \in memberOf \cap Given /\ Othered
  /\ memberOf' = memberOf \ {o}
  /\ UNCHANGED <<existing, invited, cookie, session, orgs, projs, location, form, submits, join>>

-----------------------------------------------------------------------------
(* WorkspaceSetup.handleSubmit.  A submission goes on when the form is     *)
(* gone: [org, project, made, seen, mounted, stage], where made is the     *)
(* organization that it has created and seen tells that the form knows.    *)

Saving == \E i \in DOMAIN submits : submits[i].mounted /\ submits[i].stage \notin {"failed", "done"}

\* Mutant: a retry creates the organization again.
SubmittedAnew(org) == Nil

SubmittedOrganization(org) == org

Submit ==
  /\ form.mounted /\ ~Saving
  /\ room.submits > 0 /\ room' = [room EXCEPT !.submits = @ - 1]
  /\ LET org == SubmittedOrganization(form.org)
     IN  submits' = Append(submits, [org |-> org, project |-> Nil, made |-> Nil, seen |-> FALSE,
                                     mounted |-> TRUE,
                                     stage |-> IF org = Nil THEN "organization" ELSE "project"])
  /\ UNCHANGED <<memberOf, existing, invited, cookie, session, orgs, projs, location, form, join>>

\* POST /v1/organizations: a new organization with the user as its owner.
CreateOrganization(i) ==
  /\ submits[i].stage = "organization"
  /\ Fresh \ memberOf # {}
  /\ LET o == Min(Fresh \ memberOf)
     IN  /\ memberOf' = memberOf \cup {o}
         /\ submits' = [submits EXCEPT ![i] = [@ EXCEPT !.made = o, !.stage = "organization made"]]
  /\ UNCHANGED <<existing, invited, cookie, session, orgs, projs, location, form, join, room>>

\* setOrganization, and the project is asked for.
OrganizationMade(i) ==
  /\ submits[i].stage = "organization made"
  /\ submits' = [submits EXCEPT ![i] = [@ EXCEPT !.org = submits[i].made, !.stage = "project",
                                                 !.seen = submits[i].mounted]]
  /\ form' = IF submits[i].mounted THEN [form EXCEPT !.org = submits[i].made] ELSE form
  /\ UNCHANGED <<memberOf, existing, invited, cookie, session, orgs, projs, location, join, room>>

\* POST /v1/organizations/:id/projects.
CreateProject(i) ==
  /\ submits[i].stage = "project"
  /\ \E p \in Projects \ existing :
       /\ HomeOf[p] = submits[i].org
       /\ existing' = existing \cup {p}
       /\ submits' = [submits EXCEPT ![i] = [@ EXCEPT !.project = p, !.stage = "project made"]]
  /\ UNCHANGED <<memberOf, invited, cookie, session, orgs, projs, location, form, join, room>>

\* The queries are invalidated and read again; then the console opens the
\* settings of the project.
ProjectMade(i) ==
  /\ submits[i].stage = "project made"
  /\ orgs' = [data |-> memberOf, failed |-> FALSE]
  /\ projs' = [o \in DOMAIN projs |->
       IF o \in memberOf THEN [data |-> {p \in existing : HomeOf[p] = o}, failed |-> FALSE] ELSE projs[o]]
  /\ location' = LET p == submits[i].project
                 IN  [path |-> "list", organization |-> submits[i].org, project |-> p,
                      environment |-> Min(EnvironmentsOf[p]), live |-> TRUE, of |-> {}, typed |-> FALSE]
  /\ submits' = [j \in DOMAIN submits |->
       [submits[j] EXCEPT !.mounted = FALSE, !.stage = IF j = i THEN "done" ELSE @]]
  /\ UNCHANGED <<memberOf, existing, invited, cookie, session, join, room>>
  /\ Rendered(form)

\* A request or its answer is lost, or it is refused; the form shows the error.
SubmissionFails(i) ==
  /\ submits[i].stage \notin {"failed", "done"}
  /\ submits' = [submits EXCEPT ![i].stage = "failed"]
  /\ UNCHANGED <<memberOf, existing, invited, cookie, session, orgs, projs, location, form, join, room>>

-----------------------------------------------------------------------------
(* InviteAcceptance.                                                       *)

Joining == location.path = "invite"

\* prepareInvitation: the token of the link is exchanged for a cookie, at most
\* once at a time; a failure gives the token back.
Claim ==
  /\ Joining /\ join.claim = "none"
  /\ \/ /\ join.token \in invited
        /\ cookie' = join.token /\ join' = [join EXCEPT !.token = Nil, !.claim = "done"]
     \/ /\ join.token = Nil
        /\ join' = [join EXCEPT !.claim = "done"] /\ UNCHANGED cookie
  /\ UNCHANGED <<memberOf, existing, invited, session, orgs, projs, location, form, submits, room>>

\* POST /v1/invitations/preview, for a user who is signed in.
Preview ==
  /\ Joining /\ join.claim = "done" /\ session /\ join.shown # cookie
  /\ cookie \in invited \ memberOf
  /\ join' = [join EXCEPT !.shown = cookie]
  /\ UNCHANGED <<memberOf, existing, invited, cookie, session, orgs, projs, location, form, submits, room>>

\* The page is loaded again after the login, without the fragment of the link.
SignIn ==
  /\ ~session /\ session' = TRUE
  /\ join' = [token |-> Nil, claim |-> "none", shown |-> Nil]
  /\ UNCHANGED <<memberOf, existing, invited, cookie, orgs, projs, location, submits, room>>
  /\ Rendered(form)

\* POST /v1/invitations/accept: the invitation that the cookie names by now.
\* The answer opens the members of its organization; an answer that is lost
\* leaves the page, where the next try tells of the membership.
Accept(lost) ==
  /\ Joining /\ join.shown # Nil
  /\ cookie \in invited \ memberOf
  /\ memberOf' = memberOf \cup {cookie} /\ invited' = invited \ {cookie}
  /\ IF lost
     THEN UNCHANGED <<cookie, location, join>> /\ Othered
     ELSE /\ cookie' = Nil /\ join' = [join EXCEPT !.shown = Nil] /\ UNCHANGED room
          /\ location' = [path |-> "members", organization |-> cookie, project |-> Nil,
                          environment |-> Nil, live |-> TRUE, of |-> {}, typed |-> FALSE]
  /\ UNCHANGED <<existing, session, orgs, projs, submits>>
  /\ Rendered(form)

\* Another tab opens another link, or ten minutes pass.
CookieChanges ==
  /\ Othered
  /\ cookie' \in (invited \cup {Nil}) \ {cookie}
  /\ UNCHANGED <<memberOf, existing, invited, session, orgs, projs, location, form, submits, join>>

\* "Open your workspaces", where the invitation is not available.
LeaveInvitation ==
  /\ Joining /\ join.claim = "done" /\ session /\ cookie \notin invited \ memberOf
  /\ location' = [path |-> "list", organization |-> Nil, project |-> Nil, environment |-> Nil,
                  live |-> FALSE, of |-> {}, typed |-> FALSE]
  /\ UNCHANGED <<memberOf, existing, invited, cookie, session, orgs, projs, submits, join, room>>
  /\ Rendered(form)

-----------------------------------------------------------------------------
GateInit ==
  /\ memberOf \in {{}, Given}
  /\ existing = {p \in Projects : HomeOf[p] \in Given}
  /\ invited = Given \ memberOf
  /\ cookie = Nil /\ session \in BOOLEAN
  /\ orgs = Unread /\ projs = [o \in Given \cup Fresh |-> Unread]
  /\ location = [path |-> IF session THEN "list" ELSE "invite", organization |-> Nil,
                 project |-> Nil, environment |-> Nil, live |-> FALSE, of |-> {}, typed |-> FALSE]
  /\ form = NoForm /\ submits = <<>>
  /\ join \in [token : IF session THEN {Nil} ELSE Given, claim : {"none"}, shown : {Nil}]
  /\ room \in GateBounds

GateNext ==
  \/ Redirect \/ FollowLink \/ SwitchProject
  \/ SetFilter \/ OpenSession \/ Navigate \/ TypeProject \/ TypeEnvironment
  \/ LoadOrganizations \/ OrganizationsFail
  \/ \E o \in Given \cup Fresh : LoadProjects(o) \/ Removed(o)
  \/ Submit
  \/ \E i \in DOMAIN submits :
       \/ CreateOrganization(i) \/ OrganizationMade(i) \/ CreateProject(i) \/ ProjectMade(i)
       \/ SubmissionFails(i)
  \/ Claim \/ Preview \/ SignIn \/ (\E lost \in BOOLEAN : Accept(lost))
  \/ CookieChanges \/ LeaveInvitation

-----------------------------------------------------------------------------
(* Properties.                                                             *)

\* console-app.tsx: whatever links are followed and projects typed while
\* memberships end, a page never shows a project together with a session of
\* another one or with illustrative state, and with filters of another one only
\* where the user has typed the project over them.
RouteIsOfProject ==
  Screen = "page" =>
    \/ location.of \subseteq {location.project}
    \/ /\ location.typed /\ location.path = "list"
       /\ Demo \notin location.of

\* A setup that fails half-way goes on with the organization it has created:
\* there is a second one only where the form could not learn of the first.
SetupReusesOrganization ==
  \A i, j \in DOMAIN submits :
    i < j /\ submits[i].made # Nil /\ submits[j].made # Nil => ~submits[i].seen

-----------------------------------------------------------------------------
(* What the documentation says and the code does not keep.                 *)

\* invite-acceptance.tsx promises "You'll review your access before joining",
\* but accepting takes the cookie, which another tab may have replaced.
ShownIsAccepted ==
  [][\A o \in Given : o \in memberOf' \ memberOf => o = join.shown]_gateVars
=============================================================================
