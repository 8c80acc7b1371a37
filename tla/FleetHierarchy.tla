--------------------------- MODULE FleetHierarchy ---------------------------
(***************************************************************************)
(* Fleet's own resources: organizations, projects, environments and the    *)
(* role bindings that delegate them (store/fleet.rs), behind the handlers  *)
(* of fleet_rpc.rs and the authorization of operator_auth.rs.              *)
(*                                                                         *)
(* A handler first authorizes its caller, reading one role binding per     *)
(* step, and then calls the store.  A store operation runs under the       *)
(* mutation lock and ends in one transaction, so it is one step; what the  *)
(* handler read before may be out of date by then.                         *)
(*                                                                         *)
(* Ids are random UUIDs, so a new id is any id not in use.  A request id   *)
(* is chosen by the caller and may come again, for the same operation or   *)
(* for another.  Names, descriptions and the like are one field, `rev`,    *)
(* which says what request wrote them.                                     *)
(***************************************************************************)
EXTENDS Integers, Sequences, FiniteSets

CONSTANTS
  Handlers,    \* concurrent RPCs that change something
  Operators,   \* the operators who call
  GlobalRole,  \* OperatorRecord::role of each of them
  OrganizationIds, ProjectIds, EnvironmentIds, BindingIds,
  Slugs,
  RequestIds,  \* mutation.request_id
  FleetRoles,  \* the delegated roles that are granted
  Workloads,   \* [calls, callers, requests, handlers, subjects]: the operations that a behaviour
               \* is made of, who calls them with which request ids, how many at a time, and to
               \* whom and on what roles are granted
  Founded,     \* does the exploration start from one organization, project and environment?
  NoRequest, NoSlug

ASSUME FleetHierarchyConstants ==
  /\ GlobalRole \in [Operators -> {"owner", "administrator", "support", "auditor"}]
  /\ FleetRoles \subseteq {"owner", "administrator", "operator", "support", "auditor"}
  /\ Founded \in BOOLEAN
  /\ NoRequest \notin RequestIds /\ NoSlug \notin Slugs

\* What roles are granted on.
Scopes ==
  ({"organization"} \X OrganizationIds) \cup ({"project"} \X ProjectIds)
    \cup ({"environment"} \X EnvironmentIds)

ASSUME FleetWorkloads ==
  /\ Founded => OrganizationIds # {} /\ ProjectIds # {} /\ EnvironmentIds # {}
  /\ \A w \in Workloads : /\ w.callers \subseteq Operators /\ w.requests \subseteq RequestIds
                          /\ w.subjects \subseteq Operators \X Scopes

VARIABLES
  organizations,  \* fleet:organization:<id>, a function on the ids in use
  projects,       \* fleet:project:<id>
  environments,   \* fleet:environment:<id>
  slugs,          \* fleet:<kind>-slug:<parent>:<slug>, the id under each key
  bindings,       \* fleet:role-binding:<id>
  subjects,       \* fleet:role-binding-subject:<operator>:<kind>:<resource>
  receipts,       \* fleet:idempotency:<request>
  audit,          \* fleet:audit:<id>, in the order of their transactions
  handler,        \* what each handler is doing
  answers,        \* history: the resources that each request id was answered with
  grants,         \* history: the roles that were granted and revoked, in order
  workload        \* the one of Workloads that this behaviour is made of

tree  == <<organizations, projects, environments, slugs>>
roles == <<bindings, subjects>>
log   == <<receipts, audit>>
vars  == <<tree, roles, log, handler, answers, grants, workload>>

Empty == [x \in {} |-> 0]
With(f, x, v) == [y \in DOMAIN f \cup {x} |-> IF y = x THEN v ELSE f[y]]
Idle   == [at |-> "idle"]
NoRole == "none"
Nothing == "nothing"

Kinds == {"organization", "project", "environment"}

\* What the service starts from: nothing, or what three requests of an earlier time left.
Init ==
  LET o == CHOOSE o \in OrganizationIds : TRUE
      p == CHOOSE p \in ProjectIds : TRUE
      e == CHOOSE e \in EnvironmentIds : TRUE
  IN
  /\ organizations = [x \in IF Founded THEN {o} ELSE {} |->
       [slug |-> NoSlug, rev |-> NoRequest, active |-> TRUE]]
  /\ projects = [x \in IF Founded THEN {p} ELSE {} |->
       [organization |-> o, slug |-> NoSlug, rev |-> NoRequest, active |-> TRUE]]
  /\ environments = [x \in IF Founded THEN {e} ELSE {} |->
       [organization |-> o, project |-> p, slug |-> NoSlug, rev |-> NoRequest, active |-> TRUE]]
  /\ slugs = [k \in IF Founded THEN {<<"organization", NoSlug>>, <<"project", o, NoSlug>>,
                                     <<"environment", p, NoSlug>>} ELSE {} |->
       CASE k[1] = "organization" -> o [] k[1] = "project" -> p [] k[1] = "environment" -> e]
  /\ bindings = Empty /\ subjects = Empty
  /\ receipts = Empty /\ audit = <<>>
  /\ handler = [h \in Handlers |-> Idle]
  /\ answers = [r \in RequestIds |-> {}]
  /\ grants = <<>>
  /\ workload \in Workloads

-----------------------------------------------------------------------------
(***************************************************************************)
(* Reading the hierarchy.                                                  *)
(***************************************************************************)

\* (Bugs: an operator named Bug... is a wrong variant of the definition after it, kept
\* to show that the properties can tell the difference.)

Stored(kind) ==
  CASE kind = "organization" -> organizations
    [] kind = "project"      -> projects
    [] kind = "environment"  -> environments

ensure_fleet_resource(scope) == scope[2] \in DOMAIN Stored(scope[1])

resource_organization_id(scope) ==
  IF scope[1] = "organization" THEN scope[2] ELSE Stored(scope[1])[scope[2]].organization

\* The project of an environment is not looked up.
BugResourceProjectId(scope) == IF scope[1] = "organization" THEN Nothing ELSE scope[2]

resource_project_id(scope) ==
  CASE scope[1] = "organization" -> Nothing
    [] scope[1] = "project"      -> scope[2]
    [] scope[1] = "environment"  -> environments[scope[2]].project

resource_environment_id(scope) == IF scope[1] = "environment" THEN scope[2] ELSE Nothing

\* The active children that archiving looks at.
fleet_projects(o) == {p \in DOMAIN projects : projects[p].organization = o /\ projects[p].active}

fleet_environments(o, p) ==
  {e \in DOMAIN environments : /\ environments[e].organization = o
                               /\ environments[e].project = p
                               /\ environments[e].active}

\* The scopes whose bindings fleet_effective_role reads, in its order.
Chain(scope) ==
  CASE scope[1] = "organization" -> <<scope>>
    [] scope[1] = "project"      -> <<scope, <<"organization", projects[scope[2]].organization>>>>
    [] scope[1] = "environment"  ->
         LET e == environments[scope[2]]
         IN  <<scope, <<"project", e.project>>, <<"organization", e.organization>>>>

\* The role of a binding that was revoked.
BugFleetRoleBindingForOperator(who, scope) ==
  IF <<who, scope>> \in DOMAIN subjects THEN bindings[subjects[<<who, scope>>]].role ELSE NoRole

\* The active role of `who` on exactly this scope.
fleet_role_binding_for_operator(who, scope) ==
  IF <<who, scope>> \in DOMAIN subjects /\ bindings[subjects[<<who, scope>>]].active
  THEN bindings[subjects[<<who, scope>>]].role ELSE NoRole

fleet_role_rank(role) ==
  CASE role = "owner" -> 0 [] role = "administrator" -> 1 [] role = "operator" -> 2
    [] role = "support" -> 3 [] role = "auditor" -> 4 [] role = NoRole -> 5

MinByRank(a, b) == IF fleet_role_rank(b) < fleet_role_rank(a) THEN b ELSE a

-----------------------------------------------------------------------------
(***************************************************************************)
(* Authorization.  A refused call changes nothing and is not a step of its *)
(* own: the handler is idle again.  All handlers here ask for the          *)
(* capability to administer; every operator may read everything.           *)
(***************************************************************************)

allows(role)       == role \in {"owner", "administrator"}
fleet_allows(role) == role \in {"owner", "administrator"}

Go(h, r) == handler' = [handler EXCEPT ![h] = r]

require_fleet_role_dominance(actor, target) ==
  actor # NoRole /\ fleet_role_rank(actor) <= fleet_role_rank(target)

\* OperatorAuthorizer::authorize: the global role alone.
authorize(h, r) ==
  /\ allows(GlobalRole[r.who])
  /\ Go(h, [r EXCEPT !.at = "store"])

\* OperatorAuthorizer::authorize_fleet: the global role decides at once; otherwise the
\* bindings are read, beginning with the resource's own.
authorize_fleet(h, r) ==
  IF allows(GlobalRole[r.who])
  THEN /\ r.role # NoRole => require_fleet_role_dominance(GlobalRole[r.who], r.role)
       /\ Go(h, [r EXCEPT !.at = "store"])
  ELSE /\ ensure_fleet_resource(r.scope)
       /\ Go(h, [r EXCEPT !.at = "authorize", !.todo = Chain(r.scope)])

\* One round of fleet_effective_role; after the last, the decision.  A handler that deals
\* with roles reads all bindings a second time for require_fleet_role_dominance.
fleet_effective_role(h) ==
  LET r    == handler[h]
      best == MinByRank(r.best, fleet_role_binding_for_operator(r.who, Head(r.todo)))
  IN
  /\ r.at \in {"authorize", "dominate"}
  /\ IF Len(r.todo) > 1
     THEN Go(h, [r EXCEPT !.best = best, !.todo = Tail(@)])
     ELSE IF r.at = "authorize" /\ fleet_allows(best) /\ r.role # NoRole
     THEN Go(h, [r EXCEPT !.at = "dominate", !.best = NoRole, !.todo = Chain(r.scope)])
     ELSE IF \/ r.at = "authorize" /\ fleet_allows(best)
             \/ r.at = "dominate" /\ require_fleet_role_dominance(best, r.role)
     THEN Go(h, [r EXCEPT !.at = "store", !.best = NoRole, !.todo = <<>>])
     ELSE Go(h, Idle)
  /\ UNCHANGED <<tree, roles, log, answers, grants>>

-----------------------------------------------------------------------------
(***************************************************************************)
(* The store operations.                                                   *)
(***************************************************************************)

Fresh(ids, f) == CHOOSE x \in ids \ DOMAIN f : TRUE
Room(ids, f)  == ids \ DOMAIN f # {}

\* A receipt of the same operation is the answer; one of another operation is a conflict.
fleet_idempotent_resource(action, request) ==
  IF request \notin DOMAIN receipts THEN [found |-> FALSE]
  ELSE [found |-> TRUE, resource |-> IF receipts[request].action = action
                                     THEN receipts[request].resource ELSE Nothing]

Answer(request, resource) == answers' = [answers EXCEPT ![request] = @ \cup {resource}]

\* The audit record is written, the receipt is not.
BugPersistFleetMutation(r, resource, owner) ==
  /\ receipts' = receipts
  /\ audit' = Append(audit, [request |-> r.request, operator |-> r.who, action |-> r.op,
                             resource |-> resource, owner |-> owner])
  /\ Answer(r.request, resource)

\* What goes into the transaction with the record and its index: receipt and audit.
persist_fleet_mutation(r, resource, owner) ==
  /\ receipts' = With(receipts, r.request, [action |-> r.op, resource |-> resource])
  /\ audit' = Append(audit, [request |-> r.request, operator |-> r.who, action |-> r.op,
                             resource |-> resource, owner |-> owner])
  /\ Answer(r.request, resource)

\* The frame of every mutation: under the mutation lock the receipt is looked for first;
\* an operation that is refused leaves everything as it is.
Mutation(h, action, allowed, Effect) ==
  LET r == handler[h]
      before == fleet_idempotent_resource(action, r.request)
  IN
  /\ r.at = "store" /\ r.op = action
  /\ Go(h, Idle)
  /\ IF before.found
     THEN /\ IF before.resource = Nothing THEN UNCHANGED answers
             ELSE Answer(r.request, before.resource)
          /\ UNCHANGED <<tree, roles, log, grants>>
     ELSE IF allowed THEN Effect ELSE UNCHANGED <<tree, roles, log, answers, grants>>

create_fleet_organization(h) ==
  LET r == handler[h]
      o == Fresh(OrganizationIds, organizations)
  IN
  Mutation(h, <<"organization", "create">>,
    Room(OrganizationIds, organizations) /\ <<"organization", r.slug>> \notin DOMAIN slugs,
    /\ organizations' = With(organizations, o, [slug |-> r.slug, rev |-> r.request, active |-> TRUE])
    /\ slugs' = With(slugs, <<"organization", r.slug>>, o)
    /\ persist_fleet_mutation(r, o, <<o, Nothing, Nothing>>)
    /\ UNCHANGED <<projects, environments, roles, grants>>)

update_fleet_organization(h) ==
  LET r == handler[h] IN
  Mutation(h, <<"organization", "update">>,
    r.id \in DOMAIN organizations /\ organizations[r.id].active,
    /\ organizations' = [organizations EXCEPT ![r.id].rev = r.request]
    /\ persist_fleet_mutation(r, r.id, <<r.id, Nothing, Nothing>>)
    /\ UNCHANGED <<projects, environments, slugs, roles, grants>>)

\* Archiving again is recorded again.
archive_fleet_organization(h) ==
  LET r == handler[h] IN
  Mutation(h, <<"organization", "archive">>,
    fleet_projects(r.id) = {} /\ r.id \in DOMAIN organizations,
    /\ organizations' = [organizations EXCEPT ![r.id].active = FALSE]
    /\ persist_fleet_mutation(r, r.id, <<r.id, Nothing, Nothing>>)
    /\ UNCHANGED <<projects, environments, slugs, roles, grants>>)

create_fleet_project(h) ==
  LET r == handler[h]
      p == Fresh(ProjectIds, projects)
  IN
  Mutation(h, <<"project", "create">>,
    /\ Room(ProjectIds, projects)
    /\ r.parent \in DOMAIN organizations /\ organizations[r.parent].active
    /\ <<"project", r.parent, r.slug>> \notin DOMAIN slugs,
    /\ projects' = With(projects, p, [organization |-> r.parent, slug |-> r.slug,
                                      rev |-> r.request, active |-> TRUE])
    /\ slugs' = With(slugs, <<"project", r.parent, r.slug>>, p)
    /\ persist_fleet_mutation(r, p, <<r.parent, p, Nothing>>)
    /\ UNCHANGED <<organizations, environments, roles, grants>>)

\* The project must be one of the organization that the request names.
Within(p, o) == p \in DOMAIN projects /\ projects[p].organization = o

update_fleet_project(h) ==
  LET r == handler[h] IN
  Mutation(h, <<"project", "update">>,
    Within(r.id, r.parent) /\ projects[r.id].active,
    /\ projects' = [projects EXCEPT ![r.id].rev = r.request]
    /\ persist_fleet_mutation(r, r.id, <<r.parent, r.id, Nothing>>)
    /\ UNCHANGED <<organizations, environments, slugs, roles, grants>>)

\* The environments of the project are not looked at.
BugArchiveFleetProject(h) ==
  LET r == handler[h] IN
  Mutation(h, <<"project", "archive">>,
    Within(r.id, r.parent),
    /\ projects' = [projects EXCEPT ![r.id].active = FALSE]
    /\ persist_fleet_mutation(r, r.id, <<r.parent, r.id, Nothing>>)
    /\ UNCHANGED <<organizations, environments, slugs, roles, grants>>)

archive_fleet_project(h) ==
  LET r == handler[h] IN
  Mutation(h, <<"project", "archive">>,
    fleet_environments(r.parent, r.id) = {} /\ Within(r.id, r.parent),
    /\ projects' = [projects EXCEPT ![r.id].active = FALSE]
    /\ persist_fleet_mutation(r, r.id, <<r.parent, r.id, Nothing>>)
    /\ UNCHANGED <<organizations, environments, slugs, roles, grants>>)

\* That the organization is active follows from the project's being so, and is not read.
create_fleet_environment(h) ==
  LET r == handler[h]
      e == Fresh(EnvironmentIds, environments)
      p == r.scope[2]
  IN
  Mutation(h, <<"environment", "create">>,
    /\ Room(EnvironmentIds, environments)
    /\ Within(p, r.parent) /\ projects[p].active
    /\ <<"environment", p, r.slug>> \notin DOMAIN slugs,
    /\ environments' = With(environments, e, [organization |-> r.parent, project |-> p,
                              slug |-> r.slug, rev |-> r.request, active |-> TRUE])
    /\ slugs' = With(slugs, <<"environment", p, r.slug>>, e)
    /\ persist_fleet_mutation(r, e, <<r.parent, p, e>>)
    /\ UNCHANGED <<organizations, projects, roles, grants>>)

Placed(e, p, o) ==
  e \in DOMAIN environments /\ environments[e].organization = o /\ environments[e].project = p

update_fleet_environment(h) ==
  LET r == handler[h] IN
  Mutation(h, <<"environment", "update">>,
    Placed(r.id, r.project, r.parent) /\ environments[r.id].active,
    /\ environments' = [environments EXCEPT ![r.id].rev = r.request]
    /\ persist_fleet_mutation(r, r.id, <<r.parent, r.project, r.id>>)
    /\ UNCHANGED <<organizations, projects, slugs, roles, grants>>)

archive_fleet_environment(h) ==
  LET r == handler[h] IN
  Mutation(h, <<"environment", "archive">>,
    Placed(r.id, r.project, r.parent),
    /\ environments' = [environments EXCEPT ![r.id].active = FALSE]
    /\ persist_fleet_mutation(r, r.id, <<r.parent, r.project, r.id>>)
    /\ UNCHANGED <<organizations, projects, slugs, roles, grants>>)

Owner(scope) ==
  <<resource_organization_id(scope), resource_project_id(scope), resource_environment_id(scope)>>

\* One binding per subject and scope: granting again reuses its record, revoked or not.
upsert_fleet_role_binding(h) ==
  LET r   == handler[h]
      key == <<r.subject, r.scope>>
      b   == IF key \in DOMAIN subjects THEN subjects[key] ELSE Fresh(BindingIds, bindings)
  IN
  Mutation(h, <<"role-binding", "upsert">>,
    ensure_fleet_resource(r.scope) /\ (key \in DOMAIN subjects \/ Room(BindingIds, bindings)),
    /\ bindings' = With(bindings, b, [operator |-> r.subject, scope |-> r.scope,
                                      role |-> r.role, active |-> TRUE])
    /\ subjects' = With(subjects, key, b)
    /\ persist_fleet_mutation(r, b, Owner(r.scope))
    /\ grants' = Append(grants, [by |-> r.who, since |-> r.since, to |-> r.subject,
                                 scope |-> r.scope, role |-> r.role])
    /\ UNCHANGED tree)

revoke_fleet_role_binding(h) ==
  LET r == handler[h] IN
  Mutation(h, <<"role-binding", "revoke">>,
    r.id \in DOMAIN bindings,
    /\ bindings' = [bindings EXCEPT ![r.id].active = FALSE]
    /\ persist_fleet_mutation(r, r.id, Owner(bindings[r.id].scope))
    /\ grants' = Append(grants, [by |-> r.who, since |-> r.since, to |-> bindings[r.id].operator,
                                 scope |-> bindings[r.id].scope, role |-> NoRole])
    /\ UNCHANGED <<tree, subjects>>)

-----------------------------------------------------------------------------
(***************************************************************************)
(* The handlers of fleet_rpc.rs: what they authorize, and for what call.   *)
(***************************************************************************)

Call(who, op, scope, request) ==
  [at |-> "start", op |-> op, who |-> who, scope |-> scope, request |-> request,
   id |-> scope[2], parent |-> Nothing, project |-> Nothing, slug |-> NoSlug,
   subject |-> Nothing, role |-> NoRole, best |-> NoRole, todo |-> <<>>, since |-> 0]

create_organization(h, who, q) ==
  \E s \in Slugs :
    authorize(h, [Call(who, <<"organization", "create">>, <<"organization", Nothing>>, q)
                  EXCEPT !.slug = s])

update_organization(h, who, q) ==
  \E o \in OrganizationIds :
    authorize_fleet(h, Call(who, <<"organization", "update">>, <<"organization", o>>, q))

archive_organization(h, who, q) ==
  \E o \in OrganizationIds :
    authorize_fleet(h, Call(who, <<"organization", "archive">>, <<"organization", o>>, q))

\* A project is created on the authority over its organization.
create_project(h, who, q) ==
  \E o \in OrganizationIds, s \in Slugs :
    authorize_fleet(h, [Call(who, <<"project", "create">>, <<"organization", o>>, q)
                        EXCEPT !.parent = o, !.slug = s])

\* The request names both ids; only the project's is authorized.
update_project(h, who, q) ==
  \E p \in ProjectIds, o \in OrganizationIds :
    authorize_fleet(h, [Call(who, <<"project", "update">>, <<"project", p>>, q) EXCEPT !.parent = o])

archive_project(h, who, q) ==
  \E p \in ProjectIds, o \in OrganizationIds :
    authorize_fleet(h, [Call(who, <<"project", "archive">>, <<"project", p>>, q) EXCEPT !.parent = o])

create_environment(h, who, q) ==
  \E p \in ProjectIds, o \in OrganizationIds, s \in Slugs :
    authorize_fleet(h, [Call(who, <<"environment", "create">>, <<"project", p>>, q)
                        EXCEPT !.parent = o, !.slug = s])

update_environment(h, who, q) ==
  \E e \in EnvironmentIds, p \in ProjectIds, o \in OrganizationIds :
    authorize_fleet(h, [Call(who, <<"environment", "update">>, <<"environment", e>>, q)
                        EXCEPT !.project = p, !.parent = o])

archive_environment(h, who, q) ==
  \E e \in EnvironmentIds, p \in ProjectIds, o \in OrganizationIds :
    authorize_fleet(h, [Call(who, <<"environment", "archive">>, <<"environment", e>>, q)
                        EXCEPT !.project = p, !.parent = o])

upsert_role_binding(h, who, q) ==
  \E s \in workload.subjects, role \in FleetRoles :
    authorize_fleet(h, [Call(who, <<"role-binding", "upsert">>, s[2], q)
                        EXCEPT !.subject = s[1], !.role = role, !.since = Len(grants)])

\* The binding is read first; scope and role are what it says then.
revoke_role_binding(h, who, q) ==
  \E b \in DOMAIN bindings :
    authorize_fleet(h, [Call(who, <<"role-binding", "revoke">>, bindings[b].scope, q)
                        EXCEPT !.id = b, !.role = bindings[b].role])

Handle(h, who, q) ==
  \/ <<"organization", "create">> \in workload.calls /\ create_organization(h, who, q)
  \/ <<"organization", "update">> \in workload.calls /\ update_organization(h, who, q)
  \/ <<"organization", "archive">> \in workload.calls /\ archive_organization(h, who, q)
  \/ <<"project", "create">> \in workload.calls /\ create_project(h, who, q)
  \/ <<"project", "update">> \in workload.calls /\ update_project(h, who, q)
  \/ <<"project", "archive">> \in workload.calls /\ archive_project(h, who, q)
  \/ <<"environment", "create">> \in workload.calls /\ create_environment(h, who, q)
  \/ <<"environment", "update">> \in workload.calls /\ update_environment(h, who, q)
  \/ <<"environment", "archive">> \in workload.calls /\ archive_environment(h, who, q)
  \/ <<"role-binding", "upsert">> \in workload.calls /\ upsert_role_binding(h, who, q)
  \/ <<"role-binding", "revoke">> \in workload.calls /\ revoke_role_binding(h, who, q)

Begin(h) ==
  /\ h \in workload.handlers /\ handler[h] = Idle
  /\ \E who \in workload.callers, q \in workload.requests : Handle(h, who, q)
  /\ UNCHANGED <<tree, roles, log, answers, grants>>

StoreOperation(h) ==
  \/ create_fleet_organization(h) \/ update_fleet_organization(h) \/ archive_fleet_organization(h)
  \/ create_fleet_project(h) \/ update_fleet_project(h) \/ archive_fleet_project(h)
  \/ create_fleet_environment(h) \/ update_fleet_environment(h) \/ archive_fleet_environment(h)
  \/ upsert_fleet_role_binding(h) \/ revoke_fleet_role_binding(h)

\* The caller went away, or the request timed out: nothing more is done.
Abandon(h) ==
  /\ handler[h] # Idle
  /\ Go(h, Idle)
  /\ UNCHANGED <<tree, roles, log, answers, grants>>

Next ==
  /\ \E h \in Handlers : Begin(h) \/ fleet_effective_role(h) \/ StoreOperation(h) \/ Abandon(h)
  /\ UNCHANGED workload

Spec == Init /\ [][Next]_vars

-----------------------------------------------------------------------------
(***************************************************************************)
(* What a backup demands of this state (backup/snapshot.rs); it validates  *)
(* what it captures, so a state it rejects is one that is not backed up.   *)
(***************************************************************************)

ValidOrganizations ==
  /\ \A o \in DOMAIN organizations :
       LET k == <<"organization", organizations[o].slug>> IN k \in DOMAIN slugs /\ slugs[k] = o
  /\ \A k \in DOMAIN slugs : k[1] = "organization" =>
       slugs[k] \in DOMAIN organizations /\ organizations[slugs[k]].slug = k[2]

ValidProjects ==
  /\ \A p \in DOMAIN projects :
       LET k == <<"project", projects[p].organization, projects[p].slug>> IN
       /\ projects[p].organization \in DOMAIN organizations
       /\ k \in DOMAIN slugs /\ slugs[k] = p
  /\ \A k \in DOMAIN slugs : k[1] = "project" =>
       /\ slugs[k] \in DOMAIN projects
       /\ projects[slugs[k]].organization = k[2] /\ projects[slugs[k]].slug = k[3]

ValidEnvironments ==
  /\ \A e \in DOMAIN environments :
       LET r == environments[e]
           k == <<"environment", r.project, r.slug>>
       IN  /\ r.organization \in DOMAIN organizations /\ Within(r.project, r.organization)
           /\ k \in DOMAIN slugs /\ slugs[k] = e
  /\ \A k \in DOMAIN slugs : k[1] = "environment" =>
       /\ slugs[k] \in DOMAIN environments
       /\ environments[slugs[k]].project = k[2] /\ environments[slugs[k]].slug = k[3]

ValidBindings ==
  /\ \A b \in DOMAIN bindings :
       LET k == <<bindings[b].operator, bindings[b].scope>> IN
       ensure_fleet_resource(bindings[b].scope) /\ k \in DOMAIN subjects /\ subjects[k] = b
  /\ \A k \in DOMAIN subjects :
       /\ subjects[k] \in DOMAIN bindings
       /\ bindings[subjects[k]].operator = k[1] /\ bindings[subjects[k]].scope = k[2]

\* The ownership that the audit record of a resource must state.
OwnerOf(kind, id) ==
  CASE kind = "organization" -> <<id, Nothing, Nothing>>
    [] kind = "project"      -> <<projects[id].organization, id, Nothing>>
    [] kind = "environment"  -> <<environments[id].organization, environments[id].project, id>>

ValidAudit(a) ==
  /\ \/ a.action[1] \in Kinds /\ a.action[2] \in {"create", "update", "archive"}
     \/ a.action[1] = "role-binding" /\ a.action[2] \in {"upsert", "revoke"}
  /\ IF a.action[1] = "role-binding"
     THEN /\ a.resource \in DOMAIN bindings
          /\ LET scope == bindings[a.resource].scope
             IN  ensure_fleet_resource(scope) /\ a.owner = OwnerOf(scope[1], scope[2])
     ELSE /\ ensure_fleet_resource(<<a.action[1], a.resource>>)
          /\ a.owner = OwnerOf(a.action[1], a.resource)
  /\ a.request \in DOMAIN receipts
  /\ receipts[a.request] = [action |-> a.action, resource |-> a.resource]

ValidReceipts ==
  \A q \in DOMAIN receipts : \E i \in DOMAIN audit :
    /\ audit[i].request = q
    /\ audit[i].action = receipts[q].action /\ audit[i].resource = receipts[q].resource

-----------------------------------------------------------------------------
(***************************************************************************)
(* Properties.                                                             *)
(***************************************************************************)

\* The backup's validation (validate_fleet_workspace) accepts every state that Fleet's
\* operations reach: whatever calls were made, in whatever order, the service can be
\* backed up and the backup restored.
validate_fleet_workspace ==
  /\ ValidOrganizations /\ ValidProjects /\ ValidEnvironments /\ ValidBindings
  /\ \A i \in DOMAIN audit : ValidAudit(audit[i])
  /\ ValidReceipts

\* An active project is in an active organization and an active environment in an active
\* project, though archiving looks only downwards and creating only one level up, and both
\* act on what was authorized earlier.
ActiveParents ==
  /\ \A p \in DOMAIN projects : projects[p].active => organizations[projects[p].organization].active
  /\ \A e \in DOMAIN environments : environments[e].active =>
       /\ projects[environments[e].project].active
       /\ organizations[environments[e].organization].active

\* A request id is carried out once: however often it is sent, by concurrent handlers and
\* for different operations, it is audited once and every answer it gets that is not an
\* error names the same resource.
OneEffectPerRequest ==
  \A q \in RequestIds :
    /\ Cardinality(answers[q]) <= 1
    /\ Cardinality({i \in DOMAIN audit : audit[i].request = q}) <= 1

\* Every change of a resource's data is in the audit trail, under the request that the
\* resource carries.
ChangesAreAudited ==
  \A kind \in Kinds : \A x \in DOMAIN Stored(kind) :
    Stored(kind)[x].rev # NoRequest =>
      \E i \in DOMAIN audit :
        /\ audit[i].request = Stored(kind)[x].rev
        /\ audit[i].resource = x /\ audit[i].action[1] = kind

\* A request is carried out once and every change is traceable to its request.
AuditedOnce == OneEffectPerRequest /\ ChangesAreAudited

\* May an operator with this role grant that one?
Covers(role, granted) ==
  role \in {"owner", "administrator"} /\ fleet_role_rank(role) <= fleet_role_rank(granted)

\* A role comes from authority its grantor had: each grant was made by a global owner or
\* administrator of at least that rank, or by an operator who held, at some moment while
\* the call was handled, a role of at least that rank that administers the resource or one
\* above it: granted before, and neither revoked nor replaced before the call began.
GrantsComeFromAuthority ==
  \A i \in DOMAIN grants :
    LET g == grants[i] IN
    \/ g.role = NoRole
    \/ Covers(GlobalRole[g.by], g.role)
    \/ \E j \in 1..(i - 1) :
         /\ grants[j].to = g.by /\ Covers(grants[j].role, g.role)
         /\ \E k \in DOMAIN Chain(g.scope) : Chain(g.scope)[k] = grants[j].scope
         /\ \A k \in (j + 1)..g.since :
              <<grants[k].to, grants[k].scope>> # <<grants[j].to, grants[j].scope>>

\* What is archived stays as it is: no later call changes or revives it.
ArchivedIsFinal ==
  [][\A kind \in Kinds : \A x \in DOMAIN Stored(kind) :
       ~Stored(kind)[x].active => Stored(kind)'[x] = Stored(kind)[x]]_vars
=============================================================================
