-------------------------- MODULE FleetStoreProofs --------------------------
(***************************************************************************)
(* What one operation of Fleet's store does to the hierarchy, its roles    *)
(* and its log, whoever calls it: the lemmas of FleetHierarchyProofs that  *)
(* are not about handlers.                                                 *)
(***************************************************************************)
EXTENDS FleetHierarchy, FiniteSetTheorems, TLAPS

AnyId == OrganizationIds \cup ProjectIds \cup EnvironmentIds \cup BindingIds \cup {Nothing}
Roles == {"owner", "administrator", "operator", "support", "auditor"}
Operations == (Kinds \X {"create", "update", "archive"})
                \cup {<<"role-binding", "upsert">>, <<"role-binding", "revoke">>}

Organization == [slug : Slugs \cup {NoSlug}, rev : RequestIds \cup {NoRequest}, active : BOOLEAN]
Project ==
  [organization : OrganizationIds, slug : Slugs \cup {NoSlug}, rev : RequestIds \cup {NoRequest},
   active : BOOLEAN]
Environment ==
  [organization : OrganizationIds, project : ProjectIds, slug : Slugs \cup {NoSlug},
   rev : RequestIds \cup {NoRequest}, active : BOOLEAN]
Binding == [operator : Operators, scope : Scopes, role : Roles, active : BOOLEAN]

\* A handler that is authorized or at the store.
Busy ==
  [at : {"start", "authorize", "dominate", "store"}, op : Operations, who : Operators,
   scope : Scopes \cup {<<"organization", Nothing>>}, request : RequestIds,
   id : AnyId, parent : AnyId, project : AnyId, slug : Slugs \cup {NoSlug},
   subject : Operators \cup {Nothing}, role : Roles \cup {NoRole}, best : Roles \cup {NoRole},
   todo : Seq(Scopes), since : Nat]

\* What a handler asks for: roles are granted on resources that there may be, to operators.
Proper(r) ==
  /\ r \in Busy
  /\ r.op = <<"role-binding", "upsert">> =>
       r.scope \in Scopes /\ r.subject \in Operators /\ r.role \in Roles

HandlersOK ==
  /\ DOMAIN handler = Handlers
  /\ \A h \in Handlers : handler[h] = Idle \/ Proper(handler[h])

TreeOK ==
  /\ DOMAIN organizations \subseteq OrganizationIds
  /\ \A o \in DOMAIN organizations : organizations[o] \in Organization
  /\ DOMAIN projects \subseteq ProjectIds
  /\ \A p \in DOMAIN projects : projects[p] \in Project
  /\ DOMAIN environments \subseteq EnvironmentIds
  /\ \A e \in DOMAIN environments : environments[e] \in Environment

BindingsOK ==
  /\ DOMAIN bindings \subseteq BindingIds
  /\ \A b \in DOMAIN bindings : bindings[b] \in Binding

AuditRecord ==
  [request : RequestIds, operator : Operators, action : Operations,
   resource : AnyId, owner : AnyId \X AnyId \X AnyId]

\* A request was audited once and answered with what its receipt says.
AuditInv ==
  /\ audit \in Seq(AuditRecord)
  /\ \A i \in DOMAIN audit : ValidAudit(audit[i])
  /\ \A i, j \in DOMAIN audit : audit[i].request = audit[j].request => i = j
  /\ ValidReceipts
  /\ DOMAIN answers = RequestIds
  /\ \A q \in RequestIds : \A x \in answers[q] :
       q \in DOMAIN receipts /\ x = receipts[q].resource

TreeInv == /\ TreeOK /\ ValidOrganizations /\ ValidProjects /\ ValidEnvironments /\ ActiveParents

-----------------------------------------------------------------------------
(* The tree. *)

\* Nothing is removed from the tree and nothing in it moves.
Grows ==
  /\ \A o \in DOMAIN organizations : o \in DOMAIN organizations'
  /\ \A p \in DOMAIN projects :
       p \in DOMAIN projects' /\ projects'[p].organization = projects[p].organization
  /\ \A e \in DOMAIN environments :
       /\ e \in DOMAIN environments' /\ environments'[e].organization = environments[e].organization
       /\ environments'[e].project = environments[e].project

\* What is archived is not touched.
Archived == \A kind \in Kinds : \A x \in DOMAIN Stored(kind) :
              ~Stored(kind)[x].active => Stored(kind)'[x] = Stored(kind)[x]

\* A handler at the store carries a request, and an id chosen for a new record is new.
LEMMA AtStore ==
  ASSUME HandlersOK, NEW h \in Handlers, handler[h].at = "store"
  PROVE  Proper(handler[h])
BY DEF HandlersOK, Idle

LEMMA FreshIsNew ==
  ASSUME NEW ids, NEW f, Room(ids, f)
  PROVE  Fresh(ids, f) \in ids /\ Fresh(ids, f) \notin DOMAIN f
BY Zenon DEF Room, Fresh

\* What a store operation does that changes nothing: it is refused, or it is answered
\* with the resource of its receipt.
Quiet(r) ==
  /\ UNCHANGED <<tree, roles, log, grants>>
  /\ \/ UNCHANGED answers
     \/ r.request \in DOMAIN receipts /\ Answer(r.request, receipts[r.request].resource)

\* One record that keeps its name and its place is changed; it may be archived when
\* nothing active is under it.
LEMMA ChangeOrganization ==
  ASSUME TreeInv, NEW o \in DOMAIN organizations,
         DOMAIN organizations' = DOMAIN organizations,
         \A x \in DOMAIN organizations : x # o => organizations'[x] = organizations[x],
         organizations'[o] \in Organization,
         organizations'[o].slug = organizations[o].slug,
         organizations[o].active \/ organizations'[o] = organizations[o],
         organizations'[o].active \/ fleet_projects(o) = {},
         UNCHANGED <<projects, environments, slugs>>
  PROVE  TreeInv' /\ Grows /\ Archived
<1>1. TreeOK'
  BY Zenon DEF TreeInv, TreeOK
<1>2. ValidOrganizations'
  BY DEF TreeInv, ValidOrganizations
<1>3. ValidProjects' /\ ValidEnvironments'
  BY Zenon DEF TreeInv, ValidProjects, ValidEnvironments, Within
<1>4. ActiveParents'
  <2>1. ASSUME NEW p \in DOMAIN projects, projects[p].active
        PROVE  organizations'[projects[p].organization].active
    BY <2>1, Zenon DEF TreeInv, ActiveParents, ValidProjects, fleet_projects
  <2>2. ASSUME NEW e \in DOMAIN environments, environments[e].active
        PROVE  organizations'[environments[e].organization].active
    <3>1. /\ environments[e].project \in DOMAIN projects
          /\ projects[environments[e].project].organization = environments[e].organization
          /\ projects[environments[e].project].active
      BY <2>2, Zenon DEF TreeInv, ActiveParents, ValidEnvironments, Within
    <3> QED
      BY <3>1, <2>1, Zenon
  <2> QED
    BY <2>1, <2>2, Zenon DEF TreeInv, ActiveParents
<1>5. Grows /\ Archived
  BY Zenon DEF Grows, Archived, Stored, Kinds
<1> QED
  BY <1>1, <1>2, <1>3, <1>4, <1>5, Zenon DEF TreeInv

LEMMA ChangeProject ==
  ASSUME TreeInv, NEW p \in DOMAIN projects,
         DOMAIN projects' = DOMAIN projects,
         \A x \in DOMAIN projects : x # p => projects'[x] = projects[x],
         projects'[p] \in Project,
         projects'[p].slug = projects[p].slug,
         projects'[p].organization = projects[p].organization,
         projects[p].active \/ projects'[p] = projects[p],
         projects'[p].active \/ fleet_environments(projects[p].organization, p) = {},
         UNCHANGED <<organizations, environments, slugs>>
  PROVE  TreeInv' /\ Grows /\ Archived
<1>1. TreeOK'
  BY Zenon DEF TreeInv, TreeOK
<1>2. ValidOrganizations'
  BY Zenon DEF TreeInv, ValidOrganizations
<1>3. ValidProjects'
  BY DEF TreeInv, ValidProjects
<1>4. ValidEnvironments'
  BY DEF TreeInv, ValidEnvironments, Within
<1>5. ActiveParents'
  <2>1. ASSUME NEW x \in DOMAIN projects, projects'[x].active
        PROVE  organizations[projects'[x].organization].active
    BY <2>1, Zenon DEF TreeInv, ActiveParents
  <2>2. ASSUME NEW e \in DOMAIN environments, environments[e].active
        PROVE  projects'[environments[e].project].active
    <3>1. /\ environments[e].project \in DOMAIN projects
          /\ projects[environments[e].project].organization = environments[e].organization
          /\ projects[environments[e].project].active
      BY <2>2, Zenon DEF TreeInv, ActiveParents, ValidEnvironments, Within
    <3> QED
      BY <3>1, <2>2, Zenon DEF fleet_environments
  <2> QED
    BY <2>1, <2>2, Zenon DEF TreeInv, ActiveParents
<1>6. Grows /\ Archived
  BY Zenon DEF Grows, Archived, Stored, Kinds
<1> QED
  BY <1>1, <1>2, <1>3, <1>4, <1>5, <1>6, Zenon DEF TreeInv

LEMMA ChangeEnvironment ==
  ASSUME TreeInv, NEW e \in DOMAIN environments,
         DOMAIN environments' = DOMAIN environments,
         \A x \in DOMAIN environments : x # e => environments'[x] = environments[x],
         environments'[e] \in Environment,
         environments'[e].slug = environments[e].slug,
         environments'[e].organization = environments[e].organization,
         environments'[e].project = environments[e].project,
         environments[e].active \/ environments'[e] = environments[e],
         UNCHANGED <<organizations, projects, slugs>>
  PROVE  TreeInv' /\ Grows /\ Archived
<1>1. TreeOK'
  BY Zenon DEF TreeInv, TreeOK
<1>2. ValidOrganizations' /\ ValidProjects'
  BY Zenon DEF TreeInv, ValidOrganizations, ValidProjects
<1>3. ValidEnvironments'
  BY DEF TreeInv, ValidEnvironments, Within
<1>4. ActiveParents'
  BY DEF TreeInv, ActiveParents
<1>5. Grows /\ Archived
  BY Zenon DEF Grows, Archived, Stored, Kinds
<1> QED
  BY <1>1, <1>2, <1>3, <1>4, <1>5, Zenon DEF TreeInv

\* A new record, active, under an active parent and under a name that is free.
LEMMA AddOrganization ==
  ASSUME TreeInv, NEW o \in OrganizationIds, o \notin DOMAIN organizations,
         NEW v \in Organization, <<"organization", v.slug>> \notin DOMAIN slugs,
         organizations' = With(organizations, o, v),
         slugs' = With(slugs, <<"organization", v.slug>>, o),
         UNCHANGED <<projects, environments>>
  PROVE  TreeInv' /\ Grows /\ Archived
<1> DEFINE k == <<"organization", v.slug>>
<1> HIDE DEF k
<1>1. /\ DOMAIN organizations' = DOMAIN organizations \cup {o}
      /\ organizations'[o] = v
      /\ \A x \in DOMAIN organizations : organizations'[x] = organizations[x]
  BY Zenon DEF With
<1>2. /\ DOMAIN slugs' = DOMAIN slugs \cup {k} /\ slugs'[k] = o /\ k \notin DOMAIN slugs
      /\ \A x \in DOMAIN slugs : slugs'[x] = slugs[x]
  BY Zenon DEF With, k
<1>3. k[1] = "organization" /\ k[2] = v.slug
  BY Zenon DEF k
<1>4. TreeOK'
  BY <1>1, Zenon DEF TreeInv, TreeOK
<1>5. ValidOrganizations'
  BY <1>1, <1>2, <1>3 DEF TreeInv, ValidOrganizations, k
<1>6. ValidProjects'
  BY <1>1, <1>2, <1>3 DEF TreeInv, ValidProjects
<1>7. ValidEnvironments'
  BY <1>1, <1>2, <1>3 DEF TreeInv, ValidEnvironments, Within
<1>8. ActiveParents'
  <2>1. ASSUME NEW p \in DOMAIN projects, projects[p].active
        PROVE  organizations'[projects[p].organization].active
    BY <1>1, <2>1, Zenon DEF TreeInv, ActiveParents, ValidProjects
  <2>2. ASSUME NEW e \in DOMAIN environments, environments[e].active
        PROVE  organizations'[environments[e].organization].active
    BY <1>1, <2>2, Zenon DEF TreeInv, ActiveParents, ValidEnvironments
  <2> QED
    BY <2>1, <2>2, Zenon DEF TreeInv, ActiveParents
<1>9. Grows /\ Archived
  BY <1>1, Zenon DEF Grows, Archived, Stored, Kinds
<1> QED
  BY <1>4, <1>5, <1>6, <1>7, <1>8, <1>9, Zenon DEF TreeInv

LEMMA AddProject ==
  ASSUME TreeInv, NEW p \in ProjectIds, p \notin DOMAIN projects, NEW v \in Project,
         v.organization \in DOMAIN organizations, organizations[v.organization].active,
         <<"project", v.organization, v.slug>> \notin DOMAIN slugs,
         projects' = With(projects, p, v),
         slugs' = With(slugs, <<"project", v.organization, v.slug>>, p),
         UNCHANGED <<organizations, environments>>
  PROVE  TreeInv' /\ Grows /\ Archived
<1> DEFINE k == <<"project", v.organization, v.slug>>
<1> HIDE DEF k
<1>1. /\ DOMAIN projects' = DOMAIN projects \cup {p}
      /\ projects'[p] = v
      /\ \A x \in DOMAIN projects : projects'[x] = projects[x]
  BY Zenon DEF With
<1>2. /\ DOMAIN slugs' = DOMAIN slugs \cup {k} /\ slugs'[k] = p /\ k \notin DOMAIN slugs
      /\ \A x \in DOMAIN slugs : slugs'[x] = slugs[x]
  BY Zenon DEF With, k
<1>3. k[1] = "project" /\ k[2] = v.organization /\ k[3] = v.slug
  BY Zenon DEF k
<1>4. TreeOK'
  BY <1>1, Zenon DEF TreeInv, TreeOK
<1>5. ValidOrganizations'
  BY <1>1, <1>2, <1>3 DEF TreeInv, ValidOrganizations
<1>6. ValidProjects'
  BY <1>1, <1>2, <1>3 DEF TreeInv, ValidProjects, k
<1>7. ValidEnvironments'
  BY <1>1, <1>2, <1>3 DEF TreeInv, ValidEnvironments, Within
<1>8. ActiveParents'
  <2>1. ASSUME NEW x \in DOMAIN projects', projects'[x].active
        PROVE  organizations[projects'[x].organization].active
    BY <1>1, <2>1, Zenon DEF TreeInv, ActiveParents
  <2>2. ASSUME NEW e \in DOMAIN environments, environments[e].active
        PROVE  projects'[environments[e].project].active
    BY <1>1, <2>2, Zenon DEF TreeInv, ActiveParents, ValidEnvironments, Within
  <2> QED
    BY <2>1, <2>2, Zenon DEF TreeInv, ActiveParents
<1>9. Grows /\ Archived
  BY <1>1, Zenon DEF Grows, Archived, Stored, Kinds
<1> QED
  BY <1>4, <1>5, <1>6, <1>7, <1>8, <1>9, Zenon DEF TreeInv

LEMMA AddEnvironment ==
  ASSUME TreeInv, NEW e \in EnvironmentIds, e \notin DOMAIN environments, NEW v \in Environment,
         Within(v.project, v.organization), projects[v.project].active,
         <<"environment", v.project, v.slug>> \notin DOMAIN slugs,
         environments' = With(environments, e, v),
         slugs' = With(slugs, <<"environment", v.project, v.slug>>, e),
         UNCHANGED <<organizations, projects>>
  PROVE  TreeInv' /\ Grows /\ Archived
<1> DEFINE k == <<"environment", v.project, v.slug>>
<1> HIDE DEF k
<1>1. /\ DOMAIN environments' = DOMAIN environments \cup {e}
      /\ environments'[e] = v
      /\ \A x \in DOMAIN environments : environments'[x] = environments[x]
  BY Zenon DEF With
<1>2. /\ DOMAIN slugs' = DOMAIN slugs \cup {k} /\ slugs'[k] = e /\ k \notin DOMAIN slugs
      /\ \A x \in DOMAIN slugs : slugs'[x] = slugs[x]
  BY Zenon DEF With, k
<1>3. k[1] = "environment" /\ k[2] = v.project /\ k[3] = v.slug
  BY Zenon DEF k
<1>4. TreeOK'
  BY <1>1, Zenon DEF TreeInv, TreeOK
<1>5. ValidOrganizations'
  BY <1>1, <1>2, <1>3 DEF TreeInv, ValidOrganizations
<1>6. ValidProjects'
  BY <1>1, <1>2, <1>3 DEF TreeInv, ValidProjects
<1>7. ValidEnvironments'
  <2>1. ASSUME NEW x \in DOMAIN environments'
        PROVE  LET y == environments'[x]
                   n == <<"environment", y.project, y.slug>>
               IN  /\ y.organization \in DOMAIN organizations /\ Within(y.project, y.organization)
                   /\ n \in DOMAIN slugs' /\ slugs'[n] = x
    <3>1. CASE x = e
      <4>1. v.organization \in DOMAIN organizations
        BY Zenon DEF TreeInv, ValidProjects, Within
      <4>2. <<"environment", v.project, v.slug>> \in DOMAIN slugs'
        BY <1>2, Zenon DEF k
      <4>3. slugs'[<<"environment", v.project, v.slug>>] = e
        BY <1>2, Zenon DEF k
      <4> QED
        BY <1>1, <3>1, <4>1, <4>2, <4>3, Zenon
    <3>2. CASE x \in DOMAIN environments
      BY <1>1, <1>2, <3>2 DEF TreeInv, ValidEnvironments
    <3> QED
      BY <1>1, <3>1, <3>2, Zenon
  <2>2. ASSUME NEW n \in DOMAIN slugs', n[1] = "environment"
        PROVE  /\ slugs'[n] \in DOMAIN environments'
               /\ environments'[slugs'[n]].project = n[2] /\ environments'[slugs'[n]].slug = n[3]
    BY <1>1, <1>2, <1>3, <2>2 DEF TreeInv, ValidEnvironments
  <2> QED
    BY <2>1, <2>2, Zenon DEF ValidEnvironments, Within
<1>8. ActiveParents'
  <2>1. ASSUME NEW x \in DOMAIN environments', environments'[x].active
        PROVE  /\ projects[environments'[x].project].active
               /\ organizations[environments'[x].organization].active
    BY <1>1, <2>1 DEF TreeInv, ActiveParents, Within
  <2> QED
    BY <2>1, Zenon DEF TreeInv, ActiveParents
<1>9. Grows /\ Archived
  BY <1>1, Zenon DEF Grows, Archived, Stored, Kinds
<1> QED
  BY <1>4, <1>5, <1>6, <1>7, <1>8, <1>9, Zenon DEF TreeInv

\* What an operation on the tree does that is carried out: one record x is written, its
\* audit states its owner w, and nothing else moves.
Written(r, kind, x, w) ==
  /\ TreeInv' /\ Grows /\ Archived /\ UNCHANGED <<roles, grants>>
  /\ r.request \notin DOMAIN receipts /\ persist_fleet_mutation(r, x, w)
  /\ kind \in Kinds /\ r.op[1] = kind /\ r.op[2] \in {"create", "update", "archive"}
  /\ x \in AnyId /\ w \in AnyId \X AnyId \X AnyId
  /\ x \in DOMAIN Stored(kind)' /\ w = OwnerOf(kind, x)'
  /\ \A n \in Kinds : \A y \in DOMAIN Stored(n)' :
       \/ y \in DOMAIN Stored(n) /\ Stored(n)'[y].rev = Stored(n)[y].rev
       \/ n = kind /\ y = x /\ Stored(n)'[y].rev = r.request

LEMMA CreateOrganization ==
  ASSUME TreeInv, HandlersOK, NEW h \in Handlers, create_fleet_organization(h)
  PROVE  \/ Quiet(handler[h])
         \/ \E kind, x, w : Written(handler[h], kind, x, w)
<1> DEFINE r == handler[h]
<1> SUFFICES ASSUME ~Quiet(r) PROVE \E kind, x, w : Written(r, kind, x, w)
  BY Zenon
<1> PICK o : o = Fresh(OrganizationIds, organizations)
  BY Zenon
<1> PICK v : v = [slug |-> r.slug, rev |-> r.request, active |-> TRUE]
  BY Zenon
<1>1. /\ r.at = "store" /\ r.op = <<"organization", "create">> /\ r.request \notin DOMAIN receipts
      /\ Room(OrganizationIds, organizations)
      /\ <<"organization", r.slug>> \notin DOMAIN slugs
      /\ organizations' = With(organizations, o, v)
      /\ slugs' = With(slugs, <<"organization", r.slug>>, o)
      /\ persist_fleet_mutation(r, o, <<o, Nothing, Nothing>>)
      /\ UNCHANGED <<projects, environments, roles, grants>>
  BY Zenon DEF create_fleet_organization, Mutation, fleet_idempotent_resource, Quiet
<1>2. v \in Organization /\ v.slug = r.slug /\ v.rev = r.request
  BY <1>1, AtStore, Zenon DEF Proper, Busy, Organization
<1>3. o \in OrganizationIds /\ o \notin DOMAIN organizations
  BY <1>1, FreshIsNew, Zenon
<1>4. TreeInv' /\ Grows /\ Archived
  BY <1>1, <1>2, <1>3, AddOrganization, Zenon
<1>5. /\ DOMAIN organizations' = DOMAIN organizations \cup {o} /\ organizations'[o] = v
      /\ \A x \in DOMAIN organizations : organizations'[x] = organizations[x]
  BY <1>1, <1>3, Zenon DEF With
<1>6. /\ r.op[1] = "organization" /\ r.op[2] = "create"
      /\ o \in AnyId /\ <<o, Nothing, Nothing>> \in AnyId \X AnyId \X AnyId
      /\ <<o, Nothing, Nothing>> = OwnerOf("organization", o)'
  BY <1>1, <1>3 DEF AnyId, OwnerOf
<1>7. o \in DOMAIN Stored("organization")'
  BY <1>5, Zenon DEF Stored
<1>8. \A n \in Kinds : \A y \in DOMAIN Stored(n)' :
        \/ y \in DOMAIN Stored(n) /\ Stored(n)'[y].rev = Stored(n)[y].rev
        \/ n = "organization" /\ y = o /\ Stored(n)'[y].rev = r.request
  BY <1>1, <1>2, <1>5, Zenon DEF Stored, Kinds
<1>9. Written(r, "organization", o, <<o, Nothing, Nothing>>)
  BY <1>1, <1>4, <1>6, <1>7, <1>8, Zenon DEF Written, Kinds
<1> QED
  BY <1>9, Zenon

LEMMA UpdateOrganization ==
  ASSUME TreeInv, HandlersOK, NEW h \in Handlers, update_fleet_organization(h)
  PROVE  \/ Quiet(handler[h])
         \/ \E kind, x, w : Written(handler[h], kind, x, w)
<1> DEFINE r == handler[h]
<1> SUFFICES ASSUME ~Quiet(r) PROVE \E kind, x, w : Written(r, kind, x, w)
  BY Zenon
<1> PICK o : o = r.id
  BY Zenon
<1>1. /\ r.at = "store" /\ r.op = <<"organization", "update">> /\ r.request \notin DOMAIN receipts
      /\ o \in DOMAIN organizations /\ organizations[o].active
      /\ organizations' = [organizations EXCEPT ![o].rev = r.request]
      /\ persist_fleet_mutation(r, o, <<o, Nothing, Nothing>>)
      /\ UNCHANGED <<projects, environments, slugs, roles, grants>>
  BY Zenon DEF update_fleet_organization, Mutation, fleet_idempotent_resource, Quiet
<1>2. /\ r.request \in RequestIds /\ o \in DOMAIN organizations /\ o \in OrganizationIds
      /\ organizations[o] \in Organization
  BY <1>1, AtStore, Zenon DEF Proper, Busy, TreeInv, TreeOK
<1>3. <<o, Nothing, Nothing>> \in AnyId \X AnyId \X AnyId
  BY <1>2, Zenon DEF AnyId
<1>4. /\ DOMAIN organizations' = DOMAIN organizations
      /\ \A x \in DOMAIN organizations : x # o => organizations'[x] = organizations[x]
      /\ organizations'[o] = [organizations[o] EXCEPT !.rev = r.request]
  BY <1>1, <1>2, Zenon
<1>5. /\ organizations'[o] \in Organization
      /\ organizations'[o].slug = organizations[o].slug
      /\ organizations'[o].rev = r.request
      /\ organizations'[o].active = organizations[o].active
  BY <1>2, <1>4, Zenon DEF Organization
<1>6. /\ r.op[1] = "organization" /\ r.op[2] = "update"
      /\ o \in AnyId /\ <<o, Nothing, Nothing>> \in AnyId \X AnyId \X AnyId
  BY <1>1, <1>2, <1>3 DEF AnyId
<1>7. o \in DOMAIN Stored("organization")' /\ <<o, Nothing, Nothing>> = OwnerOf("organization", o)'
  BY <1>1, <1>2, <1>3, <1>4, <1>5, Zenon DEF Stored, OwnerOf
<1>8. \A n \in Kinds : \A y \in DOMAIN Stored(n)' :
        \/ y \in DOMAIN Stored(n) /\ Stored(n)'[y].rev = Stored(n)[y].rev
        \/ n = "organization" /\ y = o /\ Stored(n)'[y].rev = r.request
  BY <1>1, <1>2, <1>4, <1>5, Zenon DEF Stored, Kinds
<1>9. TreeInv' /\ Grows /\ Archived
  BY <1>1, <1>2, <1>3, <1>4, <1>5, ChangeOrganization, Zenon
<1>10. Written(r, "organization", o, <<o, Nothing, Nothing>>)
  BY <1>1, <1>6, <1>7, <1>8, <1>9, Zenon DEF Written, Kinds
<1> QED
  BY <1>10, Zenon

LEMMA ArchiveOrganization ==
  ASSUME TreeInv, HandlersOK, NEW h \in Handlers, archive_fleet_organization(h)
  PROVE  \/ Quiet(handler[h])
         \/ \E kind, x, w : Written(handler[h], kind, x, w)
<1> DEFINE r == handler[h]
<1> SUFFICES ASSUME ~Quiet(r) PROVE \E kind, x, w : Written(r, kind, x, w)
  BY Zenon
<1> PICK o : o = r.id
  BY Zenon
<1>1. /\ r.at = "store" /\ r.op = <<"organization", "archive">> /\ r.request \notin DOMAIN receipts
      /\ fleet_projects(o) = {} /\ o \in DOMAIN organizations
      /\ organizations' = [organizations EXCEPT ![o].active = FALSE]
      /\ persist_fleet_mutation(r, o, <<o, Nothing, Nothing>>)
      /\ UNCHANGED <<projects, environments, slugs, roles, grants>>
  BY Zenon DEF archive_fleet_organization, Mutation, fleet_idempotent_resource, Quiet
<1>2. /\ r.request \in RequestIds /\ o \in DOMAIN organizations /\ o \in OrganizationIds
      /\ organizations[o] \in Organization
  BY <1>1, AtStore, Zenon DEF Proper, Busy, TreeInv, TreeOK
<1>3. <<o, Nothing, Nothing>> \in AnyId \X AnyId \X AnyId
  BY <1>2, Zenon DEF AnyId
<1>4. /\ DOMAIN organizations' = DOMAIN organizations
      /\ \A x \in DOMAIN organizations : x # o => organizations'[x] = organizations[x]
      /\ organizations'[o] = [organizations[o] EXCEPT !.active = FALSE]
  BY <1>1, <1>2, Zenon
<1>5. /\ organizations'[o] \in Organization
      /\ organizations'[o].slug = organizations[o].slug
      /\ organizations'[o].rev = organizations[o].rev
      /\ organizations[o].active \/ organizations'[o] = organizations[o]
  <2>1. /\ organizations'[o] \in Organization
        /\ organizations'[o].slug = organizations[o].slug
        /\ organizations'[o].rev = organizations[o].rev
    BY <1>2, <1>4, Zenon DEF Organization
  <2>2. CASE organizations[o].active = FALSE
    BY <1>2, <1>4, <2>1, <2>2 DEF Organization
  <2>3. organizations[o].active \in BOOLEAN
    BY <1>2, Zenon DEF Organization
  <2> QED
    BY <2>1, <2>2, <2>3, Zenon
<1>6. /\ r.op[1] = "organization" /\ r.op[2] = "archive"
      /\ o \in AnyId /\ <<o, Nothing, Nothing>> \in AnyId \X AnyId \X AnyId
  BY <1>1, <1>2, <1>3 DEF AnyId
<1>7. o \in DOMAIN Stored("organization")' /\ <<o, Nothing, Nothing>> = OwnerOf("organization", o)'
  BY <1>1, <1>2, <1>3, <1>4, <1>5, Zenon DEF Stored, OwnerOf
<1>8. \A n \in Kinds : \A y \in DOMAIN Stored(n)' :
        \/ y \in DOMAIN Stored(n) /\ Stored(n)'[y].rev = Stored(n)[y].rev
        \/ n = "organization" /\ y = o /\ Stored(n)'[y].rev = r.request
  BY <1>1, <1>2, <1>4, <1>5, Zenon DEF Stored, Kinds
<1>9. TreeInv' /\ Grows /\ Archived
  BY <1>1, <1>2, <1>3, <1>4, <1>5, ChangeOrganization, Zenon
<1>10. Written(r, "organization", o, <<o, Nothing, Nothing>>)
  BY <1>1, <1>6, <1>7, <1>8, <1>9, Zenon DEF Written, Kinds
<1> QED
  BY <1>10, Zenon

LEMMA CreateProject ==
  ASSUME TreeInv, HandlersOK, NEW h \in Handlers, create_fleet_project(h)
  PROVE  \/ Quiet(handler[h])
         \/ \E kind, x, w : Written(handler[h], kind, x, w)
<1> DEFINE r == handler[h]
<1> SUFFICES ASSUME ~Quiet(r) PROVE \E kind, x, w : Written(r, kind, x, w)
  BY Zenon
<1> PICK o, p : o = r.parent /\ p = Fresh(ProjectIds, projects)
  BY Zenon
<1> PICK v : v = [organization |-> o, slug |-> r.slug, rev |-> r.request, active |-> TRUE]
  BY Zenon
<1>1. /\ r.at = "store" /\ r.op = <<"project", "create">> /\ r.request \notin DOMAIN receipts
      /\ Room(ProjectIds, projects) /\ o \in DOMAIN organizations /\ organizations[o].active
      /\ <<"project", o, r.slug>> \notin DOMAIN slugs
      /\ projects' = With(projects, p, v)
      /\ slugs' = With(slugs, <<"project", o, r.slug>>, p)
      /\ persist_fleet_mutation(r, p, <<o, p, Nothing>>)
      /\ UNCHANGED <<organizations, environments, roles, grants>>
  BY Zenon DEF create_fleet_project, Mutation, fleet_idempotent_resource, Quiet
<1>2. /\ v \in Project /\ v.slug = r.slug /\ v.rev = r.request /\ v.organization = o
      /\ o \in OrganizationIds
  <2>1. r.request \in RequestIds /\ r.slug \in Slugs \cup {NoSlug}
    BY <1>1, AtStore, Zenon DEF Proper, Busy
  <2>2. o \in OrganizationIds
    BY <1>1, Zenon DEF TreeInv, TreeOK
  <2> QED
    BY <2>1, <2>2, Zenon DEF Project
<1>3. p \in ProjectIds /\ p \notin DOMAIN projects
  BY <1>1, FreshIsNew, Zenon
<1>4. /\ DOMAIN projects' = DOMAIN projects \cup {p} /\ projects'[p] = v
  BY <1>1, <1>3, Zenon DEF With
<1>5. \A x \in DOMAIN projects : projects'[x] = projects[x]
  BY <1>1, <1>3, Zenon DEF With
<1>6. /\ r.op[1] = "project" /\ r.op[2] = "create"
      /\ p \in AnyId /\ <<o, p, Nothing>> \in AnyId \X AnyId \X AnyId
  BY <1>1, <1>2, <1>3 DEF AnyId
<1>7. p \in DOMAIN Stored("project")' /\ <<o, p, Nothing>> = OwnerOf("project", p)'
  BY <1>1, <1>2, <1>3, <1>4, <1>5, Zenon DEF Stored, OwnerOf
<1>8. \A n \in Kinds : \A y \in DOMAIN Stored(n)' :
        \/ y \in DOMAIN Stored(n) /\ Stored(n)'[y].rev = Stored(n)[y].rev
        \/ n = "project" /\ y = p /\ Stored(n)'[y].rev = r.request
  <2>1. \A y \in DOMAIN projects' :
          \/ y \in DOMAIN projects /\ projects'[y].rev = projects[y].rev
          \/ y = p /\ projects'[y].rev = r.request
    BY <1>2, <1>4, <1>5, Zenon
  <2>2. UNCHANGED <<organizations, environments>>
    BY <1>1, Zenon
  <2> QED
    BY <2>1, <2>2 DEF Stored, Kinds
<1>9. TreeInv' /\ Grows /\ Archived
  BY <1>1, <1>2, <1>3, <1>4, <1>5, AddProject, Zenon
<1>10. Written(r, "project", p, <<o, p, Nothing>>)
  BY <1>1, <1>6, <1>7, <1>8, <1>9, Zenon DEF Written, Kinds
<1> QED
  BY <1>10, Zenon

LEMMA UpdateProject ==
  ASSUME TreeInv, HandlersOK, NEW h \in Handlers, update_fleet_project(h)
  PROVE  \/ Quiet(handler[h])
         \/ \E kind, x, w : Written(handler[h], kind, x, w)
<1> DEFINE r == handler[h]
<1> SUFFICES ASSUME ~Quiet(r) PROVE \E kind, x, w : Written(r, kind, x, w)
  BY Zenon
<1> PICK p, o : p = r.id /\ o = r.parent
  BY Zenon
<1>1. /\ r.at = "store" /\ r.op = <<"project", "update">> /\ r.request \notin DOMAIN receipts
      /\ Within(p, o) /\ projects[p].active
      /\ projects' = [projects EXCEPT ![p].rev = r.request]
      /\ persist_fleet_mutation(r, p, <<o, p, Nothing>>)
      /\ UNCHANGED <<organizations, environments, slugs, roles, grants>>
  BY Zenon DEF update_fleet_project, Mutation, fleet_idempotent_resource, Quiet
<1>2. /\ r.request \in RequestIds /\ p \in DOMAIN projects /\ p \in ProjectIds
      /\ projects[p] \in Project /\ projects[p].organization = o
  BY <1>1, AtStore, Zenon DEF Proper, Busy, TreeInv, TreeOK, Within
<1>3. <<o, p, Nothing>> \in AnyId \X AnyId \X AnyId
  BY <1>2, Zenon DEF AnyId, Project
<1>4. /\ DOMAIN projects' = DOMAIN projects
      /\ \A x \in DOMAIN projects : x # p => projects'[x] = projects[x]
      /\ projects'[p] = [projects[p] EXCEPT !.rev = r.request]
  BY <1>1, <1>2, Zenon
<1>5. /\ projects'[p] \in Project
      /\ projects'[p].slug = projects[p].slug
      /\ projects'[p].organization = projects[p].organization
      /\ projects'[p].rev = r.request
      /\ projects'[p].active = projects[p].active
  BY <1>2, <1>4, Zenon DEF Project
<1>6. /\ r.op[1] = "project" /\ r.op[2] = "update"
      /\ p \in AnyId /\ <<o, p, Nothing>> \in AnyId \X AnyId \X AnyId
  BY <1>1, <1>2, <1>3 DEF AnyId
<1>7. p \in DOMAIN Stored("project")' /\ <<o, p, Nothing>> = OwnerOf("project", p)'
  BY <1>1, <1>2, <1>3, <1>4, <1>5, Zenon DEF Stored, OwnerOf
<1>8. \A n \in Kinds : \A y \in DOMAIN Stored(n)' :
        \/ y \in DOMAIN Stored(n) /\ Stored(n)'[y].rev = Stored(n)[y].rev
        \/ n = "project" /\ y = p /\ Stored(n)'[y].rev = r.request
  BY <1>1, <1>2, <1>4, <1>5, Zenon DEF Stored, Kinds
<1>9. TreeInv' /\ Grows /\ Archived
  BY <1>1, <1>2, <1>3, <1>4, <1>5, ChangeProject, Zenon
<1>10. Written(r, "project", p, <<o, p, Nothing>>)
  BY <1>1, <1>6, <1>7, <1>8, <1>9, Zenon DEF Written, Kinds
<1> QED
  BY <1>10, Zenon

LEMMA ArchiveProject ==
  ASSUME TreeInv, HandlersOK, NEW h \in Handlers, archive_fleet_project(h)
  PROVE  \/ Quiet(handler[h])
         \/ \E kind, x, w : Written(handler[h], kind, x, w)
<1> DEFINE r == handler[h]
<1> SUFFICES ASSUME ~Quiet(r) PROVE \E kind, x, w : Written(r, kind, x, w)
  BY Zenon
<1> PICK p, o : p = r.id /\ o = r.parent
  BY Zenon
<1>1. /\ r.at = "store" /\ r.op = <<"project", "archive">> /\ r.request \notin DOMAIN receipts
      /\ fleet_environments(o, p) = {} /\ Within(p, o)
      /\ projects' = [projects EXCEPT ![p].active = FALSE]
      /\ persist_fleet_mutation(r, p, <<o, p, Nothing>>)
      /\ UNCHANGED <<organizations, environments, slugs, roles, grants>>
  BY Zenon DEF archive_fleet_project, Mutation, fleet_idempotent_resource, Quiet
<1>2. /\ r.request \in RequestIds /\ p \in DOMAIN projects /\ p \in ProjectIds
      /\ projects[p] \in Project /\ projects[p].organization = o
  BY <1>1, AtStore, Zenon DEF Proper, Busy, TreeInv, TreeOK, Within
<1>3. <<o, p, Nothing>> \in AnyId \X AnyId \X AnyId
  BY <1>2, Zenon DEF AnyId, Project
<1>4. /\ DOMAIN projects' = DOMAIN projects
      /\ \A x \in DOMAIN projects : x # p => projects'[x] = projects[x]
      /\ projects'[p] = [projects[p] EXCEPT !.active = FALSE]
  BY <1>1, <1>2, Zenon
<1>5. /\ projects'[p] \in Project
      /\ projects'[p].slug = projects[p].slug
      /\ projects'[p].organization = projects[p].organization
      /\ projects'[p].rev = projects[p].rev
      /\ projects[p].active \/ projects'[p] = projects[p]
  <2>1. /\ projects'[p] \in Project
        /\ projects'[p].slug = projects[p].slug
        /\ projects'[p].organization = projects[p].organization
        /\ projects'[p].rev = projects[p].rev
    BY <1>2, <1>4, Zenon DEF Project
  <2>2. CASE projects[p].active = FALSE
    BY <1>2, <1>4, <2>1, <2>2 DEF Project
  <2>3. projects[p].active \in BOOLEAN
    BY <1>2, Zenon DEF Project
  <2> QED
    BY <2>1, <2>2, <2>3, Zenon
<1>6. /\ r.op[1] = "project" /\ r.op[2] = "archive"
      /\ p \in AnyId /\ <<o, p, Nothing>> \in AnyId \X AnyId \X AnyId
  BY <1>1, <1>2, <1>3 DEF AnyId
<1>7. p \in DOMAIN Stored("project")' /\ <<o, p, Nothing>> = OwnerOf("project", p)'
  BY <1>1, <1>2, <1>3, <1>4, <1>5, Zenon DEF Stored, OwnerOf
<1>8. \A n \in Kinds : \A y \in DOMAIN Stored(n)' :
        \/ y \in DOMAIN Stored(n) /\ Stored(n)'[y].rev = Stored(n)[y].rev
        \/ n = "project" /\ y = p /\ Stored(n)'[y].rev = r.request
  BY <1>1, <1>2, <1>4, <1>5, Zenon DEF Stored, Kinds
<1>9. TreeInv' /\ Grows /\ Archived
  BY <1>1, <1>2, <1>3, <1>4, <1>5, ChangeProject, Zenon
<1>10. Written(r, "project", p, <<o, p, Nothing>>)
  BY <1>1, <1>6, <1>7, <1>8, <1>9, Zenon DEF Written, Kinds
<1> QED
  BY <1>10, Zenon

LEMMA CreateEnvironment ==
  ASSUME TreeInv, HandlersOK, NEW h \in Handlers, create_fleet_environment(h)
  PROVE  \/ Quiet(handler[h])
         \/ \E kind, x, w : Written(handler[h], kind, x, w)
<1> DEFINE r == handler[h]
<1> SUFFICES ASSUME ~Quiet(r) PROVE \E kind, x, w : Written(r, kind, x, w)
  BY Zenon
<1> PICK o, p, e : o = r.parent /\ p = r.scope[2] /\ e = Fresh(EnvironmentIds, environments)
  BY Zenon
<1> PICK v : v = [organization |-> o, project |-> p, slug |-> r.slug,
                 rev |-> r.request, active |-> TRUE]
  BY Zenon
<1>1. /\ r.at = "store" /\ r.op = <<"environment", "create">> /\ r.request \notin DOMAIN receipts
      /\ Room(EnvironmentIds, environments) /\ Within(p, o) /\ projects[p].active
      /\ <<"environment", p, r.slug>> \notin DOMAIN slugs
      /\ environments' = With(environments, e, v)
      /\ slugs' = With(slugs, <<"environment", p, r.slug>>, e)
      /\ persist_fleet_mutation(r, e, <<o, p, e>>)
      /\ UNCHANGED <<organizations, projects, roles, grants>>
  BY Zenon DEF create_fleet_environment, Mutation, fleet_idempotent_resource, Quiet
<1>2. /\ v \in Environment /\ v.slug = r.slug /\ v.rev = r.request /\ v.organization = o /\ v.project = p
      /\ o \in OrganizationIds /\ p \in ProjectIds
  <2>1. r.request \in RequestIds /\ r.slug \in Slugs \cup {NoSlug}
    BY <1>1, AtStore, Zenon DEF Proper, Busy
  <2>2. o \in OrganizationIds /\ p \in ProjectIds
    BY <1>1, Zenon DEF TreeInv, TreeOK, Within, Project
  <2> QED
    BY <2>1, <2>2, Zenon DEF Environment
<1>3. e \in EnvironmentIds /\ e \notin DOMAIN environments
  BY <1>1, FreshIsNew, Zenon
<1>4. /\ DOMAIN environments' = DOMAIN environments \cup {e} /\ environments'[e] = v
  BY <1>1, <1>3, Zenon DEF With
<1>5. \A x \in DOMAIN environments : environments'[x] = environments[x]
  BY <1>1, <1>3, Zenon DEF With
<1>6. /\ r.op[1] = "environment" /\ r.op[2] = "create"
      /\ e \in AnyId /\ <<o, p, e>> \in AnyId \X AnyId \X AnyId
  BY <1>1, <1>2, <1>3 DEF AnyId
<1>7. e \in DOMAIN Stored("environment")' /\ <<o, p, e>> = OwnerOf("environment", e)'
  BY <1>1, <1>2, <1>3, <1>4, <1>5, Zenon DEF Stored, OwnerOf
<1>8. \A n \in Kinds : \A y \in DOMAIN Stored(n)' :
        \/ y \in DOMAIN Stored(n) /\ Stored(n)'[y].rev = Stored(n)[y].rev
        \/ n = "environment" /\ y = e /\ Stored(n)'[y].rev = r.request
  <2>1. \A y \in DOMAIN environments' :
          \/ y \in DOMAIN environments /\ environments'[y].rev = environments[y].rev
          \/ y = e /\ environments'[y].rev = r.request
    BY <1>2, <1>4, <1>5, Zenon
  <2>2. UNCHANGED <<organizations, projects>>
    BY <1>1, Zenon
  <2> QED
    BY <2>1, <2>2 DEF Stored, Kinds
<1>9. TreeInv' /\ Grows /\ Archived
  BY <1>1, <1>2, <1>3, <1>4, <1>5, AddEnvironment, Zenon
<1>10. Written(r, "environment", e, <<o, p, e>>)
  BY <1>1, <1>6, <1>7, <1>8, <1>9, Zenon DEF Written, Kinds
<1> QED
  BY <1>10, Zenon

LEMMA UpdateEnvironment ==
  ASSUME TreeInv, HandlersOK, NEW h \in Handlers, update_fleet_environment(h)
  PROVE  \/ Quiet(handler[h])
         \/ \E kind, x, w : Written(handler[h], kind, x, w)
<1> DEFINE r == handler[h]
<1> SUFFICES ASSUME ~Quiet(r) PROVE \E kind, x, w : Written(r, kind, x, w)
  BY Zenon
<1> PICK e, p, o : e = r.id /\ p = r.project /\ o = r.parent
  BY Zenon
<1>1. /\ r.at = "store" /\ r.op = <<"environment", "update">> /\ r.request \notin DOMAIN receipts
      /\ Placed(e, p, o) /\ environments[e].active
      /\ environments' = [environments EXCEPT ![e].rev = r.request]
      /\ persist_fleet_mutation(r, e, <<o, p, e>>)
      /\ UNCHANGED <<organizations, projects, slugs, roles, grants>>
  BY Zenon DEF update_fleet_environment, Mutation, fleet_idempotent_resource, Quiet
<1>2. /\ r.request \in RequestIds /\ e \in DOMAIN environments /\ e \in EnvironmentIds
      /\ environments[e] \in Environment
      /\ environments[e].organization = o /\ environments[e].project = p
  BY <1>1, AtStore, Zenon DEF Proper, Busy, TreeInv, TreeOK, Placed
<1>3. <<o, p, e>> \in AnyId \X AnyId \X AnyId
  BY <1>2, Zenon DEF AnyId, Environment
<1>4. /\ DOMAIN environments' = DOMAIN environments
      /\ \A x \in DOMAIN environments : x # e => environments'[x] = environments[x]
      /\ environments'[e] = [environments[e] EXCEPT !.rev = r.request]
  BY <1>1, <1>2, Zenon
<1>5. /\ environments'[e] \in Environment
      /\ environments'[e].slug = environments[e].slug
      /\ environments'[e].organization = environments[e].organization
      /\ environments'[e].project = environments[e].project
      /\ environments'[e].rev = r.request
      /\ environments'[e].active = environments[e].active
  BY <1>2, <1>4, Zenon DEF Environment
<1>6. /\ r.op[1] = "environment" /\ r.op[2] = "update"
      /\ e \in AnyId /\ <<o, p, e>> \in AnyId \X AnyId \X AnyId
  BY <1>1, <1>2, <1>3 DEF AnyId
<1>7. e \in DOMAIN Stored("environment")' /\ <<o, p, e>> = OwnerOf("environment", e)'
  BY <1>1, <1>2, <1>3, <1>4, <1>5, Zenon DEF Stored, OwnerOf
<1>8. \A n \in Kinds : \A y \in DOMAIN Stored(n)' :
        \/ y \in DOMAIN Stored(n) /\ Stored(n)'[y].rev = Stored(n)[y].rev
        \/ n = "environment" /\ y = e /\ Stored(n)'[y].rev = r.request
  BY <1>1, <1>2, <1>4, <1>5 DEF Stored, Kinds
<1>9. TreeInv' /\ Grows /\ Archived
  BY <1>1, <1>2, <1>3, <1>4, <1>5, ChangeEnvironment, Zenon
<1>10. Written(r, "environment", e, <<o, p, e>>)
  BY <1>1, <1>6, <1>7, <1>8, <1>9, Zenon DEF Written, Kinds
<1> QED
  BY <1>10, Zenon

LEMMA ArchiveEnvironment ==
  ASSUME TreeInv, HandlersOK, NEW h \in Handlers, archive_fleet_environment(h)
  PROVE  \/ Quiet(handler[h])
         \/ \E kind, x, w : Written(handler[h], kind, x, w)
<1> DEFINE r == handler[h]
<1> SUFFICES ASSUME ~Quiet(r) PROVE \E kind, x, w : Written(r, kind, x, w)
  BY Zenon
<1> PICK e, p, o : e = r.id /\ p = r.project /\ o = r.parent
  BY Zenon
<1>1. /\ r.at = "store" /\ r.op = <<"environment", "archive">> /\ r.request \notin DOMAIN receipts
      /\ Placed(e, p, o)
      /\ environments' = [environments EXCEPT ![e].active = FALSE]
      /\ persist_fleet_mutation(r, e, <<o, p, e>>)
      /\ UNCHANGED <<organizations, projects, slugs, roles, grants>>
  BY Zenon DEF archive_fleet_environment, Mutation, fleet_idempotent_resource, Quiet
<1>2. /\ r.request \in RequestIds /\ e \in DOMAIN environments /\ e \in EnvironmentIds
      /\ environments[e] \in Environment
      /\ environments[e].organization = o /\ environments[e].project = p
  BY <1>1, AtStore, Zenon DEF Proper, Busy, TreeInv, TreeOK, Placed
<1>3. <<o, p, e>> \in AnyId \X AnyId \X AnyId
  BY <1>2, Zenon DEF AnyId, Environment
<1>4. /\ DOMAIN environments' = DOMAIN environments
      /\ \A x \in DOMAIN environments : x # e => environments'[x] = environments[x]
      /\ environments'[e] = [environments[e] EXCEPT !.active = FALSE]
  BY <1>1, <1>2, Zenon
<1>5. /\ environments'[e] \in Environment
      /\ environments'[e].slug = environments[e].slug
      /\ environments'[e].organization = environments[e].organization
      /\ environments'[e].project = environments[e].project
      /\ environments'[e].rev = environments[e].rev
      /\ environments[e].active \/ environments'[e] = environments[e]
  <2>1. /\ environments'[e] \in Environment
        /\ environments'[e].slug = environments[e].slug
        /\ environments'[e].organization = environments[e].organization
        /\ environments'[e].project = environments[e].project
        /\ environments'[e].rev = environments[e].rev
    BY <1>2, <1>4, Zenon DEF Environment
  <2>2. CASE environments[e].active = FALSE
    BY <1>2, <1>4, <2>1, <2>2 DEF Environment
  <2>3. environments[e].active \in BOOLEAN
    BY <1>2, Zenon DEF Environment
  <2> QED
    BY <2>1, <2>2, <2>3, Zenon
<1>6. /\ r.op[1] = "environment" /\ r.op[2] = "archive"
      /\ e \in AnyId /\ <<o, p, e>> \in AnyId \X AnyId \X AnyId
  BY <1>1, <1>2, <1>3 DEF AnyId
<1>7. e \in DOMAIN Stored("environment")' /\ <<o, p, e>> = OwnerOf("environment", e)'
  BY <1>1, <1>2, <1>3, <1>4, <1>5, Zenon DEF Stored, OwnerOf
<1>8. \A n \in Kinds : \A y \in DOMAIN Stored(n)' :
        \/ y \in DOMAIN Stored(n) /\ Stored(n)'[y].rev = Stored(n)[y].rev
        \/ n = "environment" /\ y = e /\ Stored(n)'[y].rev = r.request
  BY <1>1, <1>2, <1>4, <1>5, Zenon DEF Stored, Kinds
<1>9. TreeInv' /\ Grows /\ Archived
  BY <1>1, <1>2, <1>3, <1>4, <1>5, ChangeEnvironment, Zenon
<1>10. Written(r, "environment", e, <<o, p, e>>)
  BY <1>1, <1>6, <1>7, <1>8, <1>9, Zenon DEF Written, Kinds
<1> QED
  BY <1>10, Zenon

-----------------------------------------------------------------------------
(* Receipts and audit. *)

\* What an audit record says of the resources: the part of ValidAudit without receipts.
Located(a) ==
  /\ \/ a.action[1] \in Kinds /\ a.action[2] \in {"create", "update", "archive"}
     \/ a.action[1] = "role-binding" /\ a.action[2] \in {"upsert", "revoke"}
  /\ IF a.action[1] = "role-binding"
     THEN /\ a.resource \in DOMAIN bindings
          /\ LET scope == bindings[a.resource].scope
             IN  ensure_fleet_resource(scope) /\ a.owner = OwnerOf(scope[1], scope[2])
     ELSE /\ ensure_fleet_resource(<<a.action[1], a.resource>>)
          /\ a.owner = OwnerOf(a.action[1], a.resource)

Receipted(a) ==
  /\ a.request \in DOMAIN receipts
  /\ receipts[a.request] = [action |-> a.action, resource |-> a.resource]

LEMMA ValidAuditIs ==
  ASSUME NEW a
  PROVE  /\ ValidAudit(a) <=> Located(a) /\ Receipted(a)
         /\ ValidAudit(a)' <=> Located(a)' /\ Receipted(a)'
BY Zenon DEF ValidAudit, Located, Receipted

\* Carrying a request out appends one record to the audit, which then still fits.
LEMMA Recorded ==
  ASSUME AuditInv, NEW r, Proper(r), NEW x \in AnyId, NEW w \in AnyId \X AnyId \X AnyId,
         r.request \notin DOMAIN receipts, persist_fleet_mutation(r, x, w),
         NEW a, a = [request |-> r.request, operator |-> r.who, action |-> r.op,
                     resource |-> x, owner |-> w],
         Located(a)', \A b : Located(b) => Located(b)'
  PROVE  /\ AuditInv'
         /\ DOMAIN audit' = 1..(Len(audit) + 1) /\ audit'[Len(audit) + 1] = a
         /\ \A i \in DOMAIN audit : i \in DOMAIN audit' /\ audit'[i] = audit[i]
<1> DEFINE n == Len(audit) + 1
<1>1. /\ r.request \in RequestIds /\ a \in AuditRecord
      /\ a.request = r.request /\ a.action = r.op /\ a.resource = x
  BY Zenon DEF Proper, Busy, AuditRecord
<1>2. audit' = Append(audit, a)
  BY Zenon DEF persist_fleet_mutation
<1>3. /\ audit' \in Seq(AuditRecord) /\ n \in Nat /\ DOMAIN audit = 1..(n - 1) /\ DOMAIN audit' = 1..n
      /\ audit'[n] = a
      /\ \A i \in DOMAIN audit : i \in DOMAIN audit' /\ audit'[i] = audit[i]
  BY <1>1, <1>2 DEF AuditInv
<1>4. /\ DOMAIN receipts' = DOMAIN receipts \cup {r.request}
      /\ receipts'[r.request] = [action |-> r.op, resource |-> x]
      /\ \A q \in DOMAIN receipts : receipts'[q] = receipts[q]
  BY Zenon DEF persist_fleet_mutation, With
<1>5. /\ DOMAIN answers' = RequestIds
      /\ answers'[r.request] = answers[r.request] \cup {x}
      /\ \A q \in RequestIds : q # r.request => answers'[q] = answers[q]
  BY <1>1, Zenon DEF persist_fleet_mutation, Answer, AuditInv
<1> HIDE DEF n
<1>6. \A i \in DOMAIN audit' : i = n \/ i \in DOMAIN audit
  BY <1>3
<1>7. Receipted(a)'
  BY <1>1, <1>4, Zenon DEF Receipted
<1>8. ASSUME NEW i \in DOMAIN audit
      PROVE  /\ audit[i].request \in DOMAIN receipts /\ audit[i].request # r.request
             /\ ValidAudit(audit[i])'
  <2>1. PICK b : b = audit[i]
    BY Zenon
  <2>2. Located(b) /\ Receipted(b)
    BY <2>1, ValidAuditIs, Zenon DEF AuditInv
  <2>3. b.request \in DOMAIN receipts /\ b.request # r.request
    BY <2>2, Zenon DEF Receipted
  <2>4. Located(b)'
    BY <2>2, Zenon
  <2>5. Receipted(b)'
    BY <1>4, <2>2, <2>3, Zenon DEF Receipted
  <2>6. ValidAudit(b)'
    BY <2>4, <2>5, ValidAuditIs, Zenon
  <2> QED
    BY <1>3, <2>1, <2>3, <2>6, Zenon
<1>9. \A i \in DOMAIN audit' : ValidAudit(audit[i])'
  BY <1>3, <1>6, <1>7, <1>8, ValidAuditIs, Zenon
<1>10. \A i, j \in DOMAIN audit' : audit'[i].request = audit'[j].request => i = j
  BY <1>1, <1>3, <1>6, <1>8 DEF AuditInv
<1>11. ValidReceipts'
  <2>1. ASSUME NEW q \in DOMAIN receipts
        PROVE  \E i \in DOMAIN audit' :
                 /\ audit'[i].request = q
                 /\ audit'[i].action = receipts'[q].action
                 /\ audit'[i].resource = receipts'[q].resource
    <3>1. PICK i \in DOMAIN audit :
            /\ audit[i].request = q
            /\ audit[i].action = receipts[q].action /\ audit[i].resource = receipts[q].resource
      BY Zenon DEF AuditInv, ValidReceipts
    <3>2. receipts'[q] = receipts[q] /\ i \in DOMAIN audit' /\ audit'[i] = audit[i]
      BY <1>3, <1>4, Zenon
    <3> QED
      BY <3>1, <3>2, Zenon
  <2>2. n \in DOMAIN audit'
    <3>1. n \in 1..n
      BY <1>3 DEF n, AuditInv
    <3> QED
      BY <1>3, <3>1, Zenon
  <2>3. /\ audit'[n].request = r.request
        /\ audit'[n].action = receipts'[r.request].action
        /\ audit'[n].resource = receipts'[r.request].resource
    BY <1>1, <1>3, <1>4
  <2> QED
    BY <1>4, <2>1, <2>2, <2>3 DEF ValidReceipts
<1>12. \A q \in RequestIds : \A y \in answers'[q] :
         q \in DOMAIN receipts' /\ y = receipts'[q].resource
  BY <1>1, <1>4, <1>5 DEF AuditInv
<1> QED
  BY <1>3, <1>5, <1>9, <1>10, <1>11, <1>12, Zenon DEF AuditInv, n

\* A quiet operation leaves the audit as it was.
LEMMA QuietAudit ==
  ASSUME AuditInv, NEW r, Proper(r), Quiet(r)
  PROVE  AuditInv'
<1>1. r.request \in RequestIds
  BY Zenon DEF Proper, Busy
<1>2. /\ DOMAIN answers' = RequestIds
      /\ \A q \in RequestIds : \A x \in answers'[q] :
           q \in DOMAIN receipts /\ x = receipts[q].resource
  BY <1>1 DEF Quiet, Answer, AuditInv
<1>3. UNCHANGED <<receipts, audit, organizations, projects, environments, bindings>>
  BY Zenon DEF Quiet, log, tree, roles
<1>4. ValidReceipts'
  BY <1>3 DEF AuditInv, ValidReceipts
<1>5. ASSUME NEW i \in DOMAIN audit
      PROVE  ValidAudit(audit[i])'
  <2>1. ValidAudit(audit[i])
    BY Zenon DEF AuditInv
  <2> QED
    BY <1>3, <2>1, Zenon DEF ValidAudit, ensure_fleet_resource, Stored, OwnerOf
<1> QED
  BY <1>2, <1>3, <1>4, <1>5, Zenon DEF AuditInv

\* Resources stay where they are while the tree grows.
LEMMA StaysThere ==
  ASSUME Grows, NEW kind \in Kinds, NEW x, x \in DOMAIN Stored(kind)
  PROVE  x \in DOMAIN Stored(kind)' /\ OwnerOf(kind, x)' = OwnerOf(kind, x)
BY Zenon DEF Grows, Kinds, Stored, OwnerOf

LEMMA ScopeIs ==
  ASSUME NEW scope \in Scopes
  PROVE  /\ scope[1] \in Kinds /\ scope = <<scope[1], scope[2]>> /\ scope[2] \in AnyId
         /\ scope[1] = "organization" => scope[2] \in OrganizationIds
         /\ scope[1] = "project" => scope[2] \in ProjectIds
         /\ scope[1] = "environment" => scope[2] \in EnvironmentIds
BY DEF Scopes, Kinds, AnyId

\* Records of the audit keep their place as long as no binding moves to another resource.
Kept == \A b \in DOMAIN bindings :
          /\ b \in DOMAIN bindings' /\ bindings'[b].scope = bindings[b].scope
          /\ bindings'[b].operator = bindings[b].operator

LEMMA StaysLocated ==
  ASSUME Grows, BindingsOK, Kept, NEW a, Located(a)
  PROVE  Located(a)'
<1>1. CASE a.action[1] = "role-binding"
  <2>1. a.resource \in DOMAIN bindings
    BY <1>1, Zenon DEF Located
  <2>2. PICK scope : scope = bindings[a.resource].scope
    BY Zenon
  <2>3. scope \in Scopes /\ scope = bindings'[a.resource].scope /\ a.resource \in DOMAIN bindings'
    BY <2>1, <2>2, Zenon DEF BindingsOK, Binding, Kept
  <2>4. scope[1] \in Kinds
    BY <2>3, ScopeIs, Zenon
  <2>5. scope[2] \in DOMAIN Stored(scope[1]) /\ a.owner = OwnerOf(scope[1], scope[2])
    BY <1>1, <2>2, Zenon DEF Located, ensure_fleet_resource
  <2>6. scope[2] \in DOMAIN Stored(scope[1])' /\ a.owner = OwnerOf(scope[1], scope[2])'
    <3> PICK kind, x : kind = scope[1] /\ x = scope[2]
      BY Zenon
    <3>1. x \in DOMAIN Stored(kind)' /\ a.owner = OwnerOf(kind, x)'
      BY <2>4, <2>5, StaysThere, Zenon
    <3> QED
      BY <3>1, Zenon
  <2> QED
    BY <1>1, <2>3, <2>6, Zenon DEF Located, ensure_fleet_resource
<1>2. CASE a.action[1] # "role-binding"
  <2> PICK kind, x : kind = a.action[1] /\ x = a.resource
    BY Zenon
  <2>1. kind \in Kinds /\ x \in DOMAIN Stored(kind) /\ a.owner = OwnerOf(kind, x)
    BY <1>2, Zenon DEF Located, ensure_fleet_resource
  <2>2. x \in DOMAIN Stored(kind)' /\ a.owner = OwnerOf(kind, x)'
    BY <2>1, StaysThere, Zenon
  <2> QED
    BY <1>2, <2>2, Zenon DEF Located, ensure_fleet_resource
<1> QED
  BY <1>1, <1>2, Zenon

-----------------------------------------------------------------------------
(* Role bindings. *)

GrantRecord ==
  [by : Operators, since : Nat, to : Operators, scope : Scopes, role : Roles \cup {NoRole}]

\* What granting or revoking does that is carried out: the one binding x is written, as the
\* grant g says, and the audit states the owner w of its resource.
Bound(r, x, w, g) ==
  /\ UNCHANGED tree
  /\ BindingsOK' /\ ValidBindings' /\ Kept
  /\ r.request \notin DOMAIN receipts /\ persist_fleet_mutation(r, x, w)
  /\ r.op[1] = "role-binding" /\ r.op[2] \in {"upsert", "revoke"}
  /\ x \in BindingIds /\ w \in AnyId \X AnyId \X AnyId
  /\ x \in DOMAIN bindings' /\ bindings'[x].operator = g.to /\ bindings'[x].scope = g.scope
  /\ \A y \in DOMAIN bindings' : y = x \/ (y \in DOMAIN bindings /\ bindings'[y] = bindings[y])
  /\ ensure_fleet_resource(g.scope) /\ w = OwnerOf(g.scope[1], g.scope[2])
  /\ grants' = Append(grants, g) /\ g \in GrantRecord
  /\ \/ ~bindings'[x].active /\ g.role = NoRole
     \/ /\ bindings'[x].role = g.role
        /\ r.op = <<"role-binding", "upsert">>
        /\ g = [by |-> r.who, since |-> r.since, to |-> r.subject, scope |-> r.scope, role |-> r.role]

\* The audit's owner of a resource is the one that the backup expects.
LEMMA OwnerIs ==
  ASSUME TreeInv, NEW scope \in Scopes, ensure_fleet_resource(scope)
  PROVE  /\ Owner(scope) = OwnerOf(scope[1], scope[2])
         /\ Owner(scope) \in AnyId \X AnyId \X AnyId
<1>1. Owner(scope) = OwnerOf(scope[1], scope[2])
  BY ScopeIs, Zenon DEF Owner, OwnerOf, resource_organization_id, resource_project_id,
                 resource_environment_id, Stored, Kinds
<1>2. CASE scope[1] = "organization"
  BY <1>1, <1>2, ScopeIs, SMTT(30) DEF OwnerOf, AnyId
<1>3. CASE scope[1] = "project"
  <2>1. projects[scope[2]].organization \in AnyId
    BY <1>3, Zenon DEF TreeInv, TreeOK, Project, AnyId, ensure_fleet_resource, Stored
  <2> QED
    BY <1>1, <1>3, <2>1, ScopeIs, SMTT(30) DEF OwnerOf, AnyId
<1>4. CASE scope[1] = "environment"
  <2>1. environments[scope[2]].organization \in AnyId /\ environments[scope[2]].project \in AnyId
    BY <1>4, Zenon DEF TreeInv, TreeOK, Environment, AnyId, ensure_fleet_resource, Stored
  <2> QED
    BY <1>1, <1>4, <2>1, ScopeIs, SMTT(30) DEF OwnerOf, AnyId
<1> QED
  BY <1>1, <1>2, <1>3, <1>4, ScopeIs, Zenon DEF Kinds

LEMMA UpsertBinding ==
  ASSUME TreeInv, HandlersOK, BindingsOK, ValidBindings, NEW h \in Handlers,
         upsert_fleet_role_binding(h)
  PROVE  \/ Quiet(handler[h])
         \/ \E x, w, g : Bound(handler[h], x, w, g)
<1> SUFFICES ASSUME ~Quiet(handler[h]) PROVE \E x, w, g : Bound(handler[h], x, w, g)
  BY Zenon
<1> PICK r : r = handler[h]
  BY Zenon
<1> PICK key, scope : key = <<r.subject, r.scope>> /\ scope = r.scope
  BY Zenon
<1> PICK b : b = IF key \in DOMAIN subjects THEN subjects[key] ELSE Fresh(BindingIds, bindings)
  BY Zenon
<1> PICK v : v = [operator |-> r.subject, scope |-> r.scope, role |-> r.role, active |-> TRUE]
  BY Zenon
<1> PICK g : g = [by |-> r.who, since |-> r.since, to |-> r.subject, scope |-> r.scope, role |-> r.role]
  BY Zenon
<1> PICK w : w = Owner(scope)
  BY Zenon
<1>1. /\ r.at = "store" /\ r.op = <<"role-binding", "upsert">> /\ r.request \notin DOMAIN receipts
      /\ ensure_fleet_resource(scope)
      /\ key \in DOMAIN subjects \/ Room(BindingIds, bindings)
      /\ bindings' = With(bindings, b, v) /\ subjects' = With(subjects, key, b)
      /\ persist_fleet_mutation(r, b, w)
      /\ grants' = Append(grants, g) /\ UNCHANGED tree
  BY Zenon DEF upsert_fleet_role_binding, Mutation, fleet_idempotent_resource, Quiet
<1>2. /\ r.subject \in Operators /\ scope \in Scopes /\ r.role \in Roles
      /\ r.who \in Operators /\ r.since \in Nat
  BY <1>1, AtStore, Zenon DEF Proper, Busy
<1>3. v \in Binding /\ g \in GrantRecord /\ key[1] = r.subject /\ key[2] = scope
  BY <1>2, Zenon DEF Binding, GrantRecord
<1>4. b \in BindingIds
      /\ (b \in DOMAIN bindings => bindings[b].operator = r.subject /\ bindings[b].scope = scope
                                      /\ key \in DOMAIN subjects)
  BY <1>1, <1>3, FreshIsNew, Zenon DEF ValidBindings, BindingsOK
<1>5. /\ DOMAIN bindings' = DOMAIN bindings \cup {b} /\ bindings'[b] = v
      /\ \A y \in DOMAIN bindings : y # b => bindings'[y] = bindings[y]
  BY <1>1, Zenon DEF With
<1>6. /\ DOMAIN subjects' = DOMAIN subjects \cup {key} /\ subjects'[key] = b
      /\ \A k \in DOMAIN subjects : k # key => subjects'[k] = subjects[k]
  BY <1>1, Zenon DEF With
<1>7. BindingsOK'
  BY <1>3, <1>4, <1>5, Zenon DEF BindingsOK
<1>8. Kept
  BY <1>4, <1>5, SMTT(30) DEF Kept
<1>9. ValidBindings'
  <2>1. ASSUME NEW y \in DOMAIN bindings'
        PROVE  /\ ensure_fleet_resource(bindings[y].scope)'
               /\ <<bindings'[y].operator, bindings'[y].scope>> \in DOMAIN subjects'
               /\ subjects'[<<bindings'[y].operator, bindings'[y].scope>>] = y
    <3>1. CASE y = b
      <4>1. bindings'[y].operator = r.subject /\ bindings'[y].scope = scope
        BY <1>5, <3>1
      <4>2. ensure_fleet_resource(scope)'
        BY <1>1, Zenon DEF ensure_fleet_resource, Stored, tree
      <4> QED
        BY <1>6, <3>1, <4>1, <4>2, Zenon
    <3>2. CASE y # b
      <4>1. y \in DOMAIN bindings /\ bindings'[y] = bindings[y]
        BY <1>5, <3>2, Zenon
      <4> PICK k : k = <<bindings[y].operator, bindings[y].scope>>
        BY Zenon
      <4>2. ensure_fleet_resource(bindings[y].scope) /\ k \in DOMAIN subjects /\ subjects[k] = y
        BY <4>1, Zenon DEF ValidBindings
      <4>3. k # key
        BY <3>2, <4>2, Zenon
      <4>4. k \in DOMAIN subjects' /\ subjects'[k] = y
        BY <1>6, <4>2, <4>3, Zenon
      <4> QED
        BY <1>1, <4>1, <4>2, <4>4, Zenon DEF ensure_fleet_resource, Stored, tree
    <3> QED
      BY <3>1, <3>2, Zenon
  <2>2. ASSUME NEW k \in DOMAIN subjects'
        PROVE  /\ subjects'[k] \in DOMAIN bindings'
               /\ bindings'[subjects'[k]].operator = k[1] /\ bindings'[subjects'[k]].scope = k[2]
    <3>1. CASE k = key
      BY <1>3, <1>5, <1>6, <3>1, SMTT(30)
    <3>2. CASE k # key
      <4>1. k \in DOMAIN subjects /\ subjects'[k] = subjects[k]
        BY <1>6, <3>2, Zenon
      <4>2. /\ subjects[k] \in DOMAIN bindings
            /\ bindings[subjects[k]].operator = k[1] /\ bindings[subjects[k]].scope = k[2]
        BY <4>1, Zenon DEF ValidBindings
      <4> QED
        BY <1>3, <1>4, <1>5, <4>1, <4>2, SMTT(30)
    <3> QED
      BY <3>1, <3>2, Zenon
  <2> QED
    BY <2>1, <2>2, Zenon DEF ValidBindings
<1>10. w \in AnyId \X AnyId \X AnyId /\ w = OwnerOf(scope[1], scope[2])
  BY <1>1, <1>2, OwnerIs, Zenon
<1>11. r.op[1] = "role-binding" /\ r.op[2] = "upsert" /\ g.to = r.subject /\ g.scope = scope
       /\ g.role = r.role
  BY <1>1, SMTT(30)
<1>12. /\ b \in DOMAIN bindings' /\ bindings'[b].operator = g.to /\ bindings'[b].scope = g.scope
       /\ bindings'[b].role = g.role
       /\ \A y \in DOMAIN bindings' : y = b \/ (y \in DOMAIN bindings /\ bindings'[y] = bindings[y])
  BY <1>5, <1>11
<1>13. Bound(r, b, w, g)
  BY <1>1, <1>3, <1>4, <1>7, <1>8, <1>9, <1>10, <1>11, <1>12, Zenon DEF Bound
<1> QED
  BY <1>13, Zenon

LEMMA RevokeBinding ==
  ASSUME TreeInv, HandlersOK, BindingsOK, ValidBindings, NEW h \in Handlers,
         revoke_fleet_role_binding(h)
  PROVE  \/ Quiet(handler[h])
         \/ \E x, w, g : Bound(handler[h], x, w, g)
<1> SUFFICES ASSUME ~Quiet(handler[h]) PROVE \E x, w, g : Bound(handler[h], x, w, g)
  BY Zenon
<1> PICK r, b : r = handler[h] /\ b = r.id
  BY Zenon
<1> PICK v : v = bindings[b]
  BY Zenon
<1> PICK g : g = [by |-> r.who, since |-> r.since, to |-> v.operator, scope |-> v.scope, role |-> NoRole]
  BY Zenon
<1> PICK w : w = Owner(v.scope)
  BY Zenon
<1>1. /\ r.at = "store" /\ r.op = <<"role-binding", "revoke">> /\ r.request \notin DOMAIN receipts
      /\ b \in DOMAIN bindings
      /\ bindings' = [bindings EXCEPT ![b].active = FALSE]
      /\ persist_fleet_mutation(r, b, w)
      /\ grants' = Append(grants, g) /\ UNCHANGED <<tree, subjects>>
  BY Zenon DEF revoke_fleet_role_binding, Mutation, fleet_idempotent_resource, Quiet
<1>2. r.who \in Operators /\ r.since \in Nat
  BY <1>1, AtStore, Zenon DEF Proper, Busy
<1>3. b \in BindingIds /\ v \in Binding /\ v.operator \in Operators /\ v.scope \in Scopes
  BY <1>1, Zenon DEF BindingsOK, Binding
<1>4. ensure_fleet_resource(v.scope)
  BY <1>1, Zenon DEF ValidBindings
<1>5. /\ DOMAIN bindings' = DOMAIN bindings
      /\ \A y \in DOMAIN bindings : y # b => bindings'[y] = bindings[y]
      /\ bindings'[b] = [v EXCEPT !.active = FALSE]
  BY <1>1, Zenon
<1>6. /\ bindings'[b] \in Binding /\ bindings'[b].operator = v.operator
      /\ bindings'[b].scope = v.scope /\ bindings'[b].active = FALSE
  BY <1>3, <1>5, Zenon DEF Binding
<1>7. BindingsOK' /\ Kept
  BY <1>3, <1>5, <1>6, Zenon DEF BindingsOK, Kept
<1>8. ValidBindings'
  <2>1. ASSUME NEW y \in DOMAIN bindings'
        PROVE  /\ ensure_fleet_resource(bindings[y].scope)'
               /\ <<bindings'[y].operator, bindings'[y].scope>> \in DOMAIN subjects'
               /\ subjects'[<<bindings'[y].operator, bindings'[y].scope>>] = y
    <3>1. /\ y \in DOMAIN bindings /\ bindings'[y].operator = bindings[y].operator
          /\ bindings'[y].scope = bindings[y].scope
      BY <1>5, <1>6, Zenon
    <3>2. /\ ensure_fleet_resource(bindings[y].scope)
          /\ <<bindings[y].operator, bindings[y].scope>> \in DOMAIN subjects
          /\ subjects[<<bindings[y].operator, bindings[y].scope>>] = y
      BY <3>1, Zenon DEF ValidBindings
    <3> QED
      BY <1>1, <3>1, <3>2, Zenon DEF ensure_fleet_resource, Stored, tree
  <2>2. ASSUME NEW k \in DOMAIN subjects'
        PROVE  /\ subjects'[k] \in DOMAIN bindings'
               /\ bindings'[subjects'[k]].operator = k[1] /\ bindings'[subjects'[k]].scope = k[2]
    BY <1>1, <1>5, <1>6, SMTT(30) DEF ValidBindings
  <2> QED
    BY <2>1, <2>2, Zenon DEF ValidBindings
<1>9. w \in AnyId \X AnyId \X AnyId /\ w = OwnerOf(v.scope[1], v.scope[2])
  BY <1>3, <1>4, OwnerIs, Zenon
<1>10. /\ g \in GrantRecord /\ g.to = v.operator /\ g.scope = v.scope /\ g.role = NoRole
       /\ r.op[1] = "role-binding" /\ r.op[2] = "revoke"
  BY <1>1, <1>2, <1>3 DEF GrantRecord
<1>11. Bound(r, b, w, g)
  BY <1>1, <1>3, <1>4, <1>5, <1>6, <1>7, <1>8, <1>9, <1>10, Zenon DEF Bound
<1> QED
  BY <1>11, Zenon

\* Bindings stay valid while the tree grows.
LEMMA BindingsStay ==
  ASSUME Grows, BindingsOK, ValidBindings, UNCHANGED roles
  PROVE  BindingsOK' /\ ValidBindings' /\ Kept
<1>1. UNCHANGED <<bindings, subjects>>
  BY Zenon DEF roles
<1>2. BindingsOK' /\ Kept
  BY <1>1, Zenon DEF BindingsOK, Kept
<1>3. ASSUME NEW b \in DOMAIN bindings
      PROVE  ensure_fleet_resource(bindings[b].scope)'
  <2> PICK kind, x : kind = bindings[b].scope[1] /\ x = bindings[b].scope[2]
    BY Zenon
  <2>1. kind \in Kinds
    BY ScopeIs, Zenon DEF BindingsOK, Binding
  <2>2. x \in DOMAIN Stored(kind)
    BY Zenon DEF ValidBindings, ensure_fleet_resource
  <2>3. x \in DOMAIN Stored(kind)'
    BY <2>1, <2>2, StaysThere, Zenon
  <2> QED
    BY <1>1, <2>3, Zenon DEF ensure_fleet_resource
<1>4. ValidBindings'
  BY <1>1, <1>3, Zenon DEF ValidBindings
<1> QED
  BY <1>2, <1>4, Zenon

-----------------------------------------------------------------------------
(* Store operations as a whole. *)

LEMMA StoreEffect ==
  ASSUME TreeInv, HandlersOK, BindingsOK, ValidBindings, NEW h \in Handlers, StoreOperation(h)
  PROVE  /\ handler[h].at = "store" /\ handler' = [handler EXCEPT ![h] = Idle]
         /\ \/ Quiet(handler[h])
            \/ \E kind, x, w : Written(handler[h], kind, x, w)
            \/ \E x, w, g : Bound(handler[h], x, w, g)
<1>1. handler[h].at = "store" /\ handler' = [handler EXCEPT ![h] = Idle]
  BY Zenon DEF StoreOperation, Mutation, Go, create_fleet_organization, update_fleet_organization,
         archive_fleet_organization, create_fleet_project, update_fleet_project,
         archive_fleet_project, create_fleet_environment, update_fleet_environment,
         archive_fleet_environment, upsert_fleet_role_binding, revoke_fleet_role_binding
<1>2. \/ Quiet(handler[h])
      \/ \E kind, x, w : Written(handler[h], kind, x, w)
      \/ \E x, w, g : Bound(handler[h], x, w, g)
  BY CreateOrganization, UpdateOrganization, ArchiveOrganization, CreateProject, UpdateProject,
     ArchiveProject, CreateEnvironment, UpdateEnvironment, ArchiveEnvironment, UpsertBinding,
     RevokeBinding DEF StoreOperation
<1> QED
  BY <1>1, <1>2, Zenon

\* The resources, the bindings, the audit and what connects them.
StoreInv ==
  TreeInv /\ BindingsOK /\ ValidBindings /\ AuditInv /\ ChangesAreAudited

\* Nothing of it depends on what handlers do before they are at the store.
Untouched == UNCHANGED <<tree, roles, log, answers, grants>>

LEMMA QuietTree ==
  ASSUME StoreInv, UNCHANGED <<tree, roles, log>>
  PROVE  TreeInv' /\ BindingsOK' /\ ValidBindings' /\ ChangesAreAudited' /\ Grows /\ Archived /\ Kept
<1>1. UNCHANGED <<organizations, projects, environments, slugs, bindings, subjects, receipts, audit>>
  BY Zenon DEF tree, roles, log
<1>2. TreeOK' /\ ValidOrganizations' /\ ValidProjects'
  BY <1>1, Zenon DEF StoreInv, TreeInv, TreeOK, ValidOrganizations, ValidProjects
<1>3. ValidEnvironments' /\ ActiveParents'
  BY <1>1, Zenon DEF StoreInv, TreeInv, ValidEnvironments, Within, ActiveParents
<1>4. Grows /\ Archived
  BY <1>1, Zenon DEF Grows, Archived, Stored, Kinds
<1>5. BindingsOK' /\ ValidBindings' /\ Kept
  BY <1>1, <1>4, BindingsStay, Zenon DEF StoreInv, roles
<1>6. ChangesAreAudited'
  <2> SUFFICES ASSUME NEW kind \in Kinds, NEW x \in DOMAIN Stored(kind)', Stored(kind)'[x].rev # NoRequest
               PROVE  \E i \in DOMAIN audit' :
                        /\ audit'[i].request = Stored(kind)'[x].rev
                        /\ audit'[i].resource = x /\ audit'[i].action[1] = kind
    BY DEF ChangesAreAudited
  <2>1. Stored(kind)' = Stored(kind)
    BY <1>1, Zenon DEF Stored
  <2>2. PICK i \in DOMAIN audit :
          /\ audit[i].request = Stored(kind)[x].rev
          /\ audit[i].resource = x /\ audit[i].action[1] = kind
    <3>1. x \in DOMAIN Stored(kind) /\ Stored(kind)[x].rev # NoRequest
      BY <2>1
    <3>2. ChangesAreAudited
      BY Zenon DEF StoreInv
    <3> QED
      BY <3>1, <3>2, Zenon DEF ChangesAreAudited
  <2> QED
    BY <1>1, <2>1, <2>2
<1> QED
  BY <1>2, <1>3, <1>4, <1>5, <1>6, Zenon DEF TreeInv

LEMMA UntouchedStore ==
  ASSUME StoreInv, Untouched
  PROVE  StoreInv' /\ Grows /\ Archived /\ Kept
<1>1. UNCHANGED <<organizations, projects, environments, slugs, bindings, subjects, receipts, audit, answers>>
  BY Zenon DEF Untouched, tree, roles, log
<1>2. ASSUME NEW i \in DOMAIN audit
      PROVE  ValidAudit(audit[i])'
  <2>1. ValidAudit(audit[i])
    BY Zenon DEF StoreInv, AuditInv
  <2> QED
    BY <1>1, <2>1, Zenon DEF ValidAudit, ensure_fleet_resource, Stored, OwnerOf
<1>3. AuditInv'
  BY <1>1, <1>2, SMTT(30) DEF StoreInv, AuditInv, ValidReceipts
<1> QED
  BY <1>3, QuietTree, Zenon DEF Untouched, StoreInv

LEMMA StoreKeeps ==
  ASSUME StoreInv, HandlersOK, NEW h \in Handlers, StoreOperation(h)
  PROVE  StoreInv' /\ Grows /\ Archived /\ Kept
<1> PICK r : r = handler[h]
  BY Zenon
<1>1. Proper(r)
  BY StoreEffect, AtStore, Zenon DEF StoreInv
<1>2. CASE Quiet(r)
  BY <1>1, <1>2, QuietAudit, QuietTree, Zenon DEF Quiet, StoreInv
<1>3. ASSUME NEW kind, NEW x, NEW w, Written(r, kind, x, w)
      PROVE  StoreInv' /\ Grows /\ Archived /\ Kept
  <2> PICK a : a = [request |-> r.request, operator |-> r.who, action |-> r.op,
                    resource |-> x, owner |-> w]
    BY Zenon
  <2>1. BindingsOK' /\ ValidBindings' /\ Kept /\ TreeInv' /\ Grows /\ Archived
    BY <1>3, BindingsStay, Zenon DEF Written, StoreInv
  <2>2. Located(a)'
    BY <1>3, Zenon DEF Written, Located, ensure_fleet_resource, Kinds
  <2>3. \A b : Located(b) => Located(b)'
    BY <2>1, StaysLocated, Zenon DEF StoreInv
  <2>4. /\ AuditInv' /\ DOMAIN audit' = 1..(Len(audit) + 1) /\ audit'[Len(audit) + 1] = a
        /\ \A i \in DOMAIN audit : i \in DOMAIN audit' /\ audit'[i] = audit[i]
    BY <1>1, <1>3, <2>2, <2>3, Recorded, SMTT(30) DEF Written, StoreInv
  <2>5. ASSUME NEW n \in Kinds, NEW y \in DOMAIN Stored(n)', Stored(n)'[y].rev # NoRequest
        PROVE  \E i \in DOMAIN audit' :
                 /\ audit'[i].request = Stored(n)'[y].rev
                 /\ audit'[i].resource = y /\ audit'[i].action[1] = n
    <3>1. CASE y \in DOMAIN Stored(n) /\ Stored(n)'[y].rev = Stored(n)[y].rev
      <4>1. PICK i \in DOMAIN audit :
              /\ audit[i].request = Stored(n)[y].rev
              /\ audit[i].resource = y /\ audit[i].action[1] = n
        BY <2>5, <3>1, Zenon DEF StoreInv, ChangesAreAudited
      <4> QED
        BY <2>4, <3>1, <4>1, Zenon
    <3>2. CASE n = kind /\ y = x /\ Stored(n)'[y].rev = r.request
      <4>1. Len(audit) + 1 \in DOMAIN audit'
        <5>1. audit \in Seq(AuditRecord)
          BY Zenon DEF StoreInv, AuditInv
        <5>2. Len(audit) \in Nat
          BY <5>1
        <5> QED
          BY <2>4, <5>2
      <4>2. a.request = r.request /\ a.resource = x /\ a.action[1] = kind
        BY <1>3, Zenon DEF Written
      <4> QED
        BY <2>4, <3>2, <4>1, <4>2, Zenon
    <3> QED
      BY <1>3, <2>5, <3>1, <3>2, Zenon DEF Written
  <2>6. ChangesAreAudited'
    BY <2>5, Zenon DEF ChangesAreAudited
  <2> QED
    BY <2>1, <2>4, <2>6, Zenon DEF StoreInv
<1>4. ASSUME NEW x, NEW w, NEW g, Bound(r, x, w, g)
      PROVE  StoreInv' /\ Grows /\ Archived /\ Kept
  <2> PICK a : a = [request |-> r.request, operator |-> r.who, action |-> r.op,
                    resource |-> x, owner |-> w]
    BY Zenon
  <2>1. UNCHANGED <<organizations, projects, environments, slugs>>
    BY <1>4, Zenon DEF Bound, tree
  <2>2. TreeOK' /\ ValidOrganizations' /\ ValidProjects'
    BY <2>1, Zenon DEF StoreInv, TreeInv, TreeOK, ValidOrganizations, ValidProjects
  <2>3. ValidEnvironments' /\ ActiveParents'
    BY <2>1, Zenon DEF StoreInv, TreeInv, ValidEnvironments, Within, ActiveParents
  <2>4. Grows /\ Archived
    BY <2>1, Zenon DEF Grows, Archived, Stored, Kinds
  <2>5. Located(a)'
    <3>1. ensure_fleet_resource(g.scope)' /\ w = OwnerOf(g.scope[1], g.scope[2])'
      BY <1>4, <2>1, Zenon DEF Bound, ensure_fleet_resource, Stored, OwnerOf
    <3> QED
      BY <1>4, <3>1, Zenon DEF Bound, Located
  <2>6. \A b : Located(b) => Located(b)'
    BY <1>4, <2>4, StaysLocated, Zenon DEF StoreInv, Bound
  <2>7. x \in AnyId
    BY <1>4, Zenon DEF Bound, AnyId
  <2>8. /\ AuditInv'
        /\ \A i \in DOMAIN audit : i \in DOMAIN audit' /\ audit'[i] = audit[i]
    BY <1>1, <1>4, <2>5, <2>6, <2>7, Recorded, Zenon DEF Bound, StoreInv
  <2>9. ChangesAreAudited'
    <3> SUFFICES ASSUME NEW kind \in Kinds, NEW y \in DOMAIN Stored(kind)',
                        Stored(kind)'[y].rev # NoRequest
                 PROVE  \E i \in DOMAIN audit' :
                          /\ audit'[i].request = Stored(kind)'[y].rev
                          /\ audit'[i].resource = y /\ audit'[i].action[1] = kind
      BY DEF ChangesAreAudited
    <3>1. Stored(kind)' = Stored(kind)
      BY <2>1, Zenon DEF Stored
    <3>2. PICK i \in DOMAIN audit :
            /\ audit[i].request = Stored(kind)[y].rev
            /\ audit[i].resource = y /\ audit[i].action[1] = kind
      <4>1. y \in DOMAIN Stored(kind) /\ Stored(kind)[y].rev # NoRequest
        BY <3>1
      <4>2. ChangesAreAudited
        BY Zenon DEF StoreInv
      <4> QED
        BY <4>1, <4>2, Zenon DEF ChangesAreAudited
    <3> QED
      BY <2>8, <3>1, <3>2
  <2> QED
    BY <1>4, <2>2, <2>3, <2>4, <2>8, <2>9, Zenon DEF StoreInv, TreeInv, Bound
<1> QED
  BY <1>2, <1>3, <1>4, StoreEffect, Zenon DEF StoreInv
=============================================================================
