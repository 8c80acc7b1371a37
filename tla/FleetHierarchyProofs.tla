------------------------ MODULE FleetHierarchyProofs ------------------------
(***************************************************************************)
(* Fleet's hierarchy stays sound, for any number of resources, operators   *)
(* and handlers: nothing active is under something archived, what is       *)
(* archived stays so, the backup's validation accepts every state, and a   *)
(* request is carried out once and audited.                                *)
(***************************************************************************)
EXTENDS FleetStoreProofs

-----------------------------------------------------------------------------
(* Handlers. *)

\* The scopes that fleet_effective_role reads for this one.
InChain(s, scope) == \E k \in DOMAIN Chain(scope) : Chain(scope)[k] = s

\* The chain of a resource that there is has its scope and those above it, which there are
\* too, and does not change any more.
LEMMA ChainIs ==
  ASSUME TreeInv, NEW scope \in Scopes, ensure_fleet_resource(scope)
  PROVE  Chain(scope) \in Seq(Scopes) /\ Chain(scope) # <<>>
<1>1. CASE scope[1] = "organization"
  BY <1>1 DEF Chain
<1>2. CASE scope[1] = "project"
  <2>1. <<"organization", projects[scope[2]].organization>> \in Scopes
    BY <1>2, Zenon DEF ensure_fleet_resource, Stored, TreeInv, TreeOK, Project, Scopes
  <2> QED
    BY <1>2, <2>1 DEF Chain
<1>3. CASE scope[1] = "environment"
  <2>1. /\ <<"project", environments[scope[2]].project>> \in Scopes
        /\ <<"organization", environments[scope[2]].organization>> \in Scopes
    BY <1>3, Zenon DEF ensure_fleet_resource, Stored, TreeInv, TreeOK, Environment, Scopes
  <2> QED
    BY <1>3, <2>1, SMTT(30) DEF Chain
<1> QED
  BY <1>1, <1>2, <1>3, ScopeIs, Zenon DEF Kinds

LEMMA ChainStays ==
  ASSUME Grows, NEW scope \in Scopes, ensure_fleet_resource(scope)
  PROVE  ensure_fleet_resource(scope)' /\ Chain(scope)' = Chain(scope)
BY ScopeIs, Zenon DEF Grows, ensure_fleet_resource, Stored, Chain, Kinds

\* A handler that reads bindings is at one of its resource's chain.
Reading(r) ==
  r.at \in {"authorize", "dominate"} =>
    /\ r.scope \in Scopes /\ ensure_fleet_resource(r.scope)
    /\ r.todo # <<>> /\ \A i \in DOMAIN r.todo : InChain(r.todo[i], r.scope)

\* `who' had this role on the resource or above it: it was granted, and when the call began
\* it was neither revoked nor replaced.
Ground(r, role) ==
  \E j \in DOMAIN grants :
    /\ grants[j].to = r.who /\ grants[j].role = role /\ InChain(grants[j].scope, r.scope)
    /\ \A k \in (j + 1)..r.since :
         <<grants[k].to, grants[k].scope>> # <<grants[j].to, grants[j].scope>>

\* What the authorization of a grant has found so far.
Authorized(r) ==
  r.op = <<"role-binding", "upsert">> =>
    /\ r.since <= Len(grants)
    /\ r.at \in {"authorize", "dominate"} /\ r.best # NoRole => Ground(r, r.best)
    /\ r.at = "dominate" => \E role \in {"owner", "administrator"} : Ground(r, role)
    /\ r.at = "store" =>
         \/ Covers(GlobalRole[r.who], r.role)
         \/ ensure_fleet_resource(r.scope) /\ \E role : Covers(role, r.role) /\ Ground(r, role)

\* An active binding is the last word on its operator and scope.
LastWord ==
  \A b \in DOMAIN bindings : bindings[b].active =>
    \E j \in DOMAIN grants :
      /\ grants[j].to = bindings[b].operator /\ grants[j].scope = bindings[b].scope
      /\ grants[j].role = bindings[b].role
      /\ \A k \in (j + 1)..Len(grants) :
           <<grants[k].to, grants[k].scope>> # <<grants[j].to, grants[j].scope>>

\* The call of a grant began before the grant was stored.
Recent == \A i \in DOMAIN grants : grants[i].role # NoRole => grants[i].since < i

GrantInv ==
  /\ grants \in Seq(GrantRecord)
  /\ \A i \in DOMAIN grants : ensure_fleet_resource(grants[i].scope)
  /\ Recent /\ LastWord /\ GrantsComeFromAuthority

HandlerInv ==
  /\ HandlersOK
  /\ \A h \in Handlers : handler[h] # Idle => Reading(handler[h]) /\ Authorized(handler[h])

FleetInv == StoreInv /\ GrantInv /\ HandlerInv /\ workload \in Workloads

\* Handlers other than the one that moves keep what they have found, since grants are only
\* appended and the tree only grows.
MoreGrants == \/ UNCHANGED grants
              \/ \E g : grants' = Append(grants, g)

LEMMA GrantsStay ==
  ASSUME grants \in Seq(GrantRecord), MoreGrants
  PROVE  /\ Len(grants) <= Len(grants')
         /\ \A i \in DOMAIN grants : i \in DOMAIN grants' /\ grants'[i] = grants[i]
BY SMTT(30) DEF MoreGrants

LEMMA GroundStays ==
  ASSUME grants \in Seq(GrantRecord), MoreGrants, Grows, NEW r, NEW role, Ground(r, role),
         r.since \in Nat, r.since <= Len(grants),
         r.scope \in Scopes, ensure_fleet_resource(r.scope)
  PROVE  Ground(r, role)'
<1>1. PICK j \in DOMAIN grants :
        /\ grants[j].to = r.who /\ grants[j].role = role /\ InChain(grants[j].scope, r.scope)
        /\ \A k \in (j + 1)..r.since :
             <<grants[k].to, grants[k].scope>> # <<grants[j].to, grants[j].scope>>
  BY Zenon DEF Ground
<1>2. \A i \in DOMAIN grants : i \in DOMAIN grants' /\ grants'[i] = grants[i]
  BY GrantsStay, Zenon
<1>3. \A k \in (j + 1)..r.since : k \in DOMAIN grants
  BY SMTT(30)
<1>4. InChain(grants[j].scope, r.scope)'
  <2> PICK scope, s : scope = r.scope /\ s = grants[j].scope
    BY Zenon
  <2>1. Chain(scope)' = Chain(scope)
    BY ChainStays, Zenon
  <2>2. InChain(s, scope)'
    BY <1>1, <2>1, Zenon DEF InChain
  <2> QED
    BY <1>2, <2>2, Zenon
<1>5. /\ j \in DOMAIN grants' /\ grants'[j] = grants[j]
      /\ \A k \in (j + 1)..r.since : grants'[k] = grants[k]
  BY <1>2, <1>3, Zenon
<1>6. /\ grants'[j].to = r.who /\ grants'[j].role = role
      /\ \A k \in (j + 1)..r.since :
           <<grants'[k].to, grants'[k].scope>> # <<grants'[j].to, grants'[j].scope>>
  BY <1>1, <1>5, Zenon
<1> QED
  BY <1>4, <1>5, <1>6, Zenon DEF Ground

LEMMA StaysFound ==
  ASSUME GrantInv, MoreGrants, Grows, NEW r, Proper(r), Reading(r), Authorized(r)
  PROVE  Reading(r)' /\ Authorized(r)'
<1>1. grants \in Seq(GrantRecord) /\ Len(grants) \in Nat /\ Len(grants') \in Nat
  BY SMTT(30) DEF GrantInv, MoreGrants
<1>2. Len(grants) <= Len(grants')
  BY <1>1, GrantsStay, Zenon
<1>3. r.since \in Nat
  BY Zenon DEF Proper, Busy
<1>4. Reading(r)'
  <2>1. CASE r.at \in {"authorize", "dominate"}
    <3> PICK scope : scope = r.scope
      BY Zenon
    <3>1. ensure_fleet_resource(scope)' /\ Chain(scope)' = Chain(scope)
      BY <2>1, ChainStays, Zenon DEF Reading
    <3> QED
      BY <2>1, <3>1, Zenon DEF Reading, InChain
  <2> QED
    BY <2>1, Zenon DEF Reading
<1>5. Authorized(r)'
  <2> SUFFICES ASSUME r.op = <<"role-binding", "upsert">>
               PROVE  /\ r.since <= Len(grants')
                      /\ r.at \in {"authorize", "dominate"} /\ r.best # NoRole => Ground(r, r.best)'
                      /\ r.at = "dominate" => \E role \in {"owner", "administrator"} : Ground(r, role)'
                      /\ r.at = "store" =>
                           \/ Covers(GlobalRole[r.who], r.role)
                           \/ /\ ensure_fleet_resource(r.scope)'
                              /\ \E role : Covers(role, r.role) /\ Ground(r, role)'
    BY Zenon DEF Authorized
  <2>1. r.scope \in Scopes /\ r.since <= Len(grants)
    BY Zenon DEF Proper, Authorized
  <2>2. ensure_fleet_resource(r.scope) => ensure_fleet_resource(r.scope)'
    BY <2>1, ChainStays, Zenon
  <2>3. ASSUME NEW role, Ground(r, role), ensure_fleet_resource(r.scope)
        PROVE  Ground(r, role)'
    BY <1>1, <1>3, <2>1, <2>3, GroundStays, Zenon
  <2>4. r.since <= Len(grants')
    BY <1>1, <1>2, <1>3, <2>1, SMTT(30)
  <2>5. r.at \in {"authorize", "dominate"} => ensure_fleet_resource(r.scope)
    BY Zenon DEF Reading
  <2> QED
    BY <2>2, <2>3, <2>4, <2>5, Zenon DEF Authorized
<1> QED
  BY <1>4, <1>5, Zenon

\* A handler goes on with its call: only where it is and what it has read change.
GoesOn(r, at, best, todo) == [r EXCEPT !.at = at, !.best = best, !.todo = todo]

LEMMA CallIsStored ==
  ASSUME NEW r, NEW s, s = GoesOn(r, "store", NoRole, <<>>), r \in Busy
  PROVE  /\ s \in Busy /\ s.at = "store" /\ s.op = r.op /\ s.who = r.who /\ s.scope = r.scope
         /\ s.since = r.since /\ s.subject = r.subject /\ s.role = r.role
<1>1. <<>> \in Seq(Scopes)
  OBVIOUS
<1> QED
  BY <1>1 DEF GoesOn, Busy

LEMMA HandlerMoves ==
  ASSUME HandlerInv, GrantInv, MoreGrants, Grows, NEW h \in Handlers, NEW s,
         handler' = [handler EXCEPT ![h] = s],
         s = Idle \/ (Proper(s) /\ Reading(s) /\ Authorized(s))
  PROVE  HandlerInv'
<1>1. /\ DOMAIN handler' = Handlers /\ handler'[h] = s
      /\ \A x \in Handlers : x # h => handler'[x] = handler[x]
  BY Zenon DEF HandlerInv, HandlersOK
<1>2. HandlersOK'
  BY <1>1, Zenon DEF HandlerInv, HandlersOK, Proper
<1>3. ASSUME NEW x \in Handlers, handler'[x] # Idle
      PROVE  Reading(handler[x])' /\ Authorized(handler[x])'
  <2> PICK r : r = handler'[x]
    BY Zenon
  <2>1. Proper(r) /\ Reading(r) /\ Authorized(r)
    BY <1>1, <1>3, Zenon DEF HandlerInv, HandlersOK
  <2>2. Reading(r)' /\ Authorized(r)'
    BY <2>1, StaysFound, Zenon
  <2> QED
    BY <2>2, Zenon
<1> QED
  BY <1>2, <1>3, Zenon DEF HandlerInv

\* What a handler of fleet_rpc.rs asks of the authorizer.
Asked(r) ==
  /\ Proper(r) /\ r.at = "start" /\ r.best = NoRole /\ r.todo = <<>>
  /\ r.op = <<"role-binding", "upsert">> => r.since = Len(grants)

\* A call with everything that a handler may ask for.
Whole(who, op, scope, q, id, parent, project, slug, subject, role, since) ==
  [at |-> "start", op |-> op, who |-> who, scope |-> scope, request |-> q, id |-> id,
   parent |-> parent, project |-> project, slug |-> slug, subject |-> subject, role |-> role,
   best |-> NoRole, todo |-> <<>>, since |-> since]

LEMMA WholeIs ==
  ASSUME NEW who, NEW op, NEW scope, NEW q, NEW id, NEW parent, NEW project, NEW slug,
         NEW subject, NEW role, NEW since, NEW r,
         r = Whole(who, op, scope, q, id, parent, project, slug, subject, role, since),
         who \in Operators, op \in Operations,
         scope \in Scopes \cup {<<"organization", Nothing>>}, q \in RequestIds,
         id \in AnyId, parent \in AnyId, project \in AnyId, slug \in Slugs \cup {NoSlug},
         subject \in Operators \cup {Nothing}, role \in Roles \cup {NoRole}, since \in Nat,
         op = <<"role-binding", "upsert">> =>
           /\ scope \in Scopes /\ subject \in Operators /\ role \in Roles
           /\ since = Len(grants)
  PROVE  Asked(r) /\ r.op = op /\ r.scope = scope
<1>1. <<>> \in Seq(Scopes)
  OBVIOUS
<1>2. r \in Busy
  BY <1>1, Zenon DEF Whole, Busy
<1>3. /\ r.op = op /\ r.scope = scope /\ r.subject = subject /\ r.role = role /\ r.since = since
      /\ r.at = "start" /\ r.best = NoRole /\ r.todo = <<>>
  BY Zenon DEF Whole
<1> QED
  BY <1>2, <1>3, Zenon DEF Asked, Proper

LEMMA Asks ==
  ASSUME FleetInv, NEW h \in Handlers, Begin(h)
  PROVE  \E r : /\ Asked(r)
                /\ \/ authorize(h, r) /\ r.op # <<"role-binding", "upsert">>
                   \/ authorize_fleet(h, r) /\ r.scope \in Scopes
<1> PICK who \in workload.callers, q \in workload.requests : Handle(h, who, q)
  BY Zenon DEF Begin
<1>1. who \in Operators /\ q \in RequestIds
  BY FleetWorkloads, Zenon DEF FleetInv
<1>2. Nothing \in AnyId /\ NoRole \in Roles \cup {NoRole} /\ 0 \in Nat
  BY Zenon DEF AnyId
<1>3. /\ \A o \in OrganizationIds : <<"organization", o>> \in Scopes /\ o \in AnyId
      /\ \A p \in ProjectIds : <<"project", p>> \in Scopes /\ p \in AnyId
      /\ \A e \in EnvironmentIds : <<"environment", e>> \in Scopes /\ e \in AnyId
  BY Zenon DEF Scopes, AnyId
<1>o. \A kind \in {"organization", "project", "environment"}, act \in {"create", "update", "archive"} :
        /\ <<kind, act>> \in Operations
        /\ <<kind, act>> # <<"role-binding", "upsert">>
  BY DEF Operations, Kinds
<1>u. /\ <<"role-binding", "upsert">> \in Operations
      /\ <<"role-binding", "revoke">> \in Operations
      /\ <<"role-binding", "revoke">> # <<"role-binding", "upsert">>
  BY DEF Operations
<1>4. CASE create_organization(h, who, q)
  <2>1. PICK s \in Slugs :
          authorize(h, [Call(who, <<"organization", "create">>, <<"organization", Nothing>>, q) EXCEPT !.slug = s])
    BY <1>4, Zenon DEF create_organization
  <2>r. PICK r : r = [Call(who, <<"organization", "create">>, <<"organization", Nothing>>, q) EXCEPT !.slug = s]
    BY Zenon
  <2>2. r = Whole(who, <<"organization", "create">>, <<"organization", Nothing>>, q,
                  Nothing, Nothing, Nothing, s, Nothing, NoRole, 0)
    BY <2>r DEF Whole, Call
  <2>4. Asked(r) /\ r.op = <<"organization", "create">> /\ r.scope = <<"organization", Nothing>>
    BY <1>1, <1>2, <1>3, <1>o, <2>2, WholeIs
  <2>5. Asked(r) /\ r.op # <<"role-binding", "upsert">>
    BY <1>3, <1>o, <2>4, Zenon
  <2> QED
    BY <2>1, <2>r, <2>5, Zenon
<1>5. CASE update_organization(h, who, q)
  <2>1. PICK o \in OrganizationIds :
          authorize_fleet(h, Call(who, <<"organization", "update">>, <<"organization", o>>, q))
    BY <1>5, Zenon DEF update_organization
  <2>r. PICK r : r = Call(who, <<"organization", "update">>, <<"organization", o>>, q)
    BY Zenon
  <2>2. r = Whole(who, <<"organization", "update">>, <<"organization", o>>, q,
                  o, Nothing, Nothing, NoSlug, Nothing, NoRole, 0)
    BY <2>r DEF Whole, Call
  <2>4. Asked(r) /\ r.op = <<"organization", "update">> /\ r.scope = <<"organization", o>>
    BY <1>1, <1>2, <1>3, <1>o, <2>2, WholeIs
  <2>5. Asked(r) /\ r.scope \in Scopes
    BY <1>3, <1>o, <2>4, Zenon
  <2> QED
    BY <2>1, <2>r, <2>5, Zenon
<1>6. CASE archive_organization(h, who, q)
  <2>1. PICK o \in OrganizationIds :
          authorize_fleet(h, Call(who, <<"organization", "archive">>, <<"organization", o>>, q))
    BY <1>6, Zenon DEF archive_organization
  <2>r. PICK r : r = Call(who, <<"organization", "archive">>, <<"organization", o>>, q)
    BY Zenon
  <2>2. r = Whole(who, <<"organization", "archive">>, <<"organization", o>>, q,
                  o, Nothing, Nothing, NoSlug, Nothing, NoRole, 0)
    BY <2>r DEF Whole, Call
  <2>4. Asked(r) /\ r.op = <<"organization", "archive">> /\ r.scope = <<"organization", o>>
    BY <1>1, <1>2, <1>3, <1>o, <2>2, WholeIs
  <2>5. Asked(r) /\ r.scope \in Scopes
    BY <1>3, <1>o, <2>4, Zenon
  <2> QED
    BY <2>1, <2>r, <2>5, Zenon
<1>7. CASE create_project(h, who, q)
  <2>1. PICK o \in OrganizationIds, s \in Slugs :
          authorize_fleet(h, [Call(who, <<"project", "create">>, <<"organization", o>>, q)
                             EXCEPT !.parent = o, !.slug = s])
    BY <1>7, Zenon DEF create_project
  <2>r. PICK r : r = [Call(who, <<"project", "create">>, <<"organization", o>>, q)
                    EXCEPT !.parent = o, !.slug = s]
    BY Zenon
  <2>2. r = Whole(who, <<"project", "create">>, <<"organization", o>>, q,
                  o, o, Nothing, s, Nothing, NoRole, 0)
    BY <2>r DEF Whole, Call
  <2>4. Asked(r) /\ r.op = <<"project", "create">> /\ r.scope = <<"organization", o>>
    BY <1>1, <1>2, <1>3, <1>o, <2>2, WholeIs
  <2>5. Asked(r) /\ r.scope \in Scopes
    BY <1>3, <1>o, <2>4, Zenon
  <2> QED
    BY <2>1, <2>r, <2>5, Zenon
<1>8. CASE update_project(h, who, q)
  <2>1. PICK p \in ProjectIds, o \in OrganizationIds :
          authorize_fleet(h, [Call(who, <<"project", "update">>, <<"project", p>>, q) EXCEPT !.parent = o])
    BY <1>8, Zenon DEF update_project
  <2>r. PICK r : r = [Call(who, <<"project", "update">>, <<"project", p>>, q) EXCEPT !.parent = o]
    BY Zenon
  <2>2. r = Whole(who, <<"project", "update">>, <<"project", p>>, q,
                  p, o, Nothing, NoSlug, Nothing, NoRole, 0)
    BY <2>r DEF Whole, Call
  <2>3. /\ <<"project", "update">> \in Operations /\ <<"project", "update">> # <<"role-binding", "upsert">>
        /\ <<"project", p>> \in Scopes \cup {<<"organization", Nothing>>}
        /\ p \in AnyId /\ o \in AnyId /\ Nothing \in AnyId /\ NoSlug \in Slugs \cup {NoSlug}
    BY <1>1, <1>2, <1>3, <1>o, Zenon
  <2>4. Asked(r) /\ r.op = <<"project", "update">> /\ r.scope = <<"project", p>>
    BY <1>1, <1>2, <2>2, <2>3, WholeIs
  <2>5. Asked(r) /\ r.scope \in Scopes
    BY <1>3, <1>o, <2>4, Zenon
  <2> QED
    BY <2>1, <2>r, <2>5, Zenon
<1>9. CASE archive_project(h, who, q)
  <2>1. PICK p \in ProjectIds, o \in OrganizationIds :
          authorize_fleet(h, [Call(who, <<"project", "archive">>, <<"project", p>>, q) EXCEPT !.parent = o])
    BY <1>9, Zenon DEF archive_project
  <2>r. PICK r : r = [Call(who, <<"project", "archive">>, <<"project", p>>, q) EXCEPT !.parent = o]
    BY Zenon
  <2>2. r = Whole(who, <<"project", "archive">>, <<"project", p>>, q,
                  p, o, Nothing, NoSlug, Nothing, NoRole, 0)
    BY <2>r DEF Whole, Call
  <2>3. /\ <<"project", "archive">> \in Operations /\ <<"project", "archive">> # <<"role-binding", "upsert">>
        /\ <<"project", p>> \in Scopes \cup {<<"organization", Nothing>>}
        /\ p \in AnyId /\ o \in AnyId /\ Nothing \in AnyId /\ NoSlug \in Slugs \cup {NoSlug}
    BY <1>1, <1>2, <1>3, <1>o, Zenon
  <2>4. Asked(r) /\ r.op = <<"project", "archive">> /\ r.scope = <<"project", p>>
    BY <1>1, <1>2, <2>2, <2>3, WholeIs
  <2>5. Asked(r) /\ r.scope \in Scopes
    BY <1>3, <1>o, <2>4, Zenon
  <2> QED
    BY <2>1, <2>r, <2>5, Zenon
<1>10. CASE create_environment(h, who, q)
  <2>1. PICK p \in ProjectIds, o \in OrganizationIds, s \in Slugs :
          authorize_fleet(h, [Call(who, <<"environment", "create">>, <<"project", p>>, q)
                             EXCEPT !.parent = o, !.slug = s])
    BY <1>10, Zenon DEF create_environment
  <2>r. PICK r : r = [Call(who, <<"environment", "create">>, <<"project", p>>, q)
                    EXCEPT !.parent = o, !.slug = s]
    BY Zenon
  <2>2. r = Whole(who, <<"environment", "create">>, <<"project", p>>, q,
                  p, o, Nothing, s, Nothing, NoRole, 0)
    BY <2>r DEF Whole, Call
  <2>3. /\ <<"environment", "create">> \in Operations /\ <<"environment", "create">> # <<"role-binding", "upsert">>
        /\ <<"project", p>> \in Scopes \cup {<<"organization", Nothing>>}
        /\ p \in AnyId /\ o \in AnyId /\ Nothing \in AnyId /\ s \in Slugs \cup {NoSlug}
    BY <1>1, <1>2, <1>3, <1>o, Zenon
  <2>4. Asked(r) /\ r.op = <<"environment", "create">> /\ r.scope = <<"project", p>>
    BY <1>1, <1>2, <2>2, <2>3, WholeIs
  <2>5. Asked(r) /\ r.scope \in Scopes
    BY <1>3, <1>o, <2>4, Zenon
  <2> QED
    BY <2>1, <2>r, <2>5, Zenon
<1>11. CASE update_environment(h, who, q)
  <2>1. PICK e \in EnvironmentIds, p \in ProjectIds, o \in OrganizationIds :
          authorize_fleet(h, [Call(who, <<"environment", "update">>, <<"environment", e>>, q)
                             EXCEPT !.project = p, !.parent = o])
    BY <1>11, Zenon DEF update_environment
  <2>r. PICK r : r = [Call(who, <<"environment", "update">>, <<"environment", e>>, q)
                    EXCEPT !.project = p, !.parent = o]
    BY Zenon
  <2>2. r = Whole(who, <<"environment", "update">>, <<"environment", e>>, q,
                  e, o, p, NoSlug, Nothing, NoRole, 0)
    BY <2>r DEF Whole, Call
  <2>3. /\ <<"environment", "update">> \in Operations /\ <<"environment", "update">> # <<"role-binding", "upsert">>
        /\ <<"environment", e>> \in Scopes \cup {<<"organization", Nothing>>}
        /\ e \in AnyId /\ o \in AnyId /\ p \in AnyId /\ NoSlug \in Slugs \cup {NoSlug}
    BY <1>1, <1>2, <1>3, <1>o, Zenon
  <2>4. Asked(r) /\ r.op = <<"environment", "update">> /\ r.scope = <<"environment", e>>
    BY <1>1, <1>2, <2>2, <2>3, WholeIs
  <2>5. Asked(r) /\ r.scope \in Scopes
    BY <1>3, <1>o, <2>4, Zenon
  <2> QED
    BY <2>1, <2>r, <2>5, Zenon
<1>12. CASE archive_environment(h, who, q)
  <2>1. PICK e \in EnvironmentIds, p \in ProjectIds, o \in OrganizationIds :
          authorize_fleet(h, [Call(who, <<"environment", "archive">>, <<"environment", e>>, q)
                             EXCEPT !.project = p, !.parent = o])
    BY <1>12, Zenon DEF archive_environment
  <2>r. PICK r : r = [Call(who, <<"environment", "archive">>, <<"environment", e>>, q)
                    EXCEPT !.project = p, !.parent = o]
    BY Zenon
  <2>2. r = Whole(who, <<"environment", "archive">>, <<"environment", e>>, q,
                  e, o, p, NoSlug, Nothing, NoRole, 0)
    BY <2>r DEF Whole, Call
  <2>3. /\ <<"environment", "archive">> \in Operations /\ <<"environment", "archive">> # <<"role-binding", "upsert">>
        /\ <<"environment", e>> \in Scopes \cup {<<"organization", Nothing>>}
        /\ e \in AnyId /\ o \in AnyId /\ p \in AnyId /\ NoSlug \in Slugs \cup {NoSlug}
    BY <1>1, <1>2, <1>3, <1>o, Zenon
  <2>4. Asked(r) /\ r.op = <<"environment", "archive">> /\ r.scope = <<"environment", e>>
    BY <1>1, <1>2, <2>2, <2>3, WholeIs
  <2>5. Asked(r) /\ r.scope \in Scopes
    BY <1>3, <1>o, <2>4, Zenon
  <2> QED
    BY <2>1, <2>r, <2>5, Zenon
<1>13. CASE upsert_role_binding(h, who, q)
  <2>1. PICK x \in workload.subjects, role \in FleetRoles :
          authorize_fleet(h, [Call(who, <<"role-binding", "upsert">>, x[2], q)
                              EXCEPT !.subject = x[1], !.role = role, !.since = Len(grants)])
    BY <1>13, Zenon DEF upsert_role_binding
  <2>n. PICK subject, scope, n : subject = x[1] /\ scope = x[2] /\ n = Len(grants)
    BY Zenon
  <2>r. PICK r : r = [Call(who, <<"role-binding", "upsert">>, scope, q)
                    EXCEPT !.subject = subject, !.role = role, !.since = n]
    BY Zenon
  <2>2. subject \in Operators /\ scope \in Scopes /\ role \in Roles /\ scope[2] \in AnyId
    <3>1. x \in Operators \X Scopes /\ role \in Roles
      BY FleetWorkloads, FleetHierarchyConstants, Zenon DEF FleetInv, Roles
    <3> QED
      BY <2>n, <3>1, ScopeIs
  <2>3. n \in Nat
    <3>1. grants \in Seq(GrantRecord)
      BY Zenon DEF FleetInv, GrantInv
    <3> QED
      BY <2>n, <3>1
  <2>4. r = Whole(who, <<"role-binding", "upsert">>, scope, q,
                  scope[2], Nothing, Nothing, NoSlug, subject, role, n)
    BY <2>r DEF Whole, Call
  <2>5. /\ subject \in Operators \cup {Nothing} /\ role \in Roles \cup {NoRole}
        /\ scope \in Scopes \cup {<<"organization", Nothing>>} /\ NoSlug \in Slugs \cup {NoSlug}
    BY <2>2, Zenon
  <2>6. Asked(r) /\ r.scope = scope
    BY <1>1, <1>2, <1>u, <2>n, <2>2, <2>3, <2>4, <2>5, WholeIs
  <2> QED
    BY <2>1, <2>n, <2>r, <2>2, <2>6, Zenon
<1>14. CASE revoke_role_binding(h, who, q)
  <2>1. PICK b \in DOMAIN bindings :
          authorize_fleet(h, [Call(who, <<"role-binding", "revoke">>, bindings[b].scope, q)
                              EXCEPT !.id = b, !.role = bindings[b].role])
    BY <1>14, Zenon DEF revoke_role_binding
  <2>v. PICK v : v = bindings[b]
    BY Zenon
  <2>r. PICK r : r = [Call(who, <<"role-binding", "revoke">>, v.scope, q) EXCEPT !.id = b, !.role = v.role]
    BY Zenon
  <2>2. v.scope \in Scopes /\ v.role \in Roles /\ b \in AnyId
    BY <2>v DEF FleetInv, StoreInv, BindingsOK, Binding, AnyId
  <2>3. r = Whole(who, <<"role-binding", "revoke">>, v.scope, q,
                  b, Nothing, Nothing, NoSlug, Nothing, v.role, 0)
    BY <2>r DEF Whole, Call
  <2>4. Asked(r) /\ r.scope = v.scope
    BY <1>1, <1>2, <1>u, <2>2, <2>3, WholeIs
  <2> QED
    BY <2>1, <2>v, <2>r, <2>2, <2>4, Zenon
<1> QED
  BY <1>4, <1>5, <1>6, <1>7, <1>8, <1>9, <1>10, <1>11, <1>12, <1>13, <1>14, ZenonT(30) DEF Handle

LEMMA BeginKeeps ==
  ASSUME FleetInv, NEW h \in Handlers, Begin(h)
  PROVE  HandlerInv'
<1>1. Untouched
  BY Zenon DEF Begin, Untouched
<1>2. MoreGrants /\ Grows
  BY <1>1, UntouchedStore, Zenon DEF MoreGrants, Untouched, FleetInv
<1>3. PICK r : /\ Asked(r)
               /\ \/ authorize(h, r) /\ r.op # <<"role-binding", "upsert">>
                  \/ authorize_fleet(h, r) /\ r.scope \in Scopes
  BY Asks, Zenon
<1>4. CASE allows(GlobalRole[r.who])
  <2> PICK s : s = [r EXCEPT !.at = "store"]
    BY Zenon
  <2>1. handler' = [handler EXCEPT ![h] = s]
    BY <1>3, <1>4, Zenon DEF authorize, authorize_fleet, Go
  <2>2. /\ Proper(s) /\ s.at = "store" /\ s.op = r.op /\ s.since = r.since /\ s.role = r.role
        /\ s.who = r.who
    BY <1>3 DEF Asked, Proper, Busy
  <2>3. Reading(s)
    BY <2>2, Zenon DEF Reading
  <2>4. ASSUME s.op = <<"role-binding", "upsert">>
        PROVE  Covers(GlobalRole[s.who], s.role) /\ s.since <= Len(grants)
    <3>1. authorize_fleet(h, r) /\ r.role # NoRole /\ r.since = Len(grants) /\ r.since \in Nat
      BY <1>3, <2>2, <2>4, Zenon DEF Asked, Proper, Busy, Roles, NoRole
    <3>2. require_fleet_role_dominance(GlobalRole[r.who], r.role)
      BY <1>4, <3>1, Zenon DEF authorize_fleet
    <3> QED
      BY <1>4, <2>2, <3>1, <3>2, SMTT(30) DEF Covers, allows, require_fleet_role_dominance
  <2>5. Authorized(s)
    BY <2>2, <2>4, Zenon DEF Authorized
  <2> QED
    BY <1>2, <2>1, <2>2, <2>3, <2>5, HandlerMoves, Zenon DEF FleetInv
<1>5. CASE ~allows(GlobalRole[r.who])
  <2> PICK s : s = [r EXCEPT !.at = "authorize", !.todo = Chain(r.scope)]
    BY Zenon
  <2>1. handler' = [handler EXCEPT ![h] = s] /\ r.scope \in Scopes /\ ensure_fleet_resource(r.scope)
    BY <1>3, <1>5, Zenon DEF authorize, authorize_fleet, Go
  <2>2. Chain(r.scope) \in Seq(Scopes) /\ Chain(r.scope) # <<>>
    BY <2>1, ChainIs, Zenon DEF FleetInv, StoreInv
  <2>3. /\ Proper(s) /\ s.at = "authorize" /\ s.op = r.op /\ s.since = r.since /\ s.best = NoRole
        /\ s.scope = r.scope /\ s.todo = Chain(s.scope)
    BY <1>3, <2>2, ZenonT(30) DEF Asked, Proper, Busy
  <2>4. Reading(s)
    BY <2>1, <2>2, <2>3, Zenon DEF Reading, InChain
  <2>5. Authorized(s)
    BY <1>3, <2>3, SMTT(30) DEF Authorized, Asked, Proper, Busy
  <2> QED
    BY <1>2, <2>1, <2>3, <2>4, <2>5, HandlerMoves, Zenon DEF FleetInv
<1> QED
  BY <1>4, <1>5, Zenon

\* A role that is read was granted and, when the call began, was still in force.
LEMMA RoleRead ==
  ASSUME FleetInv, NEW r, Proper(r), NEW s \in Scopes, InChain(s, r.scope), NEW role,
         role = fleet_role_binding_for_operator(r.who, s)
  PROVE  /\ role \in Roles \cup {NoRole}
         /\ role # NoRole /\ r.since <= Len(grants) => Ground(r, role)
<1>1. CASE role = NoRole
  BY <1>1, Zenon
<1>2. CASE role # NoRole
  <2> PICK b : b = subjects[<<r.who, s>>]
    BY Zenon
  <2>1. <<r.who, s>> \in DOMAIN subjects /\ bindings[b].active /\ role = bindings[b].role
    BY <1>2, Zenon DEF fleet_role_binding_for_operator
  <2>2. b \in DOMAIN bindings /\ bindings[b].operator = r.who /\ bindings[b].scope = s
    BY <2>1, Zenon DEF FleetInv, StoreInv, ValidBindings
  <2>3. role \in Roles
    BY <2>1, <2>2, Zenon DEF FleetInv, StoreInv, BindingsOK, Binding
  <2>4. PICK j \in DOMAIN grants :
          /\ grants[j].to = r.who /\ grants[j].scope = s /\ grants[j].role = role
          /\ \A k \in (j + 1)..Len(grants) :
               <<grants[k].to, grants[k].scope>> # <<grants[j].to, grants[j].scope>>
    BY <2>1, <2>2, SMTT(30) DEF FleetInv, GrantInv, LastWord
  <2>5. Len(grants) \in Nat /\ r.since \in Nat /\ j \in Nat
    <3>1. grants \in Seq(GrantRecord)
      BY Zenon DEF FleetInv, GrantInv
    <3>2. r.since \in Nat
      BY Zenon DEF Proper, Busy
    <3> QED
      BY <3>1, <3>2
  <2>6. r.since <= Len(grants) => Ground(r, role)
    BY <2>4, <2>5, SMTT(30) DEF Ground
  <2> QED
    BY <2>3, <2>6, Zenon
<1> QED
  BY <1>1, <1>2, Zenon

LEMMA RoleKeeps ==
  ASSUME FleetInv, NEW h \in Handlers, fleet_effective_role(h)
  PROVE  HandlerInv'
<1>1. Untouched
  BY Zenon DEF fleet_effective_role, Untouched
<1>2. MoreGrants /\ Grows
  BY <1>1, UntouchedStore, Zenon DEF MoreGrants, Untouched, FleetInv
<1> PICK r : r = handler[h]
  BY Zenon
<1>3. /\ r.at \in {"authorize", "dominate"} /\ Proper(r) /\ Reading(r) /\ Authorized(r)
  BY SMTT(30) DEF fleet_effective_role, FleetInv, HandlerInv, HandlersOK, Idle
<1>4. /\ r \in Busy /\ r.scope \in Scopes /\ ensure_fleet_resource(r.scope) /\ r.todo \in Seq(Scopes)
      /\ r.todo # <<>> /\ \A i \in DOMAIN r.todo : InChain(r.todo[i], r.scope)
      /\ r.best \in Roles \cup {NoRole}
  BY <1>3, Zenon DEF Proper, Busy, Reading
<1> PICK first : first = Head(r.todo)
  BY Zenon
<1>5. first \in Scopes /\ InChain(first, r.scope)
  BY <1>4, SMTT(30)
<1> PICK role : role = fleet_role_binding_for_operator(r.who, first)
  BY Zenon
<1> PICK best : best = MinByRank(r.best, role)
  BY Zenon
<1>6. role \in Roles \cup {NoRole} /\ (role # NoRole /\ r.since <= Len(grants) => Ground(r, role))
  BY <1>3, <1>5, RoleRead, Zenon
<1>7. best \in Roles \cup {NoRole}
      /\ (best # NoRole /\ r.op = <<"role-binding", "upsert">> => Ground(r, best))
  BY <1>3, <1>4, <1>6, Zenon DEF MinByRank, Authorized
<1>8. ASSUME NEW s, s.who = r.who, s.scope = r.scope, s.since = r.since, NEW x, Ground(r, x)
      PROVE  Ground(s, x)
  BY <1>8, Zenon DEF Ground
<1>9. CASE Len(r.todo) > 1
  <2> PICK s : s = [r EXCEPT !.best = best, !.todo = Tail(r.todo)]
    BY Zenon
  <2>1. handler' = [handler EXCEPT ![h] = s]
    BY <1>9, Zenon DEF fleet_effective_role, Go
  <2>2. /\ Tail(r.todo) \in Seq(Scopes) /\ Tail(r.todo) # <<>>
        /\ \A i \in DOMAIN Tail(r.todo) : i + 1 \in DOMAIN r.todo /\ Tail(r.todo)[i] = r.todo[i + 1]
    <3> PICK t : t = r.todo
      BY Zenon
    <3>1. t \in Seq(Scopes) /\ Len(t) \in Nat /\ Len(t) > 1
      BY <1>4, <1>9
    <3>2. Tail(t) \in Seq(Scopes) /\ Len(Tail(t)) = Len(t) - 1 /\ DOMAIN Tail(t) = 1..(Len(t) - 1)
      BY <3>1
    <3>3. Tail(t) # <<>>
      <4> PICK u : u = Tail(t)
        BY Zenon
      <4>1. u \in Seq(Scopes) /\ Len(u) = Len(t) - 1
        BY <3>2, Zenon
      <4>2. Len(u) # 0
        BY <3>1, <4>1
      <4>3. u # <<>>
        BY <4>1, <4>2
      <4> QED
        BY <4>3, Zenon
    <3>4. \A i \in 1..(Len(t) - 1) : i + 1 \in 1..Len(t) /\ Tail(t)[i] = t[i + 1]
      BY <3>1
    <3> QED
      BY <3>1, <3>2, <3>3, <3>4
  <2>3. /\ s \in Busy /\ s.at = r.at /\ s.op = r.op /\ s.who = r.who /\ s.scope = r.scope
        /\ s.since = r.since /\ s.subject = r.subject /\ s.role = r.role /\ s.best = best
        /\ s.todo = Tail(r.todo)
    BY <1>4, <1>7, <2>2, ZenonT(30) DEF Busy
  <2>4. Proper(s)
    BY <1>3, <2>3, Zenon DEF Proper
  <2>5. Reading(s)
    BY <1>4, <2>2, <2>3, SMTT(30) DEF Reading
  <2>6. Authorized(s)
    BY <1>3, <1>7, <1>8, <2>3, ZenonT(30) DEF Authorized
  <2> QED
    BY <1>2, <2>1, <2>4, <2>5, <2>6, HandlerMoves, Zenon DEF FleetInv
<1>10. CASE /\ ~(Len(r.todo) > 1)
            /\ r.at = "authorize" /\ fleet_allows(best) /\ r.role # NoRole
  <2> PICK s : s = [r EXCEPT !.at = "dominate", !.best = NoRole, !.todo = Chain(r.scope)]
    BY Zenon
  <2>1. handler' = [handler EXCEPT ![h] = s]
    BY <1>10, Zenon DEF fleet_effective_role, Go
  <2>2. Chain(r.scope) \in Seq(Scopes) /\ Chain(r.scope) # <<>>
    BY <1>4, ChainIs, Zenon DEF FleetInv, StoreInv
  <2>3. /\ s \in Busy /\ s.at = "dominate" /\ s.op = r.op /\ s.who = r.who /\ s.scope = r.scope
        /\ s.since = r.since /\ s.subject = r.subject /\ s.role = r.role /\ s.best = NoRole
        /\ s.todo = Chain(s.scope)
    BY <1>4, <2>2, ZenonT(30) DEF Busy
  <2>4. Proper(s)
    BY <1>3, <2>3, Zenon DEF Proper
  <2>5. Reading(s)
    BY <1>4, <2>2, <2>3, Zenon DEF Reading, InChain
  <2>6. best \in {"owner", "administrator"} /\ best # NoRole
    BY <1>10, Zenon DEF fleet_allows, NoRole
  <2>7. Authorized(s)
    BY <1>3, <1>7, <1>8, <2>3, <2>6, Zenon DEF Authorized
  <2> QED
    BY <1>2, <2>1, <2>4, <2>5, <2>7, HandlerMoves, Zenon DEF FleetInv
<1>11. CASE /\ ~(Len(r.todo) > 1)
            /\ ~(r.at = "authorize" /\ fleet_allows(best) /\ r.role # NoRole)
            /\ \/ r.at = "authorize" /\ fleet_allows(best)
               \/ r.at = "dominate" /\ require_fleet_role_dominance(best, r.role)
  <2> PICK s : s = GoesOn(r, "store", NoRole, <<>>)
    BY Zenon
  <2>1. handler' = [handler EXCEPT ![h] = s]
    BY <1>11, Zenon DEF fleet_effective_role, Go, GoesOn
  <2>2. /\ s \in Busy /\ s.at = "store" /\ s.op = r.op /\ s.who = r.who /\ s.scope = r.scope
        /\ s.since = r.since /\ s.subject = r.subject /\ s.role = r.role
    <3>2. r \in Busy
      BY <1>3 DEF Proper
    <3> QED
      BY <3>2, CallIsStored, Zenon
  <2>3. Proper(s) /\ Reading(s)
    BY <1>3, <2>2, Zenon DEF Proper, Reading
  <2>4. ASSUME r.op = <<"role-binding", "upsert">>
        PROVE  \E x : Covers(x, s.role) /\ Ground(s, x)
    <3>1. r.role \in Roles /\ r.role # NoRole
      BY <1>3, <2>4, Zenon DEF Proper, Roles, NoRole
    <3>2. r.at = "dominate" /\ best # NoRole /\ fleet_role_rank(best) <= fleet_role_rank(r.role)
      BY <1>11, <3>1, Zenon DEF require_fleet_role_dominance
    <3>3. best \in Roles /\ Ground(r, best)
      BY <1>7, <2>4, <3>2, Zenon
    <3>4. CASE best \in {"owner", "administrator"}
      BY <1>8, <2>2, <3>2, <3>3, <3>4, Zenon DEF Covers
    <3>5. CASE best \notin {"owner", "administrator"}
      <4>1. PICK x \in {"owner", "administrator"} : Ground(r, x)
        BY <1>3, <2>4, <3>2, Zenon DEF Authorized
      <4>2. fleet_role_rank(best) \in 2..4 /\ fleet_role_rank(x) \in 0..1 /\ fleet_role_rank(r.role) \in 0..4
        BY <3>1, <3>3, <3>5, <4>1, SMTT(30) DEF fleet_role_rank, Roles, NoRole
      <4>3. fleet_role_rank(x) <= fleet_role_rank(r.role)
        BY <3>2, <4>2, SMTT(30)
      <4> QED
        BY <1>8, <2>2, <4>1, <4>3, Zenon DEF Covers
    <3> QED
      BY <3>4, <3>5, Zenon
  <2>5. Authorized(s)
    BY <1>3, <1>4, <2>2, <2>4, Zenon DEF Authorized
  <2> QED
    BY <1>2, <2>1, <2>3, <2>5, HandlerMoves, Zenon DEF FleetInv
<1>12. CASE handler' = [handler EXCEPT ![h] = Idle]
  BY <1>2, <1>12, HandlerMoves, Zenon DEF FleetInv
<1> QED
  BY <1>9, <1>10, <1>11, <1>12, Zenon DEF fleet_effective_role, Go

-----------------------------------------------------------------------------
(* Grants. *)

\* What GrantsComeFromAuthority says of the i-th grant.
Backed(i) ==
  \/ grants[i].role = NoRole
  \/ Covers(GlobalRole[grants[i].by], grants[i].role)
  \/ \E j \in 1..(i - 1) :
       /\ grants[j].to = grants[i].by /\ Covers(grants[j].role, grants[i].role)
       /\ InChain(grants[j].scope, grants[i].scope)
       /\ \A k \in (j + 1)..grants[i].since :
            <<grants[k].to, grants[k].scope>> # <<grants[j].to, grants[j].scope>>

LEMMA BackedIs ==
  /\ GrantsComeFromAuthority <=> \A i \in DOMAIN grants : Backed(i)
  /\ GrantsComeFromAuthority' <=> \A i \in DOMAIN grants' : Backed(i)'
BY Zenon DEF GrantsComeFromAuthority, Backed, InChain

LEMMA BackedStays ==
  ASSUME GrantInv, MoreGrants, Grows, NEW i \in DOMAIN grants
  PROVE  Backed(i)' /\ ensure_fleet_resource(grants[i].scope)'
<1>1. grants \in Seq(GrantRecord)
  BY Zenon DEF GrantInv
<1>2. \A x \in DOMAIN grants : x \in DOMAIN grants' /\ grants'[x] = grants[x]
  BY <1>1, GrantsStay, Zenon
<1> PICK scope : scope = grants[i].scope
  BY Zenon
<1>3. scope \in Scopes /\ ensure_fleet_resource(scope) /\ i \in 1..Len(grants) /\ Len(grants) \in Nat
      /\ grants[i].since \in Nat /\ (grants[i].role # NoRole => grants[i].since < i)
  <2>1. grants[i] \in GrantRecord /\ i \in 1..Len(grants) /\ Len(grants) \in Nat
    BY <1>1
  <2>2. ensure_fleet_resource(scope) /\ (grants[i].role # NoRole => grants[i].since < i)
    BY Zenon DEF GrantInv, Recent
  <2> QED
    BY <2>1, <2>2, Zenon DEF GrantRecord
<1>4. ensure_fleet_resource(scope)' /\ Chain(scope)' = Chain(scope)
  BY <1>3, ChainStays, Zenon
<1>5. Backed(i)
  BY BackedIs, Zenon DEF GrantInv
<1>6. ASSUME grants[i].role # NoRole, NEW j \in 1..(i - 1),
             grants[j].to = grants[i].by, Covers(grants[j].role, grants[i].role),
             InChain(grants[j].scope, scope),
             \A k \in (j + 1)..grants[i].since :
               <<grants[k].to, grants[k].scope>> # <<grants[j].to, grants[j].scope>>
      PROVE  Backed(i)'
  <2>1. j \in DOMAIN grants /\ \A k \in (j + 1)..grants[i].since : k \in DOMAIN grants
    BY <1>1, <1>3, <1>6, SMTT(30)
  <2>2. InChain(grants[j].scope, grants[i].scope)'
    <3> PICK s : s = grants[j].scope
      BY Zenon
    <3>1. InChain(s, scope)'
      BY <1>4, <1>6, Zenon DEF InChain
    <3> QED
      BY <1>2, <2>1, <3>1, Zenon
  <2> QED
    BY <1>2, <1>6, <2>1, <2>2, SMTT(30) DEF Backed
<1>7. Backed(i)'
  <2>1. CASE grants[i].role = NoRole
    BY <1>2, <2>1, Zenon DEF Backed
  <2>2. CASE grants[i].role # NoRole /\ Covers(GlobalRole[grants[i].by], grants[i].role)
    BY <1>2, <2>2, Zenon DEF Backed
  <2> QED
    BY <1>5, <1>6, <2>1, <2>2, Zenon DEF Backed
<1> QED
  BY <1>2, <1>4, <1>7, Zenon

LEMMA SameGrants ==
  ASSUME GrantInv, Grows, UNCHANGED <<roles, grants>>
  PROVE  GrantInv'
<1>1. MoreGrants /\ UNCHANGED <<bindings, grants>>
  BY Zenon DEF MoreGrants, roles
<1>2. LastWord'
  <2> SUFFICES ASSUME NEW b \in DOMAIN bindings', bindings'[b].active
               PROVE  \E j \in DOMAIN grants' :
                        /\ grants'[j].to = bindings'[b].operator
                        /\ grants'[j].scope = bindings'[b].scope
                        /\ grants'[j].role = bindings'[b].role
                        /\ \A k \in (j + 1)..Len(grants') :
                             <<grants'[k].to, grants'[k].scope>> # <<grants'[j].to, grants'[j].scope>>
    BY SMTT(30) DEF LastWord
  <2>1. PICK j \in DOMAIN grants :
          /\ grants[j].to = bindings[b].operator /\ grants[j].scope = bindings[b].scope
          /\ grants[j].role = bindings[b].role
          /\ \A k \in (j + 1)..Len(grants) :
               <<grants[k].to, grants[k].scope>> # <<grants[j].to, grants[j].scope>>
    BY <1>1, Zenon DEF GrantInv, LastWord
  <2> QED
    BY <1>1, <2>1
<1>3. \A i \in DOMAIN grants : Backed(i)' /\ ensure_fleet_resource(grants[i].scope)'
  BY <1>1, BackedStays, Zenon
<1>4. GrantsComeFromAuthority'
  BY <1>1, <1>3, BackedIs, Zenon
<1> QED
  BY <1>1, <1>2, <1>3, <1>4, Zenon DEF GrantInv, Recent

\* A new grant is the last word on its binding and comes from what the handler has found.
LEMMA NewGrant ==
  ASSUME GrantInv, NEW r, Proper(r), Authorized(r),
         r.at = "store", NEW x, NEW w, NEW g, Bound(r, x, w, g)
  PROVE  GrantInv'
<1> PICK n : n = Len(grants) + 1
  BY Zenon
<1>1. /\ grants \in Seq(GrantRecord) /\ g \in GrantRecord /\ grants' = Append(grants, g)
      /\ Len(grants) \in Nat
  <2>1. grants \in Seq(GrantRecord) /\ g \in GrantRecord /\ grants' = Append(grants, g)
    BY Zenon DEF GrantInv, Bound
  <2> QED
    BY <2>1
<1>2. /\ grants' \in Seq(GrantRecord) /\ Len(grants') = n /\ DOMAIN grants' = 1..n
      /\ DOMAIN grants = 1..(n - 1) /\ n \in Nat /\ n \in DOMAIN grants' /\ grants'[n] = g
      /\ \A i \in DOMAIN grants : i \in DOMAIN grants' /\ grants'[i] = grants[i]
  <2>1. n \in Nat /\ n - 1 = Len(grants) /\ DOMAIN grants = 1..(n - 1)
    BY <1>1
  <2>2. grants' \in Seq(GrantRecord) /\ Len(grants') = n /\ DOMAIN grants' = 1..n /\ grants'[n] = g
    BY <1>1
  <2>3. \A i \in 1..(n - 1) : i \in 1..n /\ grants'[i] = grants[i]
    BY <1>1, <2>1
  <2>4. n \in 1..n
    BY <1>1
  <2> QED
    BY <2>1, <2>2, <2>3, <2>4, Zenon
<1>3. \A i \in DOMAIN grants' : i \in DOMAIN grants \/ i = n
  BY <1>2
<1>4. MoreGrants
  BY <1>1, Zenon DEF MoreGrants
<1>5. UNCHANGED <<organizations, projects, environments, slugs>> /\ Grows
  BY Zenon DEF Bound, tree, Grows
<1>6. ensure_fleet_resource(g.scope)' /\ ensure_fleet_resource(g.scope)
  BY <1>5, Zenon DEF Bound, ensure_fleet_resource, Stored
<1>7. \A i \in DOMAIN grants' : ensure_fleet_resource(grants[i].scope)'
  BY <1>2, <1>3, <1>4, <1>5, <1>6, BackedStays, Zenon
<1>8. LastWord'
  <2> SUFFICES ASSUME NEW b \in DOMAIN bindings', bindings'[b].active
               PROVE  \E j \in DOMAIN grants' :
                        /\ grants'[j].to = bindings'[b].operator
                        /\ grants'[j].scope = bindings'[b].scope
                        /\ grants'[j].role = bindings'[b].role
                        /\ \A k \in (j + 1)..Len(grants') :
                             <<grants'[k].to, grants'[k].scope>> # <<grants'[j].to, grants'[j].scope>>
    BY Zenon DEF LastWord
  <2>1. CASE b = x
    <3>1. grants'[n].to = bindings'[b].operator /\ grants'[n].scope = bindings'[b].scope
          /\ grants'[n].role = bindings'[b].role
      BY <1>2, <2>1, Zenon DEF Bound
    <3>2. (n + 1)..Len(grants') = {}
      BY <1>2
    <3> QED
      BY <1>2, <3>1, <3>2, Zenon
  <2>2. CASE b # x
    <3>1. b \in DOMAIN bindings /\ bindings'[b] = bindings[b]
      BY <2>2, Zenon DEF Bound
    <3>2. PICK j \in DOMAIN grants :
            /\ grants[j].to = bindings[b].operator /\ grants[j].scope = bindings[b].scope
            /\ grants[j].role = bindings[b].role
            /\ \A k \in (j + 1)..Len(grants) :
                 <<grants[k].to, grants[k].scope>> # <<grants[j].to, grants[j].scope>>
      BY <3>1, Zenon DEF GrantInv, LastWord
    <3>3. <<g.to, g.scope>> # <<bindings[b].operator, bindings[b].scope>>
      <4>1. /\ subjects'[<<bindings'[b].operator, bindings'[b].scope>>] = b
            /\ subjects'[<<bindings'[x].operator, bindings'[x].scope>>] = x
        BY Zenon DEF Bound, ValidBindings
      <4>2. bindings'[x].operator = g.to /\ bindings'[x].scope = g.scope
        BY Zenon DEF Bound
      <4> QED
        BY <2>2, <3>1, <4>1, <4>2, Zenon
    <3>4. ASSUME NEW k \in (j + 1)..Len(grants')
          PROVE  <<grants'[k].to, grants'[k].scope>> # <<grants'[j].to, grants'[j].scope>>
      <4>1. CASE k = n
        BY <1>2, <3>2, <3>3, <4>1, Zenon
      <4>2. CASE k # n
        <5>1. k \in (j + 1)..Len(grants) /\ k \in DOMAIN grants
          BY <1>1, <1>2, <4>2, SMTT(30)
        <5> QED
          BY <1>2, <3>2, <5>1, Zenon
      <4> QED
        BY <4>1, <4>2, Zenon
    <3> QED
      BY <1>2, <3>1, <3>2, <3>4
  <2> QED
    BY <2>1, <2>2, Zenon
<1>9. Backed(n)' /\ (g.role # NoRole => g.since < n)
  <2>1. CASE g.role = NoRole /\ ~bindings'[x].active
    BY <1>2, <2>1, Zenon DEF Backed
  <2>2. CASE /\ r.op = <<"role-binding", "upsert">>
             /\ g = [by |-> r.who, since |-> r.since, to |-> r.subject, scope |-> r.scope,
                     role |-> r.role]
    <3>1. r.since <= Len(grants) /\ r.since \in Nat /\ g.since = r.since /\ g.by = r.who
          /\ g.role = r.role /\ g.scope = r.scope
      BY <2>2, Zenon DEF Authorized, Proper, Busy
    <3>2. CASE Covers(GlobalRole[r.who], r.role)
      BY <1>2, <3>1, <3>2 DEF Backed
    <3>3. ASSUME NEW role, Covers(role, r.role), Ground(r, role)
          PROVE  Backed(n)'
      <4>1. PICK j \in DOMAIN grants :
              /\ grants[j].to = r.who /\ grants[j].role = role /\ InChain(grants[j].scope, r.scope)
              /\ \A k \in (j + 1)..r.since :
                   <<grants[k].to, grants[k].scope>> # <<grants[j].to, grants[j].scope>>
        BY <3>3, Zenon DEF Ground
      <4>2. j \in 1..(n - 1) /\ \A k \in (j + 1)..r.since : k \in DOMAIN grants
        BY <1>1, <1>2, <3>1
      <4>3. InChain(grants[j].scope, grants[n].scope)'
        <5> PICK s, scope : s = grants[j].scope /\ scope = r.scope
          BY Zenon
        <5>1. InChain(s, scope)'
          BY <1>5, <4>1, Zenon DEF InChain, Chain
        <5> QED
          BY <1>2, <3>1, <5>1, Zenon
      <4>4. /\ grants'[n].by = r.who /\ grants'[n].role = r.role /\ grants'[n].since = r.since
            /\ grants'[j] = grants[j]
        BY <1>2, <3>1, Zenon
      <4>5. \A k \in (j + 1)..r.since : grants'[k] = grants[k]
        BY <1>2, <4>2, Zenon
      <4>6. /\ grants'[j].to = grants'[n].by /\ Covers(grants'[j].role, grants'[n].role)
            /\ \A k \in (j + 1)..grants'[n].since :
                 <<grants'[k].to, grants'[k].scope>> # <<grants'[j].to, grants'[j].scope>>
        BY <3>3, <4>1, <4>4, <4>5, Zenon
      <4>7. \A k, y : Covers(k, y)' = Covers(k, y)
        BY Zenon DEF Covers, fleet_role_rank
      <4> QED
        BY <4>2, <4>3, <4>6, <4>7, Zenon DEF Backed
    <3>4. Backed(n)'
      BY <2>2, <3>2, <3>3, Zenon DEF Authorized
    <3> QED
      BY <1>1, <3>1, <3>4, SMTT(30)
  <2> QED
    BY <2>1, <2>2, Zenon DEF Bound
<1>10. GrantsComeFromAuthority'
  BY <1>3, <1>4, <1>5, <1>9, BackedStays, BackedIs, Zenon
<1>11. Recent'
  <2> SUFFICES ASSUME NEW i \in DOMAIN grants', grants'[i].role # NoRole
               PROVE  grants'[i].since < i
    BY Zenon DEF Recent
  <2>1. CASE i = n
    BY <1>2, <1>9, <2>1, Zenon
  <2>2. CASE i \in DOMAIN grants
    BY <1>2, <2>2, Zenon DEF GrantInv, Recent
  <2> QED
    BY <1>3, <2>1, <2>2, Zenon
<1> QED
  BY <1>2, <1>7, <1>8, <1>10, <1>11, Zenon DEF GrantInv

-----------------------------------------------------------------------------
(* The inductive invariant. *)

\* Steps before the store, and giving up.
LEMMA UntouchedKeeps ==
  ASSUME FleetInv, Untouched, HandlerInv', UNCHANGED workload
  PROVE  FleetInv' /\ Archived
<1>1. StoreInv' /\ Grows /\ Archived
  BY UntouchedStore, Zenon DEF FleetInv
<1>2. GrantInv'
  BY <1>1, SameGrants, Zenon DEF FleetInv, Untouched
<1> QED
  BY <1>1, <1>2, Zenon DEF FleetInv

LEMMA AbandonKeeps ==
  ASSUME FleetInv, NEW h \in Handlers, Abandon(h)
  PROVE  HandlerInv'
<1>1. Untouched
  BY Zenon DEF Abandon, Untouched
<1>2. MoreGrants /\ Grows
  BY <1>1, UntouchedStore, Zenon DEF MoreGrants, Untouched, FleetInv
<1>3. handler' = [handler EXCEPT ![h] = Idle]
  BY Zenon DEF Abandon, Go
<1> QED
  BY <1>2, <1>3, HandlerMoves, Zenon DEF FleetInv

LEMMA StoreOperationKeeps ==
  ASSUME FleetInv, NEW h \in Handlers, StoreOperation(h), UNCHANGED workload
  PROVE  FleetInv' /\ Archived
<1>1. StoreInv' /\ Grows /\ Archived
  BY StoreKeeps, Zenon DEF FleetInv, HandlerInv
<1> PICK r : r = handler[h]
  BY Zenon
<1>2. /\ r.at = "store" /\ handler' = [handler EXCEPT ![h] = Idle]
      /\ \/ Quiet(r)
         \/ \E kind, x, w : Written(r, kind, x, w)
         \/ \E x, w, g : Bound(r, x, w, g)
  BY StoreEffect, Zenon DEF FleetInv, HandlerInv, StoreInv
<1>3. Proper(r) /\ Authorized(r)
  BY <1>2, AtStore, SMTT(30) DEF FleetInv, HandlerInv, Idle
<1>5. ASSUME NEW x, NEW w, NEW g, Bound(r, x, w, g)
      PROVE  GrantInv' /\ MoreGrants
  <2>1. GrantInv'
    BY <1>2, <1>3, <1>5, NewGrant, Zenon DEF FleetInv
  <2>2. MoreGrants
    BY <1>5, Zenon DEF MoreGrants, Bound
  <2> QED
    BY <2>1, <2>2, Zenon
<1>6. GrantInv' /\ MoreGrants
  <2>1. CASE UNCHANGED <<roles, grants>>
    BY <1>1, <2>1, SameGrants, Zenon DEF FleetInv, MoreGrants
  <2>2. CASE \E x, w, g : Bound(r, x, w, g)
    BY <1>5, <2>2, Zenon
  <2> QED
    BY <1>2, <2>1, <2>2, Zenon DEF Quiet, Written
<1>7. HandlerInv'
  BY <1>1, <1>2, <1>6, HandlerMoves, Zenon DEF FleetInv
<1> QED
  BY <1>1, <1>6, <1>7, Zenon DEF FleetInv

\* What the service starts from, with nothing or with one resource of each kind.
LEMMA FoundedTree ==
  ASSUME Init
  PROVE  TreeInv
<1> PICK o, p, e : /\ o = CHOOSE x \in OrganizationIds : TRUE
                   /\ p = CHOOSE x \in ProjectIds : TRUE
                   /\ e = CHOOSE x \in EnvironmentIds : TRUE
  BY Zenon
<1>1. CASE ~Founded
  <2>1. /\ DOMAIN organizations = {} /\ DOMAIN projects = {} /\ DOMAIN environments = {}
        /\ DOMAIN slugs = {}
    BY <1>1, Zenon DEF Init
  <2> QED
    BY <2>1, Zenon DEF TreeInv, TreeOK, ValidOrganizations, ValidProjects, ValidEnvironments, ActiveParents
<1>2. CASE Founded
  <2>1. o \in OrganizationIds /\ p \in ProjectIds /\ e \in EnvironmentIds
    BY <1>2, FleetWorkloads, Zenon
  <2>2. /\ DOMAIN organizations = {o} /\ DOMAIN projects = {p} /\ DOMAIN environments = {e}
        /\ organizations[o] = [slug |-> NoSlug, rev |-> NoRequest, active |-> TRUE]
        /\ projects[p] = [organization |-> o, slug |-> NoSlug, rev |-> NoRequest, active |-> TRUE]
        /\ environments[e] = [organization |-> o, project |-> p, slug |-> NoSlug,
                              rev |-> NoRequest, active |-> TRUE]
    BY <1>2, SMTT(30) DEF Init
  <2>3. /\ DOMAIN slugs = {<<"organization", NoSlug>>, <<"project", o, NoSlug>>,
                           <<"environment", p, NoSlug>>}
        /\ slugs[<<"organization", NoSlug>>] = o /\ slugs[<<"project", o, NoSlug>>] = p
        /\ slugs[<<"environment", p, NoSlug>>] = e
    BY <1>2, SMTT(30) DEF Init
  <2>4. TreeOK
    <3>1. organizations[o] \in Organization /\ projects[p] \in Project
      BY <2>1, <2>2 DEF Organization, Project
    <3>2. environments[e] \in Environment
      BY <2>1, <2>2 DEF Environment
    <3> QED
      BY <2>1, <2>2, <3>1, <3>2, Zenon DEF TreeOK
  <2>5. \A k \in DOMAIN slugs :
          /\ k[1] = "organization" => k = <<"organization", NoSlug>>
          /\ k[1] = "project" => k = <<"project", o, NoSlug>>
          /\ k[1] = "environment" => k = <<"environment", p, NoSlug>>
    BY <2>3
  <2>6. /\ organizations[o].slug = NoSlug /\ organizations[o].active
        /\ projects[p].organization = o /\ projects[p].slug = NoSlug /\ projects[p].active
        /\ environments[e].organization = o /\ environments[e].project = p
        /\ environments[e].slug = NoSlug /\ environments[e].active
    BY <2>2
  <2>7. ValidOrganizations
    <3>1. ASSUME NEW x \in DOMAIN organizations
          PROVE  x = o /\ <<"organization", NoSlug>> \in DOMAIN slugs /\ slugs[<<"organization", NoSlug>>] = x
      BY <2>2, <2>3
    <3>2. ASSUME NEW k \in DOMAIN slugs, k[1] = "organization"
          PROVE  /\ slugs[k] \in DOMAIN organizations
                 /\ organizations[slugs[k]].slug = k[2]
      <4>1. k = <<"organization", NoSlug>> /\ slugs[k] = o
        BY <2>3, <2>5, <3>2, Zenon
      <4>2. k[2] = NoSlug
        BY <4>1
      <4> QED
        BY <2>2, <2>6, <4>1, <4>2, Zenon
    <3> QED
      BY <2>2, <2>6, <3>1, <3>2, Zenon DEF ValidOrganizations
  <2>8. ValidProjects
    <3>1. ASSUME NEW x \in DOMAIN projects
          PROVE  x = p /\ <<"project", o, NoSlug>> \in DOMAIN slugs /\ slugs[<<"project", o, NoSlug>>] = x
      BY <2>2, <2>3
    <3>3. ASSUME NEW x \in DOMAIN projects
          PROVE  <<"project", projects[x].organization, projects[x].slug>> = <<"project", o, NoSlug>>
      BY <2>6, <3>1, Zenon
    <3>2. ASSUME NEW k \in DOMAIN slugs, k[1] = "project"
          PROVE  /\ slugs[k] \in DOMAIN projects
                 /\ projects[slugs[k]].organization = k[2] /\ projects[slugs[k]].slug = k[3]
      <4>1. k = <<"project", o, NoSlug>> /\ slugs[k] = p
        BY <2>3, <2>5, <3>2, Zenon
      <4>2. k[2] = o /\ k[3] = NoSlug
        BY <4>1
      <4> QED
        BY <2>2, <2>6, <4>1, <4>2, Zenon
    <3> QED
      BY <2>2, <2>6, <3>1, <3>2, <3>3, Zenon DEF ValidProjects
  <2>9. ValidEnvironments
    <3>1. ASSUME NEW x \in DOMAIN environments
          PROVE  x = e /\ <<"environment", p, NoSlug>> \in DOMAIN slugs /\ slugs[<<"environment", p, NoSlug>>] = x
      BY <2>2, <2>3
    <3>3. ASSUME NEW x \in DOMAIN environments
          PROVE  <<"environment", environments[x].project, environments[x].slug>> = <<"environment", p, NoSlug>>
      BY <2>6, <3>1, Zenon
    <3>2. ASSUME NEW k \in DOMAIN slugs, k[1] = "environment"
          PROVE  /\ slugs[k] \in DOMAIN environments
                 /\ environments[slugs[k]].project = k[2] /\ environments[slugs[k]].slug = k[3]
      <4>1. k = <<"environment", p, NoSlug>> /\ slugs[k] = e
        BY <2>3, <2>5, <3>2, Zenon
      <4>2. k[2] = p /\ k[3] = NoSlug
        BY <4>1
      <4> QED
        BY <2>2, <2>6, <4>1, <4>2, Zenon
    <3> QED
      BY <2>2, <2>6, <3>1, <3>2, <3>3, Zenon DEF ValidEnvironments, Within
  <2>10. ActiveParents
    BY <2>2, <2>6, Zenon DEF ActiveParents
  <2> QED
    BY <2>4, <2>7, <2>8, <2>9, <2>10, Zenon DEF TreeInv
<1> QED
  BY <1>1, <1>2, Zenon

LEMMA FleetInit ==
  ASSUME Init
  PROVE  FleetInv
<1>1. TreeInv
  BY FoundedTree, Zenon
<1>2. /\ DOMAIN bindings = {} /\ DOMAIN subjects = {} /\ DOMAIN receipts = {}
      /\ audit = <<>> /\ grants = <<>> /\ answers = [q \in RequestIds |-> {}]
  BY Zenon DEF Init, Empty
<1>3. BindingsOK /\ ValidBindings /\ LastWord
  BY <1>2, Zenon DEF BindingsOK, ValidBindings, LastWord
<1>4. AuditInv
  BY <1>2, SMTT(30) DEF AuditInv, ValidReceipts
<1>5. ChangesAreAudited
  <2> SUFFICES ASSUME NEW kind \in Kinds, NEW x \in DOMAIN Stored(kind)
               PROVE  Stored(kind)[x].rev = NoRequest
    BY Zenon DEF ChangesAreAudited
  <2> QED
    BY Zenon DEF Init, Stored, Kinds
<1>6. GrantInv
  BY <1>2, <1>3, SMTT(30) DEF GrantInv, Recent, GrantsComeFromAuthority
<1>7. HandlerInv
  BY Zenon DEF Init, HandlerInv, HandlersOK
<1> QED
  BY <1>1, <1>3, <1>4, <1>5, <1>6, <1>7, Zenon DEF FleetInv, StoreInv, Init

LEMMA FleetNext ==
  ASSUME FleetInv, [Next]_vars
  PROVE  FleetInv' /\ Archived
<1>1. CASE UNCHANGED vars
  <2>1. Untouched /\ UNCHANGED <<handler, workload>>
    BY <1>1, Zenon DEF vars, Untouched
  <2>2. MoreGrants /\ Grows
    BY <2>1, UntouchedStore, Zenon DEF MoreGrants, Untouched, FleetInv
  <2>3. HandlersOK'
    BY <2>1, Zenon DEF FleetInv, HandlerInv, HandlersOK, Proper
  <2>4. ASSUME NEW x \in Handlers, handler'[x] # Idle
        PROVE  Reading(handler[x])' /\ Authorized(handler[x])'
    <3> PICK r : r = handler'[x]
      BY Zenon
    <3>1. Proper(r) /\ Reading(r) /\ Authorized(r)
      BY <2>1, <2>4, Zenon DEF FleetInv, HandlerInv, HandlersOK
    <3>2. Reading(r)' /\ Authorized(r)'
      BY <2>2, <3>1, StaysFound, Zenon DEF FleetInv
    <3> QED
      BY <3>2, Zenon
  <2>5. HandlerInv'
    BY <2>3, <2>4, Zenon DEF HandlerInv
  <2> QED
    BY <2>1, <2>5, UntouchedKeeps, Zenon
<1>2. ASSUME NEW h \in Handlers, Begin(h), UNCHANGED workload
      PROVE  FleetInv' /\ Archived
  BY <1>2, BeginKeeps, UntouchedKeeps, Zenon DEF Begin, Untouched
<1>3. ASSUME NEW h \in Handlers, fleet_effective_role(h), UNCHANGED workload
      PROVE  FleetInv' /\ Archived
  BY <1>3, RoleKeeps, UntouchedKeeps, Zenon DEF fleet_effective_role, Untouched
<1>4. ASSUME NEW h \in Handlers, StoreOperation(h), UNCHANGED workload
      PROVE  FleetInv' /\ Archived
  BY <1>4, StoreOperationKeeps, Zenon
<1>5. ASSUME NEW h \in Handlers, Abandon(h), UNCHANGED workload
      PROVE  FleetInv' /\ Archived
  BY <1>5, AbandonKeeps, UntouchedKeeps, Zenon DEF Abandon, Untouched
<1> QED
  BY <1>1, <1>2, <1>3, <1>4, <1>5, Zenon DEF Next

\* Every reachable state satisfies the invariant, for any number of handlers, operators,
\* resources and requests.
THEOREM FleetCorrect == Spec => []FleetInv
<1>1. Init => FleetInv
  BY FleetInit, Zenon
<1>2. FleetInv /\ [Next]_vars => FleetInv'
  BY FleetNext, Zenon
<1> QED
  BY <1>1, <1>2, PTL DEF Spec

\* Nothing active is ever under something archived: what create_fleet_project,
\* create_fleet_environment and the archive operations check under the mutation lock is
\* enough, though they look only one level up or down.
THEOREM ParentsStayActive == Spec => []ActiveParents
<1>1. FleetInv => ActiveParents
  BY Zenon DEF FleetInv, StoreInv, TreeInv
<1> QED
  BY <1>1, FleetCorrect, PTL

\* validate_fleet_workspace accepts every state that the store's operations reach: no
\* sequence of calls leaves the service in a state it cannot back up.
THEOREM WorkspaceIsValid == Spec => []validate_fleet_workspace
<1>1. FleetInv => validate_fleet_workspace
  BY Zenon DEF FleetInv, StoreInv, TreeInv, AuditInv, validate_fleet_workspace
<1> QED
  BY <1>1, FleetCorrect, PTL

\* A set all of whose members are equal has at most one.
LEMMA AtMostOne ==
  ASSUME NEW S, \A x, y \in S : x = y
  PROVE  Cardinality(S) <= 1
<1>1. CASE S = {}
  BY <1>1, FS_EmptySet, SMTT(30)
<1>2. CASE S # {}
  <2>1. PICK x : S = {x}
    BY <1>2, SMTT(30)
  <2> QED
    BY <2>1, FS_Singleton
<1> QED
  BY <1>1, <1>2, Zenon

\* persist_fleet_mutation's receipt makes every request id take effect once, whichever
\* handlers carry it and for whatever operations, and no change escapes the audit.
THEOREM RequestsTakeEffectOnce == Spec => []AuditedOnce
<1>1. ASSUME FleetInv PROVE OneEffectPerRequest
  <2> SUFFICES ASSUME NEW q \in RequestIds
               PROVE  /\ Cardinality(answers[q]) <= 1
                      /\ Cardinality({i \in DOMAIN audit : audit[i].request = q}) <= 1
    BY Zenon DEF OneEffectPerRequest
  <2>1. \A x, y \in answers[q] : x = y
    BY <1>1 DEF FleetInv, StoreInv, AuditInv
  <2>2. \A x, y \in {i \in DOMAIN audit : audit[i].request = q} : x = y
    BY <1>1, Zenon DEF FleetInv, StoreInv, AuditInv
  <2> QED
    BY <2>1, <2>2, AtMostOne, Zenon
<1>2. FleetInv => AuditedOnce
  BY <1>1, Zenon DEF FleetInv, StoreInv, AuditedOnce
<1> QED
  BY <1>2, FleetCorrect, PTL

\* No role is granted without authority: authorize_fleet and require_fleet_role_dominance
\* read the bindings one by one while others change them, and still what they let through
\* was covered by a role in force since the call began, or granted during it.
THEOREM AuthorityIsDelegated == Spec => []GrantsComeFromAuthority
<1>1. FleetInv => GrantsComeFromAuthority
  BY Zenon DEF FleetInv, GrantInv
<1> QED
  BY <1>1, FleetCorrect, PTL

\* What is archived stays as it is: the update operations refuse it and archiving it again
\* writes the same record.
THEOREM ArchivedStays == Spec => ArchivedIsFinal
<1>1. FleetInv /\ [Next]_vars => Archived
  BY FleetNext, Zenon
<1>2. FleetInv /\ [Next]_vars =>
        [\A kind \in Kinds : \A x \in DOMAIN Stored(kind) :
           ~Stored(kind)[x].active => Stored(kind)'[x] = Stored(kind)[x]]_vars
  BY <1>1, Zenon DEF Archived
<1> QED
  BY <1>2, FleetCorrect, PTL DEF Spec, ArchivedIsFinal
=============================================================================
