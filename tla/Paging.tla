------------------------------- MODULE Paging -------------------------------
(***************************************************************************)
(* Listings by page: the list and search handlers of the RPC services and  *)
(* the store functions under them.  A page is the records whose identifier *)
(* is above the cursor of the page before; the store finds them with SCAN, *)
(* in no order and while others are written, reads them one by one and     *)
(* keeps those that match the request.  A client asks for page after page  *)
(* until there is no next cursor, while records are created and change.    *)
(* Identifiers are random, so creation order says nothing about theirs.    *)
(***************************************************************************)
EXTENDS Integers, Sequences, FiniteSets

CONSTANTS
  Count,        \* identifiers are 1..Count
  PageSize,
  Candidates,   \* MAX_SEARCH_CANDIDATES
  Listings      \* what a client lists and which account does not validate, if any

VARIABLES
  created,      \* records in the order of their creation
  hidden,       \* records the request does not match: archived, revoked, of another status
  client        \* the listing under way

pagingVars == <<created, hidden, client>>

Ids == 1..Count
Stored == {created[i] : i \in DOMAIN created}

\* The elements of a set of identifiers in ascending order.
Ascending(S) ==
  [i \in 1..Cardinality(S) |-> CHOOSE x \in S : Cardinality({y \in S : y <= x}) = i]

Least(S, n) == {x \in S : Cardinality({y \in S : y <= x}) <= n}
ById(s) == Ascending({s[i] : i \in DOMAIN s})

PagingInit ==
  /\ \E n \in 0..Count : created \in {s \in [1..n -> Ids] : Cardinality({s[i] : i \in 1..n}) = n}
  /\ hidden \in SUBSET Ids
  /\ \E l \in Listings :
       client = [kind |-> l.kind, broken |-> l.broken, at |-> "page", after |-> 0, seen |-> {},
                 listed |-> <<>>, lasting |-> (Stored \ hidden) \ l.broken]

-----------------------------------------------------------------------------
(***************************************************************************)
(* Other requests.                                                         *)
(***************************************************************************)
Create(id) ==
  /\ id \notin Stored
  /\ created' = Append(created, id)
  /\ UNCHANGED <<hidden, client>>

\* A record is archived, revoked or disabled, or comes back.
Change(id) ==
  /\ id \in Stored
  /\ hidden' = IF id \in hidden THEN hidden \ {id} ELSE hidden \cup {id}
  /\ client' = [client EXCEPT !.lasting = @ \ {id}]
  /\ UNCHANGED created

-----------------------------------------------------------------------------
(***************************************************************************)
(* A page.                                                                 *)
(***************************************************************************)

\* The SCAN begins: what is stored now will be found.
BeginScan ==
  /\ client.at = "page"
  /\ client' = [client EXCEPT !.at = "scan", !.seen = Stored]
  /\ UNCHANGED <<created, hidden>>

\* record_ids: what was there all the time, and any of what was created meanwhile.
record_ids == {found \in SUBSET Stored : client.seen \subseteq found}

\* The client takes a page and the cursor for the next, 0 if there is none.
Answer(page, next) ==
  /\ client' = [client EXCEPT !.listed = @ \o page, !.after = next, !.seen = {},
                              !.at = IF next = 0 THEN "done" ELSE "page"]
  /\ UNCHANGED <<created, hidden>>

next_page_token(records) == IF Len(records) > PageSize THEN records[PageSize] ELSE 0

truncate(records) == SubSeq(records, 1, IF Len(records) > PageSize THEN PageSize ELSE Len(records))

Listing(kind) == client.at = "scan" /\ client.kind = kind
Above(id) == id > client.after
Matches(id) == id \notin hidden

\* Stores that return their records by identifier, and those that do so by age.
InIdOrder(found) == Ascending(found)
InOrderOfCreation(found) == SelectSeq(created, LAMBDA id : id \in found)

Retain(records) == SelectSeq(records, LAMBDA id : Above(id) /\ Matches(id))
RetainAbove(records) == SelectSeq(records, Above)

Page(records) == Answer(truncate(records), next_page_token(records))

list_operators ==
  Listing("operators") /\ \E found \in record_ids : Page(Retain(InIdOrder(found)))

list_account_invitations ==
  Listing("invitations") /\ \E found \in record_ids : Page(ById(RetainAbove(InOrderOfCreation(found))))

list_service_accounts ==
  Listing("service accounts") /\ \E found \in record_ids : Page(Retain(InIdOrder(found)))

list_webhooks == Listing("webhooks") /\ \E found \in record_ids : Page(Retain(InIdOrder(found)))

list_deliveries ==
  Listing("deliveries") /\ \E found \in record_ids : Page(ById(Retain(InOrderOfCreation(found))))

list_organizations ==
  Listing("organizations") /\ \E found \in record_ids : Page(Retain(InIdOrder(found)))

list_projects == Listing("projects") /\ \E found \in record_ids : Page(Retain(InIdOrder(found)))

list_environments ==
  Listing("environments") /\ \E found \in record_ids : Page(Retain(InIdOrder(found)))

list_connections ==
  Listing("connections") /\ \E found \in record_ids : Page(Retain(InIdOrder(found)))

list_role_bindings ==
  Listing("role bindings") /\ \E found \in record_ids : Page(Retain(InIdOrder(found)))

list_audit_events ==
  Listing("audit") /\ \E found \in record_ids : Page(ById(Retain(InOrderOfCreation(found))))

\* operational_snapshot: its pages of service accounts and webhooks.
operational_snapshot ==
  Listing("snapshot") /\ \E found \in record_ids : Page(RetainAbove(InIdOrder(found)))

-----------------------------------------------------------------------------
(***************************************************************************)
(* Accounts, of which there may be too many to keep.                       *)
(***************************************************************************)

\* accumulate_candidates: the least identifiers above the cursor, in whatever order SCAN
\* returns them.
accumulate_candidates(found, limit) == Least({id \in found : Above(id)}, limit)

candidate_ids(limit) == {accumulate_candidates(found, limit) : found \in record_ids}

\* user: an account that does not validate is skipped.
Readable(ids) == ids \ client.broken

list_users ==
  Listing("users") /\ \E ids \in candidate_ids(PageSize + 1) : Page(Ascending(Readable(ids)))

\* A page that ran out of candidates says that there are no more.
BugSearchPageCursor(matched, examined) ==
  IF Cardinality(matched) > PageSize THEN Ascending(matched)[PageSize] ELSE 0

search_page_cursor(matched, examined) ==
  IF Cardinality(matched) > PageSize THEN Ascending(matched)[PageSize]
  ELSE IF Cardinality(examined) = Candidates THEN Ascending(examined)[Candidates] ELSE 0

\* search_users without a direct lookup: candidates in order, until a page and one more match.
search_users ==
  /\ Listing("search")
  /\ \E ids \in candidate_ids(Candidates) :
       LET hits     == Least({id \in Readable(ids) : Matches(id)}, PageSize + 1)
           examined == IF Cardinality(hits) <= PageSize THEN ids
                       ELSE {id \in ids : \E hit \in hits : id <= hit}
       IN  Answer(truncate(Ascending(hits)), search_page_cursor(hits, examined))

-----------------------------------------------------------------------------
ListPage ==
  \/ list_operators \/ list_account_invitations \/ list_service_accounts \/ list_webhooks
  \/ list_deliveries \/ list_organizations \/ list_projects \/ list_environments
  \/ list_connections \/ list_role_bindings \/ list_audit_events \/ operational_snapshot
  \/ list_users \/ search_users

PagingNext == BeginScan \/ ListPage \/ \E id \in Ids : Create(id) \/ Change(id)

PagingSpec == PagingInit /\ [][PagingNext]_pagingVars

-----------------------------------------------------------------------------
\* A listing that ended has every record that was there and matched from its first page to
\* its last, whatever was created or changed in between.
PagingSkipsNothing ==
  client.at = "done" => client.lasting \subseteq {client.listed[i] : i \in DOMAIN client.listed}

\* No record appears twice, and each page goes on above the one before.
PagingRepeatsNothing ==
  \A i, j \in DOMAIN client.listed : i < j => client.listed[i] < client.listed[j]

\* A finished listing is exact: it has what was there all along, and nothing twice.
PagingIsExact == PagingSkipsNothing /\ PagingRepeatsNothing
=============================================================================
