---------------------------- MODULE AccessControl ----------------------------
(*****************************************************************************)
(* Who may use a knowledge base: rows of knowledge bases, organisations,     *)
(* members and shares, the requests that create, read, change and delete a   *)
(* knowledge base, list those of a user, and settle the scope of a question. *)
(* Every SQL statement is a step: a request checks a role in one statement   *)
(* and acts in another.  A role is its rank: 1 viewer, 2 editor, 3 admin, 0  *)
(* none.  What a deletion removes besides the row belongs to other modules.  *)
(*****************************************************************************)
EXTENDS Integers, Sequences, FiniteSets, FiniteSetsExt, SequencesExt, Picking

CONSTANTS
  Callers, KnowledgeBases, Orgs,
  Users,         \* records [tenant, user]
  UserOf,        \* the user whose token a client sends
  Questions,     \* the lists of ids that questions name, BlankId among them
  BlankId,       \* an id of spaces
  PageSize,
  DefaultRole,   \* the role a row is given when none is named
  Rows,          \* the rows there are at first: [kbs, members, shares]
  MaxRequests, MaxGrants, MaxFailures  \* bounds

VARIABLES
  kbs,        \* the rows, in order of creation: [id, tenant, name, deleted]
  members,    \* rows [org, user, role]; one for an organisation and a user
  shares,     \* rows [kb, org, permission]; one for a knowledge base and an organisation
  caller,
  witnessed,  \* what was true of each knowledge base for a client since its request began
  requests, grants, failures

IsRow(kb) ==
  kb \in [id : KnowledgeBases, tenant : {kb.tenant}, name : {kb.name}, deleted : BOOLEAN]

Roles == 1..3

(* The tables as the schema keeps them: ids are a primary key, and a member  *)
(* and a share name what exists.                                             *)
ASSUME AccessAssumption ==
  /\ IsFiniteSet(KnowledgeBases)
  /\ \A question \in Questions : question \in Seq(KnowledgeBases \union {BlankId})
  /\ DefaultRole \in Roles
  /\ Rows.kbs \in Seq(ToSet(Rows.kbs))
  /\ \A n \in DOMAIN Rows.kbs : IsRow(Rows.kbs[n])
  /\ \A m, n \in DOMAIN Rows.kbs : Rows.kbs[m].id = Rows.kbs[n].id => m = n
  /\ \A m \in Rows.members : m.org \in Orgs /\ m.user \in Users /\ m.role \in Roles
  /\ \A s \in Rows.shares : s.org \in Orgs /\ s.kb \in KnowledgeBases /\ s.permission \in Roles

accessVars == <<kbs, members, shares, caller, witnessed, requests, grants, failures>>

Idle == [at |-> "idle", kind |-> "", ids |-> <<>>, scope |-> {}, total |-> 0, result |-> ""]

Live == {kb \in ToSet(kbs) : ~kb.deleted}

GetByID(id) == {kb \in Live : kb.id = id}

Allows(role, required) == role >= required

(* The greater of the two roles. *)
GreaterRole(a, b) == IF a <= b THEN b ELSE a

MinAccessRole(a, b) == IF a <= b THEN a ELSE b

\* The share and the membership that meet in an organisation.
JoinOn(u, id) ==
  {j \in shares \X members : j[1].org = j[2].org /\ j[1].kb = id /\ j[2].user = u}

GetKnowledgeBaseRole(u, id) ==
  Max({0} \union {MinAccessRole(j[1].permission, j[2].role) : j \in JoinOn(u, id)})

\* Where the rows are that a user may use.
ListAccessible(u) ==
  {n \in DOMAIN kbs : ~kbs[n].deleted /\ (kbs[n].tenant = u.tenant \/ JoinOn(u, kbs[n].id) # {})}

\* The newest first, and one page of them.
PageOf(at, page) == {n \in at : Cardinality({m \in at : m > n}) \div PageSize = page - 1}

Ids(at) == {kbs[n].id : n \in at}

---------------------------------------------------------------------------
(* What the rows give a user, stated without the queries: the greatest role *)
(* that some organisation gives as member and has been granted as share.    *)
Granted(u, k) ==
  IF \E kb \in ToSet(kbs) : kb.id = k /\ kb.tenant = u.tenant
  THEN 3
  ELSE Max({r \in 0..3 : r = 0 \/ \E o \in Orgs :
             /\ \E s \in shares : s.kb = k /\ s.org = o /\ s.permission >= r
             /\ \E m \in members : m.user = u /\ m.org = o /\ m.role >= r})

Nothing == [live |-> FALSE, dead |-> FALSE, most |-> 0, least |-> 3]

Add(seen, live, role) ==
  [live |-> seen.live \/ live, dead |-> seen.dead \/ ~live,
   most |-> IF role > seen.most THEN role ELSE seen.most,
   least |-> IF role < seen.least THEN role ELSE seen.least]

\* Every step adds what it leaves behind to what the requests under way have seen.
Remember ==
  witnessed' = [c \in Callers |->
    IF caller'[c].at = "idle"
    THEN [k \in KnowledgeBases |-> Nothing]
    ELSE [k \in KnowledgeBases |-> Add(witnessed[c][k], GetByID(k)' # {}, Granted(UserOf[c], k)')]]

---------------------------------------------------------------------------
AccessInit ==
  /\ kbs = Rows.kbs /\ members = Rows.members /\ shares = Rows.shares
  /\ caller = [c \in Callers |-> Idle]
  /\ witnessed = [c \in Callers |-> [k \in KnowledgeBases |-> Nothing]]
  /\ requests = 0 /\ grants = 0 /\ failures = 0

Set(c, rec) == caller' = [caller EXCEPT ![c] = rec]

End(c, result) == Set(c, [caller[c] EXCEPT !.at = "end", !.result = result])

\* A statement that fails, or not.
Query(fault) ==
  /\ fault => failures < MaxFailures
  /\ failures' = failures + (IF fault THEN 1 ELSE 0)

BeginRequest(c, kind, ids, at) ==
  /\ caller[c].at = "idle" /\ requests < MaxRequests
  /\ requests' = requests + 1
  /\ Set(c, [Idle EXCEPT !.at = at, !.kind = kind, !.ids = ids])
  /\ UNCHANGED <<kbs, members, shares, grants, failures>>

\* ids are trimmed, the empty ones dropped and each kept once.
AskScope(c) ==
  \E question \in Questions :
    LET ids == Pick(question, {n \in Firsts(question) : question[n] # BlankId})
    IN  IF ids = <<>> THEN BeginRequest(c, "all", ids, "list") ELSE BeginRequest(c, "scope", ids, "find")

AccessRequest(c) ==
  \/ AskScope(c)
  \/ \E k \in KnowledgeBases, kind \in {"get", "update", "delete"} : BeginRequest(c, kind, <<k>>, "find")
  \/ \E page \in 1..2 : BeginRequest(c, "page", <<page>>, "list")

CreateKnowledgeBase(c) ==
  \E k \in KnowledgeBases \ Ids(DOMAIN kbs) :
    /\ caller[c].at = "idle" /\ requests < MaxRequests
    /\ requests' = requests + 1
    /\ kbs' = Append(kbs, [id |-> k, tenant |-> UserOf[c].tenant, name |-> c, deleted |-> FALSE])
    /\ UNCHANGED <<members, shares, caller, grants, failures>>

Required(kind) == CASE kind = "update" -> 2 [] kind = "delete" -> 3 [] OTHER -> 1

\* The row of the knowledge base; without it 404.
Find(c) ==
  \E fault \in BOOLEAN :
    /\ caller[c].at = "find"
    /\ Query(fault)
    /\ \/ fault /\ End(c, "error")
       \/ ~fault /\ GetByID(Head(caller[c].ids)) = {} /\ End(c, "missing")
       \/ ~fault /\ GetByID(Head(caller[c].ids)) # {} /\ Set(c, [caller[c] EXCEPT !.at = "owner"])
    /\ UNCHANGED <<kbs, members, shares, requests, grants>>

\* The next id of a question, or the request's own statement.
Admit(c) ==
  LET me == caller[c]
      more == me.kind = "scope" /\ Len(me.ids) > 1
  IN  IF me.kind \in {"update", "delete"}
      THEN Set(c, [me EXCEPT !.at = "act"])
      ELSE Set(c, [me EXCEPT !.ids = Tail(@), !.scope = @ \union {Head(me.ids)},
                             !.at = IF more THEN "find" ELSE "end",
                             !.result = IF more THEN "" ELSE "ok"])

\* The tenant that owns it is its admin.
Owner(c) ==
  \E fault \in BOOLEAN :
    LET row == GetByID(Head(caller[c].ids))
    IN  /\ caller[c].at = "owner"
        /\ Query(fault)
        /\ \/ fault /\ End(c, "error")
           \/ ~fault /\ row = {} /\ End(c, "forbidden")
           \/ ~fault /\ \E kb \in row : kb.tenant = UserOf[c].tenant /\ Admit(c)
           \/ /\ ~fault
              /\ \E kb \in row : kb.tenant # UserOf[c].tenant
              /\ Set(c, [caller[c] EXCEPT !.at = "role"])
        /\ UNCHANGED <<kbs, members, shares, requests, grants>>

Role(c) ==
  \E fault \in BOOLEAN :
    LET role == GetKnowledgeBaseRole(UserOf[c], Head(caller[c].ids))
        enough == Allows(role, Required(caller[c].kind))
    IN  /\ caller[c].at = "role"
        /\ Query(fault)
        /\ \/ fault /\ End(c, "error")
           \/ ~fault /\ ~enough /\ End(c, "forbidden")
           \/ ~fault /\ enough /\ Admit(c)
        /\ UNCHANGED <<kbs, members, shares, requests, grants>>

\* A deleted row is passed over, and that is no error.
Rename(id, name) ==
  [n \in DOMAIN kbs |-> IF kbs[n].id = id /\ ~kbs[n].deleted THEN [kbs[n] EXCEPT !.name = name] ELSE kbs[n]]

Delete(id) ==
  [n \in DOMAIN kbs |-> IF kbs[n].id = id THEN [kbs[n] EXCEPT !.deleted = TRUE] ELSE kbs[n]]

Act(c) ==
  \E fault \in BOOLEAN :
    LET me == caller[c]
        id == Head(me.ids)
    IN  /\ me.at = "act"
        /\ Query(fault)
        /\ kbs' = IF fault THEN kbs ELSE IF me.kind = "delete" THEN Delete(id) ELSE Rename(id, c)
        /\ Set(c, [me EXCEPT !.at = "end", !.scope = {id}, !.result = IF fault THEN "error" ELSE "ok"])
        /\ UNCHANGED <<members, shares, requests, grants>>

\* A question without ids takes all of the user's; a list takes a page of them.
List(c) ==
  \E fault \in BOOLEAN :
    LET me == caller[c]
        all == ListAccessible(UserOf[c])
    IN  /\ me.at = "list"
        /\ Query(fault)
        /\ \/ fault /\ End(c, "error")
           \/ /\ ~fault /\ me.kind = "all"
              /\ Set(c, [me EXCEPT !.at = "end", !.scope = Ids(all), !.result = "ok"])
           \/ /\ ~fault /\ me.kind = "page"
              /\ Set(c, [me EXCEPT !.at = "count", !.scope = Ids(PageOf(all, Head(me.ids)))])
        /\ UNCHANGED <<kbs, members, shares, requests, grants>>

\* The error of the count is dropped: the total is then 0.
CountAccessible(c) ==
  \E fault \in BOOLEAN :
    /\ caller[c].at = "count"
    /\ Query(fault)
    /\ Set(c, [caller[c] EXCEPT !.at = "end", !.result = "ok",
               !.total = IF fault THEN 0 ELSE Cardinality(Ids(ListAccessible(UserOf[c])))])
    /\ UNCHANGED <<kbs, members, shares, requests, grants>>

Answered(c) ==
  /\ caller[c].at = "end"
  /\ Set(c, Idle)
  /\ UNCHANGED <<kbs, members, shares, requests, grants, failures>>

---------------------------------------------------------------------------
\* A row with the same key is overwritten; 0 is a role left empty.
AddOrganizationMember ==
  \E o \in Orgs, u \in Users, role \in {0} \union Roles :
    /\ grants < MaxGrants /\ grants' = grants + 1
    /\ members' = {m \in members : m.org # o \/ m.user # u}
                    \union {[org |-> o, user |-> u, role |-> IF role = 0 THEN DefaultRole ELSE role]}
    /\ UNCHANGED <<kbs, shares, caller, requests, failures>>

ShareKnowledgeBase ==
  \E o \in Orgs, k \in Ids(DOMAIN kbs), role \in {0} \union Roles :
    /\ grants < MaxGrants /\ grants' = grants + 1
    /\ shares' = {s \in shares : s.org # o \/ s.kb # k}
                   \union {[org |-> o, kb |-> k, permission |-> IF role = 0 THEN DefaultRole ELSE role]}
    /\ UNCHANGED <<kbs, members, caller, requests, failures>>

AccessOver ==
  /\ requests = MaxRequests /\ grants = MaxGrants /\ \A c \in Callers : caller[c].at = "idle"
  /\ UNCHANGED <<kbs, members, shares, caller, requests, grants, failures>>

AccessNext ==
  /\ \/ \E c \in Callers :
          \/ AccessRequest(c) \/ CreateKnowledgeBase(c) \/ Find(c) \/ Owner(c) \/ Role(c) \/ Act(c)
          \/ List(c) \/ CountAccessible(c) \/ Answered(c)
     \/ AddOrganizationMember \/ ShareKnowledgeBase \/ AccessOver
  /\ Remember

AccessSpec == AccessInit /\ [][AccessNext]_accessVars

---------------------------------------------------------------------------
TypeOK ==
  /\ \A n \in DOMAIN kbs : kbs[n].id \in KnowledgeBases /\ kbs[n].deleted \in BOOLEAN
  /\ \A m \in members : m.org \in Orgs /\ m.user \in Users /\ m.role \in Roles
  /\ \A s \in shares : s.org \in Orgs /\ s.kb \in KnowledgeBases /\ s.permission \in Roles

Could(seen, required) == seen.live /\ seen.most >= required
CouldNot(seen, required) == seen.dead \/ seen.least < required

(* Whatever changes while a request is checked (a role, a share, the row     *)
(* itself), its verdict is one that the rows gave at some moment of the      *)
(* request: it was admitted to what its user could use, was turned away from *)
(* something its user could not, and the ids it was given as all of its      *)
(* user's leave out none that stayed there throughout (api.go:1028, 1055,    *)
(* 1246; access_control.go:58, 102).                                         *)
VerdictHeld ==
  \A c \in Callers : caller[c].at = "end" =>
    LET me == caller[c]
        required == Required(me.kind)
        refused == me.result \in {"missing", "forbidden"}
    IN  /\ \A k \in me.scope : Could(witnessed[c][k], required)
        /\ refused => CouldNot(witnessed[c][Head(me.ids)], required)
        /\ me.kind = "all" /\ me.result = "ok" =>
             \A k \in KnowledgeBases \ me.scope : CouldNot(witnessed[c][k], required)
        /\ me.kind = "page" /\ me.total > 0 =>
             /\ me.total <= Cardinality({k \in KnowledgeBases : Could(witnessed[c][k], 1)})
             /\ me.total >= Cardinality({k \in KnowledgeBases : ~CouldNot(witnessed[c][k], 1)})
=============================================================================
