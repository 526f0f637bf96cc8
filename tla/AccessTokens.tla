---------------------------- MODULE AccessTokens ----------------------------
(***************************************************************************)
(* Access tokens and role permissions, crates/common/src/auth: what a user *)
(* may do is worked out from the directory, kept in a cache of the node    *)
(* and believed for as long as its revision is the one of the shared       *)
(* counter.  Whoever changes the directory increments, after its write,    *)
(* the counters of all the principals whose tokens it affects              *)
(* (increment_token_revision over ChangedPrincipals).                      *)
(*                                                                         *)
(* What a principal holds is a set of facts <<kind, principal, version>>;  *)
(* a change of a fact is a new version of it.                              *)
(***************************************************************************)
EXTENDS Integers, FiniteSets, Sequences

CONSTANTS
  Users, Roles, Groups, Tenants,
  Admin,        \* the role among Roles that is ROLE_ADMIN, or NoOne
  NoOne,
  TenantOf,     \* user -> its tenant or NoOne
  FirstRoles,   \* pairs <<principal, role>> at the start
  FirstGroups,  \* pairs <<user, group or user>> at the start
  Requests,     \* requests for a token under way at the same time, on one node
  Ops,          \* the changes made to the directory
  OneRole,      \* TRUE: nobody is given a second role
  ByLogin,      \* TRUE: a request may come with the principal of a login
  Expires,      \* TRUE: the counters live for 30 days after an increment
  MaxChanges,   \* bound: changes made
  MaxErrors     \* bound: errors of the stores

People == Users \cup Roles \cup Groups \cup Tenants
Stored == Roles \ {Admin}              \* roles kept in the directory

Shape ==
  /\ TenantOf \in [Users -> Tenants \cup {NoOne}]
  /\ FirstRoles \subseteq (Users \cup Stored \cup Tenants) \X Roles
  /\ FirstGroups \subseteq Users \X (Groups \cup Users)
  /\ MaxChanges \in Nat /\ MaxErrors \in Nat

VARIABLES
  perm,     \* principal -> version of its own permissions
  quota,    \* tenant -> version of its quota
  acl,      \* user or group -> version of what is shared with it
  roleOf,   \* <<principal, role>>: DirectoryClass::MemberOf of type Role
  groupOf,  \* <<user, group or user>>: the other memberships
  rev,      \* KV_TOKEN_REVISION, shared by the nodes
  tokens,   \* user -> cached token or Missing: cache.access_tokens
  roles,    \* role -> cached permissions or Missing: cache.permissions
  guard,    \* user -> the request that holds the guard of its cache entry
  rq,       \* request -> its state
  wr,       \* the increments of the change made last
  changes,  \* changes made so far
  errors,   \* errors of the stores so far
  lost      \* history: those of whom an increment failed or was left out

dir == <<perm, quota, acl, roleOf, groupOf>>
vars == <<dir, rev, tokens, roles, guard, rq, wr, changes, errors, lost>>

Missing == [facts |-> {}, revision |-> -1]
Unknown == -2                          \* u64::MAX, the revision that could not be read
Free == [pc |-> "idle"]
Done == [pc |-> "done"]

RolesOf(p) == {r \in Roles : <<p, r>> \in roleOf}
Holders(r) == {p \in People : <<p, r>> \in roleOf}

-----------------------------------------------------------------------------
(* What a token ought to hold.                                             *)

\* Those that hold the role, in any number of steps.
Below(r) ==
  LET down[n \in 0 .. Cardinality(Roles) + 1] ==
        IF n = 0 THEN Holders(r) ELSE down[n - 1] \cup UNION {Holders(x) : x \in down[n - 1]}
  IN down[Cardinality(Roles) + 1]

\* r and the roles above it
Above(r) ==
  LET up[n \in 0 .. Cardinality(Roles)] ==
        IF n = 0 THEN {r} ELSE up[n - 1] \cup UNION {RolesOf(x) : x \in up[n - 1]}
  IN up[Cardinality(Roles)]

RoleFacts(r) == {<<"perm", x, perm[x]>> : x \in Above(r)}

GroupsOf(u) == {g \in Users \cup Groups : <<u, g>> \in groupOf}

Facts(u) ==
  {<<"perm", u, perm[u]>>}
  \cup UNION {RoleFacts(r) : r \in RolesOf(u)}
  \cup {<<"group", g, 0>> : g \in GroupsOf(u)}
  \cup {<<"acl", g, acl[g]>> : g \in {u} \cup GroupsOf(u)}
  \cup IF TenantOf[u] = NoOne THEN {}
       ELSE {<<"quota", TenantOf[u], quota[TenantOf[u]]>>} \cup RoleFacts(TenantOf[u])

-----------------------------------------------------------------------------
(* The changes: ChangedPrincipals says whose revision is incremented, and  *)
(* whether that of their members is too.                                   *)

\* add_change
ByField(p, field) ==
  IF p \in Tenants /\ field = "quota" THEN {}
  ELSE {<<p, field = "perm" /\ p \in Roles \cup Tenants>>}

\* add_member_change of p in of
ByMember(p, of) ==
  CASE p \in Users /\ of \in Groups \cup Roles -> {<<p, FALSE>>}
    [] p \in Users /\ of \in Users -> {}
    [] p \in Tenants -> {<<p, TRUE>>} \cup (IF of = Admin THEN {} ELSE {<<of, FALSE>>})
    [] p \in Roles -> {<<p, TRUE>>} \cup (IF of = Admin THEN {} ELSE {<<of, TRUE>>})

Begin(changed) ==
  /\ wr.pc = "done"
  /\ changes < MaxChanges
  /\ changes' = changes + 1
  /\ wr' = [pc |-> "incr", todo |-> changed, ids |-> {c[1] : c \in changed},
            tenants |-> {}, stack |-> <<{}>>, fetched |-> {}]
  /\ UNCHANGED <<rev, tokens, roles, guard, rq, errors, lost>>

ChangePerm(p) ==
  /\ "perm" \in Ops
  /\ Begin(ByField(p, "perm"))
  /\ perm' = [perm EXCEPT ![p] = @ + 1]
  /\ UNCHANGED <<quota, acl, roleOf, groupOf>>

ChangeQuota(t) ==
  /\ "quota" \in Ops
  /\ Begin(ByField(t, "quota"))
  /\ quota' = [quota EXCEPT ![t] = @ + 1]
  /\ UNCHANGED <<perm, acl, roleOf, groupOf>>

\* refresh_acls and SETACL: the grantee's revision, whoever it is
ChangeAcl(g) ==
  /\ "acl" \in Ops
  /\ Begin(ByField(g, "acl"))
  /\ acl' = [acl EXCEPT ![g] = @ + 1]
  /\ UNCHANGED <<perm, quota, roleOf, groupOf>>

ChangeRole(p, r) ==
  /\ "role" \in Ops
  /\ Begin(ByMember(p, r))
  /\ \/ /\ <<p, r>> \in roleOf
        /\ roleOf' = roleOf \ {<<p, r>>}
     \/ /\ <<p, r>> \notin roleOf
        /\ OneRole => RolesOf(p) = {}
        /\ roleOf' = roleOf \cup {<<p, r>>}
  /\ UNCHANGED <<perm, quota, acl, groupOf>>

ChangeGroup(u, g) ==
  /\ \/ "group" \in Ops /\ g \in Groups
     \/ "user" \in Ops /\ g \in Users \ {u}
  /\ Begin(ByMember(u, g))
  /\ groupOf' = IF <<u, g>> \in groupOf THEN groupOf \ {<<u, g>>} ELSE groupOf \cup {<<u, g>>}
  /\ UNCHANGED <<perm, quota, acl, roleOf>>

-----------------------------------------------------------------------------
(* increment_token_revision                                                *)

\* increment_revision of p, with those it leaves out when their list cannot be had:
\* an error of the store is logged and nothing more.
Increments(p, ok, out) ==
  /\ rev' = IF ok THEN [rev EXCEPT ![p] = @ + 1] ELSE rev
  /\ lost' = (IF ok THEN lost ELSE lost \cup {p}) \cup out

\* Each that is FALSE is an error of the store.
Errs(oks) ==
  /\ errors' = errors + Len(SelectSeq(oks, LAMBDA ok : ~ok))
  /\ errors' <= MaxErrors

\* The changed principals, in the order of a hash map, and the list of the
\* principals of a tenant (list_principals).
IncrChanged(c, ok, listed) ==
  LET more == IF c[2] /\ c[1] \in Tenants
              THEN {u \in Users : TenantOf[u] = c[1]} \ wr.ids ELSE {}
  IN /\ wr.pc = "incr"
     /\ c \in wr.todo
     /\ ~listed => more # {}
     /\ Increments(c[1], ok, IF listed THEN {} ELSE more) /\ Errs(<<ok, listed>>)
     /\ wr' = [wr EXCEPT
          !.todo = @ \ {c},
          !.tenants = IF listed THEN @ \cup more ELSE @,
          !.stack = IF c[2] /\ c[1] \notin Tenants THEN <<@[1] \cup {c[1]}>> ELSE @]
     /\ UNCHANGED <<dir, tokens, roles, guard, rq, changes>>

\* The users of a changed tenant.
IncrTenant(u, ok) ==
  /\ wr.pc = "incr"
  /\ u \in wr.tenants
  /\ Increments(u, ok, {}) /\ Errs(<<ok>>)
  /\ wr' = [wr EXCEPT !.tenants = @ \ {u}]
  /\ UNCHANGED <<dir, tokens, roles, guard, rq, changes>>

Push(w, id, more) ==
  [w EXCEPT !.stack = <<more, @[1] \ {id}>> \o Tail(@), !.fetched = @ \cup {id}]

\* The members of the changed ones, depth first; a principal is visited once.
\* Where get_members fails the members are left out.
IncrNested(id, ok, listed) ==
  /\ wr.pc = "incr" /\ wr.todo = {} /\ wr.tenants = {}
  /\ id \in wr.stack[1]
  /\ IF id \in wr.fetched
     THEN /\ ok /\ listed /\ wr' = [wr EXCEPT !.stack[1] = @ \ {id}]
          /\ UNCHANGED <<rev, lost, errors>>
     ELSE /\ IF id \in wr.ids
             THEN ok /\ UNCHANGED rev /\ lost' = IF listed THEN lost ELSE lost \cup Below(id)
             ELSE Increments(id, ok, IF listed THEN {} ELSE Below(id))
          /\ Errs(<<ok, listed>>)
          /\ wr' = Push(wr, id, IF listed THEN Holders(id) ELSE {})
  /\ UNCHANGED <<dir, tokens, roles, guard, rq, changes>>

IncrUp ==
  /\ wr.pc = "incr" /\ wr.todo = {} /\ wr.tenants = {}
  /\ wr.stack[1] = {}
  /\ wr' = IF Len(wr.stack) = 1 THEN Done ELSE [wr EXCEPT !.stack = Tail(@)]
  /\ UNCHANGED <<dir, rev, tokens, roles, guard, rq, changes, errors, lost>>

\* 30 days without a change: the counters are gone and read as zero.
Expire ==
  /\ Expires
  /\ wr.pc = "done"
  /\ \A q \in Requests : rq[q] = Free
  /\ \E p \in People : rev[p] # 0
  /\ rev' = [p \in People |-> 0]
  /\ UNCHANGED <<dir, tokens, roles, guard, rq, wr, changes, errors, lost>>

-----------------------------------------------------------------------------
(* get_access_token and get_role_permissions                               *)

\* What a query for the principal returns: its permissions and memberships.
Principal(u) == [user |-> u, facts |-> {<<"perm", u, perm[u]>>}
                                        \cup {<<"group", g, 0>> : g \in GroupsOf(u)},
                 groups |-> GroupsOf(u),
                 above |-> RolesOf(u) \cup ({TenantOf[u]} \ {NoOne})]

\* A login has read the principal to check its secret, before the revision.
Login(q, u) ==
  /\ ByLogin
  /\ rq[q] = Free
  /\ rq' = [rq EXCEPT ![q] = [pc |-> "start", user |-> u, p |-> <<Principal(u)>>]]
  /\ UNCHANGED <<dir, rev, tokens, roles, guard, wr, changes, errors, lost>>

Ask(q, u) ==
  /\ rq[q] = Free
  /\ rq' = [rq EXCEPT ![q] = [pc |-> "start", user |-> u, p |-> <<>>]]
  /\ UNCHANGED <<dir, rev, tokens, roles, guard, wr, changes, errors, lost>>

\* fetch_token_revision: what cannot be read is no revision.
Revision(p, ok) == IF ok THEN rev[p] ELSE Unknown

FetchRevision(q, ok) ==
  /\ rq[q].pc = "start"
  /\ Errs(<<ok>>)
  /\ rq' = [rq EXCEPT ![q] = [pc |-> "cache", user |-> rq[q].user, p |-> rq[q].p,
                              revision |-> Revision(rq[q].user, ok)]]
  /\ UNCHANGED <<dir, rev, tokens, roles, guard, wr, changes, lost>>

\* A cached entry is believed when its revision is the one that was read.
Believed(entry, revision) == entry # Missing /\ entry.revision = revision /\ revision # Unknown

\* A token of this revision is returned; an entry that is missing is guarded
\* until the one that found it missing has filled it.
Lookup(q) ==
  LET r == rq[q] IN
  /\ r.pc = "cache"
  /\ guard[r.user] = NoOne
  /\ \/ /\ Believed(tokens[r.user], r.revision)
        /\ rq' = [rq EXCEPT ![q] = Free]
        /\ UNCHANGED guard
     \/ /\ tokens[r.user] # Missing /\ ~Believed(tokens[r.user], r.revision)
        /\ rq' = [rq EXCEPT ![q].pc = "query"]
        /\ UNCHANGED guard
     \/ /\ tokens[r.user] = Missing
        /\ guard' = [guard EXCEPT ![r.user] = q]
        /\ rq' = [rq EXCEPT ![q].pc = "query"]
  /\ UNCHANGED <<dir, rev, tokens, roles, wr, changes, errors, lost>>

\* build_access_token: the principal, unless the login brought it
Query(q) ==
  LET r == rq[q]
      p == IF r.p = <<>> THEN Principal(r.user) ELSE r.p[1]
  IN /\ r.pc = "query"
     /\ rq' = [rq EXCEPT ![q] =
          [pc |-> "roles", user |-> r.user, revision |-> r.revision, facts |-> p.facts,
           groups |-> p.groups, left |-> p.above, top |-> NoOne]]
     /\ UNCHANGED <<dir, rev, tokens, roles, guard, wr, changes, errors, lost>>

\* get_role_permissions of the next role: its revision and its cached entry
AskRole(q, x, ok) ==
  LET r == rq[q]
      revision == Revision(x, ok)
      hit == Believed(roles[x], revision) IN
  /\ r.pc = "roles" /\ r.top = NoOne
  /\ x \in r.left
  /\ Errs(<<ok>>) /\ (x = Admin => ok)
  /\ rq' = [rq EXCEPT ![q] =
       IF x = Admin THEN [r EXCEPT !.left = @ \ {x}, !.facts = @ \cup {<<"perm", x, 0>>}]
       ELSE IF hit THEN [r EXCEPT !.left = @ \ {x}, !.facts = @ \cup roles[x].facts]
       ELSE [pc |-> "build", user |-> r.user, revision |-> r.revision, facts |-> r.facts,
             groups |-> r.groups, left |-> r.left \ {x}, top |-> x, rrev |-> revision,
             got |-> {}, stack |-> <<{x}>>, fetched |-> {}, now |-> NoOne, nrev |-> 0]]
  /\ UNCHANGED <<dir, rev, tokens, roles, guard, wr, changes, lost>>

\* build_role_permissions, a role of the list on top of the stack: taken from
\* the cache when its revision is current, else its principal is read next
VisitRole(q, x, ok) ==
  LET r == rq[q]
      revision == Revision(x, ok) IN
  /\ r.pc = "build" /\ r.now = NoOne
  /\ x \in r.stack[1]
  /\ Errs(<<ok>>) /\ (x = Admin \/ x \in r.fetched => ok)
  /\ rq' = [rq EXCEPT ![q] =
       IF x \in r.fetched THEN [r EXCEPT !.stack[1] = @ \ {x}]
       ELSE IF x = Admin
       THEN [r EXCEPT !.got = @ \cup {<<"perm", x, 0>>}, !.stack = <<{}>>]
       ELSE IF Believed(roles[x], revision)
       THEN [r EXCEPT !.got = @ \cup roles[x].facts, !.stack[1] = @ \ {x},
                      !.fetched = @ \cup {x}]
       ELSE [r EXCEPT !.now = x, !.nrev = revision, !.stack[1] = @ \ {x},
                      !.fetched = @ \cup {x}]]
  /\ UNCHANGED <<dir, rev, tokens, roles, guard, wr, changes, lost>>

\* The role's own permissions; its parents are next, and a role without
\* parents is cached.
ReadRole(q) ==
  LET r == rq[q]
      x == r.now
      own == {<<"perm", x, perm[x]>>} IN
  /\ r.pc = "build" /\ x # NoOne
  /\ rq' = [rq EXCEPT ![q] =
       [r EXCEPT !.now = NoOne, !.got = @ \cup own,
                 !.stack = IF RolesOf(x) = {} THEN @ ELSE <<RolesOf(x)>> \o @]]
  /\ roles' = IF RolesOf(x) = {}
              THEN [roles EXCEPT ![x] = [facts |-> own, revision |-> r.nrev]] ELSE roles
  /\ UNCHANGED <<dir, rev, tokens, guard, wr, changes, errors, lost>>

\* The list on top is done; after the last one the role is cached.
LeaveRole(q) ==
  LET r == rq[q] IN
  /\ r.pc = "build" /\ r.now = NoOne
  /\ r.stack[1] = {}
  /\ IF Len(r.stack) > 1
     THEN /\ rq' = [rq EXCEPT ![q].stack = Tail(@)]
          /\ UNCHANGED roles
     ELSE /\ roles' = [roles EXCEPT ![r.top] = [facts |-> r.got, revision |-> r.rrev]]
          /\ rq' = [rq EXCEPT ![q] =
               [pc |-> "roles", user |-> r.user, revision |-> r.revision,
                facts |-> r.facts \cup r.got, groups |-> r.groups, left |-> r.left,
                top |-> NoOne]]
  /\ UNCHANGED <<dir, rev, tokens, guard, wr, changes, errors, lost>>

\* The tenant's quota and what is shared with the user and its groups complete
\* the token, which is cached with the revision read first.
Finish(q) ==
  LET r == rq[q]
      t == TenantOf[r.user]
      more == {<<"acl", g, acl[g]>> : g \in {r.user} \cup r.groups}
              \cup IF t = NoOne THEN {} ELSE {<<"quota", t, quota[t]>>}
  IN /\ r.pc = "roles" /\ r.left = {}
     /\ tokens' = [tokens EXCEPT ![r.user] =
                     [facts |-> r.facts \cup more, revision |-> r.revision]]
     /\ guard' = [u \in Users |-> IF guard[u] = q THEN NoOne ELSE guard[u]]
     /\ rq' = [rq EXCEPT ![q] = Free]
     /\ UNCHANGED <<dir, rev, roles, wr, changes, errors, lost>>

\* The principal, a role or what completes the token cannot be read: the error
\* goes to the caller, and the guard is given back.
BuildFails(q) ==
  /\ rq[q].pc \in {"query", "roles", "build"}
  /\ Errs(<<FALSE>>)
  /\ guard' = [u \in Users |-> IF guard[u] = q THEN NoOne ELSE guard[u]]
  /\ rq' = [rq EXCEPT ![q] = Free]
  /\ UNCHANGED <<dir, rev, tokens, roles, wr, changes, lost>>

-----------------------------------------------------------------------------

Init ==
  /\ perm = [p \in People |-> 0]
  /\ quota = [t \in Tenants |-> 0]
  /\ acl = [g \in Users \cup Groups |-> 0]
  /\ roleOf = FirstRoles
  /\ groupOf = FirstGroups
  /\ rev = [p \in People |-> 0]
  /\ tokens = [u \in Users |-> Missing]
  /\ roles = [r \in Roles \cup Tenants |-> Missing]
  /\ guard = [u \in Users |-> NoOne]
  /\ rq = [q \in Requests |-> Free]
  /\ wr = Done
  /\ changes = 0 /\ errors = 0 /\ lost = {}

DirectoryChange ==
  \/ \E p \in Users \cup Stored \cup Tenants : ChangePerm(p)
  \/ \E t \in Tenants : ChangeQuota(t)
  \/ \E g \in Users \cup Groups : ChangeAcl(g)
  \/ \E p \in Users \cup Stored \cup Tenants, r \in Roles : ChangeRole(p, r)
  \/ \E u \in Users, g \in Users \cup Groups : ChangeGroup(u, g)

Increment ==
  \/ \E p \in People, nested, ok, listed \in BOOLEAN : IncrChanged(<<p, nested>>, ok, listed)
  \/ \E u \in Users, ok \in BOOLEAN : IncrTenant(u, ok)
  \/ \E p \in People, ok, listed \in BOOLEAN : IncrNested(p, ok, listed)
  \/ IncrUp

Serve(q) ==
  \/ Lookup(q) \/ Query(q) \/ ReadRole(q) \/ LeaveRole(q) \/ Finish(q) \/ BuildFails(q)
  \/ \E ok \in BOOLEAN :
       \/ FetchRevision(q, ok)
       \/ \E x \in Roles \cup Tenants : AskRole(q, x, ok) \/ VisitRole(q, x, ok)

Next ==
  \/ DirectoryChange
  \/ Increment
  \/ Expire
  \/ \E q \in Requests, u \in Users : Login(q, u) \/ Ask(q, u)
  \/ \E q \in Requests : Serve(q)

Spec == Init /\ [][Next]_vars

-----------------------------------------------------------------------------

\* The caches, counters and guards have their types.
TypeOK ==
  /\ \A u \in Users : tokens[u].revision \in Unknown .. MaxChanges
  /\ \A r \in Roles \cup Tenants : roles[r].revision \in Unknown .. MaxChanges
  /\ rev \in [People -> 0 .. MaxChanges]
  /\ guard \in [Users -> Requests \cup {NoOne}]
  /\ changes \in 0 .. MaxChanges /\ errors \in 0 .. MaxErrors

\* The principals that a token depends on.
Behind(u) ==
  {u} \cup UNION {Above(r) : r \in RolesOf(u)} \cup IF TenantOf[u] = NoOne THEN {} ELSE Above(TenantOf[u])

\* What is shared with the groups of a user.
OfGroups(u, facts) == {f \in facts : f[1] = "acl" /\ f[2] # u}

\* Once a change and its increments are done, a cached token that would be believed says
\* what the directory says, whatever was changed while it was built (get_access_token compares
\* revisions and nothing else).  Two things are left out, where the code keeps an old token:
\* what is shared with a group, as that increments the group and not its members, and tokens
\* that depend on a principal of whom an increment failed, as that is only logged.
TokensCurrent ==
  wr.pc = "done" =>
    \A u \in Users :
      Believed(tokens[u], rev[u]) /\ Behind(u) \cap lost = {} =>
        tokens[u].facts \ OfGroups(u, tokens[u].facts) = Facts(u) \ OfGroups(u, Facts(u))

\* Once a change and its increments are done, cached permissions of a role that
\* would be believed are those of the role and of all the roles above it, but for
\* an increment that failed (get_role_permissions, build_role_permissions).
RolesCurrent ==
  wr.pc = "done" =>
    \A r \in (Roles \cup Tenants) \ {Admin} :
      Believed(roles[r], rev[r]) /\ Above(r) \cap lost = {} => roles[r].facts = RoleFacts(r)
=============================================================================
