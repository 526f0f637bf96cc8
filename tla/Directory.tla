------------------------------ MODULE Directory ------------------------------
(***************************************************************************)
(* The internal directory of the server, crates/directory/src/backend/     *)
(* internal/manage.rs: principals kept in the data store under three       *)
(* indexes (name to id, e-mail to id, membership), and the requests that   *)
(* change them.  A request reads what it needs, decides, and ends with one *)
(* atomic batch; nothing but the assertions in that batch protects it from *)
(* the requests that ran in between.                                       *)
(*                                                                         *)
(* Each batch writes MemberOf(p, g) and Members(g, p) together, so the two *)
(* directions are one relation here.  Tenants, domains, secrets, quotas    *)
(* and permissions are left out.                                           *)
(***************************************************************************)
EXTENDS Integers, FiniteSets, SequencesExt

CONSTANTS
  Names,       \* names of principals
  Addresses,   \* e-mail addresses, all of one existing domain
  MaxId,       \* bound: document ids assigned
  Seed,        \* the principals there at the start, a sequence of records
  Workers,     \* requests under way at the same time
  Serial,      \* TRUE: a request starts when no other is under way
  Disjoint,    \* TRUE: two requests under way never claim the same key
  Kinds,       \* the operations requests use
  Made,        \* the types of the principals they create
  Fields,      \* the fields that updates name
  Chain        \* bound: changes in one update

NoId == 0
Ids == 1 .. MaxId
RoleUser == MaxId + 1                  \* ROLE_USER, a role without a principal
Internal == "user"                     \* the name that maps to it
Types == {"individual", "group", "list", "role"}
MemberFields == {"memberOf", "lists", "roles", "members"}
NoPrincipal == [typ |-> "none", name |-> "", emails |-> {}]

Principals == [typ: Types, name: Names, emails: SUBSET Addresses]

SeedFits ==
  /\ \A i \in DOMAIN Seed : Seed[i] \in Principals /\ i \in Ids
  /\ \A i, j \in DOMAIN Seed : i # j =>
       Seed[i].name # Seed[j].name /\ Seed[i].emails \cap Seed[j].emails = {}

VARIABLES
  principal,   \* Principal(id): id -> record or NoPrincipal
  nameTo,      \* NameToId(name): name -> id or NoId
  emailTo,     \* EmailToId(address): address -> id or NoId
  memberOf,    \* MemberOf / Members: pairs <<principal, the one it belongs to>>
  next,        \* the next document id of the collection
  req,         \* worker -> what its request is about to write
  given        \* name -> ids that get_or_create_principal_id returned

vars == <<principal, nameTo, emailTo, memberOf, next, req, given>>

Idle == [op |-> "idle"]
NoBatch == [name |-> <<>>, email |-> <<>>, pair |-> <<>>]

TypeOf(id) == IF id = RoleUser THEN "role" ELSE principal[id].typ
Exists(id) == id \in Ids /\ principal[id] # NoPrincipal
Parents(id) == {g \in Ids \cup {RoleUser} : <<id, g>> \in memberOf}
Members(id) == {p \in Ids : <<p, id>> \in memberOf}

-----------------------------------------------------------------------------
(* What a request claims: keys it adds to an index.                        *)

Claims(r) == IF "keys" \in DOMAIN r THEN r.keys ELSE {}

\* A request may start.
MayStart(w, keys) ==
  /\ req[w] = Idle
  /\ Serial => \A v \in Workers : req[v] = Idle
  /\ Disjoint => \A v \in Workers : Claims(req[v]) \cap keys = {}

-----------------------------------------------------------------------------
(* One change of an update, applied to what the update has so far:         *)
(* ok, the principal p, its groups and members, and the batch.             *)

Fail(c) == [c EXCEPT !.ok = FALSE]

MapPairs(S, value) == [x \in S |-> value]
Over(f, g) == [x \in DOMAIN f \cup DOMAIN g |-> IF x \in DOMAIN f THEN f[x] ELSE g[x]]

\* get_principal_info, and for the roles field the internal names
Info(n, field) == IF field = "roles" /\ n = Internal THEN RoleUser
                  ELSE IF n = Internal THEN NoId ELSE nameTo[n]

\* validate_member_of
ValidMemberOf(field, typ, of) ==
  \/ field = "memberOf" /\ typ = "individual" /\ of \in {"group", "individual"}
  \/ field = "memberOf" /\ typ = "group" /\ of = "group"
  \/ field = "lists" /\ typ \in {"individual", "group"} /\ of = "list"
  \/ field = "roles" /\ typ \in {"individual", "role"} /\ of = "role"

AllowedMember(typ, of) ==
  \/ typ \in {"group", "list"} /\ of \in {"individual", "group"}
  \/ typ = "role" /\ of = "role"

SetNameClash(c, id, n) ==              \* mutant: the name is not looked up
  IF n = c.p.name THEN c
  ELSE [c EXCEPT !.p.name = n,
                 !.b.name = Over(n :> id, Over(c.p.name :> NoId, @))]

SetName(c, id, n) ==
  IF n = c.p.name THEN c
  ELSE IF nameTo[n] # NoId THEN Fail(c)
  ELSE [c EXCEPT !.p.name = n,
                 !.b.name = Over(n :> id, Over(c.p.name :> NoId, @))]

\* Emails become E: validate_email for the new ones, the others are cleared.
SetEmails(c, id, E) ==
  LET new == E \ c.p.emails
      old == c.p.emails \ E
  IN IF \E e \in new : emailTo[e] # NoId THEN Fail(c)
     ELSE [c EXCEPT !.p.emails = E,
                    !.b.email = Over(MapPairs(new, id), Over(MapPairs(old, NoId), @))]

\* The groups of id become G: added ones are set, missing ones are cleared.
SetGroups(c, id, G) ==
  [c EXCEPT !.groups = G,
            !.b.pair = Over(MapPairs({<<id, g>> : g \in G \ c.groups}, TRUE),
                       Over(MapPairs({<<id, g>> : g \in c.groups \ G}, FALSE), @))]

SetMembers(c, id, M) ==
  [c EXCEPT !.members = M,
            !.b.pair = Over(MapPairs({<<m, id>> : m \in M \ c.members}, TRUE),
                       Over(MapPairs({<<m, id>> : m \in c.members \ M}, FALSE), @))]

\* MemberOf, Lists and Roles share one list: Set replaces all of it.
ChangeMemberOf(c, id, ch) ==
  LET ids == {Info(n, ch.field) : n \in ch.value}
      valid(g) == g # NoId /\ ValidMemberOf(ch.field, c.p.typ, TypeOf(g))
  IN CASE ch.action = "set" ->
            IF \A g \in ids : valid(g) THEN SetGroups(c, id, ids) ELSE Fail(c)
       [] ch.action = "add" ->
            IF \A g \in ids : g \in c.groups \/ valid(g)
            THEN SetGroups(c, id, c.groups \cup ids) ELSE Fail(c)
       [] ch.action = "remove" -> SetGroups(c, id, c.groups \ ids)

ChangeMembers(c, id, ch) ==
  LET ids == {Info(n, ch.field) : n \in ch.value}
      valid(m) == m # NoId /\ AllowedMember(c.p.typ, TypeOf(m))
  IN CASE ch.action = "set" ->
            IF \A m \in ids : valid(m) THEN SetMembers(c, id, ids) ELSE Fail(c)
       [] ch.action = "add" ->
            IF \A m \in ids : m \in c.members \/ valid(m)
            THEN SetMembers(c, id, c.members \cup ids) ELSE Fail(c)
       [] ch.action = "remove" -> SetMembers(c, id, c.members \ ids)

Change(c, id, ch) ==
  CASE ~ c.ok -> c
    [] ch.field = "name"   -> SetName(c, id, CHOOSE n \in ch.value : TRUE)
    [] ch.field = "emails" ->
         SetEmails(c, id, CASE ch.action = "set" -> ch.value
                            [] ch.action = "add" -> c.p.emails \cup ch.value
                            [] ch.action = "remove" -> c.p.emails \ ch.value)
    [] ch.field = "members" -> ChangeMembers(c, id, ch)
    [] OTHER -> ChangeMemberOf(c, id, ch)

\* The values a change may carry: one name or address; Set also clears.
Values(field) == CASE field = "emails" -> Addresses
                   [] field = "roles" -> Names \cup {Internal}
                   [] OTHER -> Names

Changes ==
  UNION {{[action |-> a, field |-> f, value |-> v] :
            a \in IF f = "name" THEN {"set"} ELSE {"set", "add", "remove"},
            v \in {{x} : x \in Values(f)}} : f \in Fields}
  \cup {[action |-> "set", field |-> f, value |-> {}] : f \in Fields \ {"name"}}

\* The keys of an index that a change may add.
Keys(ch) == IF ch.field \in {"name", "emails"} /\ ch.action # "remove" THEN ch.value ELSE {}

-----------------------------------------------------------------------------
(* create_principal                                                        *)

\* The batch of a create for the id it is given.
CreateBatch(r, id) ==
  [name  |-> r.p.name :> id,
   email |-> MapPairs(r.p.emails, id),
   pair  |-> MapPairs({<<id, g>> : g \in r.groups} \cup {<<m, id>> : m \in r.members}, TRUE)]

\* The name and the addresses are free and the other principals are there; the
\* types of groups, lists and roles are checked, those of members are not.
CreateRead(w, p, field, others) ==
  LET ids == {Info(n, field) : n \in others}
      expected == [memberOf |-> "group", lists |-> "list", roles |-> "role"]
  IN /\ "create" \in Kinds
     /\ MayStart(w, {p.name} \cup p.emails)
     /\ nameTo[p.name] = NoId
     /\ \A e \in p.emails : emailTo[e] = NoId
     /\ \A g \in ids : g # NoId /\ (field # "members" => TypeOf(g) = expected[field])
     /\ req' = [req EXCEPT ![w] =
          [op |-> "create", p |-> p, keys |-> {p.name} \cup p.emails,
           groups |-> IF field = "members" THEN {} ELSE ids,
           members |-> IF field = "members" THEN ids ELSE {}]]
     /\ UNCHANGED <<principal, nameTo, emailTo, memberOf, next, given>>

\* Applies a batch.
Apply(b) ==
  /\ nameTo' = Over(b.name, nameTo)
  /\ emailTo' = Over(b.email, emailTo)
  /\ memberOf' = (memberOf \ {x \in DOMAIN b.pair : ~ b.pair[x]})
                   \cup {x \in DOMAIN b.pair : b.pair[x]}

\* The assertion of the batch: the name is still free.  Nothing is asserted of
\* the addresses.
NameFree(r) == nameTo[r.p.name] = NoId

CreateWrite(w) ==
  LET r == req[w] IN
  /\ r.op = "create"
  /\ next \in Ids
  /\ req' = [req EXCEPT ![w] = Idle]
  /\ \/ /\ NameFree(r)
        /\ principal' = [principal EXCEPT ![next] = r.p]
        /\ Apply(CreateBatch(r, next))
        /\ next' = next + 1
     \/ /\ ~ NameFree(r)
        /\ UNCHANGED <<principal, nameTo, emailTo, memberOf, next>>
  /\ UNCHANGED given

-----------------------------------------------------------------------------
(* get_or_create_principal_id: the external directories give a user an id. *)

LoginRead(w, n) ==
  /\ "login" \in Kinds
  /\ MayStart(w, {n})
  /\ \/ /\ nameTo[n] # NoId
        /\ given' = [given EXCEPT ![n] = @ \cup {nameTo[n]}]
        /\ UNCHANGED req
     \/ /\ nameTo[n] = NoId
        /\ req' = [req EXCEPT ![w] =
             [op |-> "login", keys |-> {n}, tries |-> 0,
              p |-> [typ |-> "individual", name |-> n, emails |-> {}],
              groups |-> {RoleUser}, members |-> {}]]
        /\ UNCHANGED given
  /\ UNCHANGED <<principal, nameTo, emailTo, memberOf, next>>

\* A failed assertion starts over, at most three times.
LoginWrite(w) ==
  LET r == req[w] IN
  /\ r.op = "login"
  /\ next \in Ids
  /\ \/ /\ NameFree(r)
        /\ principal' = [principal EXCEPT ![next] = r.p]
        /\ Apply(CreateBatch(r, next))
        /\ next' = next + 1
        /\ given' = [given EXCEPT ![r.p.name] = @ \cup {next}]
        /\ req' = [req EXCEPT ![w] = Idle]
     \/ /\ ~ NameFree(r)
        /\ req' = [req EXCEPT ![w] = IF r.tries < 3
                                     THEN [r EXCEPT !.op = "retry", !.tries = @ + 1]
                                     ELSE Idle]
        /\ UNCHANGED <<principal, nameTo, emailTo, memberOf, next, given>>

LoginRetry(w) ==
  LET r == req[w] IN
  /\ r.op = "retry"
  /\ \/ /\ nameTo[r.p.name] # NoId
        /\ given' = [given EXCEPT ![r.p.name] = @ \cup {nameTo[r.p.name]}]
        /\ req' = [req EXCEPT ![w] = Idle]
     \/ /\ nameTo[r.p.name] = NoId
        /\ req' = [req EXCEPT ![w].op = "login"]
        /\ UNCHANGED given
  /\ UNCHANGED <<principal, nameTo, emailTo, memberOf, next>>

-----------------------------------------------------------------------------
(* update_principal                                                        *)

\* More than memberships changes, so the principal is asserted and rewritten.
Rewrites(chs) == \E i \in DOMAIN chs : chs[i].field \notin MemberFields

UpdateRead(w, id, chs) ==
  LET from == [ok |-> TRUE, p |-> principal[id], groups |-> Parents(id),
               members |-> Members(id), b |-> NoBatch]
      to == FoldLeft(LAMBDA c, ch : Change(c, id, ch), from, chs)
  IN /\ "update" \in Kinds
     /\ Exists(id)
     /\ MayStart(w, UNION {Keys(chs[i]) : i \in DOMAIN chs})
     /\ to.ok
     /\ req' = [req EXCEPT ![w] =
          [op |-> "update", id |-> id, read |-> principal[id], p |-> to.p, b |-> to.b,
           rewrites |-> Rewrites(chs), fields |-> {chs[i].field : i \in DOMAIN chs},
           keys |-> UNION {Keys(chs[i]) : i \in DOMAIN chs}]]
     /\ UNCHANGED <<principal, nameTo, emailTo, memberOf, next, given>>

\* The assertion of the batch: the principal is the one that was read.
Unmodified(r) == r.rewrites => principal[r.id] = r.read

UpdateWrite(w) ==
  LET r == req[w] IN
  /\ r.op = "update"
  /\ req' = [req EXCEPT ![w] = Idle]
  /\ \/ /\ Unmodified(r)
        /\ principal' = IF r.rewrites THEN [principal EXCEPT ![r.id] = r.p] ELSE principal
        /\ Apply(r.b)
     \/ /\ ~ Unmodified(r)
        /\ UNCHANGED <<principal, nameTo, emailTo, memberOf>>
  /\ UNCHANGED <<next, given>>

-----------------------------------------------------------------------------
(* delete_principal: the principal is read, its data is purged, then its   *)
(* memberships are read and all of it is cleared without an assertion.     *)

DeleteRead(w, id) ==
  /\ "delete" \in Kinds
  /\ Exists(id)
  /\ MayStart(w, {})
  /\ req' = [req EXCEPT ![w] = [op |-> "purge", id |-> id, p |-> principal[id]]]
  /\ UNCHANGED <<principal, nameTo, emailTo, memberOf, next, given>>

DeleteMembers(w) ==
  LET r == req[w] IN
  /\ r.op = "purge"
  /\ req' = [req EXCEPT ![w] =
       [op |-> "delete", id |-> r.id,
        b |-> [name |-> r.p.name :> NoId, email |-> MapPairs(r.p.emails, NoId),
               pair |-> MapPairs({x \in memberOf : r.id \in {x[1], x[2]}}, FALSE)]]]
  /\ UNCHANGED <<principal, nameTo, emailTo, memberOf, next, given>>

DeleteWrite(w) ==
  LET r == req[w] IN
  /\ r.op = "delete"
  /\ principal' = [principal EXCEPT ![r.id] = NoPrincipal]
  /\ Apply(r.b)
  /\ req' = [req EXCEPT ![w] = Idle]
  /\ UNCHANGED <<next, given>>

-----------------------------------------------------------------------------

Init ==
  /\ principal = [i \in Ids |-> IF i \in DOMAIN Seed THEN Seed[i] ELSE NoPrincipal]
  /\ nameTo = [n \in Names |->
       IF \E i \in DOMAIN Seed : Seed[i].name = n
       THEN CHOOSE i \in DOMAIN Seed : Seed[i].name = n ELSE NoId]
  /\ emailTo = [e \in Addresses |->
       IF \E i \in DOMAIN Seed : e \in Seed[i].emails
       THEN CHOOSE i \in DOMAIN Seed : e \in Seed[i].emails ELSE NoId]
  /\ memberOf = {}
  /\ next = Len(Seed) + 1
  /\ req = [w \in Workers |-> Idle]
  /\ given = [n \in Names |-> {}]

AtMostOne(S) == {{}} \cup {{x} : x \in S}

ChangeLists == UNION {[1 .. n -> Changes] : n \in 1 .. Chain}

Next ==
  \E w \in Workers :
    \/ /\ req[w] = Idle
       /\ \E p \in Principals, f \in MemberFields, others \in AtMostOne(Names) :
            /\ p.typ \in Made /\ p.emails \in AtMostOne(Addresses)
            /\ CreateRead(w, p, f, others)
    \/ \E n \in Names : LoginRead(w, n)
    \/ req[w] = Idle /\ \E id \in Ids, chs \in ChangeLists : UpdateRead(w, id, chs)
    \/ \E id \in Ids : DeleteRead(w, id)
    \/ CreateWrite(w) \/ LoginWrite(w) \/ LoginRetry(w)
    \/ UpdateWrite(w) \/ DeleteMembers(w) \/ DeleteWrite(w)

Spec == Init /\ [][Next]_vars

-----------------------------------------------------------------------------

\* The state of the directory has its type.
TypeOK ==
  /\ \A i \in Ids : principal[i] \in Principals \cup {NoPrincipal}
  /\ nameTo \in [Names -> Ids \cup {NoId}]
  /\ emailTo \in [Addresses -> Ids \cup {NoId}]
  /\ memberOf \subseteq Ids \X (Ids \cup {RoleUser})
  /\ next \in 1 .. MaxId + 1

\* The name index is the inverse of the principals' names: a name leads to the
\* principal that has it and to no other (NameToId written by create, rename
\* and delete).
NamesMatch ==
  \A n \in Names, i \in Ids : nameTo[n] = i <=> (Exists(i) /\ principal[i].name = n)

\* The e-mail index is the inverse of the principals' addresses, so mail for an
\* address reaches the one principal that lists it (EmailToId).
EmailsMatch ==
  \A e \in Addresses, i \in Ids : emailTo[e] = i <=> (Exists(i) /\ e \in principal[i].emails)

\* A membership joins two principals that exist, or one and the internal role:
\* delete_principal leaves none behind.
NoDangling ==
  \A x \in memberOf : Exists(x[1]) /\ (Exists(x[2]) \/ x[2] = RoleUser)

\* The kinds of principals that a membership joins are the ones update_principal
\* accepts, by validate_member_of or by the allowed types of members.
ValidMembership ==
  \A x \in memberOf :
    \/ \E f \in {"memberOf", "lists", "roles"} : ValidMemberOf(f, TypeOf(x[1]), TypeOf(x[2]))
    \/ AllowedMember(TypeOf(x[2]), TypeOf(x[1]))

\* All the logins of one name are given the same id, however many of them find
\* the name missing at the same time (get_or_create_principal_id).
LoginsAgree == \A n \in Names : Cardinality(given[n]) <= 1
=============================================================================
