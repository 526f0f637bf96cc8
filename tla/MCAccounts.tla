------------------------------ MODULE MCAccounts ------------------------------
(***************************************************************************)
(* Accounts, checked together: the internal directory, the cached access   *)
(* tokens and permissions, the expressions that decide about messages, and *)
(* the background work on the messages of an account.  The components      *)
(* share no variables, so it is enough to let one move at a time: part is  *)
(* chosen at the start.                                                    *)
(***************************************************************************)
EXTENDS EmailTasks

VARIABLES
    part,   \* the instance that moves
    \* Directory
    principal, nameTo, emailTo, memberOf, next, req, given,
    \* AccessTokens
    perm, quota, acl, roleOf, groupOf, rev, tokens, roles, guard, rq, wr, changes, errors, lost,
    \* Expressions
    tree, input, start, ops, out, args, lastVar, mode, pos, stack, seen

CONSTANTS u1, r1, r2, g1, t1, q1, NoOne

Principal(typ, name, emails) == [typ |-> typ, name |-> name, emails |-> emails]

AllTypes == {"individual", "group", "list", "role"}

\* Expression trees.
Trees == INSTANCE Expressions WITH Exprs <- {}
Leaves(vs) == {<<"val", v>> : v \in vs}
Unaries(us, es) == {<<"un", u, e>> : u \in us, e \in es}
Binaries(bs, ls, rs) == {<<"bin", b, l, r>> : b \in bs, l \in ls, r \in rs}
CallsOf(xs, ys) == {<<"call", "f", x, y>> : x \in xs, y \in ys}
Indexes(xs, ys, is) == {<<"idx", x, y, i>> : x \in xs, y \in ys, i \in is}
Bits == Leaves({"0", "1"})

\* Every two nested operators over bits.  The sides of && and || are bits.
Flat == Bits \cup Unaries({"u!"}, Bits) \cup Binaries(Trees!Binary, Bits, Bits)
OperatorTrees ==
    {e \in Binaries(Trees!Binary, Flat, Flat) :
       e[2] \in {"&&", "||"} => {Trees!Value(e[3]), Trees!Value(e[4])} \subseteq {0, 1}}
    \cup Unaries({"u!", "u-"}, Flat)

\* Truth-valued trees, three operators deep.
Truth1 == Bits \cup Unaries({"u!"}, Bits) \cup Binaries({"&&", "||"}, Bits, Bits)
Truth2 == Binaries({"&&", "||", "^"}, Truth1, Bits) \cup Unaries({"u!"}, Truth1)
TruthTrees == Binaries({"&&", "||"}, Truth2, Truth1) \cup Binaries({"&&", "||"}, Truth1, Truth2)

\* Calls and arrays; the items of an array have no sign and no parentheses.
Parts == Bits \cup Binaries({"+", "||"}, Bits, Bits)
Parens == {<<"par", "(", e>> : e \in Parts}
CallTrees == CallsOf(Parts \cup Unaries({"u-", "u!"}, Bits), Parts)
             \cup CallsOf(Parens, Parens) \cup Indexes(Bits, Bits, Parens)
             \cup Indexes(Parts, Parts, Bits)
             \cup Binaries({"+", "&&"}, CallsOf(Bits, Bits), Bits)
             \cup Indexes(CallsOf(Bits, Bits), Bits, Bits)
             \cup CallsOf(Indexes(Bits, Bits, Bits), Bits)

Changes == INSTANCE Directory WITH
    Names <- {"ann", "sales"}, Addresses <- {"ann@x"}, MaxId <- 3,
    Seed <- <<Principal("individual", "ann", {"ann@x"}), Principal("group", "sales", {})>>,
    Workers <- {"w1"}, Serial <- TRUE, Disjoint <- TRUE, Kinds <- {"create", "update", "delete"}, Made <- AllTypes,
    Fields <- {"name", "emails", "memberOf"}, Chain <- 1

Chained == INSTANCE Directory WITH
    Names <- {"ann", "bob", "joe", "zed"}, Addresses <- {"ann@x", "bob@x"}, MaxId <- 2,
    Seed <- <<Principal("individual", "ann", {"ann@x"}), Principal("individual", "bob", {})>>,
    Workers <- {"w1"}, Serial <- TRUE, Disjoint <- TRUE, Kinds <- {"update"}, Made <- AllTypes,
    Fields <- {"name", "emails"}, Chain <- 2

\* Two requests at once that claim different names and addresses.
Together == INSTANCE Directory WITH
    Names <- {"ann", "joe", "sales"}, Addresses <- {"ann@x"}, MaxId <- 3,
    Seed <- <<Principal("individual", "ann", {"ann@x"}), Principal("group", "sales", {})>>,
    Workers <- {"w1", "w2"}, Serial <- FALSE, Disjoint <- TRUE, Kinds <- {"create", "update"},
    Made <- {"individual"}, Fields <- {"name", "emails"}, Chain <- 1

\* Two requests at once that change memberships.
Joining == INSTANCE Directory WITH
    Names <- {"ann", "sales"}, Addresses <- {}, MaxId <- 2,
    Seed <- <<Principal("individual", "ann", {}), Principal("group", "sales", {})>>,
    Workers <- {"w1", "w2"}, Serial <- FALSE, Disjoint <- FALSE, Kinds <- {"update"}, Made <- AllTypes,
    Fields <- {"memberOf", "members"}, Chain <- 1

Creates == INSTANCE Directory WITH
    Names <- {"ann", "sales"}, Addresses <- {}, MaxId <- 3, Seed <- <<>>, Workers <- {"w1", "w2"},
    Serial <- FALSE, Disjoint <- FALSE, Kinds <- {"create"}, Made <- AllTypes, Fields <- {}, Chain <- 1

Logins == INSTANCE Directory WITH
    Names <- {"ann", "bob"}, Addresses <- {}, MaxId <- 4, Seed <- <<>>,
    Workers <- {"w1", "w2", "w3"}, Serial <- FALSE, Disjoint <- FALSE, Kinds <- {"login"}, Made <- AllTypes,
    Fields <- {}, Chain <- 1

Relogin == INSTANCE Directory WITH
    Names <- {"ann", "bob"}, Addresses <- {}, MaxId <- 3, Seed <- <<>>, Workers <- {"w1", "w2"},
    Serial <- FALSE, Disjoint <- FALSE, Kinds <- {"login", "delete"}, Made <- AllTypes, Fields <- {}, Chain <- 1

Memberships == INSTANCE Directory WITH
    Names <- {"ann", "sales", "staff"}, Addresses <- {}, MaxId <- 3,
    Seed <- <<Principal("individual", "ann", {}), Principal("group", "sales", {}), Principal("role", "staff", {})>>,
    Workers <- {"w1"}, Serial <- TRUE, Disjoint <- TRUE, Kinds <- {"update", "delete"}, Made <- AllTypes,
    Fields <- {"memberOf", "roles", "members"}, Chain <- 1

Tokens == INSTANCE AccessTokens WITH
    NoOne <- NoOne, Users <- {u1}, Roles <- {r1, r2}, Groups <- {g1}, Tenants <- {},
    Admin <- NoOne, TenantOf <- [u \in {u1} |-> NoOne], FirstRoles <- {<<u1, r2>>, <<r2, r1>>},
    FirstGroups <- {}, Requests <- {q1}, Ops <- {"perm", "role", "group"}, OneRole <- TRUE,
    ByLogin <- FALSE, Expires <- FALSE, MaxChanges <- 2, MaxErrors <- 0

\* A user of a tenant, what is shared with it and with its group, and errors of the stores.
Shared == INSTANCE AccessTokens WITH
    NoOne <- NoOne, Users <- {u1}, Roles <- {r1}, Groups <- {g1}, Tenants <- {t1},
    Admin <- NoOne, TenantOf <- [u \in {u1} |-> t1], FirstRoles <- {<<u1, r1>>},
    FirstGroups <- {<<u1, g1>>}, Requests <- {q1}, Ops <- {"perm", "acl"}, OneRole <- TRUE,
    ByLogin <- FALSE, Expires <- FALSE, MaxChanges <- 2, MaxErrors <- 1

Bit == INSTANCE Expressions WITH
    Exprs <- {<<"val", "1">>}

Operators == INSTANCE Expressions WITH
    Exprs <- OperatorTrees

Truth == INSTANCE Expressions WITH
    Exprs <- TruthTrees

Calls == INSTANCE Expressions WITH
    Exprs <- CallTrees

ASSUME ConstantsFit ==
    /\ Changes!SeedFits /\ Chained!SeedFits /\ Creates!SeedFits /\ Logins!SeedFits
    /\ Together!SeedFits /\ Joining!SeedFits
    /\ Relogin!SeedFits /\ Memberships!SeedFits /\ Tokens!Shape /\ Shared!Shape

dir == <<principal, nameTo, emailTo, memberOf, next, req, given>>
cached == <<perm, quota, acl, roleOf, groupOf, rev, tokens, roles, guard, rq, wr, changes, errors, lost>>
expr == <<tree, input, start, ops, out, args, lastVar, mode, pos, stack, seen>>
SumVars == <<part, vars, dir, cached, expr>>

SumInit ==
    /\ part \in {"tasks", "directory", "chained", "together", "joining", "creates", "logins", "relogin", "members",
                 "tokens", "shared", "bit", "operators", "truth", "calls"}
    /\ Init
    /\ CASE part = "chained" -> Chained!Init
         [] part = "together" -> Together!Init
         [] part = "joining" -> Joining!Init
         [] part = "creates" -> Creates!Init
         [] part = "logins" -> Logins!Init
         [] part = "relogin" -> Relogin!Init
         [] part = "members" -> Memberships!Init
         [] OTHER -> Changes!Init
    /\ IF part = "shared" THEN Shared!Init ELSE Tokens!Init
    /\ CASE part = "operators" -> Operators!Init
         [] part = "truth" -> Truth!Init
         [] part = "calls" -> Calls!Init
         [] OTHER -> Bit!Init

\* A step of one instance; nothing else moves.
Tasking(p, A) == part = p /\ A /\ UNCHANGED <<part, dir, cached, expr>>
Dir(p, A) == part = p /\ A /\ UNCHANGED <<part, vars, cached, expr>>
Token(p, A) == part = p /\ A /\ UNCHANGED <<part, vars, dir, expr>>
Expr(p, A) == part = p /\ A /\ UNCHANGED <<part, vars, dir, cached>>

SumNext ==
    \/ Tasking("tasks", Next)
    \/ Dir("directory", Changes!Next) \/ Dir("chained", Chained!Next)
    \/ Dir("together", Together!Next) \/ Dir("joining", Joining!Next)
    \/ Dir("creates", Creates!Next) \/ Dir("logins", Logins!Next) \/ Dir("relogin", Relogin!Next)
    \/ Dir("members", Memberships!Next)
    \/ Token("tokens", Tokens!Next) \/ Token("shared", Shared!Next)
    \/ Expr("bit", Bit!Next) \/ Expr("operators", Operators!Next) \/ Expr("truth", Truth!Next)
    \/ Expr("calls", Calls!Next)

SumSpec == SumInit /\ [][SumNext]_SumVars

-------------------------------------------------------------------------------
(* Properties. *)

\* The directory (manage.rs: Directory).  Names and addresses lead to the principal that has
\* them and to no other, and memberships join principals that exist and may be joined: for one
\* request at a time that creates, changes or deletes; for two at the same time that create and
\* rename under different names, or change memberships; for creations of one name at the same
\* time; and all logins of a name at the same time get one id.
\* Tokens (get_access_token, get_role_permissions: AccessTokens).  However changes, their
\* increments and the building of tokens interleave, with errors of the stores: once they are
\* done a cached token or role that would be believed says what the directory says, but for
\* what is shared with groups and what depends on an increment that failed.
AccountsHold ==
    /\ part = "directory" => Changes!NamesMatch /\ Changes!EmailsMatch /\ Changes!NoDangling
    /\ part = "chained" => Chained!NamesMatch /\ Chained!EmailsMatch
    /\ part = "together" => Together!NamesMatch /\ Together!EmailsMatch
    /\ part = "joining" => Joining!ValidMembership /\ Joining!NoDangling
    /\ part = "creates" => Creates!NamesMatch
    /\ part = "logins" => Logins!NamesMatch /\ Logins!LoginsAgree
    /\ part = "relogin" => Relogin!NoDangling
    /\ part = "members" => Memberships!ValidMembership /\ Memberships!NoDangling
    /\ part = "tokens" => Tokens!TokensCurrent /\ Tokens!RolesCurrent
    /\ part = "shared" => Shared!TokensCurrent

\* What an expression is compiled to gives the value of the expression, whatever it skips,
\* and never takes from an empty stack (ExpressionParser, eval): see Expressions.
ExpressionsHold ==
    /\ part = "operators" => Operators!Correct
    /\ part = "truth" => Truth!Correct /\ Truth!Lazy /\ Truth!NoUnderflow
    /\ part = "calls" => Calls!Correct /\ Calls!Accepted
================================================================================
