----------------------------- MODULE Directory ------------------------------
(***************************************************************************)
(* Roles, groups, scopes and custom attributes, and the rows that name     *)
(* them: the roles and groups of users, the scopes of clients, the         *)
(* attribute mappings of scopes, the attribute values of users.            *)
(*                                                                         *)
(* Nothing but the code keeps these in step.  A user's roles, a client's   *)
(* scopes and a scope's mappings are strings of names with commas between  *)
(* them, and renaming or deleting a name searches and replaces in these    *)
(* strings.  Every list is also cached; requests read the cached list,     *)
(* write the rows in a transaction, and write a new list into the cache.   *)
(*                                                                         *)
(* A name is a sequence of parts and a string a sequence of parts and      *)
(* commas, so that contains and replace do what they do in the code.  A    *)
(* read of a list that fills the cache is one step here.  The list of all  *)
(* users or clients that is cached under IDX_USERS or IDX_CLIENTS is read  *)
(* by nobody and left out.                                                 *)
(***************************************************************************)
EXTENDS Integers, Sequences, FiniteSets, SequencesExt

CONSTANTS
    Handlers,    \* concurrently executing requests of administrators
    InitRows,    \* the rows the migrations insert, per kind
    InitUser, InitClient, InitValues,
    NewNames,    \* names that requests bring, per kind
    UserRequests, ClientRequests,  \* pairs of sets of names to assign
    Null,        \* nothing cached, nobody to save
    MaxOps       \* bound on the number of requests

Kinds == {"roles", "groups", "scopes", "attrs"}
Comma == ","
openid == <<"openid">>
rauthy_admin == <<"rauthy_", "admin">>

Row(id, name, attrs) == [id |-> id, name |-> name, attrs |-> attrs]
Names(table) == {x.name : x \in table}

\* An id names one row, and the id of an attribute is its name.
WellFormed(db) ==
    /\ DOMAIN db = Kinds
    /\ \A k \in Kinds : \A x \in db[k] : DOMAIN x = {"id", "name", "attrs"}
    /\ \A k \in Kinds : \A x, y \in db[k] : x.id = y.id => x = y
    /\ \A x \in db["attrs"] : x = Row(x.name, x.name, <<>>)

ASSUME InitialOK ==
    /\ WellFormed(InitRows) /\ InitValues \subseteq Names(InitRows["attrs"])
    /\ DOMAIN InitUser = {"roles", "groups"} /\ DOMAIN InitClient = {"scopes", "default_scopes"}
    /\ MaxOps \in Nat

VARIABLES
    rows,        \* the tables: kind -> set of rows
    list,        \* the cached lists: kind -> the set of their rows, or Null
    twice,       \* ids that are in the cached list of attributes twice
    entries,     \* names of attributes cached one by one
    user,        \* the row of the user: roles, groups
    client,      \* the row of the client: scopes, default_scopes
    values,      \* attributes the user has a value for
    cached,      \* cached copies of user, client, values and the well-known scopes
    req,
    ops,         \* number of requests so far, for the bound
    granted,     \* history: ids of the roles an administrator has given to the user
    spoilt,      \* history: tables on which two requests overlapped, or one failed
    confused     \* history: kinds of which a name was taken for another one

tables == <<rows, user, client, values>>
directoryHistory == <<ops, granted, spoilt, confused>>
directoryVars == <<tables, list, twice, entries, cached, req, directoryHistory>>

-----------------------------------------------------------------------------
\* Strings of names

\* str::contains
IsIn(x, s) == \E i \in 0 .. Len(s) - Len(x) : SubSeq(s, i + 1, i + Len(x)) = x

\* str::replace
Replaced(s, x, y) ==
    LET from[i \in 1 .. Len(s) + 1] ==
            IF i > Len(s) THEN <<>>
            ELSE IF IsPrefix(x, SubSeq(s, i, Len(s))) THEN y \o from[i + Len(x)]
            ELSE <<s[i]>> \o from[i + 1]
    IN  from[1]

\* split(','), without the empty entries
Split(s) ==
    {SubSeq(s, e[1], e[2]) : e \in
        {p \in (1 .. Len(s)) \X (1 .. Len(s)) :
            /\ p[1] <= p[2]
            /\ \A k \in p[1] .. p[2] : s[k] # Comma
            /\ p[1] = 1 \/ s[p[1] - 1] = Comma
            /\ p[2] = Len(s) \/ s[p[2] + 1] = Comma}}

WithoutFirst(s, x) == IF s = x THEN <<>> ELSE Replaced(s, x \o <<Comma>>, <<>>)

\* User::delete_role, User::delete_group, and each half of Client::delete_scope:
\* the entry and the comma after it if the string starts with the name, the entry
\* and the comma in front of it otherwise
WithoutEntry(s, x) ==
    IF s = x THEN <<>>
    ELSE IF IsPrefix(x, s) THEN Replaced(s, x \o <<Comma>>, <<>>)
    ELSE Replaced(s, <<Comma>> \o x, <<>>)

\* The access and id mappings in UserAttrConfigEntity::delete
WithoutMapping(s, x) == Replaced(Replaced(s, x \o <<Comma>>, <<>>), x, <<>>)

\* The names of a list that are wanted, in the list's order, as a string
Joined(table, wanted) ==
    LET found == SetToSortSeq({x \in table : x.name \in wanted}, LAMBDA x, y : x.id < y.id)
        upto[i \in 0 .. Len(found)] ==
            IF i = 0 THEN <<>>
            ELSE (IF i = 1 THEN <<>> ELSE upto[i - 1] \o <<Comma>>) \o found[i].name
    IN  upto[Len(found)]

-----------------------------------------------------------------------------
\* Cached reads

\* Role::find_all, Group::find_all, Scope::find_all, UserAttrConfigEntity::find_all
FindAll(k) == IF list[k] # Null THEN list[k] ELSE rows[k]
Filled(ks) == [k \in Kinds |-> IF k \in ks THEN FindAll(k) ELSE list[k]]

FindCached(what, row) == IF cached[what] # Null THEN cached[what] ELSE row

-----------------------------------------------------------------------------
\* Requests

NoOp == [step |-> "idle"]

\* The tables that a request works on
Uses(k) == CASE k = "roles"  -> {"roles", "user"}
             [] k = "groups" -> {"groups", "user"}
             [] k = "scopes" -> {"scopes", "client", "attrs"}
             [] k = "attrs"  -> {"attrs", "scopes", "values"}
             [] k = "user"   -> {"user", "roles", "groups"}
             [] k = "client" -> {"client", "scopes"}
             [] k = "values" -> {"values", "attrs"}

InUse == UNION {Uses(req[r].kind) : r \in {q \in Handlers : req[q] # NoOp}}

\* A request of an administrator begins.
Begin(r, op) ==
    /\ req[r] = NoOp /\ ops < MaxOps
    /\ ops' = ops + 1
    /\ req' = [req EXCEPT ![r] = op]
    /\ spoilt' = spoilt \cup (Uses(op.kind) \cap InUse)
    /\ UNCHANGED <<granted, twice>>

Op(op, k, step, old, new, copy, holder) ==
    [op |-> op, kind |-> k, step |-> step, old |-> old, new |-> new,
     copy |-> copy, holder |-> holder]

NoRow == Row(0, <<>>, <<>>)
FreshId == 100 + ops

\* The name is a part of a longer one in these strings.
PartOf(name, strings) == \E s \in strings : \E n \in Split(s) : n # name /\ IsIn(name, n)

\* Names are confused when one is removed or replaced in strings that have it as a
\* part of a longer name, and when two rows get the same name.
Confusing(k, name, strings, table) ==
    confused' = IF \/ PartOf(name, strings)
                   \/ \E x, y \in table : x.id # y.id /\ x.name = y.name
                THEN confused \cup {k} ELSE confused

-----------------------------------------------------------------------------
\* Create

\* Role::create, Group::create: refuse a name the list has, and keep the list.
CreateRole(r, k, name) ==
    LET new == Row(FreshId, name, <<>>) IN
    /\ name \notin Names(FindAll(k))
    /\ Begin(r, Op("create", k, "insert", NoRow, new, FindAll(k), Null))
    /\ list' = Filled({k})
    /\ Confusing(k, name, {}, rows[k] \cup {new})
    /\ UNCHANGED <<tables, entries, cached>>

CreateGroup(r, k, name) == CreateRole(r, k, name)

\* Scope::clean_up_attrs
CleanUpAttrs(wanted) ==
    LET ok == SelectSeq(wanted, LAMBDA a : a \in Names(FindAll("attrs")))
    IN  FoldLeft(LAMBDA s, a : IF s = <<>> THEN a ELSE s \o <<Comma>> \o a, <<>>, ok)

IsCustom(name) == name \notin {openid, <<"profile">>, <<"email">>, <<"groups">>}

CreateScope(r, name, wanted) ==
    LET new == Row(FreshId, name, CleanUpAttrs(wanted)) IN
    /\ name \notin Names(FindAll("scopes"))
    /\ IsCustom(name) \/ wanted = <<>>
    /\ Begin(r, Op("create", "scopes", "insert", NoRow, new, FindAll("scopes"), Null))
    /\ list' = Filled({"scopes", "attrs"})
    /\ Confusing("scopes", name, {}, rows["scopes"] \cup {new})
    /\ UNCHANGED <<tables, entries, cached>>

\* UserAttrConfigEntity::find: the entry cached for this name, or the row
FindAttr(name) == name \in entries \/ name \in Names(rows["attrs"])

CreateAttr(r, name) ==
    LET new == Row(name, name, <<>>) IN
    /\ ~FindAttr(name)
    /\ Begin(r, Op("create", "attrs", "insert", NoRow, new, {}, Null))
    /\ Confusing("attrs", name, {}, rows["attrs"] \cup {new})
    /\ UNCHANGED <<tables, list, entries, cached>>

\* The insert; the name is the primary key of an attribute.
Insert(r) ==
    LET q == req[r] IN
    /\ q.step = "insert"
    /\ \/ /\ \A x \in rows[q.kind] : x.id # q.new.id
          /\ rows' = [rows EXCEPT ![q.kind] = @ \cup {q.new}]
          /\ req' = [req EXCEPT ![r].step = "list"]
       \/ /\ \E x \in rows[q.kind] : x.id = q.new.id
          /\ req' = [req EXCEPT ![r] = NoOp]
          /\ UNCHANGED rows
    /\ UNCHANGED <<user, client, values, list, twice, entries, cached, directoryHistory>>

-----------------------------------------------------------------------------
\* Delete and rename: read, save the rows that carry the name, commit, new list

\* Role::delete, Group::delete: the row by its id, and the users whose string
\* contains the name
DeleteRole(r, x) ==
    /\ x.name # rauthy_admin
    /\ Begin(r, Op("delete", "roles", "save", x, x, {},
                   IF IsIn(x.name, user.roles)
                   THEN [user EXCEPT !.roles = WithoutEntry(@, x.name)] ELSE Null))
    /\ Confusing("roles", x.name, {user.roles}, {})
    /\ UNCHANGED <<tables, list, entries, cached>>

DeleteGroup(r, x) ==
    /\ Begin(r, Op("delete", "groups", "save", x, x, {},
                   IF IsIn(x.name, user.groups)
                   THEN [user EXCEPT !.groups = WithoutEntry(@, x.name)] ELSE Null))
    /\ Confusing("groups", x.name, {user.groups}, {})
    /\ UNCHANGED <<tables, list, entries, cached>>

\* Client::delete_scope: nothing is done when only the default scopes have it.
ClientWithoutScope(name) ==
    IF IsIn(name, client.scopes)
    THEN [scopes |-> WithoutEntry(client.scopes, name),
          default_scopes |-> IF IsIn(name, client.default_scopes)
                             THEN WithoutEntry(client.default_scopes, name)
                             ELSE client.default_scopes]
    ELSE client

CarriesScope(name) == IsIn(name, client.scopes) \/ IsIn(name, client.default_scopes)

DeleteScope(r, x) ==
    /\ x.name # openid
    /\ Begin(r, Op("delete", "scopes", "save", x, x, {},
                   IF CarriesScope(x.name) THEN ClientWithoutScope(x.name) ELSE Null))
    /\ Confusing("scopes", x.name, {client.scopes, client.default_scopes}, {})
    /\ UNCHANGED <<tables, list, entries, cached>>

\* The cached scopes that carry the attribute in their mappings
Mapping(name) == {y \in FindAll("scopes") : IsIn(name, y.attrs)}

DeleteAttr(r, name) ==
    LET x == Row(name, name, <<>>) IN
    /\ FindAttr(name)
    /\ Begin(r, Op("delete", "attrs", "save", x, x, {},
                   {[y EXCEPT !.attrs = WithoutMapping(@, name)] : y \in Mapping(name)}))
    /\ entries' = entries \cup {name}
    /\ list' = Filled({"scopes"})
    /\ Confusing("attrs", name, {y.attrs : y \in FindAll("scopes")}, {})
    /\ UNCHANGED <<tables, cached>>

\* A variant for a check of the properties: the string is replaced as a whole
RenamedWhole(field, old, name) ==
    IF IsIn(old, user[field]) THEN [user EXCEPT ![field] = name] ELSE Null

\* The users that carry the name, with the new one
Renamed(field, old, name) ==
    IF IsIn(old, user[field]) THEN [user EXCEPT ![field] = Replaced(@, old, name)] ELSE Null

\* Role::update, Group::update: the new name is not compared with the others.
UpdateRole(r, x, name) ==
    /\ Begin(r, Op("rename", "roles", "save", x, [x EXCEPT !.name = name], {},
                   Renamed("roles", x.name, name)))
    /\ Confusing("roles", x.name, {user.roles},
                 {y \in rows["roles"] : y.id # x.id} \cup {[x EXCEPT !.name = name]})
    /\ UNCHANGED <<tables, list, entries, cached>>

UpdateGroup(r, x, name) ==
    /\ Begin(r, Op("rename", "groups", "save", x, [x EXCEPT !.name = name], {},
                   Renamed("groups", x.name, name)))
    /\ Confusing("groups", x.name, {user.groups},
                 {y \in rows["groups"] : y.id # x.id} \cup {[x EXCEPT !.name = name]})
    /\ UNCHANGED <<tables, list, entries, cached>>

UpdateScope(r, x, name, wanted) ==
    LET new == Row(x.id, name, CleanUpAttrs(wanted)) IN
    /\ x.name # openid
    /\ IsCustom(name) \/ wanted = <<>>
    /\ Begin(r, Op("rename", "scopes", "save", x, new, {},
                   IF name # x.name /\ CarriesScope(x.name)
                   THEN [f \in DOMAIN client |-> Replaced(client[f], x.name, name)] ELSE Null))
    /\ list' = Filled({"attrs"})
    /\ Confusing("scopes", x.name, {client.scopes, client.default_scopes},
                 {y \in rows["scopes"] : y.id # x.id} \cup {new})
    /\ UNCHANGED <<tables, entries, cached>>

\* UserAttrConfigEntity::update; the entry cached for the old name stays.
UpdateAttr(r, old, name) ==
    LET new == Row(name, name, <<>>) IN
    /\ FindAttr(old) /\ name # old
    /\ Begin(r, Op("rename", "attrs", "save", Row(old, old, <<>>), new, values,
                   {[y EXCEPT !.attrs = Replaced(@, old, name)] : y \in Mapping(old)}))
    /\ entries' = entries \cup {old}
    /\ list' = Filled({"scopes"})
    /\ Confusing("attrs", old, {y.attrs : y \in FindAll("scopes")},
                 {y \in rows["attrs"] : y.id # old} \cup {new})
    /\ UNCHANGED <<tables, cached>>

\* Scope::update_mapping_only
WithMappings(table, changed) ==
    {IF \E y \in changed : y.id = x.id
     THEN [x EXCEPT !.attrs = (CHOOSE y \in changed : y.id = x.id).attrs] ELSE x : x \in table}

\* The new name of an attribute is the key of another one: the UPDATE, which comes
\* before the mappings of the scopes, fails, and only Fail is left to the request.
KeyTaken(q) ==
    /\ q.kind = "attrs" /\ q.op = "rename" /\ q.new.name # q.old.name
    /\ q.old \in rows["attrs"] /\ q.new \in rows["attrs"]

\* User::save, Client::save and Scope::update_mapping_only inside the transaction
\* write the caches at once, before the commit.
Save(r) ==
    LET q == req[r] IN
    /\ q.step = "save" /\ ~KeyTaken(q)
    /\ CASE q.kind \in {"roles", "groups"} ->
              /\ cached' = [cached EXCEPT !.user = IF q.holder = Null THEN @ ELSE q.holder]
              /\ UNCHANGED <<list, entries>>
         [] q.kind = "scopes" ->
              /\ cached' = [cached EXCEPT !.client = IF q.holder = Null THEN @ ELSE q.holder]
              /\ UNCHANGED <<list, entries>>
         [] q.kind = "attrs" ->
              /\ list' = [list EXCEPT !["scopes"] =
                            IF q.holder = {} THEN @ ELSE WithMappings(FindAll("scopes"), q.holder)]
              /\ \/ /\ q.op = "delete"
                    /\ entries' = entries \ {q.old.name}
                    /\ cached' = [cached EXCEPT !.values = IF q.old.name \in values THEN Null ELSE @]
                 \/ q.op = "rename" /\ UNCHANGED <<entries, cached>>
    /\ req' = [req EXCEPT ![r].step = "commit"]
    /\ UNCHANGED <<tables, twice, directoryHistory>>

\* The row itself: deleted by its id, or written over
NewRows(table, q) ==
    IF q.op = "delete" THEN {x \in table : x.id # q.old.id}
    ELSE {IF x.id = q.old.id THEN q.new ELSE x : x \in table}

\* Values refer to their attribute with a foreign key that cascades.
Cascaded(q) ==
    IF q.old.name \notin values THEN values
    ELSE IF q.op = "delete" THEN values \ {q.old.name}
    ELSE (values \ {q.old.name}) \cup {q.new.name}

Commit(r) ==
    LET q == req[r] IN
    /\ q.step = "commit" /\ ~KeyTaken(q)
    /\ rows' = [k \in Kinds |->
                  IF k = q.kind THEN NewRows(rows[k], q)
                  ELSE IF k = "scopes" /\ q.kind = "attrs" THEN WithMappings(rows[k], q.holder)
                  ELSE rows[k]]
    /\ user' = IF q.kind \in {"roles", "groups"} /\ q.holder # Null THEN q.holder ELSE user
    /\ client' = IF q.kind = "scopes" /\ q.holder # Null THEN q.holder ELSE client
    /\ values' = IF q.kind = "attrs" THEN Cascaded(q) ELSE values
    /\ req' = [req EXCEPT ![r].step = "list"]
    /\ UNCHANGED <<list, twice, entries, cached, directoryHistory>>

NewListCopied(q) == q.copy \cup {q.new}

\* The new list: the copy with the new row (create), or the list as it is now with
\* the row left out or changed.  A list is the set of its rows here, and twice has
\* the attributes that are in it two times.
NewList(q) ==
    CASE q.op = "create" /\ q.kind = "attrs" -> FindAll("attrs") \cup {q.new}
      [] q.op = "create" /\ q.kind # "attrs" -> q.copy \cup {q.new}
      [] OTHER -> NewRows(FindAll(q.kind), q)

\* UserAttrConfigEntity::create reads the list after the insert: if it was not cached,
\* it has the new row already, and the row is pushed once more.
NewTwice(q) ==
    IF q.kind # "attrs" THEN twice
    ELSE IF q.op = "create" THEN twice \cup ({q.new.id} \cap {x.id : x \in FindAll("attrs")})
    ELSE IF q.op = "delete" \/ q.old.id \notin twice THEN twice \ {q.old.id}
    ELSE (twice \ {q.old.id}) \cup {q.new.id}

\* Changes of scopes rebuild the well-known document, unless the name stays; a
\* renamed attribute drops the cached values.
More(q) == \/ q.kind = "scopes" /\ (q.op = "rename" => q.new.name # q.old.name)
           \/ q.kind = "attrs" /\ q.op = "rename"

CacheList(r) ==
    LET q == req[r] IN
        /\ q.step = "list"
        /\ list' = [list EXCEPT ![q.kind] = NewList(q)]
        /\ twice' = NewTwice(q)
        /\ req' = [req EXCEPT ![r] = IF More(q) THEN [@ EXCEPT !.step = "after"] ELSE NoOp]
        /\ UNCHANGED <<tables, entries, cached, directoryHistory>>

\* WellKnown::rebuild; the cache entries of users that had a value
After(r) ==
    LET q == req[r] IN
    /\ q.step = "after"
    /\ cached' = IF q.kind = "scopes" THEN [cached EXCEPT !.wellknown = Names(FindAll("scopes"))]
                 ELSE [cached EXCEPT !.values = IF q.old.name \in q.copy THEN Null ELSE @]
    /\ list' = IF q.kind = "scopes" THEN Filled({"scopes"}) ELSE list
    /\ req' = [req EXCEPT ![r] = NoOp]
    /\ UNCHANGED <<tables, twice, entries, directoryHistory>>
-----------------------------------------------------------------------------
\* The rows that carry the names

\* User::update, with Role::sanitize and Group::sanitize: the copy of the user is
\* the cached one, and names the lists do not have are dropped.
UpdateUser(r, roles, groups) ==
    LET new == [roles |-> Joined(FindAll("roles"), roles),
                groups |-> Joined(FindAll("groups"), groups)]
    IN  /\ Begin(r, Op("put", "user", "row", NoRow, NoRow, {}, new))
        /\ list' = Filled({"roles", "groups"})
        /\ UNCHANGED <<tables, entries, cached, confused>>

\* Client::sanitize_scopes
SanitizeScopes(wanted) ==
    LET s == Joined(FindAll("scopes"), wanted)
    IN  IF s = <<>> THEN openid ELSE IF IsIn(openid, s) THEN s ELSE openid \o <<Comma>> \o s

\* update_client
UpdateClient(r, scopes, defaults) ==
    LET new == [scopes |-> SanitizeScopes(scopes), default_scopes |-> SanitizeScopes(defaults)]
    IN  /\ Begin(r, Op("put", "client", "row", NoRow, NoRow, {}, new))
        /\ list' = Filled({"scopes"})
        /\ UNCHANGED <<tables, entries, cached, confused>>

\* UserAttrValueEntity::update_for_user: set or delete one value
UpdateValue(r, key, set) ==
    /\ Begin(r, Op(IF set THEN "put" ELSE "delete", "values", "row", NoRow, Row(key, key, <<>>), {}, {}))
    /\ UNCHANGED <<tables, list, entries, cached, confused>>

\* The statement; a value without its attribute violates the foreign key.
WriteRow(r) ==
    LET q == req[r] IN
    /\ q.step = "row"
    /\ \/ /\ q.kind = "user"
          /\ user' = q.holder
          /\ granted' = {x.id : x \in {y \in FindAll("roles") : y.name \in Split(q.holder.roles)}}
          /\ req' = [req EXCEPT ![r].step = "cache"]
          /\ UNCHANGED <<client, values>>
       \/ /\ q.kind = "client"
          /\ client' = q.holder
          /\ req' = [req EXCEPT ![r].step = "cache"]
          /\ UNCHANGED <<user, values, granted>>
       \/ /\ q.kind = "values"
          /\ \/ /\ q.op = "delete" \/ q.new \in rows["attrs"]
                /\ values' = IF q.op = "put" THEN values \cup {q.new.name}
                             ELSE values \ {q.new.name}
                /\ req' = [req EXCEPT ![r] = [@ EXCEPT !.step = "cache", !.holder = values']]
             \/ /\ q.op = "put" /\ q.new \notin rows["attrs"]
                /\ req' = [req EXCEPT ![r] = NoOp]
                /\ UNCHANGED values
          /\ UNCHANGED <<user, client, granted>>
    /\ UNCHANGED <<rows, list, twice, entries, cached, ops, spoilt, confused>>

CacheRow(r) ==
    LET q == req[r] IN
    /\ q.step = "cache"
    /\ cached' = [cached EXCEPT ![q.kind] = q.holder]
    /\ req' = [req EXCEPT ![r] = NoOp]
    /\ UNCHANGED <<tables, list, twice, entries, directoryHistory>>

-----------------------------------------------------------------------------
\* A statement fails or the cache has no quorum: what was written so far stays,
\* the transaction does not.
Fail(r) ==
    /\ req[r] # NoOp
    /\ req' = [req EXCEPT ![r] = NoOp]
    /\ spoilt' = IF req[r].step \in {"insert", "row", "save"} THEN spoilt
                 ELSE spoilt \cup Uses(req[r].kind)
    /\ UNCHANGED <<tables, list, twice, entries, cached, ops, granted, confused>>

\* GET requests fill the caches.
Read(c) ==
    /\ ops < MaxOps /\ ops' = ops + 1
    /\ cached[c] = Null
    /\ cached' = [cached EXCEPT ![c] =
                    CASE c = "user" -> user [] c = "client" -> client [] c = "values" -> values
                      [] c = "wellknown" -> Names(FindAll("scopes"))]
    /\ list' = IF c = "wellknown" THEN Filled({"scopes"}) ELSE list
    /\ spoilt' = spoilt \cup ((IF c = "wellknown" THEN {"scopes"} ELSE {c}) \cap InUse)
    /\ UNCHANGED <<tables, twice, entries, req, granted, confused>>

\* An entry is not used for its time to live.
Expire(k) ==
    /\ ops < MaxOps /\ ops' = ops + 1
    /\ list[k] # Null
    /\ list' = [list EXCEPT ![k] = Null]
    /\ twice' = IF k = "attrs" THEN {} ELSE twice
    /\ UNCHANGED <<tables, entries, cached, req, granted, spoilt, confused>>

-----------------------------------------------------------------------------
DirectoryInit ==
    /\ rows = InitRows
    /\ list = [k \in Kinds |-> Null]
    /\ twice = {} /\ entries = {}
    /\ user = InitUser /\ client = InitClient /\ values = InitValues
    /\ cached = [user |-> Null, client |-> Null, values |-> Null, wellknown |-> Null]
    /\ req = [r \in Handlers |-> NoOp]
    /\ ops = 0
    /\ granted = {x.id : x \in {y \in InitRows["roles"] : y.name \in Split(InitUser.roles)}}
    /\ spoilt = {}
    /\ confused = {}

\* The lists of attributes that requests bring for a scope
Mappings == {<<>>, SetToSeq(NewNames["attrs"])}

Step(r) == Insert(r) \/ Save(r) \/ Commit(r) \/ CacheList(r) \/ After(r) \/ WriteRow(r) \/ CacheRow(r)

\* The handlers: what an administrator or an API key can ask for
RoleRequest(r) ==
    \/ \E name \in NewNames["roles"] :
          CreateRole(r, "roles", name) \/ \E x \in rows["roles"] : UpdateRole(r, x, name)
    \/ \E x \in rows["roles"] : DeleteRole(r, x)

GroupRequest(r) ==
    \/ \E name \in NewNames["groups"] :
          CreateGroup(r, "groups", name) \/ \E x \in rows["groups"] : UpdateGroup(r, x, name)
    \/ \E x \in rows["groups"] : DeleteGroup(r, x)

ScopeRequest(r) ==
    \/ \E name \in NewNames["scopes"], w \in Mappings :
          CreateScope(r, name, w) \/ \E x \in rows["scopes"] : UpdateScope(r, x, name, w)
    \/ \E x \in rows["scopes"] : DeleteScope(r, x)

AttrRequest(r) ==
    \E name \in NewNames["attrs"] :
        \/ CreateAttr(r, name) \/ DeleteAttr(r, name)
        \/ \E old \in NewNames["attrs"] : UpdateAttr(r, old, name)

DirectoryNext ==
    \/ \E r \in Handlers :
        \/ Step(r) \/ Fail(r)
        \/ RoleRequest(r) \/ GroupRequest(r) \/ ScopeRequest(r) \/ AttrRequest(r)
        \/ \E name \in NewNames["attrs"], set \in BOOLEAN : UpdateValue(r, name, set)
        \/ \E want \in UserRequests : UpdateUser(r, want[1], want[2])
        \/ \E want \in ClientRequests : UpdateClient(r, want[1], want[2])
    \/ \E c \in DOMAIN cached : Read(c)
    \/ \E k \in Kinds : Expire(k)

DirectorySpec == DirectoryInit /\ [][DirectoryNext]_directoryVars

-----------------------------------------------------------------------------
\* Tables that no two requests worked on at the same time, and that no request
\* works on now
Quiet(ts) == ts \cap (spoilt \cup InUse) = {}

\* The state is well-formed, and whatever requests overlap or fail, the foreign
\* key keeps values without an attribute out (user_attr_values).
DirectoryTypeOK ==
    /\ WellFormed(rows) /\ DOMAIN list = Kinds
    /\ DOMAIN user = {"roles", "groups"} /\ DOMAIN client = {"scopes", "default_scopes"}
    /\ values \subseteq Names(rows["attrs"])
    /\ ops \in 0 .. MaxOps

\* After any sequence of requests, each cached list, row and the well-known document
\* is what the tables hold, unless requests that use the same tables overlapped or
\* failed midway: the lists are never read back from the database, each request
\* derives the new one from the old (create, delete and update of all four kinds).
\* A list has exactly the rows of its table; the attributes it has twice exist.
CachesAgree ==
    /\ \A k \in Kinds : Quiet({k}) => list[k] \in {Null, rows[k]}
    /\ Quiet({"attrs"}) => twice \subseteq {x.id : x \in rows["attrs"]}
    /\ Quiet({"user"}) => cached.user \in {Null, user}
    /\ Quiet({"client"}) => cached.client \in {Null, client}
    /\ Quiet({"values", "attrs"}) => cached.values \in {Null, values}
    /\ Quiet({"scopes"}) => cached.wellknown \in {Null, Names(rows["scopes"])}

\* No user keeps a role or a group, no client a scope, and no scope a mapping that
\* does not exist any more, unless a name that is a part of a longer one in the same
\* string was removed or replaced there, and no value is left of a deleted attribute
\* (delete_role, delete_group, delete_scope, update_mapping_only, the foreign key of
\* user_attr_values).  Default scopes are not among them: delete_scope returns early
\* when only these have the scope, although Scope::delete has found the client.
NoDangling ==
    /\ DirectoryTypeOK
    /\ Quiet({"user", "roles"}) /\ "roles" \notin confused =>
          Split(user.roles) \subseteq Names(rows["roles"])
    /\ Quiet({"user", "groups"}) /\ "groups" \notin confused =>
          Split(user.groups) \subseteq Names(rows["groups"])
    /\ Quiet({"client", "scopes"}) /\ "scopes" \notin confused =>
          Split(client.scopes) \subseteq Names(rows["scopes"])
    /\ Quiet({"scopes", "attrs"}) /\ "attrs" \notin confused =>
          \A x \in rows["scopes"] : Split(x.attrs) \subseteq Names(rows["attrs"])

RolesOf == {x.name : x \in {y \in rows["roles"] : y.id \in granted}}

\* Through renames and deletions, also of other roles, the user holds exactly the
\* roles an administrator has assigned, unless a role was renamed or deleted whose
\* name is a part of the name of another role of this user, as admin is of
\* rauthy_admin, or two roles got the same name (Role::update and delete_role
\* replace in strings, not in lists of names).
GrantsFollowIds ==
    Quiet({"user", "roles"}) /\ "roles" \notin confused => Split(user.roles) = RolesOf
=============================================================================
