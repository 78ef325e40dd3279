----------------------------- MODULE TyrAccounts -----------------------------
(***************************************************************************)
(* The accounts that tyr keeps and that jormungandr authenticates with:    *)
(* end points, billing plans, users, their keys, authorizations and street *)
(* network backends, and the instances and traveler profiles.  Several     *)
(* administrators call the API at once: a handler that reads a row, parses *)
(* its arguments and commits later is two steps, the database (PostgreSQL, *)
(* read committed) runs what others commit in between.  A handler whose    *)
(* only read is the one its commit checks is one step.  An email follows   *)
(* the rules of the login, default_coord those of block_until, and both    *)
(* are left out.                                                           *)
(***************************************************************************)
EXTENDS FiniteSets, Functions

CONSTANTS
  EndPoints, Plans, Users, Logins, Types, Tokens, Modes, Instances, Profiles,
  Requests,     \* the requests that can be open at once
  NoOne         \* no value

VARIABLES
  endPoint,     \* end point |-> is it the default one
  plan,         \* billing plan |-> its end point and whether it is a default
  user,         \* user |-> its row
  keys,         \* pairs of a user and a token
  authorization,\* pairs of a user and an instance
  snBackend,    \* pairs of a user and a mode
  instance,     \* instance |-> is it discarded
  profile,      \* pairs of an instance and a traveler type
  poiTypes,     \* the instances with a row of poi types
  req           \* what an open request has read

vars == <<endPoint, plan, user, keys, authorization, snBackend, instance, profile, poiTypes, req>>

Fields == {"login", "type", "ep", "plan", "block", "shape"}
Shapes == {"null", "polygon"}
Dates == {"none", "date"}
Idle == [kind |-> "idle"]
UserRow == [login: Logins, type: Types, ep: EndPoints, plan: Plans, block: Dates,
            blockedAt: BOOLEAN, shape: Shapes, flag: BOOLEAN]
\* The values that the parser of a PUT gives.
Args == {a \in [Fields -> Logins \cup Types \cup EndPoints \cup Plans \cup Dates \cup Shapes] :
           /\ a.login \in Logins /\ a.type \in Types /\ a.ep \in EndPoints /\ a.plan \in Plans
           /\ a.block \in Dates /\ a.shape \in Shapes}

\* A table with one more row.
Insert(table, key, row) == [k \in DOMAIN table \cup {key} |-> IF k = key THEN row ELSE table[k]]
-----------------------------------------------------------------------------
\* EndPoint.get_default and BillingPlan.get_default: any of the rows marked as default.
DefaultEndPoints == {e \in DOMAIN endPoint : endPoint[e]}
DefaultPlans(e) == {p \in DOMAIN plan : plan[p].ep = e /\ plan[p].default}

\* The unique constraint on a login and an end point, but for the row that is written.
LoginFree(u, login, e) ==
  \A v \in DOMAIN user \ {u} : ~(user[v].login = login /\ user[v].ep = e)

\* The foreign key to the billing plan holds.
HasParents(row) == row.ep \in DOMAIN endPoint /\ row.plan \in DOMAIN plan

\* The rows that an open deletion has flushed: who writes them waits for its commit.
Locked == {<<req[r].user, req[r].mode>> : r \in {q \in Requests : req[q].kind = "sndelete"}}

\* A deletion that leaves the rows of the user behind.
CascadeNothing(gone) ==
  /\ user' = Restrict(user, DOMAIN user \ gone)
  /\ UNCHANGED <<keys, authorization, snBackend>>

\* A deletion takes the keys, the authorizations and the backends of the user along.
Cascade(gone) ==
  /\ \A row \in Locked : row[1] \notin gone
  /\ user' = Restrict(user, DOMAIN user \ gone)
  /\ keys' = {k \in keys : k[1] \notin gone}
  /\ authorization' = {a \in authorization : a[1] \notin gone}
  /\ snBackend' = {s \in snBackend : s[1] \notin gone}
-----------------------------------------------------------------------------
EndPointPost(e) ==
  /\ e \notin DOMAIN endPoint
  /\ endPoint' = Insert(endPoint, e, FALSE)
  /\ UNCHANGED <<plan, user, keys, authorization, snBackend, instance, profile, poiTypes, req>>

\* The users of the end point go with it; a billing plan keeps it alive, and the
\* transaction with everything it deleted is rolled back.
EndPointDelete(e) ==
  /\ e \in DOMAIN endPoint
  /\ \A p \in DOMAIN plan : plan[p].ep # e
  /\ endPoint' = Restrict(endPoint, DOMAIN endPoint \ {e})
  /\ Cascade({u \in DOMAIN user : user[u].ep = e})
  /\ UNCHANGED <<plan, instance, profile, poiTypes, req>>

BillingPlanPost(p, e, default) ==
  /\ p \notin DOMAIN plan
  /\ \/ e \in DOMAIN endPoint
     \/ e = NoOne /\ DefaultEndPoints # {}
  /\ \E f \in IF e = NoOne THEN DefaultEndPoints ELSE {e} :
       plan' = Insert(plan, p, [ep |-> f, default |-> default])
  /\ UNCHANGED <<endPoint, user, keys, authorization, snBackend, instance, profile, poiTypes, req>>

BillingPlanPut(p, e, default) ==
  /\ p \in DOMAIN plan
  /\ e \in DOMAIN endPoint
  /\ plan' = [plan EXCEPT ![p] = [ep |-> e, default |-> default]]
  /\ UNCHANGED <<endPoint, user, keys, authorization, snBackend, instance, profile, poiTypes, req>>

\* 409 when a user still has the plan.
BillingPlanDelete(p) ==
  /\ p \in DOMAIN plan
  /\ \A u \in DOMAIN user : user[u].plan # p
  /\ plan' = Restrict(plan, DOMAIN plan \ {p})
  /\ UNCHANGED <<endPoint, user, keys, authorization, snBackend, instance, profile, poiTypes, req>>
-----------------------------------------------------------------------------
\* User.post: a missing end point or plan is the default one of the end point; a
\* request that finds none is refused, and so is a login that is taken.
UserPost(u, login, type, e, p, block, shape) ==
  /\ u \notin DOMAIN user
  /\ \A r \in Requests : req[r] # Idle => req[r].user # u      \* identifiers are never used again
  /\ \E f \in IF e = NoOne THEN DefaultEndPoints ELSE {e} \cap DOMAIN endPoint :
       \E q \in IF p = NoOne THEN DefaultPlans(f) ELSE {p} \cap DOMAIN plan :
         /\ LoginFree(u, login, f)
         /\ user' = Insert(user, u, [login |-> login, type |-> type, ep |-> f, plan |-> q, block |-> block,
                                     blockedAt |-> block # "none", shape |-> shape, flag |-> FALSE])
  /\ UNCHANGED <<endPoint, plan, keys, authorization, snBackend, instance, profile, poiTypes, req>>

\* The values the parser of User.put gives: a field that is not in the request keeps
\* the value of the row that was read, but block_until is cleared.  An empty shape
\* stands for the one that GET did not show.
PutArgs(row, given) ==
  [f \in Fields |-> IF f = "block" THEN (IF f \in DOMAIN given THEN given[f] ELSE "none")
                    ELSE IF f \in DOMAIN given /\ ~(f = "shape" /\ given[f] = "hidden") THEN given[f]
                    ELSE row[f]]

\* User.put reads the row and parses the request, whose fields are those of given.
\* The parser refuses the ISO dates that GET shows: given never holds one.
UserPut(r, u, given) ==
  /\ req[r] = Idle
  /\ u \in DOMAIN user
  /\ LET args == PutArgs(user[u], given) IN
       /\ args.ep \in DOMAIN endPoint /\ args.plan \in DOMAIN plan
       /\ req' = [req EXCEPT ![r] =
                   [kind |-> "put", user |-> u, snap |-> user[u], args |-> args, given |-> given]]
  /\ UNCHANGED <<endPoint, plan, user, keys, authorization, snBackend, instance, profile, poiTypes>>

\* A session that writes every column back.
WrittenWhole(row, snap, args) ==
  [f \in DOMAIN row |->
     IF f \in Fields THEN args[f]
     ELSE IF f = "blockedAt" THEN row[f] \/ args.block # "none"
     ELSE row[f]]

\* The row as the commit leaves it: the session writes the columns whose value it
\* changed, and blocked_at with every block_until.
Written(row, snap, args) ==
  [f \in DOMAIN row |->
     IF f \in Fields THEN (IF args[f] # snap[f] THEN args[f] ELSE row[f])
     ELSE IF f = "blockedAt" THEN row[f] \/ args.block # "none"
     ELSE row[f]]

UserPutCommit(r) ==
  /\ req[r].kind = "put"
  /\ LET q == req[r] IN
       \/ /\ q.user \in DOMAIN user
          /\ LET row == Written(user[q.user], q.snap, q.args) IN
               /\ HasParents(row)
               /\ LoginFree(q.user, row.login, row.ep)
               /\ user' = [user EXCEPT ![q.user] = row]
       \/ \* the row is gone, a parent is gone or the login is taken: error and rollback
          /\ q.user \in DOMAIN user =>
               LET row == Written(user[q.user], q.snap, q.args)
               IN  ~HasParents(row) \/ ~LoginFree(q.user, row.login, row.ep)
          /\ UNCHANGED user
  /\ req' = [req EXCEPT ![r] = Idle]
  /\ UNCHANGED <<endPoint, plan, keys, authorization, snBackend, instance, profile, poiTypes>>

UserDelete(u) ==
  /\ u \in DOMAIN user
  /\ Cascade({u})
  /\ UNCHANGED <<endPoint, plan, instance, profile, poiTypes, req>>
-----------------------------------------------------------------------------
KeyPost(u, t) ==
  /\ u \in DOMAIN user
  /\ \A v \in Users : <<v, t>> \notin keys       \* uuid4
  /\ keys' = keys \cup {<<u, t>>}
  /\ UNCHANGED <<endPoint, plan, user, authorization, snBackend, instance, profile, poiTypes, req>>

\* The key must be one of the user of the url.
KeyDelete(u, t) ==
  /\ u \in DOMAIN user
  /\ <<u, t>> \in keys
  /\ keys' = keys \ {<<u, t>>}
  /\ UNCHANGED <<endPoint, plan, user, authorization, snBackend, instance, profile, poiTypes, req>>

\* Instance.query: a discarded instance can still be authorized.
AuthorizationPost(u, i) ==
  /\ u \in DOMAIN user /\ i \in DOMAIN instance
  /\ <<u, i>> \notin authorization
  /\ authorization' = authorization \cup {<<u, i>>}
  /\ UNCHANGED <<endPoint, plan, user, keys, snBackend, instance, profile, poiTypes, req>>

AuthorizationDelete(u, i) ==
  /\ u \in DOMAIN user
  /\ <<u, i>> \in authorization
  /\ authorization' = authorization \ {<<u, i>>}
  /\ UNCHANGED <<endPoint, plan, user, keys, snBackend, instance, profile, poiTypes, req>>

\* SnBackendAuthorization.post reads the user with its flag ...
SnPost(r, u, m) ==
  /\ req[r] = Idle
  /\ u \in DOMAIN user
  /\ req' = [req EXCEPT ![r] = [kind |-> "snpost", user |-> u, mode |-> m, flag |-> user[u].flag]]
  /\ UNCHANGED <<endPoint, plan, user, keys, authorization, snBackend, instance, profile, poiTypes>>

\* ... and commits the row, with the flag if it read FALSE.  409 for a second row of the mode.
SnPostCommit(r) ==
  /\ req[r].kind = "snpost"
  /\ <<req[r].user, req[r].mode>> \notin Locked
  /\ LET q == req[r] IN
       \/ /\ q.user \in DOMAIN user /\ <<q.user, q.mode>> \notin snBackend
          /\ snBackend' = snBackend \cup {<<q.user, q.mode>>}
          /\ user' = IF q.flag THEN user ELSE [user EXCEPT ![q.user].flag = TRUE]
       \/ /\ q.user \notin DOMAIN user \/ <<q.user, q.mode>> \in snBackend
          /\ UNCHANGED <<snBackend, user>>
  /\ req' = [req EXCEPT ![r] = Idle]
  /\ UNCHANGED <<endPoint, plan, keys, authorization, instance, profile, poiTypes>>

\* SnBackendAuthorization.delete flushes the deletion, then counts the rows of the
\* user that its transaction sees: those that are committed, without its own.
SnDelete(r, u, m) ==
  /\ req[r] = Idle
  /\ u \in DOMAIN user
  /\ <<u, m>> \in snBackend
  /\ <<u, m>> \notin Locked
  /\ req' = [req EXCEPT ![r] =
              [kind |-> "sndelete", user |-> u, mode |-> m, flag |-> user[u].flag,
               left |-> {n \in Modes : <<u, n>> \in snBackend /\ n # m} # {}]]
  /\ UNCHANGED <<endPoint, plan, user, keys, authorization, snBackend, instance, profile, poiTypes>>

\* The commit: the flag is written if the count differs from the value it read.
SnDeleteCommit(r) ==
  /\ req[r].kind = "sndelete"
  /\ LET q == req[r] IN
       /\ snBackend' = snBackend \ {<<q.user, q.mode>>}
       /\ user' = IF q.user \in DOMAIN user /\ q.left # q.flag
                  THEN [user EXCEPT ![q.user].flag = q.left] ELSE user
  /\ req' = [req EXCEPT ![r] = Idle]
  /\ UNCHANGED <<endPoint, plan, keys, authorization, instance, profile, poiTypes>>
-----------------------------------------------------------------------------
\* Instance.post refuses a name that ever existed, a discarded one included.
InstancePost(i) ==
  /\ i \notin DOMAIN instance
  /\ instance' = Insert(instance, i, FALSE)
  /\ UNCHANGED <<endPoint, plan, user, keys, authorization, snBackend, profile, poiTypes, req>>

\* Instance.delete only marks the row: what hangs on it stays.
InstanceDelete(i) ==
  /\ i \in DOMAIN instance
  /\ instance' = [instance EXCEPT ![i] = TRUE]
  /\ UNCHANGED <<endPoint, plan, user, keys, authorization, snBackend, profile, poiTypes, req>>

ProfilePost(i, t) ==
  /\ i \in DOMAIN instance /\ ~instance[i]
  /\ <<i, t>> \notin profile
  /\ profile' = profile \cup {<<i, t>>}
  /\ UNCHANGED <<endPoint, plan, user, keys, authorization, snBackend, instance, poiTypes, req>>

ProfileDelete(i, t) ==
  /\ <<i, t>> \in profile
  /\ profile' = profile \ {<<i, t>>}
  /\ UNCHANGED <<endPoint, plan, user, keys, authorization, snBackend, instance, poiTypes, req>>

\* _validate_poi_types_json: no identifier twice, the parking and the bicycle rental
\* are there, and a rule gives a type that is defined.
ValidPoiTypes(ids, rules) ==
  /\ IsInjective(ids)
  /\ {"amenity:parking", "amenity:bicycle_rental"} \subseteq Range(ids)
  /\ rules \subseteq Range(ids)

PoiTypePost(i, ids, rules) ==
  /\ i \in DOMAIN instance /\ ~instance[i]
  /\ ValidPoiTypes(ids, rules)
  /\ poiTypes' = poiTypes \cup {i}
  /\ UNCHANGED <<endPoint, plan, user, keys, authorization, snBackend, instance, profile, req>>

PoiTypeDelete(i) ==
  /\ i \in DOMAIN instance /\ ~instance[i]
  /\ poiTypes' = poiTypes \ {i}
  /\ UNCHANGED <<endPoint, plan, user, keys, authorization, snBackend, instance, profile, req>>
-----------------------------------------------------------------------------
\* The requests of the model: the result of a GET, or one field.
Echo(row) == [f \in (Fields \ {"ep", "plan"}) \ {"block"} |->
                IF f = "shape" /\ row.shape # "null" THEN "hidden" ELSE row[f]]
OneField ==
  UNION {[login : Logins], [type : Types], [ep : EndPoints], [plan : Plans], [block : {"date"}], [shape : Shapes]}

PoiConfs ==
  {<<<<"amenity:parking", "amenity:bicycle_rental">>, {"amenity:parking"}>>,
   <<<<"amenity:parking", "amenity:bicycle_rental">>, {"amenity:school"}>>,
   <<<<"amenity:parking">>, {}>>}

Init ==
  /\ \E e \in EndPoints, p \in Plans :
       /\ endPoint = [f \in {e} |-> TRUE]
       /\ plan = [q \in {p} |-> [ep |-> e, default |-> TRUE]]
  /\ user = <<>> /\ keys = {} /\ authorization = {} /\ snBackend = {}
  /\ instance = <<>> /\ profile = {} /\ poiTypes = {}
  /\ req = [r \in Requests |-> Idle]

Tables ==
  \/ \E e \in EndPoints : EndPointPost(e) \/ EndPointDelete(e)
  \/ \E p \in Plans, e \in EndPoints \cup {NoOne}, d \in BOOLEAN : BillingPlanPost(p, e, d)
  \/ \E p \in Plans, e \in EndPoints, d \in BOOLEAN : BillingPlanPut(p, e, d)
  \/ \E p \in Plans : BillingPlanDelete(p)
  \/ \E i \in Instances : InstancePost(i) \/ InstanceDelete(i) \/ PoiTypeDelete(i)
  \/ \E i \in Instances, c \in PoiConfs : PoiTypePost(i, c[1], c[2])
  \/ \E i \in Instances, t \in Profiles : ProfilePost(i, t) \/ ProfileDelete(i, t)

UsersOfTables ==
  \/ \E u \in Users, l \in Logins, t \in Types, e \in EndPoints \cup {NoOne}, p \in Plans \cup {NoOne},
        b \in Dates, s \in Shapes : UserPost(u, l, t, e, p, b, s)
  \/ \E u \in Users : UserDelete(u)
  \/ \E u \in Users, t \in Tokens : KeyPost(u, t) \/ KeyDelete(u, t)
  \/ \E u \in Users, i \in Instances : AuthorizationPost(u, i) \/ AuthorizationDelete(u, i)

Backends ==
  \/ \E r \in Requests, u \in Users, m \in Modes : SnPost(r, u, m) \/ SnDelete(r, u, m)
  \/ \E r \in Requests : SnPostCommit(r) \/ SnDeleteCommit(r)

Puts ==
  \/ \E r \in Requests, u \in DOMAIN user : \E g \in OneField \cup {Echo(user[u])} : UserPut(r, u, g)
  \/ \E r \in Requests : UserPutCommit(r)

Next == Tables \/ UsersOfTables \/ Backends \/ Puts
Spec == Init /\ [][Next]_vars
-----------------------------------------------------------------------------
\* What an open request holds: a PUT the row as it was read, the values its parser gave and what it was
\* given; the requests on backends the flag they read.
Put == [kind : {"put"}, user : Users, snap : UserRow, args : Args, given : OneField \cup {Echo(row) : row \in UserRow}]
SnWrite == [kind : {"snpost"}, user : Users, mode : Modes, flag : BOOLEAN]
SnRemoval == [kind : {"sndelete"}, user : Users, mode : Modes, flag : BOOLEAN, left : BOOLEAN]
\* What the variables hold: tables as functions of their keys, relations as pairs, open requests.
TypeOK ==
  /\ DOMAIN endPoint \subseteq EndPoints /\ endPoint \in [DOMAIN endPoint -> BOOLEAN]
  /\ DOMAIN plan \subseteq Plans /\ plan \in [DOMAIN plan -> [ep: EndPoints, default: BOOLEAN]]
  /\ DOMAIN user \subseteq Users /\ user \in [DOMAIN user -> UserRow]
  /\ keys \subseteq Users \X Tokens
  /\ authorization \subseteq Users \X Instances
  /\ snBackend \subseteq Users \X Modes
  /\ DOMAIN instance \subseteq Instances /\ instance \in [DOMAIN instance -> BOOLEAN]
  /\ profile \subseteq Instances \X Profiles /\ poiTypes \subseteq Instances
  /\ req \in [Requests -> {Idle} \cup Put \cup SnWrite \cup SnRemoval]

\* Every row's parents exist: deleting a user, an end point or a billing plan, in any
\* order and with requests open, leaves no key that still opens the API and no user
\* without end point or plan.
NoDanglingRow ==
  /\ \A p \in DOMAIN plan : plan[p].ep \in DOMAIN endPoint
  /\ \A u \in DOMAIN user : HasParents(user[u])
  /\ \A k \in keys \cup authorization \cup snBackend : k[1] \in DOMAIN user

\* Two users of an end point never share a login, whatever moves them there: a
\* creation, a new login or a change of end point by a PUT that read the row earlier.
LoginUnique ==
  \A u, v \in DOMAIN user : u # v => ~(user[u].login = user[v].login /\ user[u].ep = user[v].ep)

\* What deletions, creations and changes that run beside each other leave in the tables
\* (resources.py) fits together.
AccountsConsistent == NoDanglingRow /\ LoginUnique

\* has_sn_backend tells whether the user has a backend of its own: jormungandr looks
\* for one only when it is set.
FlagFollowsRows ==
  \A u \in DOMAIN user : user[u].flag <=> \E m \in Modes : <<u, m>> \in snBackend

\* A PUT changes the fields it names, and block_until: what another request committed
\* since the PUT read the row stays.  Giving the result of GET to PUT changes nothing, with
\* a shape that GET hid included.
PutKeepsOthers ==
  [][\A r \in Requests :
       (req[r].kind = "put" /\ req'[r] = Idle /\ req[r].user \in DOMAIN user) =>
         /\ \A f \in Fields \ (DOMAIN req[r].given \cup {"block"}) :
              user'[req[r].user][f] = user[req[r].user][f]
         /\ req[r].given = Echo(req[r].snap) =>
              \A f \in Fields \ {"block"} : user'[req[r].user][f] = user[req[r].user][f]]_vars
=============================================================================
