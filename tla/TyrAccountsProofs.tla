-------------------------- MODULE TyrAccountsProofs --------------------------
(***************************************************************************)
(* Proofs about the account tables of tyr: any number of rows and of       *)
(* requests that run beside each other.                                    *)
(***************************************************************************)
EXTENDS TyrAccounts, TLAPS

\* An open PUT writes what its parser made of the row it read and of the request.
PutInv == \A r \in Requests : req[r].kind = "put" => req[r].args = PutArgs(req[r].snap, req[r].given)

IInv == TypeOK /\ PutInv /\ NoDanglingRow /\ LoginUnique

-----------------------------------------------------------------------------
(* Operators *)

\* What the parser of User.put gives has the types of the columns.
LEMMA ParsedArgs ==
    ASSUME NEW row \in UserRow, NEW given \in OneField \cup {Echo(x) : x \in UserRow}
    PROVE  PutArgs(row, given) \in Args
  <1> DEFINE a == PutArgs(row, given)
  <1>1. a = [f \in Fields |-> a[f]]
    BY DEF PutArgs
  <1>2. /\ a.login = IF "login" \in DOMAIN given THEN given.login ELSE row.login
        /\ a.type = IF "type" \in DOMAIN given THEN given.type ELSE row.type
        /\ a.ep = IF "ep" \in DOMAIN given THEN given.ep ELSE row.ep
        /\ a.plan = IF "plan" \in DOMAIN given THEN given.plan ELSE row.plan
        /\ a.block = IF "block" \in DOMAIN given THEN given.block ELSE "none"
        /\ a.shape = IF "shape" \in DOMAIN given /\ given.shape # "hidden" THEN given.shape ELSE row.shape
    BY DEF PutArgs, Fields
  <1>3. /\ "login" \in DOMAIN given => given.login \in Logins
        /\ "type" \in DOMAIN given => given.type \in Types
        /\ "ep" \in DOMAIN given => given.ep \in EndPoints
        /\ "plan" \in DOMAIN given => given.plan \in Plans
        /\ "block" \in DOMAIN given => given.block \in Dates
        /\ "shape" \in DOMAIN given => given.shape \in Shapes \cup {"hidden"}
    <2>1. CASE given \in OneField
      BY <2>1 DEF OneField, Dates
    <2>2. CASE given \in {Echo(x) : x \in UserRow}
      <3>1. PICK x \in UserRow : given = Echo(x)
        BY <2>2
      <3>2. DOMAIN given = {"login", "type", "shape"}
        BY <3>1 DEF Echo, Fields
      <3>3. given.login = x.login /\ given.type = x.type /\ given.shape \in {"hidden", x.shape}
        BY <3>1 DEF Echo, Fields
      <3> QED BY <3>2, <3>3 DEF UserRow
    <2> QED BY <2>1, <2>2
  <1>4. /\ a.login \in Logins /\ a.type \in Types /\ a.ep \in EndPoints /\ a.plan \in Plans
        /\ a.block \in Dates /\ a.shape \in Shapes
    BY <1>2, <1>3 DEF UserRow, Dates
  <1> HIDE DEF a
  <1>5. a \in [Fields -> Logins \cup Types \cup EndPoints \cup Plans \cup Dates \cup Shapes]
    BY <1>1, <1>4 DEF Fields
  <1> QED BY <1>4, <1>5 DEF Args, a

\* What a commit of User.put writes is a row.
LEMMA WrittenRow ==
    ASSUME NEW row \in UserRow, NEW snap \in UserRow, NEW args \in Args
    PROVE  Written(row, snap, args) \in UserRow
  BY DEF Written, UserRow, Fields, Args

-----------------------------------------------------------------------------
(* Requests *)

\* A request that ends, or one that holds no PUT.
LEMMA RequestMoves ==
    ASSUME TypeOK, PutInv, NEW r \in Requests, NEW q \in {Idle} \cup SnWrite \cup SnRemoval,
           req' = [req EXCEPT ![r] = q]
    PROVE  /\ req' \in [Requests -> {Idle} \cup Put \cup SnWrite \cup SnRemoval]
           /\ PutInv'
  <1>1. /\ req' \in [Requests -> {Idle} \cup Put \cup SnWrite \cup SnRemoval]
        /\ req'[r] = q /\ \A x \in Requests \ {r} : req'[x] = req[x]
    BY DEF TypeOK
  <1>2. q.kind # "put"
    BY DEF Idle, SnWrite, SnRemoval
  <1> QED BY <1>1, <1>2 DEF PutInv

\* The kind of an open request tells what it holds.
LEMMA RequestKinds ==
    ASSUME TypeOK, NEW r \in Requests
    PROVE  /\ req[r].kind = "put" => req[r] \in Put
           /\ req[r].kind = "snpost" => req[r] \in SnWrite
           /\ req[r].kind = "sndelete" => req[r] \in SnRemoval
  <1>1. req[r] \in {Idle} \cup Put \cup SnWrite \cup SnRemoval
    BY DEF TypeOK
  <1>2. /\ Idle.kind = "idle" /\ \A q \in Put : q.kind = "put"
        /\ \A q \in SnWrite : q.kind = "snpost"
    BY DEF Idle, Put, SnWrite, SnRemoval
  <1>3. \A q \in SnRemoval : q.kind = "sndelete"
    BY DEF SnRemoval
  <1> QED BY <1>1, <1>2, <1>3

-----------------------------------------------------------------------------
(* End points and billing plans *)

\* The rows that hang on a user go with it, and the others keep their parents.
LEMMA CascadePreserves ==
    ASSUME TypeOK, NoDanglingRow, LoginUnique, NEW gone, Cascade(gone)
    PROVE  /\ DOMAIN user' = DOMAIN user \ gone /\ user' \in [DOMAIN user' -> UserRow]
           /\ \A u \in DOMAIN user' : user'[u] = user[u]
           /\ keys' \subseteq keys /\ authorization' \subseteq authorization /\ snBackend' \subseteq snBackend
           /\ \A k \in keys' \cup authorization' \cup snBackend' : k[1] \in DOMAIN user'
           /\ LoginUnique'
  <1>1. user \in [DOMAIN user -> UserRow] /\ user' = Restrict(user, DOMAIN user \ gone)
    BY DEF TypeOK, Cascade
  <1>2. /\ DOMAIN user' = DOMAIN user \ gone /\ user' \in [DOMAIN user' -> UserRow]
        /\ \A u \in DOMAIN user' : user'[u] = user[u]
    BY <1>1 DEF Restrict
  <1>3. /\ keys' \subseteq keys /\ authorization' \subseteq authorization /\ snBackend' \subseteq snBackend
        /\ \A k \in keys' \cup authorization' \cup snBackend' : k[1] \notin gone
    BY DEF Cascade
  <1>4. \A k \in keys' \cup authorization' \cup snBackend' : k[1] \in DOMAIN user'
    BY <1>2, <1>3 DEF NoDanglingRow
  <1>5. LoginUnique'
    BY <1>2 DEF LoginUnique
  <1> QED BY <1>2, <1>3, <1>4, <1>5

\* POST of an end point.
LEMMA EndPointPostPreserves ==
    ASSUME IInv, NEW e \in EndPoints, EndPointPost(e)
    PROVE  IInv'
  <1> USE DEF IInv
  <1>1. /\ endPoint' = Insert(endPoint, e, FALSE)
        /\ UNCHANGED <<plan, user, keys, authorization, snBackend, instance, profile, poiTypes, req>>
    BY DEF EndPointPost
  <1>2. DOMAIN endPoint' = DOMAIN endPoint \cup {e} /\ endPoint' \in [DOMAIN endPoint' -> BOOLEAN]
    BY <1>1 DEF Insert, TypeOK
  <1>3. TypeOK'
    BY <1>1, <1>2 DEF TypeOK
  <1>4. NoDanglingRow' /\ LoginUnique' /\ PutInv'
    BY <1>1, <1>2 DEF NoDanglingRow, HasParents, LoginUnique, PutInv
  <1> QED BY <1>3, <1>4

\* DELETE of an end point: its users go with it.
LEMMA EndPointDeletePreserves ==
    ASSUME IInv, NEW e \in EndPoints, EndPointDelete(e)
    PROVE  IInv'
  <1> USE DEF IInv
  <1> DEFINE gone == {u \in DOMAIN user : user[u].ep = e}
  <1>1. /\ endPoint' = Restrict(endPoint, DOMAIN endPoint \ {e}) /\ Cascade(gone)
        /\ \A p \in DOMAIN plan : plan[p].ep # e
        /\ UNCHANGED <<plan, instance, profile, poiTypes, req>>
    BY DEF EndPointDelete
  <1>2. DOMAIN endPoint' = DOMAIN endPoint \ {e} /\ endPoint' \in [DOMAIN endPoint' -> BOOLEAN]
    BY <1>1 DEF Restrict, TypeOK
  <1>3. /\ DOMAIN user' = DOMAIN user \ gone /\ user' \in [DOMAIN user' -> UserRow]
        /\ \A u \in DOMAIN user' : user'[u] = user[u]
        /\ keys' \subseteq keys /\ authorization' \subseteq authorization /\ snBackend' \subseteq snBackend
        /\ \A k \in keys' \cup authorization' \cup snBackend' : k[1] \in DOMAIN user'
        /\ LoginUnique'
    BY <1>1, CascadePreserves
  <1>4. TypeOK'
    BY <1>1, <1>2, <1>3 DEF TypeOK
  <1>5. \A u \in DOMAIN user' : HasParents(user[u]) /\ user[u].ep # e
    BY <1>3 DEF NoDanglingRow
  <1>6. NoDanglingRow'
    BY <1>1, <1>2, <1>3, <1>5 DEF NoDanglingRow, HasParents
  <1>7. PutInv'
    BY <1>1 DEF PutInv
  <1> QED BY <1>3, <1>4, <1>6, <1>7

\* POST and PUT of a billing plan.
LEMMA PlanPreserves ==
    ASSUME IInv, NEW p \in Plans,
           \/ \E e \in EndPoints \cup {NoOne}, d \in BOOLEAN : BillingPlanPost(p, e, d)
           \/ \E e \in EndPoints, d \in BOOLEAN : BillingPlanPut(p, e, d)
    PROVE  IInv'
  <1> USE DEF IInv
  <1>1. UNCHANGED <<endPoint, user, keys, authorization, snBackend, instance, profile, poiTypes, req>>
    BY DEF BillingPlanPost, BillingPlanPut
  <1>2. /\ DOMAIN plan' = DOMAIN plan \cup {p} /\ plan' \in [DOMAIN plan' -> [ep: EndPoints, default: BOOLEAN]]
        /\ plan'[p].ep \in DOMAIN endPoint
        /\ \A q \in DOMAIN plan \ {p} : plan'[q] = plan[q]
    <2>1. CASE \E e \in EndPoints \cup {NoOne}, d \in BOOLEAN : BillingPlanPost(p, e, d)
      <3>1. PICK f \in DOMAIN endPoint, d \in BOOLEAN : plan' = Insert(plan, p, [ep |-> f, default |-> d])
        BY <2>1 DEF BillingPlanPost, DefaultEndPoints
      <3>2. [ep |-> f, default |-> d] \in [ep: EndPoints, default: BOOLEAN]
        BY DEF TypeOK
      <3>3. DOMAIN plan \subseteq Plans /\ plan \in [DOMAIN plan -> [ep: EndPoints, default: BOOLEAN]]
        BY DEF TypeOK
      <3> QED BY <3>1, <3>2, <3>3 DEF Insert
    <2>2. CASE \E e \in EndPoints, d \in BOOLEAN : BillingPlanPut(p, e, d)
      <3>1. PICK e \in EndPoints, d \in BOOLEAN :
              p \in DOMAIN plan /\ e \in DOMAIN endPoint /\ plan' = [plan EXCEPT ![p] = [ep |-> e, default |-> d]]
        BY <2>2 DEF BillingPlanPut
      <3> QED BY <3>1 DEF TypeOK
    <2> QED BY <2>1, <2>2
  <1>3. TypeOK'
    BY <1>1, <1>2 DEF TypeOK
  <1>4. NoDanglingRow' /\ LoginUnique' /\ PutInv'
    BY <1>1, <1>2 DEF NoDanglingRow, HasParents, LoginUnique, PutInv
  <1> QED BY <1>3, <1>4

\* DELETE of a billing plan that no user has.
LEMMA PlanDeletePreserves ==
    ASSUME IInv, NEW p \in Plans, BillingPlanDelete(p)
    PROVE  IInv'
  <1> USE DEF IInv
  <1>1. /\ plan' = Restrict(plan, DOMAIN plan \ {p}) /\ \A u \in DOMAIN user : user[u].plan # p
        /\ UNCHANGED <<endPoint, user, keys, authorization, snBackend, instance, profile, poiTypes, req>>
    BY DEF BillingPlanDelete
  <1>2. /\ DOMAIN plan' = DOMAIN plan \ {p} /\ plan' \in [DOMAIN plan' -> [ep: EndPoints, default: BOOLEAN]]
        /\ \A q \in DOMAIN plan' : plan'[q] = plan[q]
    BY <1>1 DEF Restrict, TypeOK
  <1>3. TypeOK'
    BY <1>1, <1>2 DEF TypeOK
  <1>4. NoDanglingRow' /\ LoginUnique' /\ PutInv'
    BY <1>1, <1>2 DEF NoDanglingRow, HasParents, LoginUnique, PutInv
  <1> QED BY <1>3, <1>4

-----------------------------------------------------------------------------
(* Users and what hangs on them *)

\* A user that is created has parents and a login that no other user of the end point has.
LEMMA UserPostPreserves ==
    ASSUME IInv, NEW u \in Users, NEW login \in Logins, NEW type \in Types, NEW e \in EndPoints \cup {NoOne},
           NEW p \in Plans \cup {NoOne}, NEW block \in Dates, NEW shape \in Shapes,
           UserPost(u, login, type, e, p, block, shape)
    PROVE  IInv'
  <1> USE DEF IInv
  <1> DEFINE row(f, q) == [login |-> login, type |-> type, ep |-> f, plan |-> q, block |-> block,
                           blockedAt |-> block # "none", shape |-> shape, flag |-> FALSE]
  <1>1. PICK f \in DOMAIN endPoint : \E q \in DOMAIN plan : LoginFree(u, login, f) /\ user' = Insert(user, u, row(f, q))
    BY DEF UserPost, DefaultEndPoints, DefaultPlans
  <1>2. PICK q \in DOMAIN plan : LoginFree(u, login, f) /\ user' = Insert(user, u, row(f, q))
    BY <1>1
  <1>3. UNCHANGED <<endPoint, plan, keys, authorization, snBackend, instance, profile, poiTypes, req>>
    BY DEF UserPost
  <1> DEFINE new == row(f, q)
  <1>4. new \in UserRow /\ new.login = login /\ new.ep = f /\ new.plan = q
    BY DEF TypeOK, UserRow
  <1>5. user' = Insert(user, u, new)
    BY <1>2
  <1> HIDE DEF new
  <1>6. /\ DOMAIN user' = DOMAIN user \cup {u} /\ user' \in [DOMAIN user' -> UserRow]
        /\ user'[u] = new /\ \A v \in DOMAIN user \ {u} : user'[v] = user[v]
    BY <1>4, <1>5 DEF Insert, TypeOK
  <1>7. TypeOK'
    BY <1>3, <1>6 DEF TypeOK
  <1>8. NoDanglingRow'
    BY <1>3, <1>4, <1>6 DEF NoDanglingRow, HasParents
  <1>9. LoginUnique'
    <2>1. \A v \in DOMAIN user' \ {u} : v \in DOMAIN user /\ user'[v] = user[v]
      BY <1>6
    <2>2. \A v \in DOMAIN user' \ {u} : ~(user'[v].login = user'[u].login /\ user'[v].ep = user'[u].ep)
      <3>1. \A v \in DOMAIN user \ {u} : ~(user[v].login = new.login /\ user[v].ep = new.ep)
        BY <1>2, <1>4 DEF LoginFree
      <3> QED BY <1>6, <2>1, <3>1
    <2>3. \A v, w \in DOMAIN user' \ {u} : v # w => ~(user'[v].login = user'[w].login /\ user'[v].ep = user'[w].ep)
      BY <2>1 DEF LoginUnique
    <2> QED BY <2>2, <2>3 DEF LoginUnique
  <1>10. PutInv'
    BY <1>3 DEF PutInv
  <1> QED BY <1>7, <1>8, <1>9, <1>10

\* DELETE of a user, with the rows that depend on it.
LEMMA UserDeletePreserves ==
    ASSUME IInv, NEW u \in Users, UserDelete(u)
    PROVE  IInv'
  <1> USE DEF IInv
  <1>1. Cascade({u}) /\ UNCHANGED <<endPoint, plan, instance, profile, poiTypes, req>>
    BY DEF UserDelete
  <1>2. /\ DOMAIN user' = DOMAIN user \ {u} /\ user' \in [DOMAIN user' -> UserRow]
        /\ \A v \in DOMAIN user' : user'[v] = user[v]
        /\ keys' \subseteq keys /\ authorization' \subseteq authorization /\ snBackend' \subseteq snBackend
        /\ \A k \in keys' \cup authorization' \cup snBackend' : k[1] \in DOMAIN user'
        /\ LoginUnique'
    BY <1>1, CascadePreserves
  <1>3. TypeOK'
    BY <1>1, <1>2 DEF TypeOK
  <1>4. NoDanglingRow'
    BY <1>1, <1>2 DEF NoDanglingRow, HasParents
  <1>5. PutInv'
    BY <1>1 DEF PutInv
  <1> QED BY <1>2, <1>3, <1>4, <1>5

\* Keys and authorizations are given to users that exist.
LEMMA KeyAndAuthorizationPreserve ==
    ASSUME IInv, NEW u \in Users,
           \/ \E t \in Tokens : KeyPost(u, t) \/ KeyDelete(u, t)
           \/ \E i \in Instances : AuthorizationPost(u, i) \/ AuthorizationDelete(u, i)
    PROVE  IInv'
  <1> USE DEF IInv
  <1>1. /\ UNCHANGED <<endPoint, plan, user, snBackend, instance, profile, poiTypes, req>>
        /\ u \in DOMAIN user
        /\ \A k \in keys' : k \in keys \/ \E t \in Tokens : k = <<u, t>>
        /\ \A a \in authorization' : a \in authorization \/ \E i \in Instances : a = <<u, i>>
    <2>1. CASE \E t \in Tokens : KeyPost(u, t) \/ KeyDelete(u, t)
      BY <2>1 DEF KeyPost, KeyDelete
    <2>2. CASE \E i \in Instances : AuthorizationPost(u, i) \/ AuthorizationDelete(u, i)
      BY <2>2 DEF AuthorizationPost, AuthorizationDelete
    <2> QED BY <2>1, <2>2
  <1>2. keys' \subseteq Users \X Tokens /\ authorization' \subseteq Users \X Instances
    BY <1>1 DEF TypeOK
  <1>3. \A k \in keys' \cup authorization' : k[1] \in DOMAIN user'
    BY <1>1 DEF NoDanglingRow
  <1>4. TypeOK'
    BY <1>1, <1>2 DEF TypeOK
  <1>5. NoDanglingRow' /\ LoginUnique' /\ PutInv'
    BY <1>1, <1>3 DEF NoDanglingRow, HasParents, LoginUnique, PutInv
  <1> QED BY <1>4, <1>5

\* Instances, traveler profiles and poi types.
LEMMA InstancePreserves ==
    ASSUME IInv, NEW i \in Instances,
           \/ InstancePost(i) \/ InstanceDelete(i) \/ PoiTypeDelete(i)
           \/ \E c \in PoiConfs : PoiTypePost(i, c[1], c[2])
           \/ \E t \in Profiles : ProfilePost(i, t) \/ ProfileDelete(i, t)
    PROVE  IInv'
  <1> USE DEF IInv
  <1>1. UNCHANGED <<endPoint, plan, user, keys, authorization, snBackend, req>>
    BY DEF InstancePost, InstanceDelete, PoiTypeDelete, PoiTypePost, ProfilePost, ProfileDelete
  <1>2. DOMAIN instance' \subseteq Instances /\ instance' \in [DOMAIN instance' -> BOOLEAN]
    <2>1. CASE InstancePost(i)
      BY <2>1 DEF InstancePost, Insert, TypeOK
    <2>2. CASE InstanceDelete(i)
      BY <2>2 DEF InstanceDelete, TypeOK
    <2>3. CASE UNCHANGED instance
      BY <2>3 DEF TypeOK
    <2> QED BY <2>1, <2>2, <2>3 DEF PoiTypeDelete, PoiTypePost, ProfilePost, ProfileDelete
  <1>3. profile' \subseteq Instances \X Profiles /\ poiTypes' \subseteq Instances
    <2>1. CASE \E t \in Profiles : ProfilePost(i, t) \/ ProfileDelete(i, t)
      BY <2>1 DEF TypeOK, ProfilePost, ProfileDelete
    <2>2. CASE PoiTypeDelete(i) \/ \E c \in PoiConfs : PoiTypePost(i, c[1], c[2])
      BY <2>2 DEF TypeOK, PoiTypeDelete, PoiTypePost
    <2>3. CASE InstancePost(i) \/ InstanceDelete(i)
      BY <2>3 DEF TypeOK, InstancePost, InstanceDelete
    <2> QED BY <2>1, <2>2, <2>3
  <1>4. TypeOK'
    BY <1>1, <1>2, <1>3 DEF TypeOK
  <1>5. NoDanglingRow' /\ LoginUnique' /\ PutInv'
    BY <1>1 DEF NoDanglingRow, HasParents, LoginUnique, PutInv
  <1> QED BY <1>4, <1>5

-----------------------------------------------------------------------------
(* Requests of two steps *)

\* A flag of a user changes: its login and its parents do not.
LEMMA FlagKeepsRows ==
    ASSUME IInv, NEW u \in DOMAIN user, NEW flag \in BOOLEAN, user' = [user EXCEPT ![u].flag = flag], UNCHANGED <<endPoint, plan>>
    PROVE  /\ DOMAIN user' = DOMAIN user /\ user' \in [DOMAIN user' -> UserRow]
           /\ \A v \in DOMAIN user' : user'[v].ep \in DOMAIN endPoint /\ user'[v].plan \in DOMAIN plan
           /\ LoginUnique'
  <1> USE DEF IInv
  <1>1. DOMAIN user' = DOMAIN user /\ user' \in [DOMAIN user' -> UserRow]
    BY DEF TypeOK, UserRow
  <1>2. \A v \in DOMAIN user : user'[v].login = user[v].login /\ user'[v].ep = user[v].ep /\ user'[v].plan = user[v].plan
    BY DEF TypeOK, UserRow
  <1>3. \A v \in DOMAIN user : user[v].ep \in DOMAIN endPoint /\ user[v].plan \in DOMAIN plan
    BY DEF NoDanglingRow, HasParents
  <1>4. LoginUnique'
    BY <1>1, <1>2 DEF LoginUnique
  <1> QED BY <1>1, <1>2, <1>3, <1>4

\* A request about the street network backend of a user reads its row.
LEMMA SnPostPreserves ==
    ASSUME IInv, NEW r \in Requests, NEW u \in Users, NEW m \in Modes, SnPost(r, u, m) \/ SnDelete(r, u, m)
    PROVE  IInv'
  <1> USE DEF IInv
  <1>1. UNCHANGED <<endPoint, plan, user, keys, authorization, snBackend, instance, profile, poiTypes>>
    BY DEF SnPost, SnDelete
  <1>2. u \in DOMAIN user => user[u].flag \in BOOLEAN
    BY DEF TypeOK, UserRow
  <1>3. \E q \in SnWrite \cup SnRemoval : req' = [req EXCEPT ![r] = q]
    <2>1. CASE SnPost(r, u, m)
      BY <1>2, <2>1 DEF SnPost, SnWrite
    <2>2. CASE SnDelete(r, u, m)
      <3> DEFINE left == {n \in Modes : <<u, n>> \in snBackend /\ n # m} # {}
                 q == [kind |-> "sndelete", user |-> u, mode |-> m, flag |-> user[u].flag, left |-> left]
      <3>1. req' = [req EXCEPT ![r] = q] /\ u \in DOMAIN user
        BY <2>2 DEF SnDelete
      <3>2. left \in BOOLEAN
        BY Zenon
      <3> HIDE DEF left
      <3>3. q \in SnRemoval
        BY <1>2, <3>1, <3>2 DEF SnRemoval
      <3> QED BY <3>1, <3>3
    <2> QED BY <2>1, <2>2
  <1>4. /\ req' \in [Requests -> {Idle} \cup Put \cup SnWrite \cup SnRemoval]
        /\ PutInv'
    BY <1>3, RequestMoves
  <1>5. TypeOK'
    BY <1>1, <1>4 DEF TypeOK
  <1>6. NoDanglingRow' /\ LoginUnique'
    BY <1>1 DEF NoDanglingRow, HasParents, LoginUnique
  <1> QED BY <1>4, <1>5, <1>6

\* The commits of backends touch a row and a flag of a user that is still there.
LEMMA SnCommitPreserves ==
    ASSUME IInv, NEW r \in Requests, SnPostCommit(r) \/ SnDeleteCommit(r)
    PROVE  IInv'
  <1> USE DEF IInv
  <1>1. /\ UNCHANGED <<endPoint, plan, keys, authorization, instance, profile, poiTypes>>
        /\ req' = [req EXCEPT ![r] = Idle]
    BY DEF SnPostCommit, SnDeleteCommit
  <1>2. req' \in [Requests -> {Idle} \cup Put \cup SnWrite \cup SnRemoval] /\ PutInv'
    BY <1>1, RequestMoves
  <1>3. req[r] \in SnWrite \cup SnRemoval
    BY RequestKinds DEF SnPostCommit, SnDeleteCommit
  <1>4. req[r].user \in Users /\ req[r].mode \in Modes
    BY <1>3 DEF SnWrite, SnRemoval
  <1>5. /\ \A s \in snBackend' : s \in snBackend \/ (s = <<req[r].user, req[r].mode>> /\ req[r].user \in DOMAIN user)
        /\ \/ UNCHANGED user
           \/ req[r].user \in DOMAIN user /\ \E flag \in BOOLEAN : user' = [user EXCEPT ![req[r].user].flag = flag]
    <2>1. CASE SnPostCommit(r)
      BY <2>1 DEF SnPostCommit
    <2>2. CASE SnDeleteCommit(r)
      <3>1. req[r].left \in BOOLEAN
        BY <2>2, RequestKinds DEF SnDeleteCommit, SnRemoval
      <3> QED BY <2>2, <3>1 DEF SnDeleteCommit
    <2> QED BY <2>1, <2>2
  <1>6. /\ DOMAIN user' = DOMAIN user /\ user' \in [DOMAIN user' -> UserRow]
        /\ \A v \in DOMAIN user' : user'[v].ep \in DOMAIN endPoint /\ user'[v].plan \in DOMAIN plan
        /\ LoginUnique'
    <2>1. CASE UNCHANGED user
      BY <1>1, <2>1 DEF TypeOK, NoDanglingRow, HasParents, LoginUnique
    <2>2. CASE ~UNCHANGED user
      BY <1>1, <1>5, <2>2, FlagKeepsRows
    <2> QED BY <2>1, <2>2
  <1>7. snBackend' \subseteq Users \X Modes
    BY <1>4, <1>5 DEF TypeOK
  <1>8. TypeOK'
    BY <1>1, <1>2, <1>6, <1>7 DEF TypeOK
  <1>9. NoDanglingRow'
    BY <1>1, <1>5, <1>6 DEF NoDanglingRow, HasParents
  <1> QED BY <1>2, <1>6, <1>8, <1>9

\* A PUT of a user reads its row.
LEMMA UserPutPreserves ==
    ASSUME IInv, NEW r \in Requests, NEW u \in DOMAIN user, NEW given \in OneField \cup {Echo(user[u])}, UserPut(r, u, given)
    PROVE  IInv'
  <1> USE DEF IInv
  <1> DEFINE q == [kind |-> "put", user |-> u, snap |-> user[u], args |-> PutArgs(user[u], given), given |-> given]
  <1>1. /\ UNCHANGED <<endPoint, plan, user, keys, authorization, snBackend, instance, profile, poiTypes>>
        /\ req' = [req EXCEPT ![r] = q]
    BY DEF UserPut
  <1>2. user[u] \in UserRow /\ u \in Users
    BY DEF TypeOK
  <1>3. given \in OneField \cup {Echo(row) : row \in UserRow}
    BY <1>2
  <1>4. PutArgs(user[u], given) \in Args
    BY <1>2, <1>3, ParsedArgs
  <1>5. q \in Put /\ q.args = PutArgs(q.snap, q.given)
    BY <1>2, <1>3, <1>4 DEF Put
  <1> HIDE DEF q
  <1>6. /\ req' \in [Requests -> {Idle} \cup Put \cup SnWrite \cup SnRemoval]
        /\ req'[r] = q /\ \A x \in Requests \ {r} : req'[x] = req[x]
    BY <1>1, <1>5 DEF TypeOK
  <1>7. PutInv'
    BY <1>5, <1>6 DEF PutInv
  <1>8. TypeOK'
    BY <1>1, <1>6 DEF TypeOK
  <1>9. NoDanglingRow' /\ LoginUnique'
    BY <1>1 DEF NoDanglingRow, HasParents, LoginUnique
  <1> QED BY <1>7, <1>8, <1>9

\* The commit of a PUT writes a row that has its parents and its login for itself, or nothing.
LEMMA UserPutCommitPreserves ==
    ASSUME IInv, NEW r \in Requests, UserPutCommit(r)
    PROVE  IInv'
  <1> USE DEF IInv
  <1> DEFINE u == req[r].user
             row == Written(user[u], req[r].snap, req[r].args)
  <1>1. /\ UNCHANGED <<endPoint, plan, keys, authorization, snBackend, instance, profile, poiTypes>>
        /\ req' = [req EXCEPT ![r] = Idle]
    BY DEF UserPutCommit
  <1>2. req' \in [Requests -> {Idle} \cup Put \cup SnWrite \cup SnRemoval] /\ PutInv'
    BY <1>1, RequestMoves
  <1>3. req[r] \in Put
    BY RequestKinds DEF UserPutCommit
  <1>4. req[r].user \in Users /\ req[r].snap \in UserRow /\ req[r].args \in Args
    BY <1>3 DEF Put
  <1>5. CASE UNCHANGED user
    <2>1. TypeOK'
      BY <1>1, <1>2, <1>5 DEF TypeOK
    <2>2. NoDanglingRow' /\ LoginUnique'
      BY <1>1, <1>5 DEF NoDanglingRow, HasParents, LoginUnique
    <2> QED BY <1>2, <2>1, <2>2
  <1>6. CASE u \in DOMAIN user /\ HasParents(row) /\ LoginFree(u, row.login, row.ep) /\ user' = [user EXCEPT ![u] = row]
    <2>1. row \in UserRow
      BY <1>4, <1>6, WrittenRow DEF TypeOK
    <2> HIDE DEF row
    <2>2. /\ DOMAIN user' = DOMAIN user /\ user' \in [DOMAIN user' -> UserRow]
          /\ user'[u] = row /\ \A v \in DOMAIN user \ {u} : user'[v] = user[v]
      BY <1>6, <2>1 DEF TypeOK
    <2> HIDE DEF u
    <2>3. TypeOK'
      BY <1>1, <1>2, <2>2 DEF TypeOK
    <2>4. NoDanglingRow'
      BY <1>1, <1>6, <2>2 DEF NoDanglingRow, HasParents
    <2>5. LoginUnique'
      <3>1. \A v \in DOMAIN user \ {u} : ~(user'[v].login = user'[u].login /\ user'[v].ep = user'[u].ep)
        BY <1>6, <2>2 DEF LoginFree
      <3>2. \A v, w \in DOMAIN user \ {u} : v # w => ~(user'[v].login = user'[w].login /\ user'[v].ep = user'[w].ep)
        BY <2>2 DEF LoginUnique
      <3> QED BY <2>2, <3>1, <3>2 DEF LoginUnique
    <2> QED BY <1>2, <2>3, <2>4, <2>5
  <1> QED BY <1>5, <1>6 DEF UserPutCommit

-----------------------------------------------------------------------------
(* The theorems *)

\* The tables are empty and no request is open at first.
LEMMA InitIInv == Init => IInv
  <1> SUFFICES ASSUME Init PROVE IInv
    OBVIOUS
  <1>1. PICK e \in EndPoints, p \in Plans : endPoint = [f \in {e} |-> TRUE] /\ plan = [q \in {p} |-> [ep |-> e, default |-> TRUE]]
    BY DEF Init
  <1>2. /\ DOMAIN endPoint = {e} /\ endPoint \in [DOMAIN endPoint -> BOOLEAN]
        /\ DOMAIN plan = {p} /\ plan \in [DOMAIN plan -> [ep: EndPoints, default: BOOLEAN]] /\ plan[p].ep = e
    BY <1>1
  <1>3. /\ user = <<>> /\ instance = <<>> /\ keys = {} /\ authorization = {} /\ snBackend = {}
        /\ profile = {} /\ poiTypes = {} /\ req = [r \in Requests |-> Idle]
    BY DEF Init
  <1>4. /\ DOMAIN user = {} /\ user \in [DOMAIN user -> UserRow]
        /\ DOMAIN instance = {} /\ instance \in [DOMAIN instance -> BOOLEAN]
    BY <1>3
  <1>5. req \in [Requests -> {Idle} \cup Put \cup SnWrite \cup SnRemoval] /\ \A r \in Requests : req[r].kind # "put"
    BY <1>3 DEF Idle
  <1>6. TypeOK
    BY <1>2, <1>3, <1>4, <1>5 DEF TypeOK
  <1>7. NoDanglingRow /\ LoginUnique /\ PutInv
    BY <1>2, <1>3, <1>4, <1>5 DEF NoDanglingRow, LoginUnique, PutInv
  <1> QED BY <1>6, <1>7 DEF IInv

\* Every step preserves the invariant.
LEMMA Inductive == IInv /\ [Next]_vars => IInv'
  <1> SUFFICES ASSUME IInv, [Next]_vars PROVE IInv'
    OBVIOUS
  <1>1. CASE Tables
    BY <1>1, EndPointPostPreserves, EndPointDeletePreserves, PlanPreserves, PlanDeletePreserves, InstancePreserves DEF Tables
  <1>2. CASE UsersOfTables
    BY <1>2, UserPostPreserves, UserDeletePreserves, KeyAndAuthorizationPreserve DEF UsersOfTables
  <1>3. CASE Backends
    BY <1>3, SnPostPreserves, SnCommitPreserves DEF Backends
  <1>4. CASE Puts
    BY <1>4, UserPutPreserves, UserPutCommitPreserves DEF Puts
  <1>5. CASE UNCHANGED vars
    <2>1. TypeOK'
      BY <1>5 DEF vars, IInv, TypeOK
    <2>2. NoDanglingRow' /\ LoginUnique' /\ PutInv'
      BY <1>5 DEF vars, IInv, NoDanglingRow, HasParents, LoginUnique, PutInv
    <2> QED BY <2>1, <2>2 DEF IInv
  <1> QED BY <1>1, <1>2, <1>3, <1>4, <1>5 DEF Next

\* The inductive invariant holds in every state.
THEOREM Invariance == Spec => []IInv
  BY InitIInv, Inductive, PTL DEF Spec

\* Type correctness of the account tables and of the requests that are open.
THEOREM TypeCorrectness == Spec => []TypeOK
  <1>1. IInv => TypeOK
    BY DEF IInv
  <1> QED BY <1>1, Invariance, PTL

\* resources.py: however deletions, creations and PUTs that read their row earlier run beside each
\* other, every row keeps its parents and no two users of an end point share a login.
THEOREM Consistency == Spec => []AccountsConsistent
  <1>1. IInv => AccountsConsistent
    BY DEF IInv, AccountsConsistent
  <1> QED BY <1>1, Invariance, PTL

\* What a PUT does not name, its parser takes from the row that was read; so does an echo of GET.
LEMMA NotGivenIsRead ==
    ASSUME NEW snap \in UserRow, NEW given
    PROVE  /\ \A f \in Fields \ (DOMAIN given \cup {"block"}) : PutArgs(snap, given)[f] = snap[f]
           /\ given = Echo(snap) => \A f \in Fields \ {"block"} : PutArgs(snap, given)[f] = snap[f]
  <1>1. \A f \in Fields \ (DOMAIN given \cup {"block"}) : PutArgs(snap, given)[f] = snap[f]
    BY DEF PutArgs
  <1>2. ASSUME given = Echo(snap) PROVE \A f \in Fields \ {"block"} : PutArgs(snap, given)[f] = snap[f]
    <2>1. DOMAIN given = {"login", "type", "shape"}
      BY <1>2 DEF Echo, Fields
    <2>2. /\ given["login"] = snap["login"] /\ given["type"] = snap["type"]
          /\ given["shape"] = IF snap["shape"] # "null" THEN "hidden" ELSE snap["shape"]
      BY <1>2 DEF Echo, Fields
    <2>3. PutArgs(snap, given)["login"] = snap["login"] /\ PutArgs(snap, given)["type"] = snap["type"]
      BY <2>1, <2>2 DEF PutArgs, Fields
    <2>4. PutArgs(snap, given)["shape"] = snap["shape"]
      BY <2>1, <2>2 DEF PutArgs, Fields
    <2> QED BY <1>1, <2>1, <2>3, <2>4
  <1> QED BY <1>1, <1>2

\* User.put of resources.py: its commit leaves what it was not given as other requests made it, and an
\* echo of GET changes nothing but block_until.
THEOREM PutsAreNarrow == Spec => PutKeepsOthers
  <1> DEFINE Kept(r) ==
        (req[r].kind = "put" /\ req'[r] = Idle /\ req[r].user \in DOMAIN user) =>
          /\ \A f \in Fields \ (DOMAIN req[r].given \cup {"block"}) :
               user'[req[r].user][f] = user[req[r].user][f]
          /\ req[r].given = Echo(req[r].snap) =>
               \A f \in Fields \ {"block"} : user'[req[r].user][f] = user[req[r].user][f]
  <1>1. IInv /\ [Next]_vars => [\A r \in Requests : Kept(r)]_vars
    <2> SUFFICES ASSUME IInv, Next, NEW r \in Requests, req[r].kind = "put", req'[r] = Idle, req[r].user \in DOMAIN user
                 PROVE  Kept(r)
      OBVIOUS
    <2>1. req[r] # Idle /\ req[r] \in Put
      BY RequestKinds DEF IInv, Idle
    <2>2. UserPutCommit(r)
      <3>1. req' # req
        BY <2>1
      <3>2. CASE Tables \/ UsersOfTables
        BY <3>1, <3>2 DEF Tables, UsersOfTables, EndPointPost, EndPointDelete, BillingPlanPost, BillingPlanPut,
             BillingPlanDelete, InstancePost, InstanceDelete, PoiTypeDelete, PoiTypePost, ProfilePost, ProfileDelete,
             UserPost, UserDelete, KeyPost, KeyDelete, AuthorizationPost, AuthorizationDelete
      <3>3. ASSUME NEW x \in Requests, NEW q, req' = [req EXCEPT ![x] = q] PROVE x = r
        BY <2>1, <3>3 DEF IInv, TypeOK
      <3>4. CASE Backends
        <4>1. PICK x \in Requests : (\E q : req' = [req EXCEPT ![x] = q]) /\ req[x].kind # "put"
          <5>1. ASSUME NEW x \in Requests, NEW u \in Users, NEW m \in Modes, SnPost(x, u, m) \/ SnDelete(x, u, m)
                PROVE  (\E q : req' = [req EXCEPT ![x] = q]) /\ req[x].kind # "put"
            BY <5>1 DEF SnPost, SnDelete, Idle
          <5>2. ASSUME NEW x \in Requests, SnPostCommit(x) \/ SnDeleteCommit(x)
                PROVE  (\E q : req' = [req EXCEPT ![x] = q]) /\ req[x].kind # "put"
            BY <5>2 DEF SnPostCommit, SnDeleteCommit
          <5> QED BY <3>4, <5>1, <5>2 DEF Backends
        <4> QED BY <3>3, <4>1
      <3>5. CASE Puts
        <4>1. PICK x \in Requests : (\E q : req' = [req EXCEPT ![x] = q]) /\ (req[x] = Idle \/ UserPutCommit(x))
          <5>1. ASSUME NEW x \in Requests, NEW u \in DOMAIN user, NEW g, UserPut(x, u, g)
                PROVE  (\E q : req' = [req EXCEPT ![x] = q]) /\ req[x] = Idle
            BY <5>1 DEF UserPut
          <5>2. ASSUME NEW x \in Requests, UserPutCommit(x)
                PROVE  \E q : req' = [req EXCEPT ![x] = q]
            BY <5>2 DEF UserPutCommit
          <5> QED BY <3>5, <5>1, <5>2 DEF Puts
        <4> QED BY <2>1, <3>3, <4>1
      <3> QED BY <3>2, <3>4, <3>5 DEF Next
    <2> DEFINE u == req[r].user
               row == user[u]
               new == Written(row, req[r].snap, req[r].args)
    <2>3. row \in UserRow /\ req[r].snap \in UserRow /\ Fields \subseteq DOMAIN row
      BY <2>1 DEF IInv, TypeOK, Put, UserRow, Fields
    <2>4. req[r].args = PutArgs(req[r].snap, req[r].given)
      BY DEF IInv, PutInv
    <2>5. /\ \A f \in Fields \ (DOMAIN req[r].given \cup {"block"}) : req[r].args[f] = req[r].snap[f]
          /\ req[r].given = Echo(req[r].snap) => \A f \in Fields \ {"block"} : req[r].args[f] = req[r].snap[f]
      BY <2>3, <2>4, NotGivenIsRead
    <2>6. user'[u] = new \/ user'[u] = row
      BY <2>2 DEF UserPutCommit, IInv, TypeOK
    <2>7. \A f \in Fields : req[r].args[f] = req[r].snap[f] => new[f] = row[f]
      BY <2>3 DEF Written
    <2>8. \A f \in Fields : req[r].args[f] = req[r].snap[f] => user'[u][f] = user[u][f]
      BY <2>6, <2>7
    <2> QED BY <2>5, <2>8
  <1> QED BY <1>1, Invariance, PTL DEF Spec, PutKeepsOthers
-----------------------------------------------------------------------------
(* The flag of the street network backends *)

\* The requests on backends of one user never overlap.
OneByOne ==
  \A r, s \in Requests :
    r # s /\ req[r].kind \in {"snpost", "sndelete"} /\ req[s].kind \in {"snpost", "sndelete"} => req[r].user # req[s].user

\* What an open request on backends has read still holds: the flag it compares with and, for a deletion, whether
\* another row is left.
StillRead(q) ==
  /\ q.kind = "snpost" /\ q.user \in DOMAIN user => q.flag = user[q.user].flag
  /\ q.kind = "sndelete" =>
       /\ q.user \in DOMAIN user /\ <<q.user, q.mode>> \in snBackend
       /\ q.flag = user[q.user].flag
       /\ q.left <=> \E n \in Modes : <<q.user, n>> \in snBackend /\ n # q.mode
ReadInv == \A r \in Requests : StillRead(req[r])

\* Requests on other tables, and those that read, disturb neither.
LEMMA ReadingKeepsFlag ==
    ASSUME IInv, ReadInv, FlagFollowsRows, UNCHANGED <<user, snBackend>>, NEW r \in Requests, NEW q,
           req' = [req EXCEPT ![r] = q],
           StillRead(q)
    PROVE  ReadInv' /\ FlagFollowsRows'
  <1>1. req'[r] = q /\ \A x \in Requests \ {r} : req'[x] = req[x]
    BY DEF IInv, TypeOK
  <1>2. \A x : StillRead(x) => StillRead(x)'
    BY DEF StillRead
  <1>3. ReadInv'
    BY <1>1, <1>2 DEF ReadInv
  <1> QED BY <1>3 DEF FlagFollowsRows

\* A deletion takes rows and flag of a user together, and waits for an open deletion of a backend.
LEMMA CascadeKeepsFlag ==
    ASSUME IInv, ReadInv, FlagFollowsRows, NEW gone, Cascade(gone), UNCHANGED req
    PROVE  ReadInv' /\ FlagFollowsRows'
  <1>1. DOMAIN user' = DOMAIN user \ gone /\ \A u \in DOMAIN user' : user'[u] = user[u]
    BY CascadePreserves DEF IInv
  <1>2. \A u, m : u \notin gone => (<<u, m>> \in snBackend' <=> <<u, m>> \in snBackend)
    BY DEF Cascade
  <1>3. \A r \in Requests : req[r].kind = "sndelete" => req[r].user \notin gone
    <2> SUFFICES ASSUME NEW r \in Requests, req[r].kind = "sndelete" PROVE req[r].user \notin gone
      OBVIOUS
    <2>1. <<req[r].user, req[r].mode>> \in Locked
      BY DEF Locked
    <2>2. \A row \in Locked : row[1] \notin gone
      BY DEF Cascade
    <2>3. <<req[r].user, req[r].mode>>[1] = req[r].user
      OBVIOUS
    <2> QED BY <2>1, <2>2, <2>3, Zenon
  <1>4. FlagFollowsRows'
    BY <1>1, <1>2 DEF FlagFollowsRows
  <1>5. ReadInv'
    BY <1>1, <1>2, <1>3 DEF ReadInv, StillRead
  <1> QED BY <1>4, <1>5

\* A new user has neither the flag nor a backend.
LEMMA NewUserKeepsFlag ==
    ASSUME IInv, ReadInv, FlagFollowsRows, NEW u \in Users, NEW l, NEW t, NEW e, NEW p, NEW b, NEW s, UserPost(u, l, t, e, p, b, s)
    PROVE  ReadInv' /\ FlagFollowsRows'
  <1>1. UNCHANGED <<snBackend, req>> /\ u \notin DOMAIN user
    BY DEF UserPost
  <1>2. PICK row : user' = Insert(user, u, row) /\ row.flag = FALSE
    BY DEF UserPost
  <1>3. DOMAIN user' = DOMAIN user \cup {u} /\ user'[u].flag = FALSE /\ \A v \in DOMAIN user : user'[v] = user[v]
    BY <1>1, <1>2 DEF Insert
  <1>4. \A m : <<u, m>> \notin snBackend
    BY <1>1 DEF IInv, NoDanglingRow
  <1>5. FlagFollowsRows'
    BY <1>1, <1>3, <1>4 DEF FlagFollowsRows
  <1>6. \A r \in Requests : req[r].kind \in {"snpost", "sndelete"} => req[r].user # u
    BY DEF UserPost, Idle
  <1>7. ReadInv'
    BY <1>1, <1>3, <1>6 DEF ReadInv, StillRead
  <1> QED BY <1>5, <1>7

\* The commit of a PUT leaves the flag.
LEMMA PutKeepsFlag ==
    ASSUME IInv, ReadInv, FlagFollowsRows, NEW r \in Requests, UserPutCommit(r)
    PROVE  ReadInv' /\ FlagFollowsRows'
  <1>1. UNCHANGED snBackend /\ req' = [req EXCEPT ![r] = Idle] /\ Idle.kind = "idle"
    BY DEF UserPutCommit, Idle
  <1>2. DOMAIN user' = DOMAIN user /\ \A v \in DOMAIN user : user'[v].flag = user[v].flag
    <2>1. CASE UNCHANGED user
      BY <2>1
    <2>2. CASE /\ req[r].user \in DOMAIN user
               /\ user' = [user EXCEPT ![req[r].user] = Written(user[req[r].user], req[r].snap, req[r].args)]
      <3>1. user[req[r].user] \in UserRow /\ user \in [DOMAIN user -> UserRow]
        BY <2>2 DEF IInv, TypeOK
      <3>2. Written(user[req[r].user], req[r].snap, req[r].args).flag = user[req[r].user].flag
        BY <3>1 DEF Written, UserRow, Fields
      <3> QED BY <2>2, <3>1, <3>2
    <2> QED BY <2>1, <2>2 DEF UserPutCommit
  <1>3. req'[r] = Idle /\ \A x \in Requests \ {r} : req'[x] = req[x]
    BY <1>1 DEF IInv, TypeOK
  <1>4. FlagFollowsRows'
    BY <1>1, <1>2 DEF FlagFollowsRows
  <1>5. \A q : StillRead(q) => StillRead(q)'
    BY <1>1, <1>2 DEF StillRead
  <1>6. StillRead(Idle)'
    BY <1>1 DEF StillRead
  <1>7. ReadInv'
    BY <1>3, <1>5, <1>6 DEF ReadInv
  <1> QED BY <1>4, <1>7

\* The commits of backends: what they change belongs to their user, of whom no other request is open.
LEMMA CommitKeepsFlag ==
    ASSUME IInv, OneByOne, ReadInv, FlagFollowsRows, NEW r \in Requests, SnPostCommit(r) \/ SnDeleteCommit(r)
    PROVE  ReadInv' /\ FlagFollowsRows'
  <1> DEFINE u == req[r].user
             m == req[r].mode
  <1>1. req' = [req EXCEPT ![r] = Idle] /\ Idle.kind = "idle"
    BY DEF SnPostCommit, SnDeleteCommit, Idle
  <1>2. req'[r] = Idle /\ \A x \in Requests \ {r} : req'[x] = req[x]
    BY <1>1 DEF IInv, TypeOK
  <1>3. req[r].kind \in {"snpost", "sndelete"} /\ m \in Modes
    BY RequestKinds DEF IInv, SnPostCommit, SnDeleteCommit, SnWrite, SnRemoval
  <1>4. /\ DOMAIN user' = DOMAIN user
        /\ \A v \in DOMAIN user \ {u} : user'[v] = user[v]
        /\ \A v, n : v # u => (<<v, n>> \in snBackend' <=> <<v, n>> \in snBackend)
    BY DEF SnPostCommit, SnDeleteCommit
  <1>5. u \in DOMAIN user => (user'[u].flag <=> \E n \in Modes : <<u, n>> \in snBackend')
    <2> SUFFICES ASSUME u \in DOMAIN user PROVE user'[u].flag <=> \E n \in Modes : <<u, n>> \in snBackend'
      OBVIOUS
    <2>1. user[u].flag \in BOOLEAN /\ user \in [DOMAIN user -> UserRow] /\ user[u] \in UserRow
      BY DEF IInv, TypeOK, UserRow
    <2>2. \A f : ([user EXCEPT ![u].flag = f])[u].flag = f
      BY <2>1 DEF UserRow
    <2>3. CASE SnPostCommit(r)
      <3>1. req[r].flag = user[u].flag
        BY <2>3 DEF ReadInv, StillRead, SnPostCommit
      <3>2. CASE snBackend' = snBackend /\ user' = user
        BY <3>2 DEF FlagFollowsRows
      <3>3. CASE snBackend' = snBackend \cup {<<u, m>>} /\ user' = IF req[r].flag THEN user ELSE [user EXCEPT ![u].flag = TRUE]
        <4>1. user'[u].flag
          BY <2>2, <3>1, <3>3
        <4> QED BY <1>3, <3>3, <4>1
      <3> QED BY <2>3, <3>2, <3>3 DEF SnPostCommit
    <2>4. CASE SnDeleteCommit(r)
      <3>1. /\ req[r].flag = user[u].flag
            /\ req[r].left <=> \E n \in Modes : <<u, n>> \in snBackend /\ n # m
        BY <2>4 DEF ReadInv, StillRead, SnDeleteCommit
      <3>2. /\ snBackend' = snBackend \ {<<u, m>>}
            /\ user' = IF req[r].left # req[r].flag THEN [user EXCEPT ![u].flag = req[r].left] ELSE user
        BY <2>4 DEF SnDeleteCommit
      <3>3. user'[u].flag = req[r].left
        BY <2>2, <3>1, <3>2
      <3>4. (\E n \in Modes : <<u, n>> \in snBackend') <=> \E n \in Modes : <<u, n>> \in snBackend /\ n # m
        BY <3>2
      <3> QED BY <3>1, <3>3, <3>4
    <2> QED BY <2>3, <2>4
  <1>6. FlagFollowsRows'
    BY <1>4, <1>5 DEF FlagFollowsRows
  <1>7. \A x \in Requests \ {r} : req[x].kind \in {"snpost", "sndelete"} => req[x].user # u
    BY <1>3 DEF OneByOne
  <1>8. StillRead(Idle)'
    BY <1>1 DEF StillRead
  <1>9. \A q : q.user # u /\ StillRead(q) => StillRead(q)'
    <2> HIDE DEF u
    <2> QED BY <1>4 DEF StillRead
  <1>10. \A q : q.kind \notin {"snpost", "sndelete"} => StillRead(q)'
    BY DEF StillRead
  <1>11. ReadInv'
    BY <1>2, <1>7, <1>8, <1>9, <1>10 DEF ReadInv
  <1> QED BY <1>6, <1>11

\* Every step, as long as no user has two such requests open.
LEMMA FlagInductive ==
    ASSUME IInv, OneByOne, ReadInv, FlagFollowsRows, [Next]_vars
    PROVE  ReadInv' /\ FlagFollowsRows'
  <1>1. CASE UNCHANGED <<user, snBackend, req>>
    BY <1>1 DEF ReadInv, StillRead, FlagFollowsRows
  <1>2. CASE Tables
    <2>1. ASSUME NEW e, EndPointDelete(e) PROVE ReadInv' /\ FlagFollowsRows'
      BY <2>1, CascadeKeepsFlag DEF EndPointDelete
    <2>2. CASE UNCHANGED <<user, snBackend, req>>
      BY <1>1, <2>2
    <2> QED BY <1>2, <2>1, <2>2, Zenon DEF Tables, EndPointPost, BillingPlanPost, BillingPlanPut, BillingPlanDelete,
              InstancePost, InstanceDelete, PoiTypeDelete, PoiTypePost, ProfilePost, ProfileDelete
  <1>3. CASE UsersOfTables
    <2>1. ASSUME NEW u, UserDelete(u) PROVE ReadInv' /\ FlagFollowsRows'
      BY <2>1, CascadeKeepsFlag DEF UserDelete
    <2>2. CASE UNCHANGED <<user, snBackend, req>>
      BY <1>1, <2>2
    <2> QED BY <1>3, <2>1, <2>2, NewUserKeepsFlag DEF UsersOfTables, KeyPost, KeyDelete, AuthorizationPost, AuthorizationDelete
  <1>4. CASE Backends
    <2>1. ASSUME NEW r \in Requests, NEW u \in Users, NEW n \in Modes, SnPost(r, u, n) PROVE ReadInv' /\ FlagFollowsRows'
      <3> DEFINE q == [kind |-> "snpost", user |-> u, mode |-> n, flag |-> user[u].flag]
      <3>1. UNCHANGED <<user, snBackend>> /\ req' = [req EXCEPT ![r] = q]
        BY <2>1 DEF SnPost
      <3>2. q.kind = "snpost" /\ q.flag = user[q.user].flag
        OBVIOUS
      <3> HIDE DEF q
      <3>3. StillRead(q)
        BY <3>2 DEF StillRead
      <3> QED BY <3>1, <3>3, ReadingKeepsFlag
    <2>2. ASSUME NEW r \in Requests, NEW u \in Users, NEW n \in Modes, SnDelete(r, u, n) PROVE ReadInv' /\ FlagFollowsRows'
      <3> DEFINE left == {x \in Modes : <<u, x>> \in snBackend /\ x # n} # {}
                 q == [kind |-> "sndelete", user |-> u, mode |-> n, flag |-> user[u].flag, left |-> left]
      <3>1. UNCHANGED <<user, snBackend>> /\ req' = [req EXCEPT ![r] = q] /\ u \in DOMAIN user /\ <<u, n>> \in snBackend
        BY <2>2 DEF SnDelete
      <3>2. left <=> \E x \in Modes : <<u, x>> \in snBackend /\ x # n
        OBVIOUS
      <3> HIDE DEF left
      <3>3. q.kind = "sndelete" /\ q.user = u /\ q.mode = n /\ q.flag = user[u].flag /\ q.left = left
        OBVIOUS
      <3> HIDE DEF q
      <3>4. StillRead(q)
        BY <3>1, <3>2, <3>3 DEF StillRead
      <3> QED BY <3>1, <3>4, ReadingKeepsFlag
    <2> QED BY <1>4, <2>1, <2>2, CommitKeepsFlag DEF Backends
  <1>5. CASE Puts
    <2>1. ASSUME NEW r \in Requests, NEW u \in DOMAIN user, NEW g, UserPut(r, u, g) PROVE ReadInv' /\ FlagFollowsRows'
      <3>1. PICK q : req' = [req EXCEPT ![r] = q] /\ q.kind = "put" /\ UNCHANGED <<user, snBackend>>
        BY <2>1 DEF UserPut
      <3>2. StillRead(q)
        BY <3>1 DEF StillRead
      <3> QED BY <3>1, <3>2, ReadingKeepsFlag
    <2> QED BY <1>5, <2>1, PutKeepsFlag DEF Puts
  <1>6. CASE UNCHANGED vars
    BY <1>1, <1>6 DEF vars
  <1> QED BY <1>2, <1>3, <1>4, <1>5, <1>6 DEF Next

\* SnBackendAuthorization of resources.py reads the flag and counts the rows before it commits: has_sn_backend
\* follows the rows, whatever else runs beside, unless two such requests of one user overlap.
THEOREM FlagInStep == Spec /\ []OneByOne => []FlagFollowsRows
  <1>1. Init => ReadInv /\ FlagFollowsRows
    <2> SUFFICES ASSUME Init PROVE ReadInv /\ FlagFollowsRows
      OBVIOUS
    <2>1. user = <<>> /\ req = [r \in Requests |-> Idle] /\ Idle.kind = "idle"
      BY DEF Init, Idle
    <2> QED BY <2>1 DEF ReadInv, StillRead, FlagFollowsRows
  <1>2. IInv /\ OneByOne /\ ReadInv /\ FlagFollowsRows /\ [Next]_vars => ReadInv' /\ FlagFollowsRows'
    BY FlagInductive
  <1> QED BY <1>1, <1>2, Invariance, PTL DEF Spec
=============================================================================
