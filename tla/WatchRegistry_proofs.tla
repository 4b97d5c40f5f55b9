----------------------- MODULE WatchRegistry_proofs ------------------------
(***************************************************************************)
(* What holds of WatchRegistry for any number of commands, members and     *)
(* products, and any caps.                                                 *)
(***************************************************************************)
EXTENDS WatchRegistry, FiniteSetTheorems, TLAPS

(* An UPDATE writes a row, and its state only if the session changed it. *)
LEMMA UpdatedRow ==
  ASSUME TypeOK, NEW s \in Sessions, NEW row \in Row, NEW want \in Row
  PROVE  /\ Updated(s, row, want) \in Row
         /\ Updated(s, row, want).state =
              IF want.state # loaded[s].state THEN want.state ELSE row.state
  <1>1. DOMAIN row = {"state", "owner", "paused"} /\ DOMAIN want = {"state", "owner", "paused"}
    BY DEF Row
  <1> DEFINE new == Updated(s, row, want)
  <1>2. /\ new.state \in {want.state, row.state}
        /\ new.owner \in {want.owner, row.owner}
        /\ new.paused \in {want.paused, row.paused}
    BY <1>1 DEF Updated
  <1>3. new = [state |-> new.state, owner |-> new.owner, paused |-> new.paused]
    BY <1>1 DEF Updated
  <1>4. new \in Row
    BY <1>2, <1>3 DEF Row
  <1>5. "state" \in Named(s, want) <=> want.state # loaded[s].state
    BY <1>1 DEF Named
  <1> QED
    BY <1>1, <1>4, <1>5 DEF Updated

(* The two halves of TypeOK: the tables, and the sessions. *)
RowsTyped ==
  /\ guild \in {"unknown", "active", "removed"}
  /\ audited \in BOOLEAN /\ purging \in BOOLEAN
  /\ catalog \in SUBSET Products
  /\ watch \in [Products -> Row]

SessionsTyped ==
  /\ pc \in [Sessions -> Step]
  /\ who \in [Sessions -> Members \cup {NoMember}]
  /\ what \in [Sessions -> Products \cup {NoProduct}]
  /\ job \in [Sessions -> Op]
  /\ loaded \in [Sessions -> Row]
  /\ known \in [Sessions -> BOOLEAN]
  /\ \A s \in Sessions : SessionOK(s)

LEMMA Halves == TypeOK <=> RowsTyped /\ SessionsTyped
  BY DEF TypeOK, RowsTyped, SessionsTyped

LEMMA HalvesNext == TypeOK' <=> RowsTyped' /\ SessionsTyped'
  BY DEF TypeOK, RowsTyped, SessionsTyped

LEMMA AbsentRow == Absent \in Row
  BY DEF Absent, Row, RowState

LEMMA FreshRow == ASSUME NEW m \in Members PROVE Fresh(m) \in Row
  BY DEF Fresh, Row, RowState

(* A session that is running has a member and a product. *)
LEMMA RunningSession ==
  ASSUME TypeOK, NEW s \in Sessions, pc[s] # "idle"
  PROVE  who[s] \in Members /\ what[s] \in Products
  BY DEF TypeOK, SessionOK

LEMMA ForgetTyped ==
  ASSUME TypeOK, NEW s \in Sessions, Forget(s)
  PROVE  SessionsTyped'
  BY AbsentRow DEF TypeOK, SessionsTyped, SessionOK, Forget, Goto, Step, Op, Edit

LEMMA RefuseTyped ==
  ASSUME TypeOK, NEW s \in Sessions, Refuse(s)
  PROVE  TypeOK'
  <1>1. RowsTyped'
    BY Halves DEF Refuse, rows, RowsTyped
  <1> QED
    BY <1>1, ForgetTyped, HalvesNext DEF Refuse

(* A check only moves the session on, or ends it. *)
LEMMA CheckTyped ==
  ASSUME TypeOK, NEW s \in Sessions, NEW passed \in BOOLEAN,
         \/ Check(s, "resolve", passed, "count")
         \/ Check(s, "count", passed, "countOwn")
         \/ Check(s, "countOwn", passed, "product")
  PROVE  TypeOK'
  <1>1. CASE Refuse(s)
    BY <1>1, RefuseTyped
  <1>2. CASE ~Refuse(s)
    <2>1. /\ pc[s] \notin {"idle", "load", "save", "add"}
          /\ UNCHANGED <<rows, local>>
          /\ pc' = [pc EXCEPT ![s] = "count"] \/ pc' = [pc EXCEPT ![s] = "countOwn"]
               \/ pc' = [pc EXCEPT ![s] = "product"]
      BY <1>2 DEF Check, Goto
    <2> QED
      BY <2>1 DEF TypeOK, SessionOK, Step, rows, local
  <1> QED
    BY <1>1, <1>2

(* The row that a command writes. *)
LEMMA AddedRow ==
  ASSUME TypeOK, NEW s \in Sessions, AddWatch(s)
  PROVE  /\ what[s] \in Products
         /\ \E row \in Row : row.state = "live" /\ watch' = [watch EXCEPT ![what[s]] = row]
  <1>1. who[s] \in Members /\ what[s] \in Products
    BY RunningSession DEF AddWatch
  <1>2. Fresh(who[s]) \in Row /\ Fresh(who[s]).state = "live" /\ watch[what[s]] \in Row
    BY <1>1, FreshRow DEF Fresh, TypeOK
  <1>3. loaded[s].state # "live"
    BY DEF AddWatch, TypeOK, SessionOK
  <1>4. /\ Updated(s, watch[what[s]], Fresh(who[s])) \in Row
        /\ Updated(s, watch[what[s]], Fresh(who[s])).state = "live"
    BY <1>2, <1>3, UpdatedRow
  <1> QED
    BY <1>1, <1>2, <1>4 DEF AddWatch, Store

LEMMA SavedRow ==
  ASSUME TypeOK, NEW s \in Sessions, SaveWatch(s)
  PROVE  /\ what[s] \in Products
         /\ \E row \in Row : /\ row.state \in {"removed", watch[what[s]].state}
                             /\ watch' = [watch EXCEPT ![what[s]] = row]
  <1>1. what[s] \in Products /\ watch[what[s]] \in Row
    BY RunningSession DEF SaveWatch, TypeOK
  <1>2. loaded[s] \in Row /\ loaded[s].state = "live" /\ job[s] \in Edit
    BY DEF SaveWatch, TypeOK, SessionOK
  <1>3. Wanted(s) \in Row /\ Wanted(s).state \in {"removed", loaded[s].state}
    BY <1>2 DEF Wanted, Edit, Row, RowState
  <1>4. /\ Updated(s, watch[what[s]], Wanted(s)) \in Row
        /\ Updated(s, watch[what[s]], Wanted(s)).state \in {"removed", watch[what[s]].state}
    BY <1>1, <1>3, UpdatedRow
  <1> QED
    BY <1>1, <1>4 DEF SaveWatch, Store

LEMMA InitType == Init => TypeOK
<1> SUFFICES ASSUME Init PROVE TypeOK
  OBVIOUS
<1>1. RowsTyped
  BY AbsentRow DEF Init, RowsTyped
<1>2. SessionsTyped
  BY AbsentRow DEF Init, SessionsTyped, SessionOK, Step, Op, Edit
<1> QED
  BY <1>1, <1>2, Halves

(* No step of a command, of the guild or of the purge breaks the types. *)
LEMMA TypeStep == TypeOK /\ [Next]_vars => TypeOK'
<1> SUFFICES ASSUME TypeOK, [Next]_vars PROVE TypeOK'
  OBVIOUS
<1>1. ASSUME NEW s \in Sessions, CommandStep(s) PROVE TypeOK'
  <2>1. CASE Begin(s)
    <3> USE DEF TypeOK
    <3>1. PICK m \in Members, p \in Products, op \in Op :
            /\ who' = [who EXCEPT ![s] = m]
            /\ what' = [what EXCEPT ![s] = p]
            /\ job' = [job EXCEPT ![s] = op]
            /\ pc' = [pc EXCEPT ![s] = IF op \in Edit THEN "load" ELSE "resolve"]
      BY <2>1 DEF Begin, Goto
    <3>2. RowsTyped'
      BY <2>1 DEF Begin, Upsert, RowsTyped
    <3>3. SessionsTyped'
      BY <2>1, <3>1, RegistryAssumption DEF Begin, SessionsTyped, SessionOK, Step, Op
    <3> QED
      BY <3>2, <3>3, HalvesNext
  <2>2. CASE ResolveActors(s)
    BY <2>2, CheckTyped DEF ResolveActors
  <2>3. CASE CountServer(s)
    BY <2>3, CheckTyped DEF CountServer, Full
  <2>4. CASE CountUser(s)
    BY <2>4, CheckTyped DEF CountUser, Full
  <2>5. CASE FindProduct(s)
    BY <2>5 DEF FindProduct, Goto, TypeOK, SessionOK, Step, rows
  <2>6. CASE FindWatch(s)
    <3>1. CASE Refuse(s)
      BY <3>1, RefuseTyped
    <3>2. CASE ~Refuse(s)
      <4>1. PICK found \in Row : /\ found.state # "live"
                                 /\ loaded' = [loaded EXCEPT ![s] = found]
        BY <2>6, <3>2, AbsentRow, RunningSession DEF FindWatch, Taken, TypeOK
      <4> QED
        BY <2>6, <3>2, <4>1 DEF FindWatch, Goto, TypeOK, SessionOK, Step, rows
    <3> QED
      BY <3>1, <3>2
  <2>7. CASE AddWatch(s)
    <3>1. RowsTyped'
      BY <2>7, AddedRow DEF AddWatch, TypeOK, RowsTyped
    <3> QED
      BY <2>7, <3>1, ForgetTyped, HalvesNext DEF AddWatch
  <2>8. CASE FailConflict(s)
    BY <2>8, RefuseTyped DEF FailConflict
  <2>9. CASE LoadWatch(s)
    <3>1. CASE Refuse(s)
      BY <3>1, RefuseTyped
    <3>2. CASE ~Refuse(s)
      <4>1. watch[what[s]] \in Row /\ watch[what[s]].state = "live"
        BY <2>9, <3>2, RunningSession DEF LoadWatch, Allowed, TypeOK
      <4> QED
        BY <2>9, <3>2, <4>1 DEF LoadWatch, Goto, TypeOK, SessionOK, Step, rows
    <3> QED
      BY <3>1, <3>2
  <2>10. CASE SaveWatch(s)
    <3>1. RowsTyped'
      BY <2>10, SavedRow DEF SaveWatch, TypeOK, RowsTyped
    <3> QED
      BY <2>10, <3>1, ForgetTyped, HalvesNext DEF SaveWatch
  <2>11. CASE Fail(s)
    BY <2>11, RefuseTyped DEF Fail
  <2> QED
    BY <1>1, <2>1, <2>2, <2>3, <2>4, <2>5, <2>6, <2>7, <2>8, <2>9, <2>10, <2>11
       DEF CommandStep
<1>2. CASE OnGuildJoin
  BY <1>2 DEF OnGuildJoin, Upsert, TypeOK, SessionOK, local
<1>3. CASE OnGuildRemove
  BY <1>3 DEF OnGuildRemove, TypeOK, SessionOK, local
<1>4. CASE SelectStale
  BY <1>4 DEF SelectStale, TypeOK, SessionOK, local
<1>5. CASE PurgeServers
  BY <1>5, AbsentRow DEF PurgeServers, TypeOK, SessionOK, local
<1>6. CASE UNCHANGED vars
  BY <1>6 DEF vars, rows, local, TypeOK, SessionOK
<1> QED
  BY <1>1, <1>2, <1>3, <1>4, <1>5, <1>6 DEF Next

(* Rows and sessions keep their types, and no command that adds has found  *)
(* a live watch, nor does one that edits hold a removed one.               *)
THEOREM TypeCorrect == Spec => []TypeOK
  BY InitType, TypeStep, PTL DEF Spec
----------------------------------------------------------------------------
(* The count: live watches and commands let in. *)
LEMMA FiniteParts ==
  ASSUME TypeOK
  PROVE  /\ IsFiniteSet(Live) /\ Cardinality(Live) \in Nat
         /\ IsFiniteSet(Admitted) /\ Cardinality(Admitted) \in Nat
         /\ Cardinality(Sessions) \in Nat /\ Cardinality(Admitted) <= Cardinality(Sessions)
  <1>1. Live \subseteq Products /\ Admitted \subseteq Sessions
    BY DEF Live, Admitted
  <1> QED
    BY <1>1, RegistryAssumption, FS_Subset, FS_CardinalityType

LEMMA InitCap == Init => ServerCapHolds
<1> SUFFICES ASSUME Init PROVE ServerCapHolds
  OBVIOUS
<1>1. Live = {} /\ Admitted = {}
  BY DEF Init, Live, Absent, Admitted
<1>2. Cardinality(Sessions) \in Nat /\ Cardinality(Sessions) # 0
  BY RegistryAssumption, FS_CardinalityType, FS_EmptySet
<1> QED
  BY <1>1, <1>2, FS_EmptySet, RegistryAssumption DEF ServerCapHolds

(* A step that adds no live watch and lets no command in. *)
LEMMA CapShrinks ==
  ASSUME TypeOK, ServerCapHolds, Live' \subseteq Live, Admitted' \subseteq Admitted
  PROVE  ServerCapHolds'
  <1>1. /\ Cardinality(Live') \in Nat /\ Cardinality(Live') <= Cardinality(Live)
        /\ Cardinality(Admitted') \in Nat /\ Cardinality(Admitted') <= Cardinality(Admitted)
    BY FiniteParts, FS_Subset, FS_CardinalityType
  <1> QED
    BY <1>1, FiniteParts, RegistryAssumption DEF ServerCapHolds

(* A session that ends, or goes on among the admitted, adds none. *)
LEMMA AdmittedShrinks ==
  ASSUME TypeOK, NEW s \in Sessions, pc' = [pc EXCEPT ![s] = "idle"]
  PROVE  Admitted' = Admitted \ {s}
  BY DEF TypeOK, Admitted

LEMMA RefuseCap ==
  ASSUME TypeOK, ServerCapHolds, NEW s \in Sessions, Refuse(s)
  PROVE  ServerCapHolds'
  <1>1. Live' = Live
    BY DEF Refuse, rows, Live
  <1>2. Admitted' \subseteq Admitted
    BY AdmittedShrinks DEF Refuse, Forget, Goto
  <1> QED
    BY <1>1, <1>2, CapShrinks

LEMMA CountServerCap ==
  ASSUME TypeOK, TypeOK', ServerCapHolds, NEW s \in Sessions, CountServer(s)
  PROVE  ServerCapHolds'
  <1>1. CASE Refuse(s)
    BY <1>1, RefuseCap
  <1>2. CASE ~Refuse(s)
    <2>1. Live' = Live /\ ~(Cardinality(Live) >= ServerCap)
      BY <1>2 DEF CountServer, Check, Full, rows, Live
    <2>2. Cardinality(Admitted') \in Nat /\ Cardinality(Admitted') <= Cardinality(Sessions)
      <3>1. Admitted' \subseteq Sessions
        BY DEF Admitted
      <3> QED
        BY <3>1, RegistryAssumption, FS_Subset, FS_CardinalityType
    <2> QED
      BY <2>1, <2>2, FiniteParts, RegistryAssumption DEF ServerCapHolds
  <1> QED
    BY <1>1, <1>2

LEMMA AddWatchCap ==
  ASSUME TypeOK, ServerCapHolds, NEW s \in Sessions, AddWatch(s)
  PROVE  ServerCapHolds'
  <1>1. Live' \subseteq Live \cup {what[s]}
    BY AddedRow DEF Live, TypeOK
  <1>2. s \in Admitted /\ Admitted' = Admitted \ {s}
    BY AdmittedShrinks DEF AddWatch, Admitted, Forget, Goto
  <1>3. /\ IsFiniteSet(Live \cup {what[s]})
        /\ Cardinality(Live \cup {what[s]}) \in Nat
        /\ Cardinality(Live \cup {what[s]}) <= Cardinality(Live) + 1
    <2>1. /\ IsFiniteSet(Live \cup {what[s]})
          /\ Cardinality(Live \cup {what[s]}) \in {Cardinality(Live), Cardinality(Live) + 1}
      BY FiniteParts, FS_AddElement, Zenon
    <2> QED
      BY <2>1, FiniteParts
  <1>4. Cardinality(Live') \in Nat /\ Cardinality(Live') <= Cardinality(Live) + 1
    BY <1>1, <1>3, FiniteParts, FS_Subset, FS_CardinalityType
  <1>5. Cardinality(Admitted') = Cardinality(Admitted) - 1
    BY <1>2, FiniteParts, FS_RemoveElement
  <1> QED
    BY <1>4, <1>5, FiniteParts, RegistryAssumption DEF ServerCapHolds

LEMMA CapStep == TypeOK /\ TypeOK' /\ ServerCapHolds /\ [Next]_vars => ServerCapHolds'
<1> SUFFICES ASSUME TypeOK, TypeOK', ServerCapHolds, [Next]_vars PROVE ServerCapHolds'
  OBVIOUS
<1>1. ASSUME NEW s \in Sessions, CommandStep(s) PROVE ServerCapHolds'
  <2>1. CASE Refuse(s)
    BY <2>1, RefuseCap
  <2>2. CASE CountServer(s)
    BY <2>2, CountServerCap
  <2>3. CASE AddWatch(s)
    BY <2>3, AddWatchCap
  <2>4. CASE SaveWatch(s)
    <3>1. Live' \subseteq Live
      BY <2>4, SavedRow DEF Live, TypeOK
    <3>2. Admitted' \subseteq Admitted
      BY <2>4, AdmittedShrinks DEF SaveWatch, Forget, Goto
    <3> QED
      BY <3>1, <3>2, CapShrinks
  <2>5. CASE ~Refuse(s) /\ (Begin(s) \/ ResolveActors(s) \/ CountUser(s) \/ FindProduct(s)
                              \/ FindWatch(s) \/ LoadWatch(s))
    <3>1. Live' = Live
      BY <2>5 DEF Begin, ResolveActors, CountUser, Check, FindProduct, FindWatch, LoadWatch,
                  rows, Live
    <3>2. Admitted' \subseteq Admitted
      BY <2>5 DEF Begin, ResolveActors, CountUser, Check, FindProduct, FindWatch, LoadWatch,
                  Goto, TypeOK, Admitted
    <3> QED
      BY <3>1, <3>2, CapShrinks
  <2> QED
    BY <1>1, <2>1, <2>2, <2>3, <2>4, <2>5 DEF CommandStep, FailConflict, Fail
<1>2. CASE OnGuildJoin \/ OnGuildRemove \/ SelectStale \/ UNCHANGED vars
  <2>1. UNCHANGED <<watch, pc>>
    BY <1>2 DEF OnGuildJoin, OnGuildRemove, SelectStale, vars, rows, local
  <2>2. Live' = Live /\ Admitted' = Admitted
    BY <2>1 DEF Live, Admitted
  <2> QED
    BY <2>2, CapShrinks
<1>3. CASE PurgeServers
  <2>1. Live' \subseteq Live /\ Admitted' = Admitted
    BY <1>3 DEF PurgeServers, Live, Absent, Admitted
  <2> QED
    BY <2>1, CapShrinks
<1> QED
  BY <1>1, <1>2, <1>3 DEF Next

(* However many commands run at a time, and for however long, a guild has  *)
(* fewer watches than its cap and those commands together.                 *)
THEOREM ServerCapAlwaysHolds == Spec => []ServerCapHolds
  BY InitType, TypeStep, InitCap, CapStep, PTL DEF Spec
----------------------------------------------------------------------------
(* The cap of a member.  A command claims a watch for m if the watch it    *)
(* may still write is then m's: it counted the watches of m, or it will    *)
(* revive without naming an owner what m revived and removed in between.   *)
Claims(s, m) ==
  \/ pc[s] \in {"product", "watch", "add"} /\ who[s] = m
  \/ /\ pc[s] = "add" /\ loaded[s].state = "removed" /\ loaded[s].owner = who[s]
     /\ watch[what[s]].owner = m

Coming(m) == {what[s] : s \in {t \in Sessions : Claims(t, m)}}

(* Products and not commands are counted: a watch changes hands only while *)
(* its new owner has a claim on it, so that no claim adds a product.       *)
MemberCapInv ==
  \A m \in Members :
    Cardinality(Owned(m) \cup Coming(m)) <= UserCap + Cardinality(Sessions) - 1

(* Some products and those of some commands, before a step or after it. *)
LEMMA FiniteUnion ==
  ASSUME NEW own \in SUBSET Products, NEW f \in [Sessions -> Products \cup {NoProduct}],
         NEW some \in SUBSET {f[s] : s \in Sessions}
  PROVE  /\ Cardinality(own) \in Nat /\ Cardinality(some) \in Nat
         /\ Cardinality(some) <= Cardinality(Sessions)
         /\ IsFiniteSet(own \cup some) /\ Cardinality(own \cup some) \in Nat
         /\ Cardinality(own \cup some) <= Cardinality(own) + Cardinality(some)
<1>1. IsFiniteSet(own) /\ Cardinality(own) \in Nat
  BY RegistryAssumption, FS_Subset, FS_CardinalityType
<1>2. IsFiniteSet(some) /\ Cardinality(some) \in Nat /\ Cardinality(some) <= Cardinality(Sessions)
  <2> DEFINE named == {f[s] : s \in Sessions}
  <2>1. f \in Surjection(Sessions, named)
    BY DEF Surjection
  <2>2. IsFiniteSet(named) /\ Cardinality(named) <= Cardinality(Sessions)
    BY <2>1, RegistryAssumption, FS_Surjection
  <2> HIDE DEF named
  <2>3. IsFiniteSet(some) /\ Cardinality(some) <= Cardinality(named)
    BY <2>2, FS_Subset DEF named
  <2>4. Cardinality(some) \in Nat /\ Cardinality(named) \in Nat /\ Cardinality(Sessions) \in Nat
    BY <2>2, <2>3, RegistryAssumption, FS_CardinalityType
  <2> QED
    BY <2>2, <2>3, <2>4
<1>3. /\ IsFiniteSet(own \cup some)
      /\ Cardinality(own \cup some) = Cardinality(own) + Cardinality(some) - Cardinality(own \cap some)
  BY <1>1, <1>2, FS_Union
<1>4. Cardinality(own \cap some) \in Nat /\ Cardinality(own \cup some) \in Nat
  BY <1>1, <1>3, FS_Intersection, FS_CardinalityType
<1> QED
  BY <1>1, <1>2, <1>3, <1>4

LEMMA FiniteClaims ==
  ASSUME TypeOK, NEW m
  PROVE  /\ Cardinality(Owned(m)) \in Nat
         /\ IsFiniteSet(Owned(m) \cup Coming(m)) /\ Cardinality(Owned(m) \cup Coming(m)) \in Nat
<1>1. Owned(m) \in SUBSET Products /\ Coming(m) \in SUBSET {what[s] : s \in Sessions}
  BY DEF Owned, Live, Coming
<1> QED
  BY <1>1, FiniteUnion DEF TypeOK

LEMMA InitMemberCap == Init => MemberCapInv
<1> SUFFICES ASSUME Init, NEW m \in Members
             PROVE  Cardinality(Owned(m) \cup Coming(m)) <= UserCap + Cardinality(Sessions) - 1
  BY DEF MemberCapInv
<1>1. Owned(m) \cup Coming(m) = {}
  BY DEF Init, Owned, Live, Absent, Coming, Claims
<1>2. Cardinality(Sessions) \in Nat /\ Cardinality(Sessions) # 0
  BY RegistryAssumption, FS_CardinalityType, FS_EmptySet
<1>3. Cardinality(Owned(m) \cup Coming(m)) = 0
  BY <1>1, FS_EmptySet
<1>4. UserCap \in Nat
  BY RegistryAssumption
<1> QED
  BY <1>2, <1>3, <1>4

(* A step after which m owns and may be given nothing new. *)
LEMMA ClaimsShrink ==
  ASSUME TypeOK, MemberCapInv, NEW m \in Members,
         Owned(m)' \cup Coming(m)' \subseteq Owned(m) \cup Coming(m)
  PROVE  Cardinality(Owned(m)' \cup Coming(m)') <= UserCap + Cardinality(Sessions) - 1
<1> DEFINE before == Owned(m) \cup Coming(m)
           after  == Owned(m)' \cup Coming(m)'
<1>1. IsFiniteSet(before) /\ Cardinality(before) \in Nat
  BY FiniteClaims
<1>2. Cardinality(before) <= UserCap + Cardinality(Sessions) - 1
  BY DEF MemberCapInv
<1>3. after \in SUBSET before
  OBVIOUS
<1> HIDE DEF before, after
<1>4. Cardinality(after) \in Nat /\ Cardinality(after) <= Cardinality(before)
  BY <1>1, <1>3, FS_Subset, FS_CardinalityType
<1>5. Cardinality(Sessions) \in Nat
  BY RegistryAssumption, FS_CardinalityType
<1>6. Cardinality(after) <= UserCap + Cardinality(Sessions) - 1
  BY <1>1, <1>2, <1>4, <1>5, RegistryAssumption
<1> QED
  BY <1>6 DEF after

(* A step of one session that leaves the tables alone and gives its        *)
(* session no claim that it did not have.                                  *)
LEMMA QuietClaims ==
  ASSUME TypeOK, NEW s \in Sessions, NEW m, UNCHANGED watch,
         \A t \in Sessions \ {s} :
           pc'[t] = pc[t] /\ who'[t] = who[t] /\ what'[t] = what[t] /\ loaded'[t] = loaded[t],
         Claims(s, m)' => Claims(s, m) /\ what'[s] = what[s]
  PROVE  Owned(m)' \cup Coming(m)' \subseteq Owned(m) \cup Coming(m)
<1>1. Owned(m)' = Owned(m)
  BY DEF Owned, Live
<1>2. \A t \in Sessions : Claims(t, m)' => Claims(t, m) /\ what'[t] = what[t]
  BY DEF Claims
<1> QED
  BY <1>1, <1>2 DEF Coming

(* The cap is checked: m is let in with one watch to spare, and however    *)
(* many claims there are, no more than there are commands.                 *)
LEMMA CountUserClaims ==
  ASSUME TypeOK, TypeOK', MemberCapInv, NEW s \in Sessions, CountUser(s), ~Refuse(s),
         NEW m \in Members
  PROVE  Cardinality(Owned(m)' \cup Coming(m)') <= UserCap + Cardinality(Sessions) - 1
<1>1. /\ ~(Cardinality(Owned(who[s])) >= UserCap) /\ UNCHANGED <<rows, local>>
      /\ pc' = [pc EXCEPT ![s] = "product"]
  BY DEF CountUser, Check, Full, Goto
<1>2. CASE who[s] = m
  <2>1. Owned(m)' = Owned(m)
    BY <1>1 DEF rows, Owned, Live
  <2>2. /\ Owned(m)' \in SUBSET Products /\ Coming(m)' \in SUBSET {what'[t] : t \in Sessions}
        /\ what' \in [Sessions -> Products \cup {NoProduct}]
    BY DEF Owned, Live, Coming, TypeOK
  <2>3. /\ Cardinality(Owned(m)' \cup Coming(m)') <= Cardinality(Owned(m)') + Cardinality(Coming(m)')
        /\ Cardinality(Coming(m)') <= Cardinality(Sessions)
        /\ Cardinality(Coming(m)') \in Nat /\ Cardinality(Owned(m)' \cup Coming(m)') \in Nat
    BY <2>2, FiniteUnion
  <2>4. Cardinality(Owned(m)) \in Nat /\ Cardinality(Sessions) \in Nat
    BY FiniteClaims, RegistryAssumption, FS_CardinalityType
  <2> QED
    BY <1>1, <1>2, <2>1, <2>3, <2>4, RegistryAssumption
<1>3. CASE who[s] # m
  <2>1. ~Claims(s, m)'
    BY <1>1, <1>3 DEF Claims, TypeOK, local
  <2>2. Owned(m)' \cup Coming(m)' \subseteq Owned(m) \cup Coming(m)
    BY <1>1, <2>1, QuietClaims DEF TypeOK, rows, local
  <2> QED
    BY <2>2, ClaimsShrink
<1> QED
  BY <1>2, <1>3

(* What a /track writes belongs to a member who had a claim on it.         *)
LEMMA AddWatchClaims ==
  ASSUME TypeOK, NEW s \in Sessions, AddWatch(s), NEW m \in Members
  PROVE  Owned(m)' \cup Coming(m)' \subseteq Owned(m) \cup Coming(m)
<1> DEFINE p == what[s]
           row == IF loaded[s].state = "none" THEN Fresh(who[s])
                  ELSE Updated(s, watch[p], Fresh(who[s]))
<1>1. p \in Products /\ who[s] \in Members /\ pc[s] = "add" /\ watch[p] \in Row
      /\ watch' = [watch EXCEPT ![p] = row]
      /\ pc' = [pc EXCEPT ![s] = "idle"]
      /\ \A t \in Sessions \ {s} : who'[t] = who[t] /\ what'[t] = what[t] /\ loaded'[t] = loaded[t]
  BY RunningSession DEF AddWatch, Store, Forget, Goto, TypeOK
<1>2. \/ row.owner = who[s]
      \/ loaded[s].state = "removed" /\ loaded[s].owner = who[s] /\ row.owner = watch[p].owner
  <2>1. CASE loaded[s].state = "none"
    BY <2>1 DEF Fresh
  <2>2. CASE loaded[s].state # "none"
    <3>1. loaded[s].state = "removed"
      BY <1>1, <2>2 DEF TypeOK, SessionOK, Row, RowState
    <3>2. row = [a \in DOMAIN watch[p] |-> IF a \in Named(s, Fresh(who[s])) THEN Fresh(who[s])[a] ELSE watch[p][a]]
      BY <2>2 DEF Updated
    <3>3. "owner" \in DOMAIN watch[p] /\ "owner" \in DOMAIN Fresh(who[s])
      BY <1>1 DEF Row, Fresh
    <3>4. Fresh(who[s]).owner = who[s]
      BY DEF Fresh
    <3>5. loaded[s].owner # who[s] => "owner" \in Named(s, Fresh(who[s]))
      BY <3>3, <3>4 DEF Named
    <3> HIDE DEF row, p
    <3>6. \/ row.owner = who[s]
          \/ loaded[s].owner = who[s] /\ row.owner = watch[p].owner
      BY <3>2, <3>3, <3>4, <3>5
    <3> QED
      BY <3>1, <3>6
  <2> QED
    BY <2>1, <2>2
<1>3. row.owner = m => p \in Coming(m)
  <2>1. row.owner = m => Claims(s, m)
    BY <1>1, <1>2 DEF Claims
  <2> QED
    BY <2>1 DEF Coming
<1>4. watch'[p] = row /\ \A q \in Products \ {p} : watch'[q] = watch[q]
  BY <1>1 DEF TypeOK
<1> HIDE DEF row, p
<1>5. Owned(m)' \subseteq Owned(m) \cup Coming(m)
  BY <1>3, <1>4 DEF Owned, Live
<1>6. ASSUME NEW t \in Sessions, Claims(t, m)' PROVE what'[t] \in Coming(m)
  <2>1. t # s /\ pc'[t] = pc[t]
    BY <1>1, <1>6 DEF Claims, TypeOK
  <2>2. who'[t] = who[t] /\ what'[t] = what[t] /\ loaded'[t] = loaded[t] /\ what[t] \in Products
    BY <1>1, <1>6, <2>1, RunningSession DEF Claims
  <2>3. CASE Claims(t, m)
    BY <2>2, <2>3 DEF Coming
  <2>4. CASE ~Claims(t, m)
    <3>1. watch'[what[t]].owner = m /\ watch[what[t]].owner # m
      BY <1>6, <2>1, <2>2, <2>4 DEF Claims
    <3>2. what[t] = p /\ row.owner = m
      BY <1>4, <2>2, <3>1
    <3> QED
      BY <1>3, <2>2, <3>2
  <2> QED
    BY <2>3, <2>4
<1> QED
  BY <1>5, <1>6 DEF Coming

(* An edit keeps the owner of the row, whoever that is by then. *)
LEMMA SaveWatchClaims ==
  ASSUME TypeOK, NEW s \in Sessions, SaveWatch(s), NEW m
  PROVE  Owned(m)' \cup Coming(m)' \subseteq Owned(m) \cup Coming(m)
<1> DEFINE p == what[s]
           row == Updated(s, watch[p], Wanted(s))
<1>1. /\ p \in Products /\ watch[p] \in Row /\ watch' = [watch EXCEPT ![p] = row]
      /\ pc[s] = "save" /\ pc' = [pc EXCEPT ![s] = "idle"]
      /\ \A t \in Sessions \ {s} : who'[t] = who[t] /\ what'[t] = what[t] /\ loaded'[t] = loaded[t]
  BY RunningSession DEF SaveWatch, Store, Forget, Goto, TypeOK
<1>2. loaded[s] \in Row /\ job[s] \in Edit /\ loaded[s].state = "live"
  BY <1>1 DEF TypeOK, SessionOK
<1>3. Wanted(s) \in Row /\ Wanted(s).owner = loaded[s].owner /\ Wanted(s).state \in {"live", "removed"}
  BY <1>2 DEF Wanted, Edit, Row, RowState
<1>4. row.owner = watch[p].owner /\ row.state \in {watch[p].state, "removed"}
  <2>1. DOMAIN watch[p] = {"state", "owner", "paused"}
    BY <1>1 DEF Row
  <2>2. "owner" \notin Named(s, Wanted(s))
    BY <1>3 DEF Named
  <2>3. row.owner = watch[p].owner
    BY <2>1, <2>2 DEF Updated
  <2>4. row.state \in {watch[p].state, "removed"}
    BY <1>1, <1>2, <1>3, UpdatedRow
  <2> QED
    BY <2>3, <2>4
<1>5. watch'[p] = row /\ \A q \in Products \ {p} : watch'[q] = watch[q]
  BY <1>1 DEF TypeOK
<1> HIDE DEF row, p
<1>6. Owned(m)' \subseteq Owned(m)
  BY <1>4, <1>5 DEF Owned, Live
<1>7. ASSUME NEW t \in Sessions, Claims(t, m)' PROVE Claims(t, m) /\ what'[t] = what[t]
  <2>1. t # s /\ pc'[t] = pc[t]
    BY <1>1, <1>7 DEF Claims, TypeOK
  <2>2. who'[t] = who[t] /\ what'[t] = what[t] /\ loaded'[t] = loaded[t] /\ what[t] \in Products
    BY <1>1, <1>7, <2>1, RunningSession DEF Claims
  <2>3. watch'[what[t]].owner = watch[what[t]].owner
    BY <1>4, <1>5, <2>2
  <2> QED
    BY <1>7, <2>1, <2>2, <2>3 DEF Claims
<1> QED
  BY <1>6, <1>7 DEF Coming

LEMMA MemberCapStep == TypeOK /\ TypeOK' /\ MemberCapInv /\ [Next]_vars => MemberCapInv'
<1> SUFFICES ASSUME TypeOK, TypeOK', MemberCapInv, [Next]_vars, NEW m \in Members
             PROVE  Cardinality(Owned(m)' \cup Coming(m)') <= UserCap + Cardinality(Sessions) - 1
  BY DEF MemberCapInv
<1> DEFINE Shrunk == Owned(m)' \cup Coming(m)' \subseteq Owned(m) \cup Coming(m)
<1> SUFFICES ASSUME TRUE
             PROVE  Shrunk \/ \E s \in Sessions : CountUser(s) /\ ~Refuse(s)
  BY ClaimsShrink, CountUserClaims
<1>1. ASSUME NEW s \in Sessions, CommandStep(s), ~(CountUser(s) /\ ~Refuse(s)) PROVE Shrunk
  <2>1. CASE Refuse(s)
    <3>1. /\ UNCHANGED watch /\ pc' = [pc EXCEPT ![s] = "idle"]
          /\ \A t \in Sessions \ {s} : who'[t] = who[t] /\ what'[t] = what[t] /\ loaded'[t] = loaded[t]
      BY <2>1 DEF Refuse, Forget, Goto, rows, TypeOK
    <3>2. ~Claims(s, m)'
      BY <3>1 DEF Claims, TypeOK
    <3> QED
      BY <3>1, <3>2, QuietClaims DEF TypeOK
  <2>2. CASE AddWatch(s)
    BY <2>2, AddWatchClaims
  <2>3. CASE SaveWatch(s)
    BY <2>3, SaveWatchClaims
  <2>4. CASE ~Refuse(s) /\ FindWatch(s)
    <3> DEFINE found == IF known[s] THEN watch[what[s]] ELSE Absent
    <3>1. /\ pc[s] = "watch" /\ pc' = [pc EXCEPT ![s] = "add"]
          /\ loaded' = [loaded EXCEPT ![s] = found] /\ UNCHANGED <<watch, who, what>>
      BY <2>4 DEF FindWatch, Goto, rows
    <3>2. Claims(s, m)' => who[s] = m
      <4>1. loaded'[s] = found
        BY <3>1 DEF TypeOK
      <4>2. found.state = "removed" => found = watch[what[s]]
        BY DEF Absent
      <4> QED
        BY <3>1, <4>1, <4>2 DEF Claims
    <3> HIDE DEF found
    <3>3. Claims(s, m)' => Claims(s, m)
      BY <3>1, <3>2 DEF Claims
    <3> QED
      BY <3>1, <3>3, QuietClaims DEF TypeOK
  <2>5. CASE ~Refuse(s) /\ FindProduct(s)
    <3>1. /\ pc[s] = "product" /\ pc' = [pc EXCEPT ![s] = "watch"]
          /\ UNCHANGED <<watch, who, what, loaded>>
      BY <2>5 DEF FindProduct, Goto, rows
    <3>2. Claims(s, m)' => Claims(s, m)
      BY <3>1 DEF Claims, TypeOK
    <3> QED
      BY <3>1, <3>2, QuietClaims DEF TypeOK
  <2>6. CASE ~Refuse(s) /\ (Begin(s) \/ ResolveActors(s) \/ CountServer(s) \/ LoadWatch(s))
    <3>1. /\ UNCHANGED watch
          /\ \E step \in {"load", "resolve", "count", "countOwn", "save"} : pc' = [pc EXCEPT ![s] = step]
          /\ \A t \in Sessions \ {s} : who'[t] = who[t] /\ what'[t] = what[t] /\ loaded'[t] = loaded[t]
      BY <2>6 DEF Begin, ResolveActors, CountServer, Check, LoadWatch, Goto, rows, local, TypeOK
    <3>2. ~Claims(s, m)'
      BY <3>1 DEF Claims, TypeOK
    <3> QED
      BY <3>1, <3>2, QuietClaims DEF TypeOK
  <2> QED
    BY <1>1, <2>1, <2>2, <2>3, <2>4, <2>5, <2>6 DEF CommandStep, FailConflict, Fail
<1>2. CASE OnGuildJoin \/ OnGuildRemove \/ SelectStale \/ UNCHANGED vars
  BY <1>2 DEF OnGuildJoin, OnGuildRemove, SelectStale, vars, rows, local, Owned, Live, Coming, Claims
<1>3. CASE PurgeServers
  <2>1. UNCHANGED <<pc, who, what, loaded>>
    BY <1>3 DEF PurgeServers, local
  <2>2. CASE UNCHANGED watch
    BY <2>1, <2>2 DEF Owned, Live, Coming, Claims
  <2>3. CASE watch' = [q \in Products |-> Absent]
    <3>1. Owned(m)' = {}
      BY <2>3 DEF Owned, Live, Absent
    <3>2. ASSUME NEW t \in Sessions, Claims(t, m)' PROVE Claims(t, m)
      <4>1. pc[t] # "idle" => watch'[what[t]].owner # m
        BY <2>3, RunningSession, RegistryAssumption DEF Absent
      <4> QED
        BY <2>1, <3>2, <4>1 DEF Claims
    <3> QED
      BY <2>1, <3>1, <3>2 DEF Coming
  <2> QED
    BY <1>3, <2>2, <2>3 DEF PurgeServers
<1> QED
  BY <1>1, <1>2, <1>3 DEF Next

(* A member has fewer watches than the cap and the commands that may run   *)
(* together, though one may be handed to a member who was not counted.     *)
THEOREM MemberCapAlwaysHolds == Spec => []MemberCapHolds
<1>1. TypeOK /\ MemberCapInv => MemberCapHolds
  <2> SUFFICES ASSUME TypeOK, MemberCapInv, NEW m \in Members
               PROVE  Cardinality(Owned(m)) <= UserCap + Cardinality(Sessions) - 1
    BY DEF MemberCapHolds
  <2> DEFINE all == Owned(m) \cup Coming(m)
  <2>1. IsFiniteSet(all) /\ Cardinality(all) \in Nat
        /\ Cardinality(all) <= UserCap + Cardinality(Sessions) - 1
    BY FiniteClaims DEF MemberCapInv
  <2>2. Owned(m) \in SUBSET all
    OBVIOUS
  <2> HIDE DEF all
  <2>3. Cardinality(Owned(m)) <= Cardinality(all)
    BY <2>1, <2>2, FS_Subset
  <2>4. Cardinality(Owned(m)) \in Nat /\ Cardinality(Sessions) \in Nat
    BY FiniteClaims, RegistryAssumption, FS_CardinalityType
  <2> QED
    BY <2>1, <2>3, <2>4, RegistryAssumption
<1> QED
  BY <1>1, InitType, TypeStep, InitMemberCap, MemberCapStep, PTL DEF Spec
----------------------------------------------------------------------------
(* A guild that is known has its server.joined row in the audit log. *)
JoinedAudited == guild # "unknown" => audited

LEMMA JoinedStep == JoinedAudited /\ [Next]_vars => JoinedAudited'
<1> SUFFICES ASSUME JoinedAudited, [Next]_vars PROVE JoinedAudited'
  OBVIOUS
<1>1. ASSUME NEW s \in Sessions, CommandStep(s) PROVE JoinedAudited'
  <2>1. CASE Begin(s)
    BY <2>1 DEF Begin, Upsert, JoinedAudited
  <2>2. CASE UNCHANGED <<guild, audited>>
    BY <2>2 DEF JoinedAudited
  <2> QED
    BY <1>1, <2>1, <2>2 DEF CommandStep, ResolveActors, CountServer, CountUser, Check,
         FindProduct, FindWatch, AddWatch, FailConflict, LoadWatch, SaveWatch, Fail, Refuse, rows
<1>2. CASE OnGuildJoin
  BY <1>2 DEF OnGuildJoin, Upsert, JoinedAudited
<1> QED
  BY <1>1, <1>2 DEF Next, OnGuildRemove, SelectStale, PurgeServers, Referenced, JoinedAudited,
       vars, rows

(* What a step does to the row of a product. *)
LEMMA RowStep ==
  ASSUME TypeOK, JoinedAudited, [Next]_vars, NEW p \in Products
  PROVE  \/ watch'[p] = watch[p]
         \/ guild = "unknown" /\ watch'[p].state = "none"
         \/ watch'[p].state \in {"removed", watch[p].state}
         \/ /\ watch'[p].state = "live"
            /\ \E s \in Sessions : what[s] = p /\ job[s] = "track" /\ pc[s] # pc'[s]
<1>1. ASSUME NEW s \in Sessions, AddWatch(s)
      PROVE  \/ watch'[p] = watch[p]
             \/ /\ watch'[p].state = "live"
                /\ what[s] = p /\ job[s] = "track" /\ pc[s] # pc'[s]
  <2>1. job[s] = "track" /\ pc'[s] = "idle" /\ pc[s] = "add"
    BY <1>1 DEF AddWatch, TypeOK, SessionOK, Forget, Goto
  <2> QED
    BY <1>1, <2>1, AddedRow DEF TypeOK
<1>2. ASSUME NEW s \in Sessions, SaveWatch(s)
      PROVE  watch'[p] = watch[p] \/ watch'[p].state \in {"removed", watch[p].state}
  BY <1>2, SavedRow DEF TypeOK
<1>3. CASE PurgeServers
  BY <1>3 DEF PurgeServers, Referenced, JoinedAudited, Absent
<1>4. CASE UNCHANGED watch
  BY <1>4
<1>5. ASSUME NEW s \in Sessions, CommandStep(s), ~AddWatch(s), ~SaveWatch(s)
      PROVE  UNCHANGED watch
  BY <1>5 DEF CommandStep, Begin, ResolveActors, CountServer, CountUser, Check, FindProduct,
       FindWatch, FailConflict, LoadWatch, Fail, Refuse, rows
<1> QED
  BY <1>1, <1>2, <1>3, <1>4, <1>5
     DEF Next, OnGuildJoin, OnGuildRemove, SelectStale, vars, rows

(* No guild that is active loses a watch: the foreign key of audit_log     *)
(* undoes the purge of one that came back.                                 *)
THEOREM ActiveKeepsItsWatches == Spec => ActiveKeepsWatches
<1>1. Init => JoinedAudited
  BY DEF Init, JoinedAudited
<1>2. TypeOK /\ JoinedAudited /\ [Next]_vars =>
        [\A p \in Products :
           guild = "active" /\ watch[p].state # "none" => watch'[p].state # "none"]_vars
  BY RowStep
<1> QED
  BY <1>1, <1>2, InitType, TypeStep, JoinedStep, PTL DEF Spec, ActiveKeepsWatches

(* Pausing, resuming or removing never brings a removed watch back, in     *)
(* whatever order these commands load and save.                            *)
THEOREM OnlyTrackRevivesWatches == Spec => OnlyTrackRevives
<1>1. Init => JoinedAudited
  BY DEF Init, JoinedAudited
<1>2. TypeOK /\ JoinedAudited /\ [Next]_vars =>
        [\A p \in Products :
           watch[p].state # "live" /\ watch'[p].state = "live" =>
             \E s \in Sessions : what[s] = p /\ job[s] = "track" /\ pc[s] # pc'[s]]_vars
  BY RowStep
<1> QED
  BY <1>1, <1>2, InitType, TypeStep, JoinedStep, PTL DEF Spec, OnlyTrackRevives

============================================================================
