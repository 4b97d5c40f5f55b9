------------------------ MODULE GuildSettings_proofs ------------------------
(* Proofs about GuildSettings, for any number of sessions, watches, roles, *)
(* channels and rules.                                                     *)
EXTENDS GuildSettings, TLAPS

USE SettingsAssumption DEF Ids

(* An assignment of a command, and the work of a handler, keep the columns *)
(* of a row and their values.                                              *)
LEMMA WantedType ==
  ASSUME TypeOK, NEW s \in Sessions, NEW r \in DOMAIN seen[s]
  PROVE  RowOK(r, Wanted(s, seen[s][r]))
<1> DEFINE row == seen[s][r]
<1>1. RowOK(r, row) /\ ChangeOK(job[s].change)
  BY DEF TypeOK, SessionOK
<1>2. RowOK(r, Cleared(job[s].gone, row))
  BY <1>1 DEF RowOK, Cleared, IdColumns, Values
<1>3. RowOK(r, Assigned(job[s].change, row))
  <2>1. ASSUME NEW c \in Columns(r) PROVE Assigned(job[s].change, row)[c] \in Values(c)
    <3>1. CASE c \notin DOMAIN job[s].change
      BY <1>1, <2>1, <3>1 DEF RowOK, Assigned
    <3>2. CASE c \in DOMAIN job[s].change /\ c # "rules"
      BY <1>1, <2>1, <3>2 DEF RowOK, Assigned, ChangeOK
    <3>3. CASE c \in DOMAIN job[s].change /\ c = "rules"
      <4>1. /\ row["rules"] \in RuleSet
            /\ \A k \in DOMAIN job[s].change["rules"] : job[s].change["rules"][k] \in BOOLEAN
        BY <1>1, <2>1, <3>3 DEF RowOK, ChangeOK, Values
      <4>2. MergedRules(job[s].change["rules"], row["rules"]) \in RuleSet
        BY <4>1 DEF MergedRules, RuleSet
      <4>3. Assigned(job[s].change, row)[c] = MergedRules(job[s].change["rules"], row["rules"])
        BY <1>1, <2>1, <3>3 DEF RowOK, Assigned
      <4> QED
        BY <3>3, <4>2, <4>3 DEF Values
    <3> QED
      BY <3>1, <3>2, <3>3
  <2> QED
    BY <1>1, <2>1 DEF RowOK, Assigned
<1> QED
  BY <1>2, <1>3 DEF Wanted

LEMMA UpdatedType ==
  ASSUME TypeOK, NEW s \in Sessions, NEW r \in DOMAIN seen[s]
  PROVE  RowOK(r, Updated(s, r))
  BY WantedType DEF TypeOK, SessionOK, RowOK, Updated

LEMMA ColumnValues ==
  /\ Values("tracker") = Roles \cup {None} /\ Values("role") = Roles \cup {None}
  /\ Values("channel") = Channels \cup {None} /\ Values("region") = Regions \cup {None}
  /\ Values("live") = BOOLEAN /\ Values("rules") = RuleSet
  BY DEF Values

LEMMA OneOK ==
  ASSUME NEW c, c # "rules", NEW v \in Values(c)
  PROVE  ChangeOK(One(c, v))
  BY DEF ChangeOK, One

(* What a command asks is of the types of the columns it names. *)
LEMMA CommandType ==
  ASSUME TypeOK, NEW c \in Commands
  PROVE  c.row \in Rows /\ c.gone = None /\ ChangeOK(c.change)
<1>1. ASSUME NEW x \in Config PROVE ChangeOK(x)
  <2>1. ChangeOK(NewServer)
    BY ColumnValues DEF NewServer, ChangeOK
  <2> QED
    BY <1>1, <2>1, OneOK, ColumnValues DEF Config
<1>2. ASSUME NEW x \in Override PROVE ChangeOK(x)
  BY <1>2, OneOK, ColumnValues DEF Override
<1>3. ASSUME NEW x \in RuleChange PROVE ChangeOK(x)
  <2>1. PICK k \in Rules, on \in BOOLEAN : x = One("rules", One(k, on))
    BY <1>3 DEF RuleChange
  <2>2. \A j \in DOMAIN One(k, on) : One(k, on)[j] \in BOOLEAN
    BY DEF One
  <2> HIDE DEF One
  <2>3. DOMAIN x = {"rules"} /\ x["rules"] = One(k, on)
    BY <2>1 DEF One
  <2> QED
    BY <2>2, <2>3 DEF ChangeOK
<1>4. ChangeOK(Track) /\ ChangeOK(Untrack)
  <2>1. ChangeOK(Untrack)
    BY OneOK, ColumnValues DEF Untrack
  <2>2. DOMAIN Track = {"live", "rules"} /\ Track["live"] \in BOOLEAN /\ Track["rules"] = DefaultRules
    BY DEF Track
  <2>3. \A k \in DOMAIN DefaultRules : DefaultRules[k] \in BOOLEAN
    BY DEF DefaultRules
  <2> QED
    BY <2>1, <2>2, <2>3, ColumnValues DEF ChangeOK
<1> QED
  BY <1>1, <1>2, <1>3, <1>4 DEF Commands, Command, Rows

LEMMA InitType == Init => TypeOK
<1> SUFFICES ASSUME Init PROVE TypeOK
  OBVIOUS
<1>1. ASSUME NEW r \in Rows PROVE RowOK(r, rows[r])
  <2>1. CASE r = Server
    <3>1. rows[r] = NewServer
      BY <2>1, <1>1 DEF Init, Start
    <3>2. DOMAIN NewServer = IdColumns \cup {"region"}
      BY DEF NewServer, IdColumns
    <3>3. \A c \in IdColumns \cup {"region"} : NewServer[c] \in Values(c)
      BY ColumnValues DEF NewServer, IdColumns
    <3> QED
      BY <2>1, <3>1, <3>2, <3>3 DEF RowOK, Columns
  <2>2. CASE r # Server
    <3>1. rows[r] = NewWatch
      BY <2>2, <1>1 DEF Init, Start
    <3>2. DOMAIN NewWatch = {"live", "rules", "role", "channel"}
      BY DEF NewWatch
    <3>3. DefaultRules \in RuleSet
      BY DEF DefaultRules, RuleSet
    <3>4. \A c \in {"live", "rules", "role", "channel"} : NewWatch[c] \in Values(c)
      <4>1. /\ NewWatch["live"] \in BOOLEAN /\ NewWatch["rules"] = DefaultRules
            /\ NewWatch["role"] = None /\ NewWatch["channel"] = None
        BY DEF NewWatch
      <4> QED
        BY <3>3, <4>1, ColumnValues
    <3> QED
      BY <2>2, <3>1, <3>2, <3>4 DEF RowOK, Columns
  <2> QED
    BY <2>1, <2>2
<1>2. ASSUME NEW s \in Sessions PROVE SessionOK(s)
  BY <1>2 DEF Init, NoJob, Command, SessionOK, ChangeOK, Rows
<1> QED
  BY <1>1, <1>2 DEF Init, TypeOK

(* A session that a step does not touch, and one that is closed. *)
LEMMA UntouchedOK ==
  ASSUME TypeOK, NEW t \in Sessions, alive' \subseteq alive,
         pc'[t] = pc[t], job'[t] = job[t], seen'[t] = seen[t],
         job[t].gone \in (Ids \ alive') \cup {None}
  PROVE  SessionOK(t)'
  BY DEF TypeOK, SessionOK, RowOK, ChangeOK

LEMMA CloseType ==
  ASSUME TypeOK, NEW s \in Sessions, Close(s), alive' = alive,
         DOMAIN rows' = Rows, \A r \in Rows : RowOK(r, rows'[r]),
         pending' = pending, excused' \subseteq Ids \ alive
  PROVE  TypeOK'
<1>1. /\ pc' \in [Sessions -> {"idle", "check", "load", "list", "save"}]
      /\ DOMAIN job' = Sessions /\ DOMAIN seen' = Sessions
  BY DEF TypeOK, Close, Goto
<1>2. ASSUME NEW t \in Sessions PROVE SessionOK(t)'
  <2>1. CASE t = s
    <3>1. pc'[s] = "idle" /\ job'[s] = NoJob /\ seen'[s] = << >>
      BY DEF Close, Goto, TypeOK
    <3> QED
      BY <2>1, <3>1 DEF SessionOK, NoJob, Command, ChangeOK, Rows
  <2>2. CASE t # s
    <3>1. pc'[t] = pc[t] /\ job'[t] = job[t] /\ seen'[t] = seen[t]
      BY <2>2 DEF Close, Goto, TypeOK
    <3> QED
      BY <3>1, UntouchedOK DEF TypeOK, SessionOK
  <2> QED
    BY <2>1, <2>2
<1> QED
  BY <1>1, <1>2 DEF TypeOK, RowOK

LEMMA TypeStep == TypeOK /\ [Next]_vars => TypeOK'
<1> SUFFICES ASSUME TypeOK, [Next]_vars PROVE TypeOK'
  OBVIOUS
<1>1. ASSUME NEW s \in Sessions, Refuse(s) PROVE TypeOK'
  BY <1>1, CloseType DEF Refuse, TypeOK
<1>2. ASSUME NEW s \in Sessions, pc'[s] \in {"idle", "check", "load", "list", "save"},
             UNCHANGED rows, alive' \subseteq alive,
             pending' \subseteq Ids \ alive', excused' \subseteq Ids \ alive',
             \E step : pc' = [pc EXCEPT ![s] = step],
             UNCHANGED job \/ \E c : job' = [job EXCEPT ![s] = c],
             UNCHANGED seen \/ \E h : seen' = [seen EXCEPT ![s] = h],
             \A t \in Sessions \ {s} : job[t].gone \in (Ids \ alive') \cup {None},
             SessionOK(s)'
      PROVE  TypeOK'
  <2>1. ASSUME NEW t \in Sessions \ {s} PROVE SessionOK(t)'
    <3>1. pc'[t] = pc[t] /\ job'[t] = job[t] /\ seen'[t] = seen[t]
      BY <1>2, <2>1 DEF TypeOK
    <3> QED
      BY <1>2, <2>1, <3>1, UntouchedOK
  <2> QED
    BY <1>2, <2>1 DEF TypeOK, RowOK
<1>3. ASSUME NEW s \in Sessions, Begin(s) PROVE TypeOK'
  <2>1. PICK c \in Commands : /\ job' = [job EXCEPT ![s] = c]
                              /\ Goto(s, IF c.giver = Admin THEN "load" ELSE "check")
    BY <1>3 DEF Begin
  <2>2. c.row \in Rows /\ c.gone = None /\ ChangeOK(c.change)
    BY CommandType
  <2>3. /\ job'[s] = c /\ pc'[s] \in {"load", "check"}
        /\ UNCHANGED <<rows, alive, pending, seen, excused>>
    BY <1>3, <2>1 DEF Begin, Goto, TypeOK
  <2>4. SessionOK(s)'
    BY <2>2, <2>3 DEF SessionOK, ChangeOK, RowOK, TypeOK
  <2> QED
    BY <1>2, <2>1, <2>3, <2>4 DEF Goto, TypeOK, SessionOK
<1>4. ASSUME NEW s \in Sessions, Check(s) PROVE TypeOK'
  <2>1. CASE Refuse(s)
    BY <2>1, <1>1
  <2>2. CASE ~Refuse(s)
    <3>1. /\ job' = [job EXCEPT ![s] = Command(job[s].row, Admin, job[s].change)]
          /\ Goto(s, "load") /\ UNCHANGED <<rows, alive, pending, seen, excused>>
      BY <1>4, <2>2 DEF Check
    <3>2. pc'[s] = "load" /\ job'[s] = Command(job[s].row, Admin, job[s].change)
      BY <3>1 DEF Goto, TypeOK
    <3>3. SessionOK(s)'
      BY <3>1, <3>2 DEF Command, SessionOK, ChangeOK, RowOK, TypeOK
    <3> QED
      BY <1>2, <3>1, <3>2, <3>3 DEF Goto, TypeOK, SessionOK
  <2> QED
    BY <2>1, <2>2
<1>5. ASSUME NEW s \in Sessions, Load(s) PROVE TypeOK'
  <2>1. CASE Refuse(s)
    BY <2>1, <1>1
  <2>2. CASE ~Refuse(s)
    <3>1. /\ seen' = [seen EXCEPT ![s] = One(job[s].row, rows[job[s].row])]
          /\ Goto(s, "save") /\ UNCHANGED <<rows, alive, pending, job, excused>>
      BY <1>5, <2>2 DEF Load
    <3>2. /\ pc'[s] = "save" /\ DOMAIN seen'[s] = {job[s].row}
          /\ seen'[s][job[s].row] = rows[job[s].row]
      BY <3>1 DEF Goto, TypeOK, One
    <3>3. SessionOK(s)'
      BY <3>1, <3>2 DEF SessionOK, ChangeOK, RowOK, TypeOK
    <3> QED
      BY <1>2, <3>1, <3>2, <3>3 DEF Goto, TypeOK, SessionOK
  <2> QED
    BY <2>1, <2>2
<1>6. ASSUME NEW s \in Sessions, Save(s) PROVE TypeOK'
  <2>1. DOMAIN rows' = Rows /\ \A r \in Rows : RowOK(r, rows'[r])
    BY <1>6, UpdatedType DEF Save, TypeOK
  <2> QED
    BY <1>6, <2>1, CloseType DEF Save, TypeOK
<1>7. ASSUME NEW s \in Sessions, Receive(s) PROVE TypeOK'
  <2>1. PICK d \in pending : /\ job' = [job EXCEPT ![s] = Forget(d)]
                             /\ pending' = pending \ {d}
    BY <1>7 DEF Receive
  <2>2. /\ job'[s] = Forget(d) /\ pc'[s] = "load"
        /\ UNCHANGED <<rows, alive, seen, excused>>
    BY <1>7, <2>1 DEF Receive, Goto, TypeOK
  <2>3. SessionOK(s)'
    BY <2>1, <2>2 DEF SessionOK, Forget, ChangeOK, RowOK, TypeOK, Rows
  <2> QED
    BY <1>2, <1>7, <2>1, <2>2, <2>3 DEF Receive, Goto, TypeOK, SessionOK
<1>8. ASSUME NEW s \in Sessions, LoadServer(s) PROVE TypeOK'
  <2>1. /\ seen'[s] = One(Server, rows[Server]) /\ pc'[s] = "list"
        /\ job[s].gone # None /\ UNCHANGED <<rows, alive, pending, job>>
    BY <1>8 DEF LoadServer, Goto, TypeOK
  <2>2. SessionOK(s)'
    BY <2>1 DEF SessionOK, One, ChangeOK, RowOK, TypeOK, Rows
  <2>3. excused' \subseteq Ids \ alive'
    BY <1>8, <2>1 DEF LoadServer, Excuse, TypeOK, SessionOK
  <2> QED
    BY <1>2, <1>8, <2>1, <2>2, <2>3 DEF LoadServer, Goto, TypeOK, SessionOK
<1>9. ASSUME NEW s \in Sessions, ListWatches(s) PROVE TypeOK'
  <2>1. /\ seen'[s] = [r \in Listed \cup {Server} |->
                         IF r = Server THEN seen[s][Server] ELSE rows[r]]
        /\ pc'[s] = "save" /\ job[s].gone # None
        /\ UNCHANGED <<rows, alive, pending, job>>
    <3>1. job[s].gone # None
      BY <1>9 DEF ListWatches, TypeOK, SessionOK
    <3> QED
      BY <1>9, <3>1 DEF ListWatches, Goto, TypeOK
  <2>2. SessionOK(s)'
    <3>1. RowOK(Server, seen[s][Server])
      BY <1>9 DEF ListWatches, TypeOK, SessionOK
    <3>2. \A r \in Listed \cup {Server} : r \in Rows /\ RowOK(r, seen'[s][r])
      BY <2>1, <3>1 DEF TypeOK, Listed, Rows
    <3>3. DOMAIN seen'[s] = Listed \cup {Server}
      BY <2>1
    <3>4. \A r \in DOMAIN seen'[s] : RowOK(r, seen[s][r])'
      BY <3>2, <3>3 DEF RowOK
    <3> QED
      BY <2>1, <3>2, <3>3, <3>4 DEF SessionOK, ChangeOK, TypeOK, Rows
  <2>3. excused' \subseteq Ids \ alive'
    BY <1>9, <2>1 DEF ListWatches, Excuse, TypeOK, SessionOK
  <2> QED
    BY <1>2, <1>9, <2>1, <2>2, <2>3 DEF ListWatches, Goto, TypeOK, SessionOK
<1>10. ASSUME NEW s \in Sessions, Fail(s) PROVE TypeOK'
  <2>1. excused' \subseteq Ids \ alive
    BY <1>10 DEF Fail, TypeOK, SessionOK
  <2> QED
    BY <1>10, <2>1, CloseType DEF Fail, TypeOK
<1>11. ASSUME NEW d \in Ids, Delete(d) PROVE TypeOK'
  BY <1>11, UntouchedOK DEF Delete, TypeOK, SessionOK, RowOK
<1>12. CASE UNCHANGED vars
  BY <1>12 DEF vars, TypeOK, SessionOK, ChangeOK, RowOK
<1> QED
  BY <1>3, <1>4, <1>5, <1>6, <1>7, <1>8, <1>9, <1>10, <1>11, <1>12 DEF Next, Step

(* TypeOK holds for any number of sessions, watches, roles and channels:   *)
(* commands and handlers keep to the columns of the rows they load.        *)
THEOREM TypeCorrect == Spec => []TypeOK
  BY InitType, TypeStep, PTL DEF Spec
-----------------------------------------------------------------------------
(* Rows are written by Save only. *)
LEMMA OnlySaveWrites ==
  ASSUME TypeOK, [Next]_vars
  PROVE  rows' = rows \/ \E s \in Sessions : Save(s)
  BY DEF Next, Step, vars, Begin, Check, Load, Receive, LoadServer, ListWatches, Fail, Refuse,
     Delete

(* What the UPDATE of a command changes, it names. *)
LEMMA UpdateNames ==
  ASSUME TypeOK, NEW s \in Sessions, pc[s] = "save", job[s].gone = None,
         NEW r \in DOMAIN seen[s], NEW c \in DOMAIN rows[r], Updated(s, r)[c] # rows[r][c]
  PROVE  /\ r = job[s].row /\ c \in DOMAIN job[s].change
         /\ c = "rules" => \A k \in Rules : Updated(s, r).rules[k] # rows[r].rules[k] =>
                             \/ k \in DOMAIN job[s].change.rules
                             \/ seen[s][r].rules # rows[r].rules
<1> DEFINE old == seen[s][r]
           want == Wanted(s, old)
<1>1. r = job[s].row /\ r \in Rows /\ RowOK(r, old) /\ RowOK(r, rows[r])
  BY DEF TypeOK, SessionOK
<1>2. DOMAIN old = DOMAIN rows[r] /\ want = Assigned(job[s].change, old)
  BY <1>1 DEF RowOK, Wanted
<1>3. Updated(s, r)[c] = want[c] /\ want[c] # old[c]
  BY <1>2 DEF Updated
<1>4. c \in DOMAIN job[s].change
  BY <1>2, <1>3 DEF Assigned
<1>5. ASSUME c = "rules", NEW k \in Rules, k \notin DOMAIN job[s].change["rules"]
      PROVE  Updated(s, r)["rules"][k] = old["rules"][k]
  <2>1. want["rules"] = MergedRules(job[s].change["rules"], old["rules"])
    BY <1>2, <1>4, <1>5 DEF Assigned
  <2>2. old["rules"] \in RuleSet
    BY <1>1, <1>2, <1>5 DEF RowOK, Values
  <2> QED
    BY <1>3, <1>5, <2>1, <2>2 DEF MergedRules, RuleSet
<1> QED
  BY <1>1, <1>4, <1>5

LEMMA NamedStep == TypeOK /\ [Next]_vars => [NamedOnly]_vars
<1> SUFFICES ASSUME TypeOK, [Next]_vars, NEW s \in Sessions, Committing(s), job[s].gone = None,
                    NEW r \in Rows, NEW c \in DOMAIN rows[r], rows'[r][c] # rows[r][c]
             PROVE  /\ r = job[s].row /\ c \in DOMAIN job[s].change
                    /\ c = "rules" => \A k \in Rules : rows'[r].rules[k] # rows[r].rules[k] =>
                                        \/ k \in DOMAIN job[s].change.rules
                                        \/ seen[s][r].rules # rows[r].rules
  BY DEF NamedOnly
<1>1. PICK t \in Sessions : Save(t)
  BY OnlySaveWrites
<1>2. t = s
  BY <1>1 DEF Save, Close, Goto, Committing, TypeOK
<1>3. r \in DOMAIN seen[s] /\ rows'[r] = Updated(s, r) /\ pc[s] = "save"
  BY <1>1, <1>2 DEF Save
<1> QED
  BY <1>3, UpdateNames

(* A command never undoes what another has set, but for alert_rules that   *)
(* changed while it ran, for any number of commands and watches.           *)
THEOREM CommandsKeepOthers == Spec => OnlyNamedSettingsChange
  BY InitType, TypeStep, NamedStep, PTL DEF Spec, OnlyNamedSettingsChange
-----------------------------------------------------------------------------
(* Nobody can choose what Discord no longer has. *)
LEMMA CommandsNameAlive ==
  ASSUME TypeOK, NEW d \in Ids \ alive, NEW c \in Commands
  PROVE  ~Names(c, d)
<1>1. ASSUME NEW x \in Config \cup Override, NEW k \in DOMAIN x \cap IdColumns
      PROVE  x[k] # d
  <2>1. CASE x = NewServer
    BY <1>1, <2>1 DEF NewServer, IdColumns
  <2>2. ASSUME NEW col, NEW v \in alive \cup {None}, x = One(col, v) PROVE x[k] # d
    BY <1>1, <2>2 DEF One
  <2>3. ASSUME NEW g \in Regions, x = One("region", g) PROVE x[k] # d
    BY <1>1, <2>3 DEF One, IdColumns
  <2>4. CASE x \in Config
    <3>1. CASE \E g \in Regions : x = One("region", g)
      BY <2>3, <3>1
    <3>2. CASE \E v \in alive \cup {None} : x = One("tracker", v) \/ x = One("role", v)
                                            \/ x = One("channel", v)
      BY <2>2, <3>2
    <3> QED
      BY <2>1, <2>4, <3>1, <3>2 DEF Config
  <2>5. CASE x \in Override
    <3>1. \E v \in alive \cup {None} : x = One("channel", v) \/ x = One("role", v)
      BY <2>5 DEF Override
    <3> QED
      BY <2>2, <3>1
  <2> QED
    BY <1>1, <2>4, <2>5
<1>2. ASSUME NEW x \in RuleChange \cup {Track, Untrack}
      PROVE  DOMAIN x \cap IdColumns = {}
  <2>1. DOMAIN Track = {"live", "rules"} /\ DOMAIN Untrack = {"live"}
    BY DEF Track, Untrack, One
  <2>2. ASSUME x \in RuleChange PROVE DOMAIN x = {"rules"}
    <3>1. PICK k \in Rules, on \in BOOLEAN : x = One("rules", One(k, on))
      BY <2>2 DEF RuleChange
    <3> QED
      BY <3>1 DEF One
  <2> QED
    BY <1>2, <2>1, <2>2 DEF IdColumns
<1> QED
  BY <1>1, <1>2 DEF Commands, Command, Names

(* An UPDATE writes an id only for a command that names it. *)
LEMMA UpdateBringsNamed ==
  ASSUME TypeOK, NEW d \in Ids, NEW s \in Sessions, ~Names(job[s], d),
         NEW r \in DOMAIN seen[s], NEW c \in DOMAIN rows[r] \cap IdColumns,
         Updated(s, r)[c] = d
  PROVE  rows[r][c] = d /\ (job[s].gone = d => seen[s][r][c] # d)
<1> DEFINE old == seen[s][r]
           want == Wanted(s, old)
<1>1. DOMAIN old = DOMAIN rows[r]
  BY DEF TypeOK, SessionOK, RowOK
<1>2. Updated(s, r)[c] = IF want[c] # old[c] THEN want[c] ELSE rows[r][c]
  BY DEF Updated
<1>3. CASE job[s].gone = None
  <2>1. want[c] # old[c] => c \in DOMAIN job[s].change /\ want[c] = job[s].change[c]
    BY <1>1, <1>3 DEF Wanted, Assigned, IdColumns
  <2> QED
    BY <1>2, <1>3, <2>1 DEF Names
<1>4. CASE job[s].gone # None
  <2>1. want[c] = IF old[c] = job[s].gone THEN None ELSE old[c]
    BY <1>1, <1>4 DEF Wanted, Cleared
  <2> QED
    BY <1>2, <2>1
<1> QED
  BY <1>3, <1>4

LEMMA HandlerStep ==
  ASSUME TypeOK, HandlerInv, [Next]_vars
  PROVE  HandlerInv'
<1>1. ASSUME NEW s \in Sessions, Close(s), pending' = pending PROVE HandlerInv'
  BY <1>1 DEF Close, Goto, NoJob, Command, HandlerInv, TypeOK
<1>2. ASSUME NEW s \in Sessions, Begin(s) PROVE HandlerInv'
  <2>1. PICK c \in Commands : job' = [job EXCEPT ![s] = c]
    BY <1>2 DEF Begin
  <2> QED
    BY <1>2, <2>1, CommandType DEF Begin, Goto, HandlerInv, TypeOK
<1>3. ASSUME NEW s \in Sessions, Check(s), ~Refuse(s) PROVE HandlerInv'
  <2>1. job'[s].gone = None
    BY <1>3 DEF Check, Command, TypeOK
  <2> QED
    BY <1>3, <2>1 DEF Check, Goto, HandlerInv, TypeOK
<1>4. ASSUME NEW s \in Sessions, (Load(s) /\ ~Refuse(s)) \/ LoadServer(s) \/ ListWatches(s)
      PROVE  HandlerInv'
  BY <1>4 DEF Load, LoadServer, ListWatches, Goto, HandlerInv, TypeOK
<1>5. ASSUME NEW s \in Sessions, Receive(s) PROVE HandlerInv'
  <2>1. PICK d \in pending : /\ job' = [job EXCEPT ![s] = Forget(d)]
                             /\ pending' = pending \ {d}
    BY <1>5 DEF Receive
  <2>2. job'[s].gone = d /\ pc'[s] = "load"
    BY <1>5, <2>1 DEF Receive, Forget, Goto, TypeOK
  <2> QED
    BY <1>5, <2>1, <2>2 DEF Receive, Goto, HandlerInv, TypeOK
<1>6. ASSUME NEW d \in Ids, Delete(d) PROVE HandlerInv'
  BY <1>6 DEF Delete, HandlerInv, TypeOK, SessionOK
<1>7. CASE UNCHANGED vars
  BY <1>7 DEF vars, HandlerInv
<1> QED
  BY <1>1, <1>2, <1>3, <1>4, <1>5, <1>6, <1>7
     DEF Next, Step, Check, Load, Save, Fail, Refuse

(* The part of ForgetInv about one id. *)
Forgetting(d) ==
  /\ \/ \E s \in Sessions : job[s].gone = d /\ pc[s] = "load"
     \/ \A s \in Sessions : ~Names(job[s], d)
  /\ \A r \in Rows : \A c \in DOMAIN rows[r] \cap IdColumns :
       rows[r][c] = d => \E s \in Sessions : WillClear(s, d, r, c)

LEMMA NoneNamed == \A d : ~Names(NoJob, d)
  BY DEF Names, NoJob, Command

(* A handler still at its start covers every row. *)
LEMMA LoadingForgets ==
  ASSUME NEW d \in Ids, \E s \in Sessions : job[s].gone = d /\ pc[s] = "load"
  PROVE  Forgetting(d)
  BY DEF Forgetting, WillClear

(* A session that closes without a write, and one that a step leaves where *)
(* it is, cannot take away what another will clear.                        *)
LEMMA KeptForgets ==
  ASSUME TypeOK, NEW d \in Ids, Forgetting(d), NEW s \in Sessions,
         job[s].gone # d, job'[s].gone # d, ~Names(job'[s], d), rows' = rows,
         \A t \in Sessions \ {s} : pc'[t] = pc[t] /\ job'[t] = job[t] /\ seen'[t] = seen[t]
  PROVE  Forgetting(d)'
<1>1. (\A t \in Sessions : ~Names(job[t], d)) => \A t \in Sessions : ~Names(job'[t], d)
  BY DEF Names
<1>2. ASSUME NEW t \in Sessions, NEW r, NEW c, WillClear(t, d, r, c)
      PROVE  t # s /\ WillClear(t, d, r, c)'
  BY <1>2 DEF WillClear
<1>3. \A t \in Sessions : job[t].gone = d /\ pc[t] = "load" => job'[t].gone = d /\ pc'[t] = "load"
  OBVIOUS
<1>4. \A t \in Sessions : Names(job'[t], d) <=> Names(job[t], d)'
  BY DEF Names
<1> QED
  BY <1>1, <1>2, <1>3, <1>4 DEF Forgetting

LEMMA ServerLoadedForgets ==
  ASSUME TypeOK, HandlerInv, NEW d \in Ids, Forgetting(d), d \notin excused', NEW s \in Sessions, LoadServer(s)
  PROVE  Forgetting(d)'
<1>1. /\ pc'[s] = "list" /\ seen'[s] = One(Server, rows[Server])
      /\ UNCHANGED <<rows, job>>
      /\ \A t \in Sessions \ {s} : pc'[t] = pc[t] /\ seen'[t] = seen[t]
  BY DEF LoadServer, Goto, TypeOK
<1>2. CASE job[s].gone # d
  <2>1. CASE \A t \in Sessions : ~Names(job[t], d)
    BY <1>1, <1>2, <2>1, KeptForgets
  <2>2. CASE \E t \in Sessions : job[t].gone = d /\ pc[t] = "load"
    <3>1. \E t \in Sessions : job'[t].gone = d /\ pc'[t] = "load"
      BY <1>1, <1>2, <2>2
    <3> QED
      BY <3>1 DEF Forgetting, WillClear
  <2> QED
    BY <2>1, <2>2 DEF Forgetting
<1>3. CASE job[s].gone = d
  <2>1. \A t \in Sessions : ~Names(job[t], d)
    BY <1>3 DEF LoadServer, Excuse
  <2>2. \A t \in Sessions : ~Names(job[t], d)'
    BY <1>1, <2>1 DEF Names
  <2>3. ASSUME NEW r \in Rows, NEW c \in DOMAIN rows[r] \cap IdColumns, rows[r][c] = d
        PROVE  WillClear(s, d, r, c)'
    BY <1>1, <1>3, <2>3 DEF WillClear, One
  <2> QED
    BY <1>1, <2>2, <2>3 DEF Forgetting
<1> QED
  BY <1>2, <1>3

LEMMA WatchesListedForgets ==
  ASSUME TypeOK, NEW d \in Ids, Forgetting(d), d \notin excused', NEW s \in Sessions, ListWatches(s)
  PROVE  Forgetting(d)'
<1>1. /\ pc[s] = "list" /\ pc'[s] = "save"
      /\ seen'[s] = [r \in Listed \cup {Server} |->
                      IF r = Server THEN seen[s][Server] ELSE rows[r]]
      /\ UNCHANGED <<rows, job>>
      /\ \A t \in Sessions \ {s} : pc'[t] = pc[t] /\ seen'[t] = seen[t]
  BY DEF ListWatches, Goto, TypeOK
<1>2. ASSUME NEW t \in Sessions, NEW r \in Rows, NEW c \in DOMAIN rows[r] \cap IdColumns,
             rows[r][c] = d, WillClear(t, d, r, c)
      PROVE  WillClear(t, d, r, c)'
  <2>1. CASE t # s
    BY <1>1, <1>2, <2>1 DEF WillClear
  <2>2. CASE t = s /\ r = Server
    BY <1>1, <1>2, <2>2 DEF WillClear
  <2>3. CASE t = s /\ r # Server
    <3>1. job[s].gone = d
      BY <1>2, <2>3 DEF WillClear
    <3>2. r \in Listed
      BY <1>2, <2>3, <3>1 DEF ListWatches, Excuse, Holds, Rows
    <3> QED
      BY <1>1, <1>2, <2>3, <3>1, <3>2 DEF WillClear
  <2> QED
    BY <2>1, <2>2, <2>3
<1>3. \A t \in Sessions : Names(job[t], d)' <=> Names(job[t], d)
  BY <1>1 DEF Names
<1>4. \A t \in Sessions : job[t].gone = d /\ pc[t] = "load" => job'[t].gone = d /\ pc'[t] = "load"
  BY <1>1
<1> QED
  BY <1>1, <1>2, <1>3, <1>4 DEF Forgetting

LEMMA SavedForgets ==
  ASSUME TypeOK, HandlerInv, NEW d \in Ids, Forgetting(d), NEW s \in Sessions, Save(s)
  PROVE  Forgetting(d)'
<1>1. /\ pc[s] = "save" /\ pc'[s] = "idle" /\ job'[s] = NoJob
      /\ rows' = [r \in Rows |-> IF r \in DOMAIN seen[s] THEN Updated(s, r) ELSE rows[r]]
      /\ \A t \in Sessions \ {s} : pc'[t] = pc[t] /\ job'[t] = job[t] /\ seen'[t] = seen[t]
  BY DEF Save, Close, Goto, TypeOK
<1>2. CASE \E t \in Sessions : job[t].gone = d /\ pc[t] = "load"
  <2>1. \E t \in Sessions : job'[t].gone = d /\ pc'[t] = "load"
    BY <1>1, <1>2
  <2> QED
    BY <2>1 DEF Forgetting, WillClear
<1>3. CASE \A t \in Sessions : ~Names(job[t], d)
  <2>1. \A t \in Sessions : ~Names(job[t], d)'
    BY <1>1, <1>3, NoneNamed DEF Names
  <2>2. ASSUME NEW r \in Rows, NEW c \in DOMAIN rows'[r] \cap IdColumns, rows'[r][c] = d
        PROVE  \E t \in Sessions : WillClear(t, d, r, c)'
    <3>1. c \in DOMAIN rows[r]
      BY <1>1 DEF Updated
    <3>2. /\ rows[r][c] = d
          /\ job[s].gone = d => ~(r \in DOMAIN seen[s] /\ seen[s][r][c] = d)
      BY <1>1, <1>3, <2>2, <3>1, UpdateBringsNamed
    <3>3. PICK t \in Sessions : WillClear(t, d, r, c)
      BY <3>1, <3>2 DEF Forgetting
    <3>4. t # s
      BY <1>1, <3>2, <3>3 DEF WillClear
    <3> QED
      BY <1>1, <3>3, <3>4 DEF WillClear
  <2> QED
    BY <2>1, <2>2 DEF Forgetting
<1> QED
  BY <1>2, <1>3 DEF Forgetting

(* Nothing else writes a row, or lets anybody name what is deleted. *)
LEMMA OtherForgets ==
  ASSUME TypeOK, HandlerInv, NEW d \in Ids \ alive, Forgetting(d), d \notin excused',
         NEW s \in Sessions,
         Begin(s) \/ Check(s) \/ Load(s) \/ Receive(s) \/ Fail(s), d \notin pending
  PROVE  Forgetting(d)'
<1>1. rows' = rows /\ \A t \in Sessions \ {s} : pc'[t] = pc[t] /\ job'[t] = job[t] /\ seen'[t] = seen[t]
  BY DEF Begin, Check, Load, Receive, Fail, Refuse, Close, Goto, TypeOK
<1>2. job[s].gone # d
  <2>1. Fail(s) => job[s].gone # d
    BY DEF Fail
  <2> QED
    BY <2>1 DEF Begin, Check, Load, Receive, HandlerInv
<1>3. CASE \E t \in Sessions : job[t].gone = d /\ pc[t] = "load"
  <2>1. \E t \in Sessions : job'[t].gone = d /\ pc'[t] = "load"
    BY <1>1, <1>2, <1>3
  <2> QED
    BY <2>1, <1>1 DEF Forgetting, WillClear
<1>4. CASE \A t \in Sessions : ~Names(job[t], d)
  <2>1. CASE Close(s)
    BY <1>1, <1>2, <2>1, KeptForgets, NoneNamed DEF Close, TypeOK, NoJob, Command
  <2>2. CASE Begin(s)
    <3>1. PICK c \in Commands : job'[s] = c
      BY <2>2 DEF Begin, TypeOK
    <3>2. c.gone # d /\ ~Names(c, d)
      BY CommandType, CommandsNameAlive
    <3> QED
      BY <1>1, <1>2, <3>1, <3>2, KeptForgets
  <2>3. CASE Check(s) /\ ~Close(s)
    <3>1. job'[s] = Command(job[s].row, Admin, job[s].change)
      BY <2>3 DEF Check, Refuse, TypeOK
    <3>2. job'[s].gone # d /\ ~Names(job'[s], d)
      BY <1>4, <3>1 DEF Command, Names
    <3> QED
      BY <1>1, <1>2, <3>2, KeptForgets
  <2>4. CASE Load(s) /\ ~Close(s)
    <3>1. job' = job
      BY <2>4 DEF Load, Refuse
    <3> QED
      BY <1>1, <1>2, <1>4, <3>1, KeptForgets
  <2>5. CASE Receive(s)
    <3>1. PICK e \in pending : job'[s] = Forget(e)
      BY <2>5 DEF Receive, TypeOK
    <3>2. job'[s].gone # d /\ ~Names(job'[s], d)
      BY <3>1 DEF Forget, Names
    <3> QED
      BY <1>1, <1>2, <3>2, KeptForgets
  <2> QED
    BY <2>1, <2>2, <2>3, <2>4, <2>5 DEF Fail
<1> QED
  BY <1>3, <1>4 DEF Forgetting

LEMMA ForgetStep ==
  ASSUME TypeOK, HandlerInv, ForgetInv, [Next]_vars
  PROVE  ForgetInv'
<1> SUFFICES ASSUME NEW d \in Ids, d \notin alive', d \notin pending', d \notin excused'
             PROVE  Forgetting(d)'
  BY DEF ForgetInv, Forgetting
<1>1. CASE d \notin alive /\ d \notin pending /\ d \notin excused
  <2>1. Forgetting(d)
    BY <1>1 DEF ForgetInv, Forgetting
  <2>2. ASSUME NEW s \in Sessions, Step(s) PROVE Forgetting(d)'
    BY <1>1, <2>1, <2>2, OtherForgets, SavedForgets, ServerLoadedForgets, WatchesListedForgets
       DEF Step
  <2>3. ASSUME UNCHANGED <<rows, pc, job, seen>> PROVE Forgetting(d)'
    BY <2>1, <2>3 DEF Forgetting, WillClear, Names
  <2> QED
    BY <2>2, <2>3 DEF Next, vars, Delete
<1>2. CASE d \in alive \/ d \in excused
  <2>1. excused \subseteq excused'
    BY DEF Next, Step, vars, Begin, Check, Load, Save, Receive, LoadServer, ListWatches, Fail,
       Refuse, Delete, Excuse
  <2>2. d \in alive => d \in pending'
    BY DEF Next, Step, vars, Begin, Check, Load, Save, Receive, LoadServer, ListWatches, Fail,
       Refuse, Delete
  <2> QED
    BY <1>2, <2>1, <2>2
<1>3. CASE d \in pending
  <2>1. PICK s \in Sessions : Receive(s)
    BY <1>3 DEF Next, Step, vars, Begin, Check, Load, Save, LoadServer, ListWatches, Fail,
       Refuse, Delete
  <2>2. job'[s].gone = d /\ pc'[s] = "load"
    BY <1>3, <2>1 DEF Receive, Forget, Goto, TypeOK
  <2> QED
    BY <2>2 DEF Forgetting, WillClear
<1> QED
  BY <1>1, <1>2, <1>3

LEMMA InitDeletion == Init => DeletionInv
<1> SUFFICES ASSUME Init PROVE DeletionInv
  OBVIOUS
<1>1. HandlerInv
  BY DEF Init, HandlerInv, NoJob, Command
<1>2. ForgetInv
  BY DEF Init, ForgetInv
<1> QED
  BY <1>1, <1>2, InitType DEF DeletionInv

LEMMA DeletionStep == DeletionInv /\ [Next]_vars => DeletionInv'
  BY TypeStep, HandlerStep, ForgetStep DEF DeletionInv

(* For any number of commands, handlers, watches, roles and channels: an   *)
(* id whose deletion was handled is gone from the guild and its watches,   *)
(* but for the three reasons the history variable names.                   *)
THEOREM DeletedAlwaysForgotten == Spec => []DeletedIsForgotten
<1>1. DeletionInv => DeletedIsForgotten
  <2> SUFFICES ASSUME DeletionInv, NEW d \in Ids, Handled(d), d \notin excused, NEW r \in Rows
               PROVE  ~Holds(rows[r], d)
    BY DEF DeletedIsForgotten
  <2>1. \A c \in DOMAIN rows[r] \cap IdColumns :
          rows[r][c] = d => \E s \in Sessions : WillClear(s, d, r, c)
    BY DEF Handled, DeletionInv, ForgetInv
  <2>2. ASSUME NEW c PROVE ~\E s \in Sessions : WillClear(s, d, r, c)
    BY DEF Handled, WillClear
  <2> QED
    BY <2>1, <2>2 DEF Holds
<1> QED
  BY <1>1, InitDeletion, DeletionStep, PTL DEF Spec
=============================================================================
