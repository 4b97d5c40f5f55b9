---------------------------- MODULE GuildSettings ----------------------------
(***************************************************************************)
(* The settings of one guild and of its watches: /config, /watch alert,    *)
(* threshold, channel and role, /track and /untrack (app/bot/cogs), and    *)
(* the events of deleted roles and channels (app/bot/events/lifecycle.py). *)
(* Caps, owners and the life of the guild are in WatchRegistry: here the   *)
(* guild is active and a member owns the watches he names.                 *)
(*                                                                         *)
(* A command or a handler is a database session: it loads rows, changes    *)
(* their attributes and commits.  Under READ COMMITTED, and without a      *)
(* second look (expire_on_commit=False), the commit writes the columns     *)
(* that differ from what was loaded into whatever the row holds by then.   *)
(***************************************************************************)
EXTENDS FiniteSets

CONSTANTS
  Sessions,  \* commands and handlers that may be running at a time
  Server,    \* the row of the guild in servers
  Watches,   \* its products, each with a row in watches
  Roles, Channels,  \* what Discord has at first, told apart by their ids
  Regions,   \* country codes
  Rules,     \* keys of alert_rules
  Defaults,  \* those on by DEFAULT_ALERT_RULES
  Admin,     \* who gives a command: somebody with manage_guild, or a role
  None

Ids == Roles \cup Channels

ASSUME SettingsAssumption ==
  /\ Server \notin Watches /\ None \notin Ids /\ None \notin Regions
  /\ Admin \notin Roles
  /\ Roles \cap Channels = {} /\ Defaults \subseteq Rules

VARIABLES
  rows,     \* what is committed of the guild and of its watches
  alive,    \* the roles and channels Discord has
  pending,  \* those whose deletion the bot has not handled yet
  pc,       \* where each session stands
  job,      \* what it does
  seen,     \* the rows it has loaded
  excused   \* history: deleted ids that may survive, see Excuse

vars == <<rows, alive, pending, pc, job, seen, excused>>

Rows == Watches \cup {Server}

(* A rule is on or off; a threshold is on when it has an amount. *)
RuleSet == [Rules -> BOOLEAN]

IdColumns == {"tracker", "role", "channel"}

Columns(r) ==
  IF r = Server THEN IdColumns \cup {"region"} ELSE {"live", "rules", "role", "channel"}

Values(c) ==
  CASE c \in {"tracker", "role"} -> Roles \cup {None}
    [] c = "channel" -> Channels \cup {None}
    [] c = "region"  -> Regions \cup {None}
    [] c = "live"    -> BOOLEAN
    [] c = "rules"   -> RuleSet

RowOK(r, row) == DOMAIN row = Columns(r) /\ \A c \in Columns(r) : row[c] \in Values(c)

DefaultRules == [k \in Rules |-> k \in Defaults]

(* A watch that was never added looks like a removed one. *)
NewServer == [tracker |-> None, role |-> None, channel |-> None, region |-> None]
NewWatch  == [live |-> FALSE, rules |-> DefaultRules, role |-> None, channel |-> None]
Start(r)  == IF r = Server THEN NewServer ELSE NewWatch

One(c, v) == [x \in {c} |-> v]

(* What a command may ask of a row: the attributes it assigns, and of      *)
(* alert_rules the keys it names.  Discord offers what exists.             *)
Config ==
  {One("tracker", r) : r \in Roles \cap alive}
    \cup {One("role", r) : r \in (Roles \cap alive) \cup {None}}
    \cup {One("channel", c) : c \in Channels \cap alive}
    \cup {One("region", g) : g \in Regions}
    \cup {NewServer}
Override ==
  {One("channel", c) : c \in (Channels \cap alive) \cup {None}}
    \cup {One("role", r) : r \in (Roles \cap alive) \cup {None}}
RuleChange == {One("rules", One(k, on)) : k \in Rules, on \in BOOLEAN}
Track      == [live |-> TRUE, rules |-> DefaultRules]
Untrack    == One("live", FALSE)

Command(r, giver, change) == [row |-> r, giver |-> giver, change |-> change, gone |-> None]
NoJob      == Command(Server, Admin, << >>)
Forget(d)  == [row |-> Server, giver |-> Admin, change |-> << >>, gone |-> d]

(* require_admin guards the settings of the guild and the overrides,       *)
(* require_tracker_role the rest.                                          *)
Commands ==
  {Command(Server, Admin, x) : x \in Config}
    \cup {Command(w, Admin, x) : w \in Watches, x \in Override}
    \cup {Command(w, g, x) : w \in Watches, g \in (Roles \cap alive) \cup {Admin},
                             x \in RuleChange \cup {Track, Untrack}}

Init ==
  /\ rows = [r \in Rows |-> Start(r)]
  /\ alive = Ids /\ pending = {} /\ excused = {}
  /\ pc = [s \in Sessions |-> "idle"]
  /\ job = [s \in Sessions |-> NoJob]
  /\ seen = [s \in Sessions |-> << >>]
-----------------------------------------------------------------------------
Goto(s, step) == pc' = [pc EXCEPT ![s] = step]

(* The session is closed and the member answered. *)
Close(s) ==
  /\ Goto(s, "idle")
  /\ job' = [job EXCEPT ![s] = NoJob]
  /\ seen' = [seen EXCEPT ![s] = << >>]

Refuse(s) == Close(s) /\ UNCHANGED <<rows, alive, pending, excused>>

Begin(s) ==
  /\ pc[s] = "idle"
  /\ \E c \in Commands :
       /\ job' = [job EXCEPT ![s] = c]
       /\ Goto(s, IF c.giver = Admin THEN "load" ELSE "check")
  /\ UNCHANGED <<rows, alive, pending, seen, excused>>

(* has_tracker_role, in a session of its own; who passes may do the rest.  *)
Check(s) ==
  /\ pc[s] = "check"
  /\ IF rows[Server].tracker = job[s].giver
       THEN /\ job' = [job EXCEPT ![s] = Command(@.row, Admin, @.change)]
            /\ Goto(s, "load")
            /\ UNCHANGED <<rows, alive, pending, seen, excused>>
       ELSE Refuse(s)

IsTrack(c) == c = Track

(* add_watch refuses what is tracked, the other commands what is not. *)
Accepts(s, row) ==
  job[s].row # Server => IF IsTrack(job[s].change) THEN ~row.live ELSE row.live

Load(s) ==
  LET r == job[s].row
  IN  /\ pc[s] = "load" /\ job[s].gone = None
      /\ IF Accepts(s, rows[r])
           THEN /\ seen' = [seen EXCEPT ![s] = One(r, rows[r])]
                /\ Goto(s, "save")
                /\ UNCHANGED <<rows, alive, pending, job, excused>>
           ELSE Refuse(s)

(* Variant of MergedRules: the new rules replace the old ones. *)
MergedRulesNot(change, rules) == change

(* {**watch.alert_rules, **rules} *)
MergedRules(change, rules) ==
  [k \in DOMAIN rules |-> IF k \in DOMAIN change THEN change[k] ELSE rules[k]]

Assigned(change, row) ==
  [c \in DOMAIN row |->
     IF c \notin DOMAIN change THEN row[c]
     ELSE IF c = "rules" THEN MergedRules(change[c], row[c]) ELSE change[c]]

(* Variant of Cleared: the role that is mentioned is overlooked. *)
ClearedTracker(d, row) ==
  [c \in DOMAIN row |-> IF c # "role" /\ row[c] = d THEN None ELSE row[c]]

(* on_guild_role_delete, on_guild_channel_delete *)
Cleared(d, row) ==
  [c \in DOMAIN row |->
     IF c \in IdColumns /\ row[c] = d THEN None ELSE row[c]]

Wanted(s, row) ==
  IF job[s].gone = None THEN Assigned(job[s].change, row) ELSE Cleared(job[s].gone, row)

(* Variant of Updated: the UPDATE names every column. *)
UpdatedWhole(s, r) == Wanted(s, seen[s][r])

(* The UPDATE of a row names the columns that are to differ from what was  *)
(* loaded.                                                                 *)
Updated(s, r) ==
  LET want == Wanted(s, seen[s][r])
  IN  [c \in DOMAIN rows[r] |-> IF want[c] # seen[s][r][c] THEN want[c] ELSE rows[r][c]]

Save(s) ==
  /\ pc[s] = "save"
  /\ rows' = [r \in Rows |-> IF r \in DOMAIN seen[s] THEN Updated(s, r) ELSE rows[r]]
  /\ Close(s)
  /\ UNCHANGED <<alive, pending, excused>>
-----------------------------------------------------------------------------
Delete(d) ==
  /\ d \in alive
  /\ alive' = alive \ {d}
  /\ pending' = pending \cup {d}
  /\ UNCHANGED <<rows, pc, job, seen, excused>>

Receive(s) ==
  /\ pc[s] = "idle"
  /\ \E d \in pending :
       /\ job' = [job EXCEPT ![s] = Forget(d)]
       /\ pending' = pending \ {d}
  /\ Goto(s, "load")
  /\ UNCHANGED <<rows, alive, seen, excused>>

Names(c, d) == \E x \in DOMAIN c.change \cap IdColumns : c.change[x] = d

Holds(row, d) == \E x \in DOMAIN row \cap IdColumns : row[x] = d

Excuse(d, when) == excused' = excused \cup {x \in {d} : when}

(* The handler loads the guild, then the watches that are not removed.     *)
(* What names the id and is still running will be saved later; a removed   *)
(* watch keeps the id for the day it is tracked again.                     *)
LoadServer(s) ==
  /\ pc[s] = "load" /\ job[s].gone # None
  /\ seen' = [seen EXCEPT ![s] = One(Server, rows[Server])]
  /\ Goto(s, "list")
  /\ Excuse(job[s].gone, \E t \in Sessions : Names(job[t], job[s].gone))
  /\ UNCHANGED <<rows, alive, pending, job>>

(* list_for_server *)
Listed == {w \in Watches : rows[w].live}

ListWatches(s) ==
  /\ pc[s] = "list"
  /\ seen' = [seen EXCEPT ![s] =
                [r \in Listed \cup {Server} |-> IF r = Server THEN @[Server] ELSE rows[r]]]
  /\ Goto(s, "save")
  /\ Excuse(job[s].gone, \E w \in Watches \ Listed : Holds(rows[w], job[s].gone))
  /\ UNCHANGED <<rows, alive, pending, job>>

(* The process dies or the database raises: nothing is written, and the    *)
(* event is not sent again.                                                *)
Fail(s) ==
  /\ pc[s] # "idle"
  /\ Close(s)
  /\ excused' = excused \cup ({job[s].gone} \ {None})
  /\ UNCHANGED <<rows, alive, pending>>

Step(s) ==
  \/ Begin(s) \/ Check(s) \/ Load(s) \/ Save(s)
  \/ Receive(s) \/ LoadServer(s) \/ ListWatches(s) \/ Fail(s)

Next == (\E s \in Sessions : Step(s)) \/ (\E d \in Ids : Delete(d))

Spec == Init /\ [][Next]_vars
-----------------------------------------------------------------------------
ChangeOK(change) ==
  \A c \in DOMAIN change :
    IF c = "rules" THEN \A k \in DOMAIN change[c] : change[c][k] \in BOOLEAN
                   ELSE change[c] \in Values(c)

SessionOK(s) ==
  /\ job[s].row \in Rows /\ ChangeOK(job[s].change)
  /\ job[s].gone \in (Ids \ alive) \cup {None}
  /\ DOMAIN seen[s] \subseteq Rows
  /\ \A r \in DOMAIN seen[s] : RowOK(r, seen[s][r])
  /\ pc[s] = "list" => job[s].gone # None /\ DOMAIN seen[s] = {Server}
  /\ pc[s] = "save" /\ job[s].gone = None => DOMAIN seen[s] = {job[s].row}

(* Types: every column of the guild and of its watches keeps to its domain,*)
(* and a command writes the row it names and no other.                     *)
TypeOK ==
  /\ DOMAIN rows = Rows /\ \A r \in Rows : RowOK(r, rows[r])
  /\ alive \subseteq Ids /\ pending \subseteq Ids \ alive /\ excused \subseteq Ids \ alive
  /\ pc \in [Sessions -> {"idle", "check", "load", "list", "save"}]
  /\ DOMAIN job = Sessions /\ DOMAIN seen = Sessions
  /\ \A s \in Sessions : SessionOK(s)

Handled(d) ==
  d \in Ids \ (alive \cup pending) /\ \A s \in Sessions : job[s].gone # d

(* A role or a channel that was deleted is forgotten once its event is     *)
(* handled: neither the guild nor a watch it shows points at it, although  *)
(* commands that loaded those rows before are saved after.  What can keep  *)
(* it is a command that names it and was still running, a handler that     *)
(* failed, or a watch that was removed at the time.                        *)
DeletedIsForgotten ==
  \A d \in Ids : Handled(d) /\ d \notin excused =>
    \A r \in Rows : (r = Server \/ rows[r].live) => ~Holds(rows[r], d)

Committing(s) == pc[s] = "save" /\ pc'[s] = "idle"

(* A command changes the settings it names and no other, whatever was      *)
(* committed since it loaded the row, with one exception: alert_rules is a *)
(* single column, and a rule another command has changed meanwhile is lost.*)
NamedOnly ==
  \A s \in Sessions : Committing(s) /\ job[s].gone = None =>
    \A r \in Rows : \A c \in DOMAIN rows[r] : rows'[r][c] # rows[r][c] =>
      /\ r = job[s].row /\ c \in DOMAIN job[s].change
      /\ c = "rules" => \A k \in Rules : rows'[r].rules[k] # rows[r].rules[k] =>
                          \/ k \in DOMAIN job[s].change.rules
                          \/ seen[s][r].rules # rows[r].rules

OnlyNamedSettingsChange == [][NamedOnly]_vars
-----------------------------------------------------------------------------
(* The inductive invariant behind DeletedIsForgotten. *)

(* A deletion has one handler, which runs after the event was taken. *)
HandlerInv ==
  \A s \in Sessions : job[s].gone # None =>
    /\ job[s].gone \notin pending /\ pc[s] \in {"load", "list", "save"}
    /\ \A t \in Sessions \ {s} : job[t].gone # job[s].gone

(* Who handles d is still going to look at the column c of row r, or has   *)
(* seen d there.                                                           *)
WillClear(s, d, r, c) ==
  /\ job[s].gone = d
  /\ \/ pc[s] = "load"
     \/ pc[s] = "list" /\ r # Server
     \/ r \in DOMAIN seen[s] /\ c \in DOMAIN seen[s][r] /\ seen[s][r][c] = d

ForgetInv ==
  \A d \in Ids \ (alive \cup pending \cup excused) :
    /\ \/ \E s \in Sessions : job[s].gone = d /\ pc[s] = "load"
       \/ \A s \in Sessions : ~Names(job[s], d)
    /\ \A r \in Rows : \A c \in DOMAIN rows[r] \cap IdColumns :
         rows[r][c] = d => \E s \in Sessions : WillClear(s, d, r, c)

DeletionInv == TypeOK /\ HandlerInv /\ ForgetInv
=============================================================================
