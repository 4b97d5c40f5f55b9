--------------------------- MODULE WatchRegistry ---------------------------
(***************************************************************************)
(* The watches of one guild: the commands /track, /untrack, /watch pause   *)
(* and /watch resume of the bot, as WatchService runs them                 *)
(* (app/services/watch_service.py), the life of the guild                  *)
(* (app/services/server_service.py) and its purge (housekeeping.py).       *)
(* Settings that the caps and the life of a watch do not look at (alert    *)
(* rules, channel, role) are left out.                                     *)
(*                                                                         *)
(* A command is one database transaction under READ COMMITTED: each SELECT *)
(* is a step and sees what is committed by then.  Its writes and the       *)
(* commit are one step: rows it has written are locked and invisible until *)
(* the commit, so nobody sees or changes anything in between.  What the    *)
(* session has loaded is not read again (expire_on_commit=False, identity  *)
(* map).                                                                   *)
(***************************************************************************)
EXTENDS Integers, FiniteSets

CONSTANTS
  Sessions,   \* commands that may be running at a time
  Members,    \* Discord users who may use the bot
  Admins,     \* those with manage_guild
  Products,   \* canonical URLs
  NoMember,   \* owner of a watch that does not exist
  NoProduct,  \* product of a command that is not running
  ServerCap,  \* WATCHES_PER_SERVER[plan]
  UserCap     \* WATCHES_PER_USER_PER_SERVER[plan]

ASSUME RegistryAssumption ==
  /\ IsFiniteSet(Sessions) /\ Sessions # {}
  /\ IsFiniteSet(Products)
  /\ Admins \subseteq Members
  /\ NoMember \notin Members /\ NoProduct \notin Products
  /\ ServerCap \in Nat /\ UserCap \in Nat

VARIABLES
  guild,    \* the row of the guild in servers
  audited,  \* some row of audit_log refers to it
  catalog,  \* products
  watch,    \* the row of each product in watches, if any
  purging,  \* the purge has selected the guild
  pc,       \* where each command stands
  who,      \* the member who gave it
  what,     \* its product
  job,      \* what it does
  loaded,   \* the row of watches its session holds
  known     \* its session found the product

rows  == <<guild, audited, catalog, watch, purging>>
local == <<who, what, job, loaded, known>>
vars  == <<rows, pc, local>>

RowState == {"none", "live", "removed"}
Row      == [state : RowState, owner : Members \cup {NoMember}, paused : BOOLEAN]
Step     == {"idle", "resolve", "count", "countOwn", "product", "watch", "add", "load", "save"}
Edit     == {"untrack", "pause", "resume"}
Op       == Edit \cup {"track"}

Absent   == [state |-> "none", owner |-> NoMember, paused |-> FALSE]

(* What a command has done so far, told by where it stands. *)
SessionOK(s) ==
  /\ pc[s] = "idle" <=> who[s] = NoMember
  /\ pc[s] = "idle" <=> what[s] = NoProduct
  /\ pc[s] \notin {"idle", "load", "save"} => job[s] = "track"
  /\ pc[s] \in {"load", "save"} => job[s] \in Edit
  /\ pc[s] = "add" => loaded[s].state # "live"
  /\ pc[s] = "save" => loaded[s].state = "live"

(* Types, and that no command writes a row it should have refused to touch:*)
(* one that adds has not found a live watch, one that edits has.           *)
TypeOK ==
  /\ guild \in {"unknown", "active", "removed"}
  /\ audited \in BOOLEAN /\ purging \in BOOLEAN
  /\ catalog \in SUBSET Products
  /\ watch \in [Products -> Row]
  /\ pc \in [Sessions -> Step]
  /\ who \in [Sessions -> Members \cup {NoMember}]
  /\ what \in [Sessions -> Products \cup {NoProduct}]
  /\ job \in [Sessions -> Op]
  /\ loaded \in [Sessions -> Row]
  /\ known \in [Sessions -> BOOLEAN]
  /\ \A s \in Sessions : SessionOK(s)

Init ==
  /\ guild = "unknown" /\ audited = FALSE /\ purging = FALSE
  /\ catalog = {}
  /\ watch = [p \in Products |-> Absent]
  /\ pc = [s \in Sessions |-> "idle"]
  /\ who = [s \in Sessions |-> NoMember]
  /\ what = [s \in Sessions |-> NoProduct]
  /\ job = [s \in Sessions |-> "track"]
  /\ loaded = [s \in Sessions |-> Absent]
  /\ known = [s \in Sessions |-> FALSE]

Live     == {p \in Products : watch[p].state = "live"}
Owned(m) == {p \in Live : watch[p].owner = m}
----------------------------------------------------------------------------
Goto(s, step) == pc' = [pc EXCEPT ![s] = step]

(* The session closes, committed or not, and the member gets an answer. *)
Forget(s) ==
  /\ Goto(s, "idle")
  /\ who' = [who EXCEPT ![s] = NoMember]
  /\ what' = [what EXCEPT ![s] = NoProduct]
  /\ job' = [job EXCEPT ![s] = "track"]
  /\ loaded' = [loaded EXCEPT ![s] = Absent]
  /\ known' = [known EXCEPT ![s] = FALSE]

Refuse(s) == Forget(s) /\ UNCHANGED rows

(* upsert_from_discord: the row is created or revived, with an audit row. *)
Upsert == guild' = "active" /\ audited' = (audited \/ guild # "active")

(* A member gives a command.  interaction_check upserts the guild in a     *)
(* transaction of its own.  Every edit names an existing watch.            *)
Begin(s) ==
  /\ pc[s] = "idle"
  /\ Upsert
  /\ \E m \in Members, p \in Products, op \in Op :
       /\ op \in Edit => watch[p].state # "none"
       /\ who' = [who EXCEPT ![s] = m]
       /\ what' = [what EXCEPT ![s] = p]
       /\ job' = [job EXCEPT ![s] = op]
       /\ Goto(s, IF op \in Edit THEN "load" ELSE "resolve")
  /\ UNCHANGED <<catalog, watch, purging, loaded, known>>

(* A check of add_watch: it goes on, or is refused. *)
Check(s, at, passed, next) ==
  /\ pc[s] = at
  /\ \/ passed /\ Goto(s, next) /\ UNCHANGED <<rows, local>>
     \/ ~passed /\ Refuse(s)

(* Variant of Full: one too many. *)
FullLate(n, cap) == n > cap

Full(n, cap) == n >= cap

ResolveActors(s) == Check(s, "resolve", guild = "active", "count")

CountServer(s) == Check(s, "count", ~Full(Cardinality(Live), ServerCap), "countOwn")

CountUser(s) ==
  Check(s, "countOwn", ~Full(Cardinality(Owned(who[s])), UserCap), "product")

(* find_or_create_by_url: SELECT. *)
FindProduct(s) ==
  /\ pc[s] = "product"
  /\ known' = [known EXCEPT ![s] = what[s] \in catalog]
  /\ Goto(s, "watch")
  /\ UNCHANGED <<rows, who, what, job, loaded>>

(* Variant of Taken: a live watch is revived. *)
TakenNever(row) == FALSE

(* already tracked *)
Taken(row) == row.state = "live"

(* get_by_server_and_product(include_removed=True).  A product that was    *)
(* not known is new in this session and has no watch.                      *)
FindWatch(s) ==
  LET found == IF known[s] THEN watch[what[s]] ELSE Absent
  IN  /\ pc[s] = "watch"
      /\ \/ Taken(found) /\ Refuse(s)
         \/ /\ ~Taken(found)
            /\ loaded' = [loaded EXCEPT ![s] = found]
            /\ Goto(s, "add")
            /\ UNCHANGED <<rows, who, what, job, known>>

(* Variant of Named: the revived watch keeps its owner. *)
NamedUnowned(s, want) ==
  {a \in DOMAIN want \ {"owner"} : want[a] # loaded[s][a]}
    \cup IF job[s] = "pause" THEN {"paused"} ELSE {}

(* The columns an UPDATE to want names: those that differ from what the    *)
(* session loaded.  The timestamp of a pause always does.                  *)
Named(s, want) ==
  {a \in DOMAIN want : want[a] # loaded[s][a]}
    \cup IF job[s] = "pause" THEN {"paused"} ELSE {}

(* Variant of Updated: the UPDATE names every column. *)
UpdatedWhole(s, row, want) == want

Updated(s, row, want) ==
  [a \in DOMAIN row |-> IF a \in Named(s, want) THEN want[a] ELSE row[a]]

Fresh(m) == [state |-> "live", owner |-> m, paused |-> FALSE]

Store(s, row) == watch' = [watch EXCEPT ![what[s]] = row]

(* A unique constraint is violated if the product, or the watch, that was  *)
(* not there has been committed since: the command fails.                  *)
Conflict(s) ==
  \/ ~known[s] /\ what[s] \in catalog
  \/ loaded[s].state = "none" /\ watch[what[s]].state # "none"

AddWatch(s) ==
  /\ pc[s] = "add"
  /\ ~Conflict(s)
  /\ catalog' = catalog \cup {what[s]}
  /\ Store(s, IF loaded[s].state = "none" THEN Fresh(who[s])
              ELSE Updated(s, watch[what[s]], Fresh(who[s])))
  /\ Forget(s)
  /\ UNCHANGED <<guild, audited, purging>>

FailConflict(s) ==
  /\ pc[s] = "add"
  /\ Conflict(s)
  /\ Refuse(s)
----------------------------------------------------------------------------
(* get_by_short_id, then _require_owner_or_admin on the loaded row. *)
Allowed(s) ==
  LET row == watch[what[s]]
  IN  row.state = "live" /\ who[s] \in Admins \cup {row.owner}

LoadWatch(s) ==
  /\ pc[s] = "load"
  /\ \/ ~Allowed(s) /\ Refuse(s)
     \/ /\ Allowed(s)
        /\ loaded' = [loaded EXCEPT ![s] = watch[what[s]]]
        /\ Goto(s, "save")
        /\ UNCHANGED <<rows, who, what, job, known>>

(* remove, pause, resume *)
Wanted(s) ==
  LET row == loaded[s]
  IN  CASE job[s] = "untrack" -> [row EXCEPT !.state = "removed"]
        [] job[s] = "pause"   -> [row EXCEPT !.paused = TRUE]
        [] job[s] = "resume"  -> [row EXCEPT !.paused = FALSE]

SaveWatch(s) ==
  /\ pc[s] = "save"
  /\ Store(s, Updated(s, watch[what[s]], Wanted(s)))
  /\ Forget(s)
  /\ UNCHANGED <<guild, audited, catalog, purging>>

(* The process dies or the database raises: nothing is written. *)
Fail(s) == pc[s] # "idle" /\ Refuse(s)

CommandStep(s) ==
  \/ Begin(s) \/ ResolveActors(s) \/ CountServer(s) \/ CountUser(s) \/ FindProduct(s)
  \/ FindWatch(s) \/ AddWatch(s) \/ FailConflict(s) \/ LoadWatch(s) \/ SaveWatch(s) \/ Fail(s)
----------------------------------------------------------------------------
OnGuildJoin ==
  /\ Upsert
  /\ UNCHANGED <<catalog, watch, purging, pc, local>>

(* soft_remove *)
OnGuildRemove ==
  /\ guild = "active"
  /\ guild' = "removed"
  /\ UNCHANGED <<audited, catalog, watch, purging, pc, local>>

(* cleanup_servers: SELECT of the guilds whose grace period is over. *)
SelectStale ==
  /\ guild = "removed"
  /\ ~purging
  /\ purging' = TRUE
  /\ UNCHANGED <<guild, audited, catalog, watch, pc, local>>

(* Variant of Referenced: the foreign key of audit_log is ON DELETE SET    *)
(* NULL.                                                                   *)
ReferencedNever == FALSE

(* audit_log.server_id refers to servers without ON DELETE. *)
Referenced == audited

(* The watches and the guild are deleted and committed, whatever became of *)
(* the guild since; a foreign key that forbids it rolls all of it back.    *)
PurgeServers ==
  /\ purging
  /\ purging' = FALSE
  /\ IF Referenced
       THEN UNCHANGED <<guild, watch>>
       ELSE guild' = "unknown" /\ watch' = [p \in Products |-> Absent]
  /\ UNCHANGED <<audited, catalog, pc, local>>

Next ==
  \/ \E s \in Sessions : CommandStep(s)
  \/ OnGuildJoin \/ OnGuildRemove \/ SelectStale \/ PurgeServers

Spec == Init /\ [][Next]_vars
----------------------------------------------------------------------------
(* The commands that add_watch let in and that have not written. *)
Admitted == {s \in Sessions : pc[s] \in {"countOwn", "product", "watch", "add"}}

(* The cap of a guild can be passed, because add_watch counts first and    *)
(* inserts later, but at most by the commands that can run besides the one *)
(* that adds, those let in that have yet to write included: rounds of      *)
(* commands do not add up (watch_service.py 47-50).                        *)
ServerCapHolds ==
  Cardinality(Live) + Cardinality(Admitted) <= ServerCap + Cardinality(Sessions) - 1

(* The cap of a member is passed by as many at most, though a watch may be *)
(* handed to a member who was not counted for it: the UPDATE that revives  *)
(* a watch names no owner if the session had loaded its own member as the  *)
(* owner, and another member may have revived and removed it since         *)
(* (watch_service.py 52-71).                                               *)
MemberCapHolds == \A m \in Members : Cardinality(Owned(m)) <= UserCap + Cardinality(Sessions) - 1

(* Watches are never dropped from a guild that is active, though the purge *)
(* decides before it deletes and the guild may have come back since.       *)
ActiveKeepsWatches ==
  [][\A p \in Products :
       guild = "active" /\ watch[p].state # "none" => watch'[p].state # "none"]_vars

(* A watch that was removed comes back by a /track of its product only: a  *)
(* pause or resume that loaded it before the removal and is saved after it *)
(* does not bring it back.                                                 *)
OnlyTrackRevives ==
  [][\A p \in Products :
       watch[p].state # "live" /\ watch'[p].state = "live" =>
         \E s \in Sessions : what[s] = p /\ job[s] = "track" /\ pc[s] # pc'[s]]_vars
============================================================================
