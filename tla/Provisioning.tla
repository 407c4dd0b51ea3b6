------------------------------ MODULE Provisioning ------------------------------
(***************************************************************************)
(* The n8n hosting control plane: users, instance rows and the Docker      *)
(* containers behind them (src/backend: routes/auth.ts, routes/users.ts,   *)
(* routes/instances.ts, services/docker.service.ts).                       *)
(*                                                                         *)
(* A request is a sequence of awaits on PostgreSQL and Docker, one step    *)
(* each, with nothing to tie the two together: it works on the rows it     *)
(* read at its start, and an error ends it where it stands.  Containers go *)
(* by name (a "stack" of n8n, api and ai per instance name), rows refer to *)
(* a container's id.  As in production, every api container publishes the  *)
(* same host port.  Left out: resource limits, domains, e-mails, metrics.  *)
(***************************************************************************)
EXTENDS Naturals, FiniteSets

CONSTANTS
    User, Name,
    NameOf,         \* the instance name made of each user's e-mail address
    Apps,           \* the sets of apps users are entitled to or given
    Proc,           \* requests that may overlap
    NoUser,
    NoId, Mock,     \* no container id; the id `mock_container_...'
    MaxRequests,    \* bound: requests ever made
    MaxRows,        \* bound: rows ever made
    MaxBoxes,       \* bound: containers ever made per container name
    MaxFaults       \* bound: failed awaits, vanished containers, crashes

Kind == {"n8n", "api", "ai"}
Container == Name \X Kind
Id == Name \X Kind \X (1 .. MaxBoxes)

ASSUME ProvisioningAssumption ==
    /\ NameOf \in [User -> Name]
    /\ Apps \subseteq SUBSET {"n8n", "ai"}
    /\ NoUser \notin User /\ NoId # Mock
    /\ NoId \notin Name \cup Id /\ Mock \notin Id
    /\ MaxRequests \in Nat /\ MaxRows \in Nat /\ MaxBoxes \in Nat /\ MaxFaults \in Nat

VARIABLES
    user,       \* users.status, "none" before the user signs up, "gone" when deleted
    rows,       \* the table instances
    made,       \* row ids handed out
    box,        \* the state of each container, by name
    gen,        \* its id: which container of that name it is
    vol,        \* data volumes
    pc, op, who, row, todo, \* each request's step, operation, user, row, other rows
    handle, main,   \* the container it has at hand, and `mainContainerId'
    requests, faults, \* counted for their bounds
    raced,      \* history: names two requests, or one and a removal by hand, have overlapped on
    broken,     \* history: names a failure left half way
    lost,       \* history: names whose row's container has vanished, not made again since
    shared      \* history: names that two rows have had

vars == <<user, rows, made, box, gen, vol, pc, op, who, row, todo, handle, main,
          requests, faults, raced, broken, lost, shared>>
dbVars == <<user, rows, made>>
dockerVars == <<box, gen, vol>>
local == <<op, who, todo>>
faultVars == <<faults, broken, lost>>

Row == [id : 1 .. MaxRows, user : User, name : Name, cid : Id \cup {Mock},
        status : {"RUNNING", "STOPPED"}, apps : Apps]
NewRow(i, u, n, a) ==
    [id |-> i, user |-> u, name |-> n, cid |-> Mock, status |-> "RUNNING", apps |-> a]
NoRow == [id |-> 0, name |-> NoId]

Ops == {"none", "signup", "approve", "create", "suspend", "unsuspend", "delete",
        "start", "stop", "restart"}
Steps == {"free", "setUser", "main", "sideApi", "sideAi", "sideVolume", "volume", "record",
          "drop", "list", "reuse", "make", "boot", "ai", "bootAi", "reuseAi", "api",
          "bootApi", "reuseApi", "findApi", "save"}

TypeOK ==
    /\ user \in [User -> {"none", "PENDING", "ACTIVE", "SUSPENDED", "gone"}]
    /\ rows \subseteq Row
    /\ made \in 0 .. MaxRows
    /\ box \in [Container -> {"absent", "stopped", "running"}]
    /\ gen \in [Container -> 0 .. MaxBoxes]
    /\ vol \subseteq Container
    /\ pc \in [Proc -> Steps]
    /\ op \in [Proc -> Ops]
    /\ who \in [Proc -> User \cup {NoUser}]
    /\ row \in [Proc -> Row \cup {NoRow}]
    /\ todo \in [Proc -> SUBSET Row]
    /\ handle \in [Proc -> Id \cup {NoId}]
    /\ main \in [Proc -> Id \cup {NoId}]
    /\ requests \in 0 .. MaxRequests /\ faults \in 0 .. MaxFaults
    /\ raced \subseteq Name /\ broken \subseteq Name /\ lost \subseteq Name /\ shared \subseteq Name

Init ==
    /\ user = [u \in User |-> "none"]
    /\ rows = {} /\ made = 0
    /\ box = [c \in Container |-> "absent"]
    /\ gen = [c \in Container |-> 0]
    /\ vol = {}
    /\ pc = [p \in Proc |-> "free"]
    /\ op = [p \in Proc |-> "none"]
    /\ who = [p \in Proc |-> NoUser]
    /\ row = [p \in Proc |-> NoRow]
    /\ todo = [p \in Proc |-> {}]
    /\ handle = [p \in Proc |-> NoId]
    /\ main = [p \in Proc |-> NoId]
    /\ requests = 0 /\ faults = 0
    /\ raced = {} /\ broken = {} /\ lost = {} /\ shared = {}

-----------------------------------------------------------------------------
(* The Docker daemon *)

IdOf(c) == <<c[1], c[2], gen[c]>>
Named(id) == <<id[1], id[2]>>
Exists(id) == box[Named(id)] # "absent" /\ IdOf(Named(id)) = id
Running(id) == Exists(id) /\ box[Named(id)] = "running"

\* Every api container binds port 5005 of the host while it runs.
PortTaken(c) == c[2] = "api" /\ \E n \in Name \ {c[1]} : box[<<n, "api">>] = "running"

After == [start |-> "running", restart |-> "running", stop |-> "stopped", remove |-> "absent"]

\* What start, stop, restart or remove of a present container answers: dockerode
\* rejects 304, "already started" or "already stopped", as it does an error.
Accepts(v, c) ==
    /\ ~(v = "start" /\ box[c] = "running") /\ ~(v = "stop" /\ box[c] = "stopped")
    /\ ~(v \in {"start", "restart"} /\ PortTaken(c))

Apply(v, c) == box' = [box EXCEPT ![c] = After[v]] /\ UNCHANGED <<gen, vol>>

\* createContainer, with the volume it binds.
Make(c) ==
    /\ gen[c] < MaxBoxes
    /\ gen' = [gen EXCEPT ![c] = @ + 1]
    /\ box' = [box EXCEPT ![c] = "stopped"]
    /\ vol' = IF c[2] = "api" THEN vol ELSE vol \cup {c}

-----------------------------------------------------------------------------
(* Requests *)

Goto(p, l) == pc' = [pc EXCEPT ![p] = l]

Step(p, l) ==
    /\ Goto(p, l)
    /\ UNCHANGED <<local, row>>

Start(p, o, u, l, r, rest) ==
    /\ pc[p] = "free"
    /\ requests < MaxRequests /\ requests' = requests + 1
    /\ Goto(p, l)
    /\ op' = [op EXCEPT ![p] = o]
    /\ who' = [who EXCEPT ![p] = u]
    /\ row' = [row EXCEPT ![p] = r]
    /\ todo' = [todo EXCEPT ![p] = rest]

\* The request is over, with a response or an error.
End(p) ==
    /\ Goto(p, "free")
    /\ op' = [op EXCEPT ![p] = "none"]
    /\ who' = [who EXCEPT ![p] = NoUser]
    /\ row' = [row EXCEPT ![p] = NoRow]
    /\ todo' = [todo EXCEPT ![p] = {}]
    /\ handle' = [handle EXCEPT ![p] = NoId]
    /\ main' = [main EXCEPT ![p] = NoId]

\* The loops over a user's instances: the next row ...
NextRow(p) ==
    /\ \E r \in todo[p] :
          /\ row' = [row EXCEPT ![p] = r]
          /\ todo' = [todo EXCEPT ![p] = @ \ {r}]
    /\ Goto(p, "main")
    /\ UNCHANGED <<op, who, handle, main>>

\* ... or the response after the last; a deletion has the user's row to drop.
Advance(p) == NextRow(p) \/ (todo[p] = {} /\ End(p))
NextVolume(p) ==
    NextRow(p) \/ (todo[p] = {} /\ Step(p, "drop") /\ UNCHANGED <<handle, main>>)

\* The instance names request p is at work on or will be; a user's deletion is at
\* work on all of them until the rows are dropped.
NamesOf(p) ==
    {r.name : r \in {row[p]} \cup todo[p] \cup
                       IF op[p] = "delete" THEN {r \in rows : r.user = who[p]} ELSE {}} \cap Name

Break(p) == broken' = broken \cup NamesOf(p)
Fault == faults < MaxFaults /\ faults' = faults + 1

RowsOf(u) == {r \in rows : r.user = u}
RowThere(p) == \E r \in rows : r.id = row[p].id
There(u) == user[u] \notin {"none", "gone"}
UserThere(p) == There(who[p])

\* UPDATE instances SET ... of the row a request has at hand.
UpdateRow(p, cid, status) ==
    rows' = {IF r.id = row[p].id THEN [r EXCEPT !.cid = cid, !.status = status] ELSE r : r \in rows}

-----------------------------------------------------------------------------
\* POST /auth/signup: e-mail addresses are unique.  An active user gets an
\* instance at once; whether it fails is only logged.
Signup(p, u) ==
    /\ user[u] = "none"
    /\ \/ /\ user' = [user EXCEPT ![u] = "PENDING"]
          /\ pc[p] = "free"
          /\ UNCHANGED <<made, pc, local, row, requests>>
       \/ /\ made < MaxRows /\ made' = made + 1
          /\ user' = [user EXCEPT ![u] = "ACTIVE"]
          /\ \E a \in Apps : Start(p, "signup", u, "list", NewRow(made + 1, u, NameOf[u], a), {})
    /\ UNCHANGED <<rows, dockerVars, handle, main, faultVars>>

\* PATCH /users/:id/approve: with the user and one of its instances, if any.
Approve(p, u) ==
    /\ There(u)
    /\ user[u] # "ACTIVE" \/ RowsOf(u) = {}
    /\ \/ \E r \in RowsOf(u) : Start(p, "approve", u, "setUser", r, {}) /\ UNCHANGED made
       \/ /\ RowsOf(u) = {}
          /\ made < MaxRows /\ made' = made + 1
          /\ \E a \in Apps :
                Start(p, "approve", u, "setUser", NewRow(made + 1, u, NameOf[u], a), {})
    /\ UNCHANGED <<user, rows, dockerVars, handle, main, faultVars>>

\* POST /instances: the administrator names the instance.
Create(p, u) ==
    /\ There(u)
    /\ made < MaxRows /\ made' = made + 1
    /\ \E n \in Name, a \in Apps : Start(p, "create", u, "list", NewRow(made + 1, u, n, a), {})
    /\ UNCHANGED <<user, rows, dockerVars, handle, main, faultVars>>

\* PATCH /users/:id/suspend and /unsuspend, DELETE /users/:id.
WholeUser(p, u) ==
    /\ There(u)
    /\ \/ \E o \in {"suspend", "unsuspend"} : Start(p, o, u, "setUser", NoRow, RowsOf(u))
       \/ RowsOf(u) = {} /\ Start(p, "delete", u, "drop", NoRow, {})
       \/ \E r \in RowsOf(u) : Start(p, "delete", u, "main", r, RowsOf(u) \ {r})
    /\ UNCHANGED <<dbVars, dockerVars, handle, main, faultVars>>

\* POST /instances/:id/start, /stop and /restart, by the owner or an administrator.
OneInstance(p, r) ==
    /\ \E o \in {"start", "stop", "restart"} : Start(p, o, r.user, "main", r, {})
    /\ UNCHANGED <<dbVars, dockerVars, handle, main, faultVars>>

\* users.status, before any container is touched.
SetUser(p) ==
    /\ pc[p] = "setUser"
    /\ IF ~UserThere(p) THEN End(p) /\ UNCHANGED user
       ELSE /\ user' = [user EXCEPT ![who[p]] =
                           IF op[p] = "suspend" THEN "SUSPENDED" ELSE "ACTIVE"]
            /\ IF op[p] # "approve" THEN Advance(p)
               ELSE /\ Step(p, IF RowThere(p) THEN "main" ELSE "list")
                    /\ UNCHANGED <<handle, main>>
    /\ UNCHANGED <<rows, made, dockerVars, faultVars>>

-----------------------------------------------------------------------------
(* startInstance, stopInstance, restartInstance and deleteInstance *)

\* Mutant: deleting a user only stops the containers.
BugVerb == [approve |-> "start", unsuspend |-> "start", start |-> "start", suspend |-> "stop",
            stop |-> "stop", restart |-> "restart", delete |-> "stop"]

Verb == [approve |-> "start", unsuspend |-> "start", start |-> "start", suspend |-> "stop",
         stop |-> "stop", restart |-> "restart", delete |-> "remove"]

AfterMain(p) == IF op[p] = "delete" THEN "volume" ELSE "record"

\* The main container, by its id.  A missing one counts as stopped, is made again
\* by start and restart, and is passed over by delete; any other failure throws.
Main(p) ==
    LET id == row[p].cid
        v == Verb[op[p]]
    IN
    /\ pc[p] = "main"
    /\ \/ /\ id = Mock
          /\ Step(p, AfterMain(p))
          /\ UNCHANGED <<dockerVars, handle, main>>
       \/ /\ id # Mock /\ Exists(id) /\ Accepts(v, Named(id))
          /\ Apply(v, Named(id))
          /\ Step(p, IF id[2] = "n8n" THEN "sideApi" ELSE AfterMain(p))
          /\ UNCHANGED <<handle, main>>
       \/ /\ id # Mock /\ ~Exists(id)
          /\ CASE op[p] = "stop" -> Step(p, "record") /\ UNCHANGED <<handle, main>>
               [] op[p] = "delete" -> Step(p, "volume") /\ UNCHANGED <<handle, main>>
               [] op[p] \in {"start", "restart"} -> Step(p, "list") /\ UNCHANGED <<handle, main>>
               [] OTHER -> End(p)
          /\ UNCHANGED dockerVars
       \/ /\ id # Mock /\ Exists(id) /\ ~Accepts(v, Named(id))
          /\ End(p)
          /\ UNCHANGED dockerVars
    /\ UNCHANGED <<dbVars, faultVars>>

\* The api and the ai container of an n8n instance, by name; errors are ignored.
Side(p, k, l) ==
    LET c == <<row[p].cid[1], k>>
        v == Verb[op[p]]
    IN
    /\ IF box[c] # "absent" /\ Accepts(v, c) THEN Apply(v, c) ELSE UNCHANGED dockerVars
    /\ Step(p, l)
    /\ UNCHANGED <<dbVars, handle, main, faultVars>>

SideApi(p) == pc[p] = "sideApi" /\ Side(p, "api", "sideAi")
SideAi(p) ==
    /\ pc[p] = "sideAi"
    /\ Side(p, "ai", IF op[p] = "delete" THEN "sideVolume" ELSE "record")

\* A volume is removed unless its container is there; a failure is only logged.
RemoveVolume(p, c) == vol' = IF box[c] = "absent" THEN vol \ {c} ELSE vol

SideVolume(p) ==
    /\ pc[p] = "sideVolume"
    /\ RemoveVolume(p, <<row[p].cid[1], "ai">>)
    /\ Step(p, "volume")
    /\ UNCHANGED <<dbVars, box, gen, handle, main, faultVars>>

Volume(p) ==
    /\ pc[p] = "volume"
    /\ RemoveVolume(p, <<row[p].name, "n8n">>)
    /\ NextVolume(p)
    /\ UNCHANGED <<dbVars, box, gen, faultVars>>

\* Mutant: suspension stops the containers and leaves the rows.
BugForgetRecord(p) ==
    /\ pc[p] = "record"
    /\ IF RowThere(p)
         THEN /\ IF op[p] = "suspend" THEN UNCHANGED rows
                 ELSE UpdateRow(p, (CHOOSE r \in rows : r.id = row[p].id).cid,
                                IF Verb[op[p]] = "stop" THEN "STOPPED" ELSE "RUNNING")
              /\ Advance(p)
         ELSE End(p) /\ UNCHANGED rows
    /\ UNCHANGED <<user, made, dockerVars, faultVars>>

\* instances.status; the update of a row that is gone throws.
Record(p) ==
    /\ pc[p] = "record"
    /\ IF RowThere(p)
         THEN /\ UpdateRow(p, (CHOOSE r \in rows : r.id = row[p].id).cid,
                           IF Verb[op[p]] = "stop" THEN "STOPPED" ELSE "RUNNING")
              /\ Advance(p)
         ELSE End(p) /\ UNCHANGED rows
    /\ UNCHANGED <<user, made, dockerVars, faultVars>>

\* DELETE FROM users, which takes the rows along.
Drop(p) ==
    /\ pc[p] = "drop"
    /\ user' = [user EXCEPT ![who[p]] = "gone"]
    /\ rows' = rows \ RowsOf(who[p])
    /\ End(p)
    /\ UNCHANGED <<made, dockerVars, faultVars>>

-----------------------------------------------------------------------------
(* createInstance *)

\* It throws: what it has made stays behind.
Abandon(p) ==
    /\ Break(p)
    /\ End(p)
    /\ UNCHANGED <<faults, lost, dockerVars>>

\* On to the next app, with main container m.
Onward(p, l, m) ==
    /\ Step(p, IF l = "ai" /\ "ai" \notin row[p].apps THEN "save" ELSE l)
    /\ main' = [main EXCEPT ![p] = m]
    /\ handle' = [handle EXCEPT ![p] = NoId]
    /\ UNCHANGED faultVars

At(p, k) == <<row[p].name, k>>

\* A container is made; the next step boots it.
MakeThen(p, k, l) ==
    /\ Make(At(p, k))
    /\ handle' = [handle EXCEPT ![p] = <<row[p].name, k, gen[At(p, k)] + 1>>]
    /\ Step(p, l)
    /\ UNCHANGED <<main, faultVars>>

\* handle.start() of a container just made or found.
Boot(p, l, m) ==
    LET c == Named(handle[p]) IN
    IF Exists(handle[p]) /\ Accepts("start", c)
      THEN Apply("start", c) /\ Onward(p, l, m)
      ELSE Abandon(p)

\* Mutant: an n8n container that exists is reused without a look at its state.
BugReuseStopped(p) ==
    LET c == At(p, "n8n") IN
    /\ pc[p] = "list"
    /\ CASE "n8n" \notin row[p].apps -> Onward(p, "ai", NoId)
         [] box[c] = "absent" -> Step(p, "make") /\ UNCHANGED <<handle, main, faultVars>>
         [] OTHER -> Onward(p, "ai", IdOf(c))
    /\ UNCHANGED <<dbVars, dockerVars>>

\* listContainers: an n8n container of that name is reused.
List(p) ==
    LET c == At(p, "n8n") IN
    /\ pc[p] = "list"
    /\ CASE "n8n" \notin row[p].apps -> Onward(p, "ai", NoId)
         [] box[c] = "absent" -> Step(p, "make") /\ UNCHANGED <<handle, main, faultVars>>
         [] box[c] = "running" -> Onward(p, "ai", IdOf(c))
         [] OTHER -> /\ handle' = [handle EXCEPT ![p] = IdOf(c)]
                     /\ Step(p, "boot")
                     /\ UNCHANGED <<main, faultVars>>
    /\ UNCHANGED <<dbVars, dockerVars>>

MakeN8n(p) ==
    /\ pc[p] = "make"
    /\ IF box[At(p, "n8n")] = "absent" THEN MakeThen(p, "n8n", "boot") ELSE Abandon(p)
    /\ UNCHANGED dbVars

BootN8n(p) ==
    /\ pc[p] = "boot"
    /\ Boot(p, "ai", handle[p])
    /\ UNCHANGED dbVars

\* The ai and the api container are made first, and reused on a 409.
MakeTenant(p, k, boot, reuse) ==
    /\ IF box[At(p, k)] = "absent" THEN MakeThen(p, k, boot)
       ELSE Step(p, reuse) /\ UNCHANGED <<dockerVars, handle, main, faultVars>>
    /\ UNCHANGED dbVars

MakeAi(p) == pc[p] = "ai" /\ MakeTenant(p, "ai", "bootAi", "reuseAi")
MakeApi(p) == pc[p] = "api" /\ MakeTenant(p, "api", "bootApi", "reuseApi")

BootAi(p) ==
    /\ pc[p] = "bootAi"
    /\ Boot(p, "api", main[p])
    /\ UNCHANGED dbVars

BootApi(p) ==
    /\ pc[p] = "bootApi"
    /\ Boot(p, "save", IF main[p] = NoId THEN handle[p] ELSE main[p])
    /\ UNCHANGED dbVars

\* start() by name, whose errors are ignored.
Reuse(p, k, l) ==
    LET c == At(p, k) IN
    /\ IF box[c] # "absent" /\ Accepts("start", c) THEN Apply("start", c) ELSE UNCHANGED dockerVars
    /\ Step(p, l)
    /\ UNCHANGED <<dbVars, handle, main, faultVars>>

ReuseAi(p) == pc[p] = "reuseAi" /\ Reuse(p, "ai", "api")
ReuseApi(p) ==
    /\ pc[p] = "reuseApi"
    /\ Reuse(p, "api", IF main[p] = NoId THEN "findApi" ELSE "save")

FindApi(p) ==
    /\ pc[p] = "findApi"
    /\ Onward(p, "save", IF box[At(p, "api")] = "absent" THEN NoId ELSE IdOf(At(p, "api")))
    /\ UNCHANGED <<dbVars, dockerVars>>

ContainerId(p) == IF main[p] = NoId THEN Mock ELSE main[p]

\* The row is inserted, or given its new container, and then nothing is lost any
\* more; without its user or its row that throws.
Save(p) ==
    /\ pc[p] = "save"
    /\ LET new == op[p] \in {"signup", "approve", "create"} IN
       \/ /\ new /\ UserThere(p)
          /\ rows' = rows \cup {[row[p] EXCEPT !.cid = ContainerId(p)]}
          /\ End(p)
          /\ UNCHANGED <<dockerVars, faultVars>>
       \/ /\ ~new /\ RowThere(p)
          /\ UpdateRow(p, ContainerId(p), "RUNNING")
          /\ lost' = IF main[p] # NoId /\ main[p][2] = "n8n" THEN lost \ {row[p].name} ELSE lost
          /\ End(p)
          /\ UNCHANGED <<dockerVars, faults, broken>>
       \/ /\ ~(IF new THEN UserThere(p) ELSE RowThere(p))
          /\ Abandon(p)
          /\ UNCHANGED rows
    /\ UNCHANGED <<user, made>>

-----------------------------------------------------------------------------
(* Failures *)

\* An await whose failure is caught and logged: the request goes on.
Ignoring(p) ==
    \/ pc[p] = "sideApi" /\ Step(p, "sideAi") /\ UNCHANGED <<handle, main>>
    \/ /\ pc[p] \in {"sideAi", "sideVolume"}
       /\ Step(p, AfterMain(p))
       /\ UNCHANGED <<handle, main>>
    \/ pc[p] = "volume" /\ NextVolume(p)
    \/ pc[p] = "main" /\ op[p] = "delete" /\ Step(p, "volume") /\ UNCHANGED <<handle, main>>
    \/ pc[p] = "reuseAi" /\ Step(p, "api") /\ UNCHANGED <<handle, main>>
    \/ /\ pc[p] = "reuseApi"
       /\ Step(p, IF main[p] = NoId THEN "findApi" ELSE "save")
       /\ UNCHANGED <<handle, main>>

Caught == {"sideApi", "sideAi", "sideVolume", "volume", "reuseAi", "reuseApi"}

StepFails(p) ==
    /\ pc[p] # "free"
    /\ Fault
    /\ \/ Ignoring(p)
       \/ pc[p] \notin Caught /\ ~(pc[p] = "main" /\ op[p] = "delete") /\ End(p)
    /\ Break(p)
    /\ UNCHANGED <<dbVars, dockerVars, lost>>

\* inspect() fails, and with it goes the knowledge of the side containers.
InspectFails(p) ==
    /\ pc[p] = "main" /\ row[p].cid # Mock
    /\ Fault
    /\ Exists(row[p].cid) /\ Accepts(Verb[op[p]], Named(row[p].cid))
    /\ Apply(Verb[op[p]], Named(row[p].cid))
    /\ Step(p, AfterMain(p))
    /\ Break(p)
    /\ UNCHANGED <<dbVars, handle, main, lost>>

\* The API's process dies.
Crash ==
    /\ \E p \in Proc : pc[p] # "free"
    /\ Fault
    /\ broken' = broken \cup UNION {NamesOf(p) : p \in Proc}
    /\ pc' = [p \in Proc |-> "free"]
    /\ op' = [p \in Proc |-> "none"]
    /\ who' = [p \in Proc |-> NoUser]
    /\ row' = [p \in Proc |-> NoRow]
    /\ todo' = [p \in Proc |-> {}]
    /\ handle' = [p \in Proc |-> NoId]
    /\ main' = [p \in Proc |-> NoId]
    /\ UNCHANGED <<dbVars, dockerVars, lost>>

\* Somebody removes a container by hand.  Beside a request on its name that is an
\* overlap like that of two requests.
Vanish(c) ==
    /\ box[c] # "absent"
    /\ Fault
    /\ box' = [box EXCEPT ![c] = "absent"]
    /\ lost' = IF \E r \in rows : r.cid = IdOf(c) THEN lost \cup {c[1]} ELSE lost
    /\ raced' = IF \E p \in Proc : c[1] \in NamesOf(p) THEN raced \cup {c[1]} ELSE raced
    /\ UNCHANGED <<dbVars, gen, vol, pc, local, row, handle, main, requests, broken, shared>>

-----------------------------------------------------------------------------
Begin(p) ==
    \/ \E u \in User : Signup(p, u) \/ Approve(p, u) \/ Create(p, u) \/ WholeUser(p, u)
    \/ \E r \in rows : OneInstance(p, r)

Progress(p) ==
    \/ SetUser(p) \/ Main(p) \/ SideApi(p) \/ SideAi(p) \/ SideVolume(p) \/ Volume(p)
    \/ Record(p) \/ Drop(p)
    \/ List(p) \/ MakeN8n(p) \/ BootN8n(p) \/ MakeAi(p) \/ BootAi(p) \/ ReuseAi(p)
    \/ MakeApi(p) \/ BootApi(p) \/ ReuseApi(p) \/ FindApi(p) \/ Save(p)

\* Two requests work on name n, or on its user, at once.
Overlap(n) ==
    \E p, q \in Proc : p # q /\ n \in NamesOf(p) /\ (n \in NamesOf(q) \/ who[p] = who[q])

Mark ==
    /\ raced' = raced \cup {n \in Name : Overlap(n)'}
    /\ shared' = shared \cup
          {n \in Name : \E r, s \in rows' : r.id # s.id /\ r.name = n /\ s.name = n}

Next ==
    \/ /\ \/ \E p \in Proc : Begin(p)
          \/ /\ Crash \/ \E p \in Proc : Progress(p) \/ StepFails(p) \/ InspectFails(p)
             /\ UNCHANGED requests
       /\ Mark
    \/ \E c \in Container : Vanish(c)

Spec == Init /\ [][Next]_vars

-----------------------------------------------------------------------------
\* No request is at work on the name, none has failed half way, overlapped another
\* or made a second row for it, and a row's container that vanished has been made
\* again (which is said of n8n containers only).
Settled(n) ==
    /\ n \notin raced \cup broken \cup lost \cup shared
    /\ \A p \in Proc : n \notin NamesOf(p)

Main8n(r) == r.cid # Mock /\ r.cid[2] = "n8n"

\* A row says RUNNING exactly when its container runs, whatever the order in which
\* owners and administrators start, stop, suspend and approve, those calls included
\* that end in an error or half way through a user's instances.  (For instances
\* without n8n it does not hold: two api containers want the same host port.)
StatusAgrees ==
    \A r \in rows : Settled(r.name) /\ Main8n(r) => (r.status = "RUNNING" <=> Running(r.cid))

\* Every n8n and api container belongs to a row: deleting a user leaves none behind,
\* also after the n8n container has vanished and has been made again by a start or
\* a restart, or one beside it has vanished.  (Deleted before it is made again, it
\* leaves its api container: docker.service.ts:381-386 finds that one by inspecting
\* the n8n container.  MCProvisioningLost.cfg shows the trace.)
NoOrphan ==
    \A n \in Name, k \in {"n8n", "api"} :
        Settled(n) /\ box[<<n, k>>] # "absent" => \E r \in rows : r.name = n

\* A row turns RUNNING, new, made again or started, with an n8n container that runs,
\* whatever earlier attempts have failed, crashed or left behind for its name: that
\* is what makes approving again, and starting again, safe.
ProvisionedRuns ==
    [][\A r \in rows' \ rows :
          r.status = "RUNNING" /\ Main8n(r) => Running(r.cid)' \/ r.name \in raced']_vars

\* The claim without that exception, which the code does not keep.
NoOrphanEver ==
    \A n \in Name, k \in {"n8n", "api"} :
        /\ n \notin raced \cup broken \cup shared /\ \A p \in Proc : n \notin NamesOf(p)
        /\ box[<<n, k>>] # "absent"
        => \E r \in rows : r.name = n

\* "User account deleted and all workloads destroyed" (users.ts): when a name has no
\* row any more, it has no container and no volume either.
DeletedLeavesNothing ==
    \A n \in Name :
        Settled(n) /\ (\A r \in rows : r.name # n) =>
            \A k \in Kind : box[<<n, k>>] = "absent" /\ <<n, k>> \notin vol

=============================================================================
