-------------------------- MODULE Provisioning_proofs --------------------------
(* Proofs about Provisioning: what the control plane's rows say of its         *)
(* containers, for any number of users, names, requests, rows and faults.      *)
EXTENDS Provisioning, TLAPS

New == {"signup", "approve", "create"}
Making == {"list", "make", "boot", "ai", "bootAi", "reuseAi", "api", "bootApi", "reuseApi",
           "findApi", "save"}
Late == Making \ {"list", "make", "boot"}
Held(p) == ({row[p]} \cup todo[p]) \ {NoRow}

\* What a row or a copy of one refers to: a container of its own name.
CidFits(r) == r.cid # Mock => r.cid[1] = r.name /\ r.cid[2] \in {"n8n", "api"}

\* What a request has, by its step and operation.
Shape(p) ==
    /\ IF pc[p] = "free"
         THEN op[p] = "none" /\ who[p] = NoUser /\ row[p] = NoRow /\ todo[p] = {}
         ELSE op[p] # "none" /\ who[p] \in User
    /\ pc[p] = "setUser" => /\ op[p] \in {"approve", "suspend", "unsuspend"}
                            /\ op[p] # "approve" => row[p] = NoRow
    /\ pc[p] \notin {"free", "setUser", "drop"} \/ op[p] = "approve" => row[p] # NoRow
    /\ pc[p] \in Making => op[p] \in New \cup {"start", "restart"}
    /\ pc[p] \in {"main", "sideApi", "sideAi", "record"} => op[p] \in DOMAIN Verb
    /\ pc[p] \in {"sideVolume", "volume", "drop"} => op[p] = "delete"
    /\ pc[p] = "record" => op[p] # "delete"
    /\ pc[p] \in {"sideApi", "sideAi", "sideVolume"} => Main8n(row[p])
    /\ op[p] \in New \cup {"start", "stop", "restart"} => todo[p] = {}
    /\ row[p] \notin todo[p]
    /\ pc[p] = "drop" => todo[p] = {}
    /\ \A r \in Held(p) : r.user = who[p] /\ CidFits(r)
    /\ pc[p] \notin Late => main[p] = NoId
    /\ main[p] # NoId => /\ main[p][1] = row[p].name
                         /\ main[p][2] = "n8n" \/ (main[p][2] = "api" /\ pc[p] = "save")
    /\ pc[p] = "boot" => handle[p] # NoId /\ Named(handle[p]) = <<row[p].name, "n8n">>
    /\ pc[p] = "bootAi" => handle[p] # NoId /\ Named(handle[p]) = <<row[p].name, "ai">>
    /\ pc[p] = "bootApi" => handle[p] # NoId /\ Named(handle[p]) = <<row[p].name, "api">>

\* A row no statement has inserted yet: it has an id of its own.
Unused(p) == /\ row[p].status = "RUNNING"
             /\ \A r \in rows : r.id # row[p].id
             /\ \A q \in Proc \ {p} : \A r \in Held(q) : r.id # row[p].id
Fresh(p) ==
    /\ op[p] \in New /\ pc[p] \in Making => Unused(p)
    /\ pc[p] = "setUser" /\ op[p] = "approve" =>
          Unused(p) \/ (\E r \in rows : r.id = row[p].id) \/ user[who[p]] = "gone"

\* The table: one row per id, and containers only where one was ever made.
Keyed == /\ \A r \in rows : CidFits(r) /\ r.id <= made
         /\ \A r, s \in rows : r.id = s.id => r = s
Twins == \A r, s \in rows : r.id # s.id /\ r.name = s.name => r.name \in shared
Present == \A c \in Container : box[c] # "absent" => gen[c] > 0
Apart == \A n \in Name : Overlap(n) => n \in raced

\* A row that is read keeps its id, name and user.
Known(p) == \A h \in Held(p) :
    h.id <= made /\ \A r \in rows : r.id = h.id => r.name = h.name /\ r.user = h.user

\* Alone on a name, what a request has read is still the row.
Copies(p) ==
    /\ op[p] \notin New => \A r \in Held(p) : r.name \in raced \/ r \in rows
    /\ op[p] = "approve" /\ row[p].name \notin raced =>
         /\ (\E r \in rows : r.id = row[p].id) => row[p] \in rows
         /\ pc[p] \in {"main", "sideApi", "sideAi", "record"} => row[p] \in rows

\* Alone on a name, the n8n container a request has started runs.
Runs(p) == row[p].name \notin raced =>
    /\ main[p] # NoId /\ main[p][2] = "n8n" => Running(main[p])
    /\ pc[p] \in {"sideApi", "sideAi", "record"} /\ Main8n(row[p])
         /\ Verb[op[p]] \in {"start", "restart"} => Running(row[p].cid)

Clean(n) == n \notin raced \cup broken \cup lost \cup shared
Bare(n) == box[<<n, "n8n">>] = "absent" /\ box[<<n, "api">>] = "absent"
Lone(n) == \A r \in rows : r.name # n

\* A row has its container, and that is the one n8n container of its name if it has any.
Fit(r) == IF r.cid = Mock THEN Bare(r.name)
          ELSE Exists(r.cid) /\ (r.cid[2] = "api" => box[<<r.name, "n8n">>] = "absent")

\* A name that nobody is at work on.
Good(n) ==
    /\ \A r \in rows : r.name = n =>
          Fit(r) /\ (Main8n(r) => (r.status = "RUNNING" <=> box[<<n, "n8n">>] = "running"))
    /\ Lone(n) => Bare(n)

\* A container being made for a name that has no row.
Build(p, n) ==
    /\ pc[p] \in {"list", "make"} => Bare(n)
    /\ pc[p] \in {"boot", "ai", "bootAi", "reuseAi", "api"} => box[<<n, "api">>] = "absent"
    /\ pc[p] \notin {"reuseApi", "findApi"}
    /\ pc[p] \in Late /\ (main[p] = NoId \/ main[p][2] = "api") => box[<<n, "n8n">>] = "absent"
    /\ pc[p] = "save" /\ main[p] = NoId => Bare(n)
    /\ pc[p] = "save" /\ main[p] # NoId => Exists(main[p])

\* The name of the row at hand, by the step.
Hand(p, n) ==
    /\ pc[p] \in {"setUser", "main"} => Good(n)
    /\ pc[p] \in {"sideApi", "sideAi", "record"} /\ op[p] # "delete" =>
         Fit(row[p]) /\ (Main8n(row[p]) => (box[<<n, "n8n">>] = "running" <=> Verb[op[p]] # "stop"))
    /\ pc[p] = "sideApi" /\ op[p] = "delete" => box[<<n, "n8n">>] = "absent"
    /\ pc[p] \in {"sideAi", "sideVolume", "volume", "drop"} /\ op[p] = "delete" => Bare(n)
    /\ pc[p] \in Making => op[p] \in New /\ (Lone(n) => Build(p, n))

\* A name some request is at work on: the row's at hand, those still to come, and those
\* a deletion has dealt with.
Work(p, n) ==
    /\ row[p].name = n => Hand(p, n)
    /\ (\E r \in todo[p] : r.name = n) => Good(n)
    /\ op[p] = "delete" => \A r \in RowsOf(who[p]) \ Held(p) : r.name = n => Bare(n)

Kept(n) == Clean(n) =>
    /\ (\A p \in Proc : n \notin NamesOf(p)) => Good(n)
    /\ \A p \in Proc : n \in NamesOf(p) => Work(p, n)

Own(p) == Shape(p) /\ Known(p) /\ Fresh(p) /\ Copies(p) /\ Runs(p)
IInv == /\ TypeOK /\ Keyed /\ Twins /\ Present /\ Apart
        /\ \A p \in Proc : Own(p)
        /\ \A n \in Name : Kept(n)

-----------------------------------------------------------------------------
(* Facts about rows, ids and containers *)

LEMMA NoRowIs == NoRow \notin Row /\ NoRow.name \notin Name
BY ProvisioningAssumption DEF NoRow, Row

LEMMA RowHas ==
    ASSUME NEW r \in Row
    PROVE  /\ r # NoRow
           /\ r.id \in 1 .. MaxRows /\ r.id \in Nat /\ r.user \in User /\ r.name \in Name
           /\ r.cid \in Id \cup {Mock} /\ r.status \in {"RUNNING", "STOPPED"} /\ r.apps \in Apps
BY NoRowIs, ProvisioningAssumption DEF Row

LEMMA IdHas ==
    ASSUME NEW id \in Id
    PROVE  /\ id # NoId /\ id # Mock
           /\ id[1] \in Name /\ id[2] \in Kind /\ id[3] \in 1 .. MaxBoxes
           /\ Named(id) = <<id[1], id[2]>> /\ Named(id) \in Container
           /\ id = <<id[1], id[2], id[3]>>
BY ProvisioningAssumption DEF Id, Named, Container

LEMMA ExistsIs ==
    ASSUME NEW id \in Id
    PROVE  /\ Exists(id) <=> box[<<id[1], id[2]>>] # "absent" /\ gen[<<id[1], id[2]>>] = id[3]
           /\ Exists(id)' <=> box'[<<id[1], id[2]>>] # "absent" /\ gen'[<<id[1], id[2]>>] = id[3]
BY IdHas DEF Exists, IdOf, Named

LEMMA RunningIs ==
    ASSUME NEW id \in Id
    PROVE  /\ Running(id) <=> box[<<id[1], id[2]>>] = "running" /\ gen[<<id[1], id[2]>>] = id[3]
           /\ Running(id)' <=> box'[<<id[1], id[2]>>] = "running" /\ gen'[<<id[1], id[2]>>] = id[3]
BY ExistsIs, IdHas DEF Running

\* A container that is present has an id.
LEMMA IdOfIs ==
    ASSUME TypeOK, Present, NEW c \in Container, box[c] # "absent"
    PROVE  /\ IdOf(c) \in Id /\ IdOf(c)[1] = c[1] /\ IdOf(c)[2] = c[2] /\ IdOf(c)[3] = gen[c]
           /\ Named(IdOf(c)) = c
<1>1. gen[c] \in 1 .. MaxBoxes /\ c[1] \in Name /\ c[2] \in Kind /\ c = <<c[1], c[2]>>
  BY ProvisioningAssumption DEF TypeOK, Present, Container
<1> QED BY <1>1 DEF IdOf, Id, Named

LEMMA HeldIs ==
    ASSUME TypeOK, NEW p \in Proc
    PROVE  /\ Held(p) \subseteq Row
           /\ row[p] \in Row \cup {NoRow} /\ todo[p] \subseteq Row /\ todo[p] \subseteq Held(p)
           /\ row[p] # NoRow => row[p] \in Row /\ row[p] \in Held(p)
           /\ \A r \in Held(p) : r.name \in NamesOf(p)
           /\ row[p].name \in Name => row[p] \in Row
           /\ NamesOf(p) \subseteq Name
           /\ \A n \in NamesOf(p) :
                  \/ \E r \in Held(p) : r.name = n
                  \/ op[p] = "delete" /\ \E r \in rows : r.name = n /\ r.user = who[p]
<1>1. row[p] \in Row \cup {NoRow} /\ todo[p] \subseteq Row
  BY DEF TypeOK
<1>2. Held(p) \subseteq Row /\ todo[p] \subseteq Held(p)
  BY <1>1, NoRowIs DEF Held
<1>3. row[p] # NoRow => row[p] \in Row /\ row[p] \in Held(p)
  BY <1>1 DEF Held
<1>4. \A r \in Held(p) : r.name \in NamesOf(p)
  BY <1>2, RowHas DEF Held, NamesOf
<1>5. row[p].name \in Name => row[p] \in Row
  BY <1>1, NoRowIs
<1>6. \A n \in NamesOf(p) :
          \/ \E r \in Held(p) : r.name = n
          \/ op[p] = "delete" /\ \E r \in rows : r.name = n /\ r.user = who[p]
  BY NoRowIs DEF Held, NamesOf
<1> QED BY <1>1, <1>2, <1>3, <1>4, <1>5, <1>6 DEF NamesOf

-----------------------------------------------------------------------------
(* What a step of one request leaves to the others *)

Same(q) == /\ pc'[q] = pc[q] /\ op'[q] = op[q] /\ who'[q] = who[q] /\ row'[q] = row[q]
           /\ todo'[q] = todo[q] /\ main'[q] = main[q] /\ handle'[q] = handle[q]

\* The containers and the rows of a name are as they were.
Still(n) == /\ \A k \in Kind : box'[<<n, k>>] = box[<<n, k>>] /\ gen'[<<n, k>>] = gen[<<n, k>>]
            /\ \A r \in rows \cup rows' : r.name = n => r \in rows /\ r \in rows'

Wider == raced \subseteq raced' /\ broken \subseteq broken' /\ shared \subseteq shared'
Grows == Wider /\ lost \subseteq lost'

\* What request p does: rows keep their ids, names and users, go with their user, or
\* are p's own new one.
Only(p) ==
    /\ \A q \in Proc \ {p} : Same(q)
    /\ \A n \in Name \ NamesOf(p) : Still(n)
    /\ \A r \in rows' :
          \/ \E s \in rows : s.id = r.id /\ s.name = r.name /\ s.user = r.user
          \/ /\ r.id = row[p].id /\ r.name = row[p].name /\ r.user = who[p]
             /\ Unused(p) /\ Held(p)' = {}
    /\ \A r \in rows : (\E s \in rows' : s.id = r.id) \/ (r.user = who[p] /\ user'[who[p]] = "gone")
    /\ \A u \in User : user[u] = "gone" => user'[u] = "gone"
    /\ \A h \in Held(p)' : h \in Held(p) \/ h \in rows \/ (h.id > made /\ h.id <= made')
    /\ made \in Nat /\ made' \in Nat /\ made <= made'

LEMMA Alone ==
    ASSUME Apart, NEW p \in Proc, NEW q \in Proc \ {p}, NEW n \in Name \ raced
    PROVE  /\ ~(n \in NamesOf(p) /\ n \in NamesOf(q))
           /\ n \in NamesOf(p) \cup NamesOf(q) => who[p] # who[q]
BY DEF Apart, Overlap

LEMMA OthersShape ==
    ASSUME TypeOK, NEW p \in Proc, NEW q \in Proc \ {p}, Only(p), Shape(q)
    PROVE  Shape(q)'
<1>1. Same(q)
  BY DEF Only
<1>2. Held(q)' = Held(q)
  BY <1>1 DEF Held, Same
<1> QED BY <1>1, <1>2 DEF Shape, Same, CidFits, Main8n, Named

LEMMA OthersKnown ==
    ASSUME TypeOK, NEW p \in Proc, NEW q \in Proc \ {p}, Only(p), Known(q)
    PROVE  Known(q)'
<1>1. Same(q) /\ made <= made' /\ made \in Nat /\ made' \in Nat
  BY DEF Only
<1>2. Held(q)' = Held(q)
  BY <1>1 DEF Held, Same
<1> SUFFICES ASSUME NEW h \in Held(q)
             PROVE  /\ h.id <= made'
                    /\ \A r \in rows' : r.id = h.id => r.name = h.name /\ r.user = h.user
  BY <1>2 DEF Known
<1>3. h.id <= made /\ h.id \in Nat /\ \A r \in rows : r.id = h.id => r.name = h.name /\ r.user = h.user
  BY HeldIs, RowHas DEF Known
<1>4. ASSUME NEW r \in rows', r.id = h.id
      PROVE  r.name = h.name /\ r.user = h.user
  <2>1. CASE \E s \in rows : s.id = r.id /\ s.name = r.name /\ s.user = r.user
    BY <2>1, <1>3, <1>4
  <2>2. CASE r.id = row[p].id /\ Unused(p)
    BY <2>2, <1>4 DEF Unused
  <2> QED BY <2>1, <2>2 DEF Only
<1> QED BY <1>1, <1>3, <1>4

LEMMA OthersFresh ==
    ASSUME TypeOK, NEW p \in Proc, NEW q \in Proc \ {p}, Only(p), Shape(q), Known(p), Known(q),
           Fresh(q)
    PROVE  Fresh(q)'
<1>1. Same(q) /\ made <= made' /\ made \in Nat /\ made' \in Nat
  BY DEF Only
<1>2. \A s \in Proc \ {p} : Held(s)' = Held(s)
  BY DEF Held, Same, Only
<1>3. row[q] # NoRow => row[q] \in Held(q) /\ row[q].id <= made /\ row[q].id \in Nat
  BY HeldIs, RowHas DEF Known
<1>4. ASSUME Unused(q), row[q] # NoRow
      PROVE  Unused(q)'
  <2>1. ASSUME NEW r \in rows'
        PROVE  r.id # row[q].id
    <3>1. CASE \E s \in rows : s.id = r.id /\ s.name = r.name /\ s.user = r.user
      BY <3>1, <1>4 DEF Unused
    <3>2. CASE r.id = row[p].id /\ Unused(p)
      BY <3>2, <1>3, <1>4 DEF Unused
    <3> QED BY <3>1, <3>2 DEF Only
  <2>2. ASSUME NEW r \in Held(p)'
        PROVE  r.id # row[q].id
    <3>1. CASE r \in Held(p)
      BY <3>1, <1>4 DEF Unused
    <3>2. CASE r \in rows
      BY <3>2, <1>4 DEF Unused
    <3>3. CASE r.id > made
      BY <3>3, <1>1, <1>3, <1>4
    <3> QED BY <3>1, <3>2, <3>3 DEF Only
  <2>3. \A s \in Proc \ {q, p} : \A r \in Held(s)' : r.id # row[q].id
    BY <1>2, <1>4 DEF Unused
  <2> QED BY <1>1, <1>4, <2>1, <2>2, <2>3 DEF Unused, Same
<1>5. ASSUME NEW r \in rows, r.id = row[q].id, row[q] # NoRow, pc[q] # "free"
      PROVE  (\E s \in rows' : s.id = row[q].id) \/ user'[who[q]] = "gone"
  <2>1. r.user = who[q]
    BY <1>3, <1>5 DEF Known, Shape
  <2> QED BY <2>1, <1>5 DEF Only
<1>6. pc[q] # "free" /\ user[who[q]] = "gone" => user'[who[q]] = "gone"
  BY DEF Only, Shape
<1>7. op[q] = "approve" \/ pc[q] \in Making => row[q] # NoRow /\ pc[q] # "free"
  BY DEF Shape, Making
<1> QED BY <1>1, <1>4, <1>5, <1>6, <1>7 DEF Fresh, Same

LEMMA OthersCopies ==
    ASSUME TypeOK, Apart, NEW p \in Proc, NEW q \in Proc \ {p}, Only(p), Wider, Shape(q), Copies(q),
           Known(q)'
    PROVE  Copies(q)'
<1>1. Same(q) /\ raced \subseteq raced'
  BY DEF Only, Wider
<1>2. Held(q)' = Held(q)
  BY <1>1 DEF Held, Same
<1>3. ASSUME NEW r \in Held(q), r.name \notin raced'
      PROVE  Still(r.name)
  <2>1. r.name \in NamesOf(q) /\ r.name \in Name
    BY HeldIs, RowHas
  <2> QED BY <2>1, <1>1, <1>3, Alone DEF Only
<1>4. op[q] \notin New => \A r \in Held(q) : r.name \in raced' \/ r \in rows'
  BY <1>1, <1>3 DEF Copies, Still
<1>5. ASSUME op[q] = "approve", row[q].name \notin raced'
      PROVE  /\ (\E r \in rows' : r.id = row[q].id) => row[q] \in rows'
             /\ pc[q] \in {"main", "sideApi", "sideAi", "record"} => row[q] \in rows'
  <2>1. row[q] \in Held(q)
    BY <1>5, HeldIs DEF Shape
  <2>2. Still(row[q].name)
    BY <2>1, <1>3, <1>5
  <2>3. ASSUME NEW r \in rows', r.id = row[q].id
        PROVE  row[q] \in rows'
    <3>1. r.name = row[q].name
      BY <2>1, <2>3, <1>2, <1>1 DEF Known
    <3>2. r \in rows
      BY <3>1, <2>2 DEF Still
    <3> QED BY <3>2, <2>2, <2>3, <1>1, <1>5 DEF Copies, Still
  <2> QED BY <2>2, <2>3, <1>1, <1>5 DEF Copies, Still
<1> QED BY <1>1, <1>2, <1>4, <1>5 DEF Copies, Same

LEMMA OthersRuns ==
    ASSUME TypeOK, Apart, NEW p \in Proc, NEW q \in Proc \ {p}, Only(p), Wider, Shape(q), Runs(q)
    PROVE  Runs(q)'
<1>1. Same(q) /\ raced \subseteq raced'
  BY DEF Only, Wider
<1> SUFFICES ASSUME row[q].name \notin raced', row[q] # NoRow
             PROVE  /\ main[q] # NoId /\ main[q][2] = "n8n" => Running(main[q])'
                    /\ pc[q] \in {"sideApi", "sideAi", "record"} /\ Main8n(row[q])
                         /\ Verb[op[q]] \in {"start", "restart"} => Running(row[q].cid)'
  <2>1. row[q] = NoRow => main[q] = NoId /\ pc[q] \notin {"sideApi", "sideAi", "record"}
    BY DEF Shape, Late, Making
  <2> QED BY <1>1, <2>1 DEF Runs, Same, Main8n
<1>2. row[q] \in Row /\ row[q] \in Held(q) /\ row[q].name \in NamesOf(q) /\ row[q].name \in Name
  BY HeldIs, RowHas
<1>3. Still(row[q].name)
  BY <1>1, <1>2, Alone DEF Only
<1>4. main'[q] = main[q] /\ row'[q] = row[q]
  BY <1>1 DEF Same
<1>5. main[q] # NoId => main[q] \in Id /\ main[q][1] = row[q].name
  BY DEF TypeOK, Shape
<1>6. Main8n(row[q]) => row[q].cid \in Id /\ row[q].cid[1] = row[q].name
  BY <1>2, RowHas DEF Main8n, Shape, CidFits
<1>7. main[q] # NoId /\ main[q][2] = "n8n" => Running(main[q])'
  BY <1>1, <1>3, <1>4, <1>5, IdHas DEF Runs, Still, Running, Exists, IdOf, Named
<1>8. pc[q] \in {"sideApi", "sideAi", "record"} /\ Main8n(row[q])
        /\ Verb[op[q]] \in {"start", "restart"} => Running(row[q].cid)'
  BY <1>1, <1>3, <1>4, <1>6, IdHas DEF Runs, Still, Running, Exists, IdOf, Named
<1> QED BY <1>7, <1>8

LEMMA OwnKnown ==
    ASSUME TypeOK, Keyed, NEW p \in Proc, Only(p), Known(p)
    PROVE  Known(p)'
<1> SUFFICES ASSUME NEW h \in Held(p)'
             PROVE  /\ h.id <= made'
                    /\ \A r \in rows' : r.id = h.id => r.name = h.name /\ r.user = h.user
  BY DEF Known
<1>1. made \in Nat /\ made' \in Nat /\ made <= made' /\ rows \subseteq Row
  BY DEF Only, TypeOK
<1>2. \A r \in rows : r.id \in Nat /\ r.id <= made
  BY <1>1, RowHas DEF Keyed
<1>3. h \in Held(p) => h.id \in Nat /\ h.id <= made
                       /\ \A r \in rows : r.id = h.id => r.name = h.name /\ r.user = h.user
  BY HeldIs, RowHas DEF Known
<1>4. h.id <= made'
  BY <1>1, <1>2, <1>3 DEF Only
<1>5. ASSUME NEW r \in rows', r.id = h.id
      PROVE  r.name = h.name /\ r.user = h.user
  <2>1. PICK s \in rows : s.id = r.id /\ s.name = r.name /\ s.user = r.user
    BY DEF Only
  <2>2. CASE h \in Held(p)
    BY <2>1, <2>2, <1>3, <1>5
  <2>3. CASE h \in rows
    BY <2>1, <2>3, <1>5 DEF Keyed
  <2>4. CASE h.id > made /\ h.id <= made'
    BY <2>1, <2>4, <1>1, <1>2, <1>5
  <2> QED BY <2>2, <2>3, <2>4 DEF Only
<1> QED BY <1>4, <1>5

-----------------------------------------------------------------------------
(* Names a step does not touch *)

LEMMA GoodStill ==
    ASSUME TypeOK, Keyed, NEW n \in Name, Still(n), Good(n)
    PROVE  Good(n)'
<1>1. /\ box'[<<n, "n8n">>] = box[<<n, "n8n">>] /\ gen'[<<n, "n8n">>] = gen[<<n, "n8n">>]
      /\ box'[<<n, "api">>] = box[<<n, "api">>] /\ gen'[<<n, "api">>] = gen[<<n, "api">>]
  BY DEF Still, Kind
<1>2. Lone(n)' => Lone(n)
  BY DEF Still, Lone
<1>3. ASSUME NEW r \in rows', r.name = n
      PROVE  Fit(r)' /\ (Main8n(r) => (r.status = "RUNNING" <=> box'[<<n, "n8n">>] = "running"))
  <2>1. r \in rows /\ r \in Row
    BY <1>3 DEF Still, TypeOK
  <2>2. Fit(r) /\ (Main8n(r) => (r.status = "RUNNING" <=> box[<<n, "n8n">>] = "running"))
    BY <2>1, <1>3 DEF Good
  <2>3. r.cid = Mock \/ (r.cid \in Id /\ r.cid[1] = n /\ r.cid[2] \in {"n8n", "api"})
    BY <2>1, <1>3, RowHas DEF Keyed, CidFits
  <2> QED BY <1>1, <1>3, <2>2, <2>3, IdHas DEF Fit, Bare, Exists, IdOf, Named
<1> QED BY <1>1, <1>2, <1>3 DEF Good, Bare

LEMMA HandStill ==
    ASSUME TypeOK, NEW q \in Proc, Same(q), Shape(q), NEW n \in Name, row[q].name = n, Still(n),
           Good(n) => Good(n)', Hand(q, n)
    PROVE  Hand(q, n)'
<1>1. /\ box'[<<n, "n8n">>] = box[<<n, "n8n">>] /\ gen'[<<n, "n8n">>] = gen[<<n, "n8n">>]
      /\ box'[<<n, "api">>] = box[<<n, "api">>] /\ gen'[<<n, "api">>] = gen[<<n, "api">>]
  BY DEF Still, Kind
<1>2. row[q] \in Row /\ row[q] \in Held(q)
  BY HeldIs, NoRowIs
<1>3. row[q].cid = Mock \/ (row[q].cid \in Id /\ row[q].cid[1] = n /\ row[q].cid[2] \in {"n8n", "api"})
  BY <1>2, RowHas DEF Shape, CidFits
<1>4. Fit(row[q]) => Fit(row[q])'
  BY <1>1, <1>3, IdHas DEF Same, Fit, Bare, Exists, IdOf, Named
<1>5. Build(q, n) => Build(q, n)'
  <2>1. main[q] # NoId => main[q] \in Id /\ main[q][1] = n /\ main[q][2] \in {"n8n", "api"}
    BY DEF TypeOK, Shape
  <2>2. main[q] # NoId /\ Exists(main[q]) => Exists(main[q])'
    BY <1>1, <2>1, IdHas DEF Same, Exists, IdOf, Named
  <2> QED BY <1>1, <2>2 DEF Build, Same, Bare
<1>6. Lone(n)' => Lone(n)
  BY DEF Still, Lone
<1>7. /\ pc'[q] = pc[q] /\ op'[q] = op[q] /\ row'[q] = row[q]
      /\ Bare(n) => Bare(n)'
  BY <1>1 DEF Same, Bare
<1> QED BY <1>1, <1>4, <1>5, <1>6, <1>7 DEF Hand, Main8n

LEMMA WorkStill ==
    ASSUME TypeOK, Keyed, NEW q \in Proc, Same(q), Shape(q), NEW n \in Name, Still(n), Work(q, n)
    PROVE  Work(q, n)'
<1>1. Good(n) => Good(n)'
  BY GoodStill
<1>2. row[q].name = n => Hand(q, n)'
  BY <1>1, HandStill DEF Work
<1>3. Bare(n) => Bare(n)'
  BY DEF Still, Bare, Kind
<1>4. ASSUME NEW r \in RowsOf(who[q])', r.name = n
      PROVE  r \in RowsOf(who[q])
  BY <1>4 DEF RowsOf, Still, Same
<1>5. Held(q)' = Held(q)
  BY DEF Held, Same
<1>6. op'[q] = "delete" => \A r \in RowsOf(who[q])' \ Held(q)' : r.name = n => Bare(n)'
  BY <1>3, <1>4, <1>5 DEF Same, Work
<1>7. (\E r \in todo'[q] : r.name = n) => Good(n)'
  BY <1>1 DEF Same, Work
<1> QED BY <1>2, <1>6, <1>7 DEF Work, Same

-----------------------------------------------------------------------------
(* What every step of a request has to show for the names it is at work on *)

Here(p) == \A n \in Name : Clean(n)' =>
    /\ n \in NamesOf(p)' => Work(p, n)'
    /\ n \in NamesOf(p) /\ n \notin NamesOf(p)' => Good(n)'

LEMMA NamesStill ==
    ASSUME NEW q \in Proc, Same(q), NEW n \in Name, Still(n)
    PROVE  n \in NamesOf(q)' <=> n \in NamesOf(q)
BY DEF NamesOf, Same, Still

LEMMA NamesLeft ==
    ASSUME Apart, NEW p \in Proc, NEW q \in Proc \ {p}, Only(p), NEW n \in NamesOf(p),
           n \in Name \ raced
    PROVE  n \notin NamesOf(q)'
<1>1. n \notin NamesOf(q) /\ who[p] # who[q] /\ Same(q)
  BY Alone DEF Only
<1>2. \A r \in rows' : r.name = n => r.user # who[q] \/ op[q] # "delete"
  <2> SUFFICES ASSUME NEW r \in rows', r.name = n, r.user = who[q], op[q] = "delete"
               PROVE  FALSE
    OBVIOUS
  <2>1. CASE \E s \in rows : s.id = r.id /\ s.name = r.name /\ s.user = r.user
    BY <2>1, <1>1 DEF NamesOf
  <2>2. CASE r.user = who[p]
    BY <2>2, <1>1
  <2> QED BY <2>1, <2>2 DEF Only
<1> QED BY <1>1, <1>2 DEF NamesOf, Same

LEMMA KeptAll ==
    ASSUME IInv, NEW p \in Proc, Only(p), Wider, lost \ NamesOf(p) \subseteq lost', Apart', Here(p),
           NEW n \in Name
    PROVE  Kept(n)'
<1> SUFFICES ASSUME Clean(n)'
             PROVE  /\ (\A q \in Proc : n \notin NamesOf(q)') => Good(n)'
                    /\ \A q \in Proc : n \in NamesOf(q)' => Work(q, n)'
  BY DEF Kept
<1>1. n \notin raced' /\ n \notin raced /\ (n \notin NamesOf(p) => Clean(n))
  BY DEF Clean, Wider
<1>2. CASE n \in NamesOf(p)'
  <2>1. \A q \in Proc \ {p} : n \notin NamesOf(q)'
    BY <1>1, <1>2 DEF Apart, Overlap
  <2> QED BY <1>2, <2>1 DEF Here
<1>3. CASE n \notin NamesOf(p)' /\ n \in NamesOf(p)
  <2>1. \A q \in Proc \ {p} : n \notin NamesOf(q)'
    BY <1>1, <1>3, NamesLeft DEF IInv
  <2> QED BY <1>3, <2>1 DEF Here
<1>4. CASE n \notin NamesOf(p)' /\ n \notin NamesOf(p)
  <2>1. Still(n) /\ \A q \in Proc \ {p} : Same(q)
    BY <1>4 DEF Only
  <2>2. \A q \in Proc \ {p} : n \in NamesOf(q)' <=> n \in NamesOf(q)
    BY <2>1, NamesStill
  <2>3. (\A q \in Proc : n \notin NamesOf(q)') => Good(n)'
    BY <1>1, <1>4, <2>1, <2>2, GoodStill DEF Kept, IInv
  <2>4. ASSUME NEW q \in Proc, n \in NamesOf(q)'
        PROVE  Work(q, n)'
    <3>1. q \in Proc \ {p} /\ n \in NamesOf(q)
      BY <1>4, <2>2, <2>4
    <3>2. Work(q, n) /\ Shape(q)
      BY <1>1, <1>4, <3>1 DEF IInv, Kept, Own
    <3> QED BY <2>1, <3>1, <3>2, WorkStill DEF IInv
  <2> QED BY <2>3, <2>4
<1> QED BY <1>2, <1>3, <1>4

\* A step that does that keeps the invariant.
LEMMA StepKeeps ==
    ASSUME IInv, Mark, NEW p \in Proc, broken \subseteq broken', lost \ NamesOf(p) \subseteq lost',
           Only(p), TypeOK', Keyed', Present', Shape(p)', Fresh(p)', Copies(p)', Runs(p)', Here(p)
    PROVE  IInv'
<1>1. Wider
  BY DEF Wider, Mark
<1>2. Apart'
  BY DEF Apart, Mark
<1>3. Twins'
  <2>1. \A r \in rows' : r.name \in Name
    BY RowHas DEF TypeOK, Row
  <2> QED BY <2>1 DEF Twins, Mark
<1>4. ASSUME NEW q \in Proc
      PROVE  Own(q)'
  <2>0. Own(q) /\ Own(p) /\ TypeOK /\ Apart /\ Keyed
    BY DEF IInv
  <2>1. CASE q = p
    BY <2>0, <2>1, OwnKnown DEF Own
  <2>2. CASE q # p
    BY <2>0, <2>2, <1>1, OthersShape, OthersKnown, OthersFresh, OthersCopies, OthersRuns DEF Own
  <2> QED BY <2>1, <2>2
<1>5. \A n \in Name : Kept(n)'
  BY <1>1, <1>2, KeptAll
<1> QED BY <1>2, <1>3, <1>4, <1>5 DEF IInv

-----------------------------------------------------------------------------
(* The ways a request goes on *)

Local(p) ==
    /\ pc' \in [Proc -> Steps] /\ op' \in [Proc -> Ops] /\ who' \in [Proc -> User \cup {NoUser}]
    /\ row' \in [Proc -> Row \cup {NoRow}] /\ todo' \in [Proc -> SUBSET Row]
    /\ handle' \in [Proc -> Id \cup {NoId}] /\ main' \in [Proc -> Id \cup {NoId}]
    /\ \A q \in Proc \ {p} : Same(q)

\* It has the rows it had.
Stays(p) == op'[p] = op[p] /\ who'[p] = who[p] /\ row'[p] = row[p] /\ todo'[p] = todo[p]

Over(p) == /\ pc'[p] = "free" /\ op'[p] = "none" /\ who'[p] = NoUser /\ row'[p] = NoRow
           /\ todo'[p] = {} /\ handle'[p] = NoId /\ main'[p] = NoId

Onto(p) == /\ pc'[p] = "main" /\ op'[p] = op[p] /\ who'[p] = who[p] /\ row'[p] \in todo[p]
           /\ todo'[p] = todo[p] \ {row'[p]} /\ handle'[p] = handle[p] /\ main'[p] = main[p]

\* The value a step gives to p's entry of a function, if it gives any.
Puts(f, g, p, S) == f = g \/ \E x \in S : f = [g EXCEPT ![p] = x]

LEMMA StepLocal ==
    ASSUME TypeOK, NEW p \in Proc, NEW l \in Steps, Step(p, l),
           Puts(handle', handle, p, Id \cup {NoId}), Puts(main', main, p, Id \cup {NoId})
    PROVE  Local(p) /\ Stays(p) /\ pc'[p] = l
<1>1. pc' = [pc EXCEPT ![p] = l] /\ UNCHANGED <<op, who, row, todo>>
  BY DEF Step, Goto, local
<1>2. /\ handle' \in [Proc -> Id \cup {NoId}]
      /\ \A q \in Proc \ {p} : handle'[q] = handle[q]
  BY DEF TypeOK, Puts
<1>3. /\ main' \in [Proc -> Id \cup {NoId}]
      /\ \A q \in Proc \ {p} : main'[q] = main[q]
  BY DEF TypeOK, Puts
<1> QED BY <1>1, <1>2, <1>3 DEF TypeOK, Local, Stays, Same

LEMMA EndLocal ==
    ASSUME TypeOK, NEW p \in Proc, End(p)
    PROVE  Local(p) /\ Over(p)
<1>1. /\ pc' \in [Proc -> Steps] /\ op' \in [Proc -> Ops] /\ who' \in [Proc -> User \cup {NoUser}]
      /\ row' \in [Proc -> Row \cup {NoRow}] /\ todo' \in [Proc -> SUBSET Row]
      /\ handle' \in [Proc -> Id \cup {NoId}] /\ main' \in [Proc -> Id \cup {NoId}]
  BY DEF TypeOK, End, Goto, Steps, Ops
<1>2. \A q \in Proc \ {p} : Same(q)
  BY DEF TypeOK, End, Goto, Same
<1>3. Over(p)
  BY DEF TypeOK, End, Goto, Over
<1> QED BY <1>1, <1>2, <1>3 DEF Local

LEMMA NextLocal ==
    ASSUME TypeOK, NEW p \in Proc, NextRow(p)
    PROVE  Local(p) /\ Onto(p)
<1>1. PICK r \in todo[p] : /\ row' = [row EXCEPT ![p] = r]
                           /\ todo' = [todo EXCEPT ![p] = @ \ {r}]
  BY DEF NextRow
<1>2. pc' = [pc EXCEPT ![p] = "main"] /\ UNCHANGED <<op, who, handle, main>> /\ r \in Row
  BY DEF NextRow, Goto, TypeOK
<1>3. /\ pc' \in [Proc -> Steps] /\ op' \in [Proc -> Ops] /\ who' \in [Proc -> User \cup {NoUser}]
      /\ row' \in [Proc -> Row \cup {NoRow}] /\ todo' \in [Proc -> SUBSET Row]
      /\ handle' \in [Proc -> Id \cup {NoId}] /\ main' \in [Proc -> Id \cup {NoId}]
  BY <1>1, <1>2 DEF TypeOK, Steps
<1>4. \A q \in Proc \ {p} : Same(q)
  BY <1>1, <1>2 DEF TypeOK, Same
<1>5. Onto(p)
  BY <1>1, <1>2 DEF TypeOK, Onto
<1> QED BY <1>3, <1>4, <1>5 DEF Local

LEMMA StaysHeld ==
    ASSUME NEW p \in Proc, Stays(p)
    PROVE  Held(p)' = Held(p) /\ (UNCHANGED rows => NamesOf(p)' = NamesOf(p))
BY DEF Stays, Held, NamesOf

LEMMA OverHeld ==
    ASSUME NEW p \in Proc, Over(p)
    PROVE  Held(p)' = {} /\ NamesOf(p)' = {}
<1>1. Held(p)' = {}
  BY DEF Over, Held
<1>2. NamesOf(p)' = {NoRow.name} \cap Name
  BY DEF Over, NamesOf
<1> QED BY <1>1, <1>2, NoRowIs

LEMMA OntoHeld ==
    ASSUME TypeOK, NEW p \in Proc, Onto(p)
    PROVE  Held(p)' = todo[p] /\ todo[p] \subseteq Held(p) /\ row'[p] \in Row
BY HeldIs, RowHas DEF Onto, Held

\* Nothing is left of a request that is over.
LEMMA OverOwn ==
    ASSUME NEW p \in Proc, Over(p)
    PROVE  Shape(p)' /\ Fresh(p)' /\ Copies(p)' /\ Runs(p)'
<1>1. Held(p)' = {}
  BY OverHeld
<1>2. Shape(p)'
  BY <1>1 DEF Over, Shape, Making, Late, New
<1> QED BY <1>1, <1>2 DEF Over, Fresh, Copies, Runs, Making, New

-----------------------------------------------------------------------------
(* What a step does to containers *)

\* Only containers of name n change.
Docks(n) ==
    /\ box' \in [Container -> {"absent", "stopped", "running"}]
    /\ gen' \in [Container -> 0 .. MaxBoxes]
    /\ vol' \subseteq Container
    /\ Present'
    /\ \A c \in Container : c[1] # n => box'[c] = box[c] /\ gen'[c] = gen[c]

LEMMA DocksSame ==
    ASSUME TypeOK, Present, NEW n, box' = box, gen' = gen, vol' \subseteq vol
    PROVE  Docks(n)
BY DEF TypeOK, Present, Docks

LEMMA DocksApply ==
    ASSUME TypeOK, Present, NEW c \in Container, NEW v \in {"start", "restart", "stop", "remove"},
           box[c] # "absent", Apply(v, c)
    PROVE  /\ Docks(c[1]) /\ gen' = gen /\ box'[c] = After[v]
           /\ \A d \in Container \ {c} : box'[d] = box[d]
<1>1. After[v] \in {"absent", "stopped", "running"}
  BY DEF After
<1>2. box' = [box EXCEPT ![c] = After[v]] /\ gen' = gen /\ vol' = vol
  BY DEF Apply
<1> QED BY <1>1, <1>2 DEF TypeOK, Present, Docks

LEMMA DocksMake ==
    ASSUME TypeOK, Present, NEW c \in Container, Make(c)
    PROVE  /\ Docks(c[1]) /\ box'[c] = "stopped" /\ gen'[c] = gen[c] + 1
           /\ gen[c] + 1 \in 1 .. MaxBoxes
           /\ \A d \in Container \ {c} : box'[d] = box[d] /\ gen'[d] = gen[d]
<1>1. gen[c] \in 0 .. MaxBoxes /\ gen[c] < MaxBoxes /\ MaxBoxes \in Nat
  BY ProvisioningAssumption DEF TypeOK, Make
<1>2. gen[c] + 1 \in 1 .. MaxBoxes /\ gen[c] + 1 \in 0 .. MaxBoxes /\ gen[c] + 1 > 0
  BY <1>1
<1>3. gen' = [gen EXCEPT ![c] = gen[c] + 1] /\ box' = [box EXCEPT ![c] = "stopped"]
  BY DEF Make
<1>4. vol' \subseteq Container
  BY DEF Make, TypeOK
<1>5. box' \in [Container -> {"absent", "stopped", "running"}] /\ gen' \in [Container -> 0 .. MaxBoxes]
  BY <1>2, <1>3 DEF TypeOK
<1>6. \A d \in Container \ {c} : box'[d] = box[d] /\ gen'[d] = gen[d]
  BY <1>3 DEF TypeOK
<1>7. box'[c] = "stopped" /\ gen'[c] = gen[c] + 1
  BY <1>3 DEF TypeOK
<1>8. Present'
  BY <1>2, <1>6, <1>7 DEF Present
<1> QED BY <1>2, <1>4, <1>5, <1>6, <1>7, <1>8 DEF Docks

LEMMA StillIs ==
    ASSUME NEW n, NEW m \in Name \ {n}, Docks(n),
           \A r \in rows \cup rows' : r.name = m => r \in rows /\ r \in rows'
    PROVE  Still(m)
<1>1. \A k \in Kind : <<m, k>> \in Container /\ <<m, k>>[1] # n
  BY DEF Container
<1> QED BY <1>1 DEF Still, Docks

-----------------------------------------------------------------------------
(* A request's other names *)

\* While a name is clean and a row of it at hand, that is its only row.
LEMMA OnlyOne ==
    ASSUME IInv, NEW p \in Proc, NEW n \in Name, Clean(n), row[p].name = n, row[p] \in rows
    PROVE  /\ \A r \in rows : r.name = n => r = row[p]
           /\ op[p] \notin New => \A r \in todo[p] : r.name # n
<1>1. \A r \in rows : r.name = n => r = row[p]
  BY DEF IInv, Keyed, Twins, Clean
<1>2. op[p] \notin New => \A r \in todo[p] : r.name # n
  <2>1. todo[p] \subseteq Held(p) /\ row[p] \notin todo[p]
    BY HeldIs DEF IInv, Own, Shape
  <2>2. op[p] \notin New => \A r \in Held(p) : r.name \in raced \/ r \in rows
    BY DEF IInv, Own, Copies
  <2> QED BY <1>1, <2>1, <2>2 DEF Clean
<1> QED BY <1>1, <1>2

LEMMA InTable ==
    ASSUME IInv, NEW p \in Proc, row[p].name \in Name \ raced,
           op[p] \notin New \/ pc[p] \in {"main", "sideApi", "sideAi", "record"}
    PROVE  row[p] \in rows
<1>1. row[p] \in Held(p) /\ TypeOK /\ Own(p)
  BY HeldIs, NoRowIs DEF IInv
<1>2. op[p] \in New /\ pc[p] \in {"main", "sideApi", "sideAi", "record"} => op[p] = "approve"
  BY <1>1 DEF Own, Shape, Verb, New
<1> QED BY <1>1, <1>2 DEF Own, Copies

LEMMA WorkHas ==
    ASSUME IInv, NEW p \in Proc, NEW n \in NamesOf(p), Clean(n)
    PROVE  n \in Name /\ Work(p, n) /\ n \notin raced
BY HeldIs DEF IInv, Kept, Clean

LEMMA BesideStep ==
    ASSUME IInv, Grows, NEW p \in Proc, Stays(p), NEW n \in Name, Still(n), n # row[p].name, Clean(n)'
    PROVE  /\ n \in NamesOf(p)' => Work(p, n)'
           /\ n \in NamesOf(p) => n \in NamesOf(p)'
<1>1. n \in NamesOf(p)' <=> n \in NamesOf(p)
  BY DEF Stays, NamesOf, Still
<1> SUFFICES ASSUME n \in NamesOf(p)
             PROVE  Work(p, n)'
  BY <1>1
<1>2. Work(p, n)
  BY WorkHas DEF Clean, Grows, Wider
<1>3. Good(n) => Good(n)'
  BY GoodStill DEF IInv
<1>4. Bare(n) => Bare(n)'
  BY DEF Still, Bare, Kind
<1>5. ASSUME NEW r \in RowsOf(who[p])', r.name = n
      PROVE  r \in RowsOf(who[p])
  BY <1>5 DEF RowsOf, Still, Stays
<1>6. Held(p)' = Held(p)
  BY StaysHeld
<1> QED BY <1>2, <1>3, <1>4, <1>5, <1>6 DEF Work, Stays

LEMMA HereStep ==
    ASSUME IInv, Grows, UNCHANGED rows, NEW p \in Proc, Stays(p),
           \A n \in Name \ {row[p].name} : Still(n),
           \A n \in Name : n = row[p].name /\ Clean(n) => Hand(p, n)'
    PROVE  Here(p)
<1> SUFFICES ASSUME NEW n \in Name, Clean(n)'
             PROVE  /\ n \in NamesOf(p)' => Work(p, n)'
                    /\ n \in NamesOf(p) /\ n \notin NamesOf(p)' => Good(n)'
  BY DEF Here
<1>1. CASE n # row[p].name
  BY <1>1, BesideStep
<1>2. CASE n = row[p].name
  <2>1. Clean(n) /\ NamesOf(p)' = NamesOf(p) /\ Held(p)' = Held(p)
    BY StaysHeld DEF Clean, Grows, Wider
  <2>2. Hand(p, n)'
    BY <1>2, <2>1
  <2>3. ASSUME op[p] \notin New
        PROVE  /\ \A r \in todo[p] : r.name # n
               /\ \A r \in RowsOf(who[p]) \ Held(p) : r.name # n
    <3>1. row[p] \in rows /\ row[p] \in Row
      BY <1>2, <2>1, <2>3, InTable, HeldIs DEF Clean, IInv
    <3>2. row[p] \in Held(p)
      BY <3>1, NoRowIs, HeldIs DEF IInv
    <3> QED BY <1>2, <2>1, <2>3, <3>1, <3>2, OnlyOne DEF RowsOf
  <2>4. op[p] \in New => todo[p] = {} /\ op[p] # "delete"
    BY DEF IInv, Own, Shape, New
  <2>5. RowsOf(who[p])' = RowsOf(who[p])
    BY DEF RowsOf, Stays
  <2> QED BY <2>1, <2>2, <2>3, <2>4, <2>5 DEF Work, Stays
<1> QED BY <1>1, <1>2

LEMMA HereEnd ==
    ASSUME IInv, Grows, NEW p \in Proc, Over(p), op[p] # "delete",
           \A n \in Name \ {row[p].name} : Still(n),
           \A n \in Name : n = row[p].name /\ Clean(n)' => Good(n)'
    PROVE  Here(p)
<1> SUFFICES ASSUME NEW n \in NamesOf(p), n # row[p].name, Clean(n)'
             PROVE  Good(n)'
  BY OverHeld, HeldIs DEF Here, IInv
<1>1. n \in Name /\ Work(p, n) /\ Still(n)
  BY WorkHas DEF Clean, Grows, Wider
<1>2. \E r \in todo[p] : r.name = n
  BY HeldIs DEF IInv, Held
<1> QED BY <1>1, <1>2, GoodStill DEF Work, IInv

LEMMA HereNext ==
    ASSUME IInv, Grows, NEW p \in Proc, Onto(p),
           \A n \in Name \ {row[p].name} : Still(n), op[p] = "delete" => UNCHANGED rows,
           \A n \in Name : n = row[p].name /\ Clean(n)' =>
               (IF op[p] = "delete" THEN Bare(n)' ELSE Good(n)')
    PROVE  Here(p)
<1> SUFFICES ASSUME NEW n \in Name, Clean(n)'
             PROVE  /\ n \in NamesOf(p)' => Work(p, n)'
                    /\ n \in NamesOf(p) /\ n \notin NamesOf(p)' => Good(n)'
  BY DEF Here
<1>0. /\ Held(p)' = todo[p] /\ Clean(n) /\ todo[p] # {} /\ op[p] \notin New /\ Own(p) /\ TypeOK
      /\ n \notin raced
  BY OntoHeld DEF Onto, Clean, Grows, Wider, IInv, Own, Shape
<1>1. CASE n # row[p].name
  <2>1. Still(n)
    BY <1>1
  <2>2. n \in NamesOf(p)' <=> n \in NamesOf(p)
    BY <1>1, <2>1 DEF NamesOf, Onto, Still
  <2> SUFFICES ASSUME n \in NamesOf(p)
               PROVE  Work(p, n)'
    BY <2>2
  <2>3. Work(p, n)
    BY <1>0, WorkHas
  <2>4. (\E r \in todo[p] : r.name = n) => Good(n)'
    BY <2>1, <2>3, GoodStill DEF Work, IInv
  <2>5. Hand(p, n)' \/ row'[p].name # n
    BY <2>4 DEF Onto, Hand, Making
  <2>6. ASSUME op[p] = "delete", NEW r \in rows, r.user = who[p], r \notin todo[p], r.name = n
        PROVE  Bare(n)'
    <3>1. r \in RowsOf(who[p]) \ Held(p)
      BY <2>6, <1>1 DEF RowsOf, Held
    <3>2. Bare(n)
      BY <3>1, <2>3, <2>6 DEF Work
    <3> QED BY <3>2, <2>1 DEF Bare, Still, Kind
  <2> QED BY <1>0, <2>1, <2>4, <2>5, <2>6 DEF Work, Onto, RowsOf, Still
<1>2. CASE n = row[p].name
  <2>1. row[p] \in rows /\ row[p] \in Held(p)
    BY <1>0, <1>2, InTable, HeldIs, NoRowIs
  <2>2. \A r \in todo[p] : r.name # n
    BY <1>0, <1>2, <2>1, OnlyOne
  <2>3. CASE op[p] = "delete"
    <3>1. Bare(n)'
      BY <1>2, <2>3
    <3>2. row[p].user = who[p]
      BY <1>0, <2>1 DEF Own, Shape
    <3>3. n \in NamesOf(p)'
      BY <1>2, <2>1, <2>3, <3>2 DEF NamesOf, Onto
    <3> QED BY <2>2, <3>1, <3>3 DEF Work, Onto
  <2>4. CASE op[p] # "delete"
    <3>1. n \notin NamesOf(p)'
      BY <2>2, <2>4 DEF NamesOf, Onto
    <3> QED BY <1>2, <2>4, <3>1
  <2> QED BY <2>3, <2>4
<1> QED BY <1>1, <1>2

LEMMA HereBroken ==
    ASSUME NEW p \in Proc, NamesOf(p)' \subseteq NamesOf(p), Break(p)
    PROVE  Here(p)
BY DEF Here, Break, Clean

-----------------------------------------------------------------------------
(* Steps that leave the tables alone *)

Hands == {"main", "sideApi", "sideAi", "record"}
Blame(p) ==
    \/ UNCHANGED faultVars
    \/ UNCHANGED <<faults, lost>> /\ Break(p)
    \/ Fault /\ Break(p) /\ UNCHANGED lost

LEMMA BlameIs ==
    ASSUME TypeOK, NEW p \in Proc, Blame(p), Mark
    PROVE  /\ Grows /\ faults' \in 0 .. MaxFaults
           /\ raced' \subseteq Name /\ broken' \subseteq Name /\ shared' \subseteq Name
           /\ lost' \subseteq Name
<1>1. faults' \in 0 .. MaxFaults
  BY ProvisioningAssumption DEF TypeOK, Blame, faultVars, Fault
<1>2. broken \subseteq broken' /\ broken' \subseteq Name /\ lost' = lost
  BY DEF TypeOK, Blame, faultVars, Break, NamesOf
<1> QED BY <1>1, <1>2 DEF TypeOK, Mark, Grows, Wider

LEMMA QuietKeeps ==
    ASSUME IInv, Mark, NEW p \in Proc, Local(p), UNCHANGED <<dbVars, requests>>, Blame(p),
           Docks(row[p].name), Held(p)' \subseteq Held(p),
           Shape(p)', Fresh(p)', Copies(p)', Runs(p)', Here(p)
    PROVE  IInv'
<1>0. TypeOK /\ Keyed
  BY DEF IInv
<1>1. Grows /\ user' = user /\ rows' = rows /\ made' = made /\ made \in Nat
  BY <1>0, BlameIs, ProvisioningAssumption DEF dbVars, TypeOK
<1>2. \A n \in Name \ NamesOf(p) : Still(n)
  <2> SUFFICES ASSUME NEW n \in Name \ NamesOf(p)
               PROVE  Still(n)
    OBVIOUS
  <2>1. n # row[p].name
    BY DEF NamesOf
  <2> QED BY <1>1, <2>1, StillIs
<1>3. Only(p)
  BY <1>1, <1>2 DEF Only, Local
<1>4. TypeOK'
  BY <1>0, <1>1, BlameIs DEF TypeOK, Local, Docks
<1>5. Keyed' /\ Present'
  BY <1>0, <1>1 DEF Keyed, CidFits, Docks
<1> QED BY <1>1, <1>3, <1>4, <1>5, StepKeeps DEF Grows, Wider

LEMMA QuietStill ==
    ASSUME NEW p \in Proc, UNCHANGED rows, Docks(row[p].name), NEW n \in Name \ {row[p].name}
    PROVE  Still(n)
BY StillIs

\* The next step, of the same row.
LEMMA StayKeeps ==
    ASSUME IInv, Mark, NEW p \in Proc, Local(p), Stays(p), UNCHANGED <<dbVars, requests>>,
           Docks(row[p].name), pc[p] # "free",
           pc'[p] # "setUser", pc'[p] \in Hands => pc[p] \in Hands,
           pc'[p] \in Making => pc[p] \in Making \/ op[p] \notin New,
           Shape(p)', Runs(p)', Blame(p),
           \/ Break(p)
           \/ \A n \in Name : n = row[p].name /\ Clean(n) => Hand(p, n)'
    PROVE  IInv'
<1>0. TypeOK /\ Keyed /\ Own(p) /\ rows' = rows
  BY DEF IInv, dbVars
<1>1. Held(p)' = Held(p) /\ NamesOf(p)' = NamesOf(p)
  BY <1>0, StaysHeld
<1>2. Grows
  BY <1>0, BlameIs
<1>3. Copies(p)'
  BY <1>0, <1>1, <1>2 DEF Copies, Own, Stays, Grows, Wider, Hands
<1>4. Unused(p) => Unused(p)'
  <2>1. \A q \in Proc \ {p} : Held(q)' = Held(q)
    BY DEF Local, Same, Held
  <2> QED BY <1>0, <2>1 DEF Unused, Stays
<1>5. Fresh(p)'
  BY <1>0, <1>4 DEF Own, Fresh, Stays
<1>6. Here(p)
  <2>1. CASE Break(p)
    BY <1>1, <2>1, HereBroken
  <2>2. CASE \A n \in Name : n = row[p].name /\ Clean(n) => Hand(p, n)'
    BY <1>0, <1>2, <2>2, HereStep, QuietStill
  <2> QED BY <2>1, <2>2
<1> QED BY <1>1, <1>3, <1>5, <1>6, QuietKeeps

\* The end: alone on a clean name, it leaves it good, or it has failed half way.
LEMMA EndKeeps ==
    ASSUME IInv, Mark, NEW p \in Proc, End(p), UNCHANGED <<dbVars, requests>>,
           Docks(row[p].name), Blame(p),
           \/ Break(p)
           \/ /\ op[p] # "delete"
              /\ \A n \in Name : n = row[p].name /\ Clean(n) => Good(n)'
    PROVE  IInv'
<1>0. TypeOK /\ Keyed /\ Own(p) /\ rows' = rows /\ Local(p) /\ Over(p) /\ Held(p)' = {} /\ NamesOf(p)' = {}
  BY EndLocal, OverHeld DEF IInv, dbVars
<1>2. Grows
  BY <1>0, BlameIs
<1>6. Here(p)
  <2>1. CASE Break(p)
    BY <1>0, <2>1, HereBroken
  <2>2. CASE op[p] # "delete" /\ \A n \in Name : n = row[p].name /\ Clean(n) => Good(n)'
    <3>1. \A n \in Name : Clean(n)' => Clean(n)
      BY <1>2 DEF Clean, Grows, Wider
    <3> QED BY <1>0, <1>2, <2>2, <3>1, HereEnd, QuietStill
  <2> QED BY <2>1, <2>2
<1> QED BY <1>0, <1>6, OverOwn, QuietKeeps

\* The next row of the user's.
LEMMA OntoOwn ==
    ASSUME TypeOK, NEW p \in Proc, Onto(p), Shape(p), pc[p] \notin Late
    PROVE  /\ Shape(p)' /\ Fresh(p)' /\ Runs(p)'
           /\ op[p] \in {"suspend", "unsuspend", "delete"}
<1>1. op[p] \in {"suspend", "unsuspend", "delete"}
  BY DEF Shape, Onto, TypeOK, Ops, New
<1>2. Held(p)' = todo[p] /\ todo[p] \subseteq Held(p) /\ row'[p] # NoRow /\ pc[p] # "free"
  BY OntoHeld, RowHas DEF Onto, Shape
<1>3. Shape(p)'
  BY <1>1, <1>2 DEF Shape, Onto, Making, Late, New, Verb, CidFits
<1> QED BY <1>1, <1>3 DEF Onto, Fresh, Runs, Making, New, Shape

LEMMA NextKeeps ==
    ASSUME IInv, Mark, NEW p \in Proc, NextRow(p), UNCHANGED <<dbVars, requests>>,
           Docks(row[p].name), Blame(p), pc[p] \notin Late,
           \/ Break(p)
           \/ \A n \in Name : n = row[p].name /\ Clean(n) =>
                  (IF op[p] = "delete" THEN Bare(n)' ELSE Good(n)')
    PROVE  IInv'
<1>0. TypeOK /\ Keyed /\ Own(p) /\ rows' = rows /\ user' = user /\ Local(p) /\ Onto(p)
  BY NextLocal DEF IInv, dbVars
<1>1. Held(p)' = todo[p] /\ todo[p] \subseteq Held(p) /\ row'[p] \in Row
  BY <1>0, OntoHeld
<1>2. Grows
  BY <1>0, BlameIs
<1>3. Shape(p)' /\ Fresh(p)' /\ Runs(p)' /\ op[p] \in {"suspend", "unsuspend", "delete"}
  BY <1>0, OntoOwn DEF Own
<1>4. Copies(p)'
  BY <1>0, <1>1, <1>2, <1>3 DEF Own, Copies, Onto, New, Grows, Wider
<1>5. Here(p)
  <2>1. CASE Break(p)
    <3>1. NamesOf(p)' \subseteq NamesOf(p)
      BY <1>0 DEF NamesOf, Onto
    <3> QED BY <2>1, <3>1, HereBroken
  <2>2. CASE \A n \in Name : n = row[p].name /\ Clean(n) =>
                  (IF op[p] = "delete" THEN Bare(n)' ELSE Good(n)')
    <3>1. \A n \in Name : Clean(n)' => Clean(n)
      BY <1>2 DEF Clean, Grows, Wider
    <3> QED BY <1>0, <1>2, <2>2, <3>1, HereNext, QuietStill
  <2> QED BY <2>1, <2>2
<1> QED BY <1>0, <1>1, <1>3, <1>4, <1>5, QuietKeeps

-----------------------------------------------------------------------------
(* startInstance, stopInstance, restartInstance and deleteInstance *)

\* Where these go next.
LEMMA HandShape ==
    ASSUME TypeOK, NEW p \in Proc, Shape(p), Stays(p), UNCHANGED <<user, handle, main>>,
           pc[p] \in Hands \cup {"sideVolume", "volume"},
           pc'[p] \in {"sideApi", "sideAi", "sideVolume", "volume", "record", "list", "drop"},
           pc'[p] \in {"sideApi", "sideAi"} => pc[p] \in Hands,
           pc'[p] \in {"sideApi", "sideAi", "sideVolume"} => Main8n(row[p]),
           pc'[p] \in {"sideVolume", "volume", "drop"} => op[p] = "delete",
           pc'[p] = "record" => op[p] # "delete" /\ pc[p] \in Hands,
           pc'[p] = "list" => op[p] \in {"start", "restart"},
           pc'[p] = "drop" => todo[p] = {}
    PROVE  Shape(p)'
<1>1. Held(p)' = Held(p) /\ pc[p] # "free" /\ main[p] = NoId /\ row[p] # NoRow
  BY StaysHeld DEF Shape, Hands, Late, Making
<1> QED BY <1>1 DEF Shape, Stays, Making, Late, New, CidFits, Hands, Main8n

\* A row at hand has a container of its own name, if it has any.
LEMMA RowFits ==
    ASSUME TypeOK, NEW p \in Proc, Shape(p), row[p] # NoRow
    PROVE  /\ row[p] \in Row /\ row[p] \in Held(p) /\ row[p].name \in Name
           /\ row[p].name \in NamesOf(p) /\ row[p].user = who[p]
           /\ \/ row[p].cid = Mock
              \/ /\ row[p].cid \in Id /\ row[p].cid # Mock
                 /\ row[p].cid[1] = row[p].name /\ row[p].cid[2] \in {"n8n", "api"}
                 /\ Named(row[p].cid) = <<row[p].name, row[p].cid[2]>>
                 /\ Named(row[p].cid) \in Container
BY HeldIs, RowHas, IdHas DEF Shape, CidFits

LEMMA VerbIs ==
    ASSUME NEW o \in DOMAIN Verb
    PROVE  /\ Verb[o] \in {"start", "restart", "stop", "remove"}
           /\ Verb[o] = "remove" <=> o = "delete"
           /\ Verb[o] = "stop" <=> o \in {"suspend", "stop"}
           /\ o \in {"approve", "unsuspend", "start", "suspend", "stop", "restart", "delete"}
BY DEF Verb

LEMMA MainKeeps ==
    ASSUME IInv, Mark, NEW p \in Proc, Main(p), UNCHANGED requests
    PROVE  IInv'
<1> DEFINE id == row[p].cid
           v == Verb[op[p]]
<1>0. /\ TypeOK /\ Keyed /\ Present /\ Own(p) /\ Shape(p) /\ pc[p] = "main" /\ row[p] # NoRow
      /\ op[p] \in DOMAIN Verb /\ UNCHANGED <<dbVars, requests>> /\ Blame(p)
      /\ main[p] = NoId
  BY DEF IInv, Own, Main, Shape, Blame, Late, Making
<1>1. ASSUME NEW n \in Name, n = row[p].name, Clean(n)
      PROVE  Good(n) /\ row[p] \in rows /\ Fit(row[p])
             /\ (Main8n(row[p]) => (row[p].status = "RUNNING" <=> box[<<n, "n8n">>] = "running"))
  <2>1. n \in NamesOf(p)
    BY <1>0, <1>1, RowFits
  <2>2. Good(n)
    BY <1>0, <1>1, <2>1, WorkHas DEF Work, Hand
  <2>3. row[p] \in rows
    BY <1>0, <1>1, InTable DEF Clean
  <2> QED BY <1>1, <2>2, <2>3 DEF Good
<1>2. CASE id = Mock /\ Step(p, AfterMain(p)) /\ UNCHANGED <<dockerVars, handle, main>>
  <2>1. AfterMain(p) \in {"volume", "record"} /\ (AfterMain(p) = "volume" <=> op[p] = "delete")
    BY DEF AfterMain
  <2>2. Local(p) /\ Stays(p) /\ pc'[p] = AfterMain(p)
    BY <1>0, <1>2, <2>1, StepLocal DEF Steps, Puts
  <2>3. Docks(row[p].name)
    BY <1>0, <1>2, DocksSame DEF dockerVars
  <2>4. Shape(p)'
    BY <1>0, <1>2, <2>1, <2>2, HandShape DEF Hands, dbVars
  <2>5. Runs(p)'
    BY <1>0, <1>2, <2>2 DEF Runs, Stays, Main8n
  <2>6. ASSUME NEW n \in Name, n = row[p].name, Clean(n)
        PROVE  Hand(p, n)'
    <3>1. Bare(n)
      BY <1>1, <1>2, <2>6 DEF Fit
    <3> QED BY <1>2, <2>1, <2>2, <2>6, <3>1 DEF Hand, Stays, Fit, Bare, Main8n, dockerVars, Making
  <2> QED BY <1>0, <2>1, <2>2, <2>3, <2>4, <2>5, <2>6, StayKeeps DEF Hands, Making
<1>3. CASE /\ id # Mock /\ Exists(id) /\ Accepts(v, Named(id)) /\ Apply(v, Named(id))
           /\ Step(p, IF id[2] = "n8n" THEN "sideApi" ELSE AfterMain(p))
           /\ UNCHANGED <<handle, main>>
  <2>1. /\ id \in Id /\ id[1] = row[p].name /\ id[2] \in {"n8n", "api"}
        /\ Named(id) = <<row[p].name, id[2]>> /\ Named(id) \in Container
        /\ row[p].name \in Name
    BY <1>0, <1>3, RowFits
  <2>2. AfterMain(p) \in {"volume", "record"} /\ (AfterMain(p) = "volume" <=> op[p] = "delete")
    BY DEF AfterMain
  <2>3. Local(p) /\ Stays(p) /\ pc'[p] = IF id[2] = "n8n" THEN "sideApi" ELSE AfterMain(p)
    BY <1>0, <1>3, <2>2, StepLocal DEF Steps, Puts
  <2>4. v \in {"start", "restart", "stop", "remove"}
    BY <1>0, VerbIs
  <2>5. /\ Docks(row[p].name) /\ gen' = gen /\ box'[<<row[p].name, id[2]>>] = After[v]
        /\ \A d \in Container \ {<<row[p].name, id[2]>>} : box'[d] = box[d]
    <3>1. box[Named(id)] # "absent"
      BY <1>3 DEF Exists
    <3>2. Docks(Named(id)[1]) /\ gen' = gen /\ box'[Named(id)] = After[v]
          /\ \A d \in Container \ {Named(id)} : box'[d] = box[d]
      BY <1>0, <1>3, <2>1, <2>4, <3>1, DocksApply
    <3> QED BY <2>1, <3>2
  <2>6. Shape(p)'
    BY <1>0, <1>3, <2>2, <2>3, HandShape DEF Hands, dbVars, Main8n
  <2>7. gen[<<row[p].name, id[2]>>] = id[3] /\ (v # "remove" => Exists(id)')
    BY <1>3, <2>1, <2>3, <2>4, <2>5, IdHas DEF Exists, IdOf, Named, After, Stays
  <2>8. Runs(p)'
    BY <1>0, <1>3, <2>1, <2>3, <2>5, <2>7, IdHas
    DEF Runs, Stays, Running, Exists, IdOf, Named, After
  <2>9. ASSUME NEW n \in Name, n = row[p].name, Clean(n)
        PROVE  Hand(p, n)'
    <3>1. Fit(row[p]) /\ (id[2] = "api" => box[<<n, "n8n">>] = "absent")
      BY <1>1, <1>3, <2>9 DEF Fit
    <3>2. /\ <<n, "n8n">> \in Container /\ <<n, "api">> \in Container
          /\ row'[p] = row[p] /\ op'[p] = op[p]
      BY <2>3 DEF Container, Kind, Stays
    <3>3. id[2] = "api" => box'[<<n, "n8n">>] = "absent"
      BY <2>5, <2>9, <3>1, <3>2
    <3>4. CASE op[p] = "delete"
      BY <2>1, <2>2, <2>3, <2>5, <2>9, <3>2, <3>3, <3>4 DEF Hand, Bare, Verb, After, Making
    <3>5. CASE op[p] # "delete"
      <4>1. v # "remove" /\ (v = "stop" => After[v] = "stopped") /\ (v # "stop" => After[v] = "running")
        BY <1>0, <2>4, <3>5, VerbIs DEF After
      <4>2. Fit(row[p])'
        BY <1>3, <2>7, <2>9, <3>2, <3>3, <4>1 DEF Fit
      <4>3. Main8n(row[p]) => (box'[<<n, "n8n">>] = "running" <=> v # "stop")
        BY <2>5, <2>9, <4>1 DEF Main8n
      <4> QED BY <2>2, <2>3, <2>9, <3>2, <3>5, <4>2, <4>3 DEF Hand, Main8n, Making
    <3> QED BY <3>4, <3>5
  <2> QED BY <1>0, <2>2, <2>3, <2>5, <2>6, <2>8, <2>9, StayKeeps DEF Hands, Making
<1>4. CASE id # Mock /\ ~Exists(id) /\ UNCHANGED dockerVars
           /\ \/ op[p] = "stop" /\ Step(p, "record") /\ UNCHANGED <<handle, main>>
              \/ op[p] = "delete" /\ Step(p, "volume") /\ UNCHANGED <<handle, main>>
              \/ op[p] \in {"start", "restart"} /\ Step(p, "list") /\ UNCHANGED <<handle, main>>
  <2>1. /\ Local(p) /\ Stays(p)
        /\ \/ op[p] = "stop" /\ pc'[p] = "record"
           \/ op[p] = "delete" /\ pc'[p] = "volume"
           \/ op[p] \in {"start", "restart"} /\ pc'[p] = "list"
        /\ UNCHANGED <<handle, main>>
    BY <1>0, <1>4, StepLocal DEF Steps, Puts
  <2>2. Docks(row[p].name)
    BY <1>0, <1>4, DocksSame DEF dockerVars
  <2>3. Shape(p)'
    BY <1>0, <2>1, HandShape DEF Hands, dbVars
  <2>4. Runs(p)'
    BY <1>0, <2>1 DEF Runs, Stays, Verb
  <2>5. \A n \in Name : ~(n = row[p].name /\ Clean(n))
    BY <1>1, <1>4 DEF Fit
  <2> QED BY <1>0, <2>1, <2>2, <2>3, <2>4, <2>5, StayKeeps DEF Hands, Making, New
<1>5. CASE id # Mock /\ End(p) /\ UNCHANGED dockerVars /\ op[p] # "delete"
  <2>1. Docks(row[p].name)
    BY <1>0, <1>5, DocksSame DEF dockerVars
  <2>2. ASSUME NEW n \in Name, n = row[p].name, Clean(n)
        PROVE  Good(n)'
    <3>1. Good(n)
      BY <1>1, <2>2
    <3>2. Still(n)
      BY <1>0, <1>5 DEF Still, dockerVars, dbVars
    <3> QED BY <1>0, <3>1, <3>2, GoodStill
  <2> QED BY <1>0, <1>5, <2>1, <2>2, EndKeeps
<1> QED
  <2>1. op[p] = "delete" => Accepts(v, Named(id))
    BY DEF Accepts, Verb
  <2> QED BY <1>0, <1>2, <1>3, <1>4, <1>5, <2>1 DEF Main

\* The api and the ai container beside an n8n container.
LEMMA SideKeeps ==
    ASSUME IInv, Mark, NEW p \in Proc, UNCHANGED requests,
           NEW k \in {"api", "ai"}, NEW l \in {"sideAi", "sideVolume", "record"}, Side(p, k, l),
           \/ pc[p] = "sideApi" /\ k = "api" /\ l = "sideAi"
           \/ pc[p] = "sideAi" /\ k = "ai" /\ (IF op[p] = "delete" THEN l = "sideVolume" ELSE l = "record")
    PROVE  IInv'
<1> DEFINE v == Verb[op[p]]
<1>0. /\ TypeOK /\ Keyed /\ Present /\ Own(p) /\ Shape(p) /\ row[p] # NoRow
      /\ op[p] \in DOMAIN Verb /\ UNCHANGED <<dbVars, requests>> /\ Blame(p)
      /\ Main8n(row[p]) /\ UNCHANGED <<handle, main>>
  BY DEF IInv, Own, Side, Shape, Blame
<1>1. /\ row[p].name \in Name /\ row[p].cid \in Id /\ row[p].cid[1] = row[p].name
      /\ row[p].name \in NamesOf(p) /\ row[p].cid[2] = "n8n"
  BY <1>0, RowFits DEF Main8n
<1>2. Local(p) /\ Stays(p) /\ pc'[p] = l
  BY <1>0, StepLocal DEF Steps, Puts, Side
<1>3. v \in {"start", "restart", "stop", "remove"} /\ (v = "remove" <=> op[p] = "delete")
  BY <1>0, VerbIs
<1>4. <<row[p].name, k>> \in Container
  BY <1>1 DEF Container, Kind
<1>5. /\ Docks(row[p].name) /\ gen' = gen
      /\ \A d \in Container \ {<<row[p].name, k>>} : box'[d] = box[d]
      /\ op[p] = "delete" => box'[<<row[p].name, k>>] = "absent"
  <2>1. CASE box[<<row[p].name, k>>] # "absent" /\ Accepts(v, <<row[p].name, k>>)
    <3>1. Apply(v, <<row[p].name, k>>)
      BY <1>1, <2>1 DEF Side
    <3>2. /\ Docks(<<row[p].name, k>>[1]) /\ gen' = gen /\ box'[<<row[p].name, k>>] = After[v]
          /\ \A d \in Container \ {<<row[p].name, k>>} : box'[d] = box[d]
      BY <1>0, <1>3, <1>4, <2>1, <3>1, DocksApply
    <3> QED BY <1>3, <3>2 DEF After
  <2>2. CASE ~(box[<<row[p].name, k>>] # "absent" /\ Accepts(v, <<row[p].name, k>>))
    <3>1. UNCHANGED dockerVars
      BY <1>1, <2>2 DEF Side
    <3>2. op[p] = "delete" => Accepts(v, <<row[p].name, k>>)
      BY <1>3 DEF Accepts
    <3> QED BY <1>0, <2>2, <3>1, <3>2, DocksSame DEF dockerVars
  <2> QED BY <2>1, <2>2
<1>6. Shape(p)'
  BY <1>0, <1>2, HandShape DEF Hands, dbVars
<1>7. <<row[p].name, "n8n">> \in Container /\ box'[<<row[p].name, "n8n">>] = box[<<row[p].name, "n8n">>]
  BY <1>1, <1>5 DEF Container, Kind
<1>8. Runs(p)'
  <2>1. main[p] = NoId
    BY <1>0 DEF Shape, Late, Making
  <2> QED BY <1>0, <1>1, <1>2, <1>5, <1>7, <2>1, IdHas
      DEF Own, Runs, Stays, Running, Exists, IdOf, Named, Mark
<1>9. ASSUME NEW n \in Name, n = row[p].name, Clean(n)
      PROVE  Hand(p, n)'
  <2>1. Hand(p, n)
    BY <1>1, <1>9, WorkHas DEF Work
  <2>2. op[p] # "delete" => Fit(row[p])'
    BY <1>0, <1>1, <1>2, <1>5, <1>7, <2>1, IdHas
    DEF Hand, Fit, Main8n, Stays, Exists, IdOf, Named
  <2>3. CASE op[p] # "delete"
    BY <1>2, <1>7, <1>9, <2>1, <2>2, <2>3 DEF Hand, Stays, Main8n, Making
  <2>4. CASE op[p] = "delete" /\ k = "api"
    BY <1>2, <1>5, <1>7, <1>9, <2>1, <2>4 DEF Hand, Stays, Bare, Making
  <2>5. CASE op[p] = "delete" /\ k = "ai"
    <3>1. box'[<<n, "api">>] = box[<<n, "api">>]
      BY <1>1, <1>5, <1>9, <2>5 DEF Container, Kind
    <3> QED BY <1>2, <1>7, <1>9, <2>1, <2>5, <3>1 DEF Hand, Stays, Bare, Making
  <2> QED BY <2>3, <2>4, <2>5
<1> QED BY <1>0, <1>2, <1>5, <1>6, <1>8, <1>9, StayKeeps DEF Hands, Making

LEMMA RemoveVolumeIs ==
    ASSUME IInv, NEW p \in Proc, NEW c, RemoveVolume(p, c), UNCHANGED <<box, gen>>
    PROVE  Docks(row[p].name)
BY DocksSame DEF IInv, RemoveVolume

\* A deletion that has come to the volumes has removed the containers.
LEMMA VolumeBare ==
    ASSUME IInv, NEW p \in Proc, pc[p] \in {"sideVolume", "volume"}, NEW n \in Name, n = row[p].name,
           Clean(n), UNCHANGED <<box, gen>>
    PROVE  Bare(n) /\ Bare(n)'
<1>1. op[p] = "delete" /\ row[p] # NoRow /\ Shape(p) /\ TypeOK
  BY DEF IInv, Own, Shape
<1>2. Work(p, n)
  BY <1>1, RowFits, WorkHas
<1> QED BY <1>1, <1>2 DEF Work, Hand, Bare

LEMMA SideVolumeKeeps ==
    ASSUME IInv, Mark, NEW p \in Proc, SideVolume(p), UNCHANGED requests
    PROVE  IInv'
<1>0. /\ TypeOK /\ Own(p) /\ Shape(p) /\ UNCHANGED <<dbVars, requests, box, gen>> /\ Blame(p)
      /\ op[p] = "delete" /\ pc[p] = "sideVolume" /\ UNCHANGED <<handle, main>>
  BY DEF IInv, Own, SideVolume, Shape, Blame
<1>1. Local(p) /\ Stays(p) /\ pc'[p] = "volume"
  BY <1>0, StepLocal DEF Steps, Puts, SideVolume
<1>2. Docks(row[p].name)
  BY <1>0, RemoveVolumeIs DEF SideVolume
<1>3. Shape(p)'
  BY <1>0, <1>1, HandShape DEF Hands, dbVars
<1>4. Runs(p)'
  BY <1>0, <1>1 DEF Runs, Shape, Late, Making
<1>5. ASSUME NEW n \in Name, n = row[p].name, Clean(n)
      PROVE  Hand(p, n)'
  BY <1>0, <1>1, <1>5, VolumeBare DEF Hand, Making
<1> QED BY <1>0, <1>1, <1>2, <1>3, <1>4, <1>5, StayKeeps DEF Hands, Making

\* After the volume comes the next row, or the user's; also when removing it failed.
LEMMA NextVolumeKeeps ==
    ASSUME IInv, Mark, NEW p \in Proc, pc[p] = "volume", NextVolume(p), Docks(row[p].name), Blame(p),
           UNCHANGED <<dbVars, requests, box, gen>>
    PROVE  IInv'
<1>0. TypeOK /\ Own(p) /\ Shape(p) /\ op[p] = "delete"
  BY DEF IInv, Own, Shape
<1>1. CASE NextRow(p)
  BY <1>0, <1>1, VolumeBare, NextKeeps DEF Late, Making
<1>2. CASE todo[p] = {} /\ Step(p, "drop") /\ UNCHANGED <<handle, main>>
  <2>1. Local(p) /\ Stays(p) /\ pc'[p] = "drop"
    BY <1>0, <1>2, StepLocal DEF Steps, Puts
  <2>2. Shape(p)'
    BY <1>0, <1>2, <2>1, HandShape DEF Hands, dbVars
  <2>3. Runs(p)'
    BY <1>0, <1>2, <2>1 DEF Runs, Shape, Late, Making
  <2>4. ASSUME NEW n \in Name, n = row[p].name, Clean(n)
        PROVE  Hand(p, n)'
    BY <1>0, <2>1, <2>4, VolumeBare DEF Hand, Making
  <2> QED BY <2>1, <2>2, <2>3, <2>4, StayKeeps DEF Hands, Making
<1> QED BY <1>1, <1>2 DEF NextVolume

LEMMA VolumeKeeps ==
    ASSUME IInv, Mark, NEW p \in Proc, Volume(p), UNCHANGED requests
    PROVE  IInv'
<1>1. /\ pc[p] = "volume" /\ NextVolume(p) /\ UNCHANGED <<dbVars, requests, box, gen>> /\ Blame(p)
  BY DEF Volume, Blame
<1>2. Docks(row[p].name)
  BY <1>1, RemoveVolumeIs DEF Volume
<1> QED BY <1>1, <1>2, NextVolumeKeeps

-----------------------------------------------------------------------------
(* Steps that write the tables *)

LEMMA WriteKeeps ==
    ASSUME IInv, Mark, NEW p \in Proc, Local(p), UNCHANGED <<made, requests, dockerVars>>,
           UNCHANGED faultVars \/ (UNCHANGED <<faults, broken>> /\ lost' = lost \ {row[p].name}),
           user' \in [User -> {"none", "PENDING", "ACTIVE", "SUSPENDED", "gone"}],
           \A u \in User : user[u] = "gone" => user'[u] = "gone",
           rows' \subseteq Row, Keyed',
           \A r \in rows' :
              \/ \E s \in rows : s.id = r.id /\ s.name = r.name /\ s.user = r.user
              \/ /\ r.id = row[p].id /\ r.name = row[p].name /\ r.user = who[p]
                 /\ Unused(p) /\ Held(p)' = {},
           \A r \in rows : (\E s \in rows' : s.id = r.id) \/ (r.user = who[p] /\ user'[who[p]] = "gone"),
           \A n \in Name \ NamesOf(p) : \A r \in rows \cup rows' : r.name = n => r \in rows /\ r \in rows',
           Held(p)' \subseteq Held(p), Shape(p)', Fresh(p)', Copies(p)', Runs(p)', Here(p)
    PROVE  IInv'
<1>0. TypeOK /\ Present
  BY DEF IInv
<1>1. made \in Nat /\ made' = made /\ box' = box /\ gen' = gen /\ vol' = vol
  BY <1>0, ProvisioningAssumption DEF TypeOK, dockerVars
<1>2. \A n \in Name \ NamesOf(p) : Still(n)
  BY <1>1 DEF Still
<1>3. Only(p)
  BY <1>1, <1>2 DEF Only, Local
<1>4. TypeOK'
  <2>1. /\ faults' \in 0 .. MaxFaults /\ broken' \subseteq Name /\ lost' \subseteq Name
        /\ raced' \subseteq Name /\ shared' \subseteq Name
    BY <1>0 DEF TypeOK, faultVars, Mark
  <2> QED BY <1>0, <1>1, <2>1 DEF TypeOK, Local
<1>5. Present'
  BY <1>0, <1>1 DEF Present
<1>6. broken' = broken /\ lost \ NamesOf(p) \subseteq lost'
  BY <1>0 DEF faultVars, TypeOK, NamesOf
<1> QED BY <1>1, <1>3, <1>4, <1>5, <1>6, StepKeeps

\* Only the row of that id changes, in its container and status.
Updated(p, cid, status) ==
    /\ rows' \subseteq Row /\ Keyed'
    /\ \A r \in rows' : \E s \in rows : s.id = r.id /\ s.name = r.name /\ s.user = r.user
    /\ \A r \in rows : \E s \in rows' : s.id = r.id
    /\ \A r \in rows : r.id # row[p].id => r \in rows'
    /\ \A r \in rows' :
           \/ r \in rows /\ r.id # row[p].id
           \/ /\ r.id = row[p].id /\ r.name = row[p].name
              /\ r.cid = cid /\ r.status = status
    /\ \A r \in rows \cup rows' : r.name # row[p].name => r \in rows /\ r \in rows'

\* UPDATE instances ... WHERE id = ...
LEMMA UpdateRowIs ==
    ASSUME IInv, NEW p \in Proc, row[p] # NoRow, RowThere(p), made' = made,
           NEW cid \in Id \cup {Mock}, cid # Mock => cid[1] = row[p].name /\ cid[2] \in {"n8n", "api"},
           NEW status \in {"RUNNING", "STOPPED"}, UpdateRow(p, cid, status)
    PROVE  Updated(p, cid, status)
<1> DEFINE up(r) == [r EXCEPT !.cid = cid, !.status = status]
<1>0. /\ TypeOK /\ Keyed /\ Own(p) /\ rows \subseteq Row /\ row[p] \in Held(p) /\ row[p] \in Row
      /\ \A r \in rows : r.id = row[p].id => r.name = row[p].name /\ r.user = row[p].user
  BY HeldIs DEF IInv, TypeOK, Own, Known
<1>1. ASSUME NEW r \in Row
      PROVE  /\ up(r) \in Row /\ up(r).id = r.id /\ up(r).name = r.name /\ up(r).user = r.user
             /\ up(r).cid = cid /\ up(r).status = status
  BY DEF Row
<1>2. \A x : x \in rows' <=> \E r \in rows : x = IF r.id = row[p].id THEN up(r) ELSE r
  BY Zenon DEF UpdateRow
<1> HIDE DEF up
<1>3. ASSUME NEW r \in rows'
      PROVE  \/ r \in rows /\ r.id # row[p].id
             \/ \E s \in rows : /\ r = up(s) /\ s.id = row[p].id /\ r.id = row[p].id
                                /\ r.name = row[p].name /\ s.name = row[p].name
                                /\ r.user = s.user /\ r.cid = cid /\ r.status = status /\ r \in Row
  BY <1>0, <1>1, <1>2
<1>4. \A r \in rows : r.id # row[p].id => r \in rows'
  BY <1>2
<1>5. \A r \in rows : \E s \in rows' : s.id = r.id
  BY <1>0, <1>1, <1>2
<1>6. rows' \subseteq Row
  BY <1>0, <1>3
<1>7. \A r, s \in rows' : r.id = s.id => r = s
  BY <1>0, <1>3 DEF Keyed
<1>8. \A r \in rows' : CidFits(r) /\ r.id <= made'
  BY <1>0, <1>3 DEF Keyed, CidFits
<1>9. \A r \in rows \cup rows' : r.name # row[p].name => r \in rows /\ r \in rows'
  BY <1>0, <1>3, <1>4
<1>10. Keyed'
  BY <1>7, <1>8 DEF Keyed, CidFits
<1> QED BY <1>3, <1>4, <1>5, <1>6, <1>9, <1>10 DEF Updated

LEMMA RecordKeeps ==
    ASSUME IInv, Mark, NEW p \in Proc, Record(p), UNCHANGED requests
    PROVE  IInv'
<1>0. /\ TypeOK /\ Keyed /\ Present /\ Own(p) /\ Shape(p) /\ pc[p] = "record" /\ row[p] # NoRow
      /\ op[p] \in DOMAIN Verb /\ op[p] # "delete" /\ UNCHANGED <<user, made, dockerVars, requests, faultVars>>
      /\ Blame(p) /\ made' = made /\ user' = user
  BY DEF IInv, Own, Record, Shape, Blame
<1>1. row[p] \in Row /\ row[p] \in Held(p) /\ row[p].name \in Name /\ row[p].name \in NamesOf(p)
  BY <1>0, RowFits
<1>2. ASSUME NEW n \in Name, n = row[p].name, n \notin raced
      PROVE  row[p] \in rows
  BY <1>0, <1>2, InTable
<1>3. CASE ~RowThere(p)
  <2>1. End(p) /\ UNCHANGED rows
    BY <1>3 DEF Record
  <2>2. Docks(row[p].name)
    BY <1>0, DocksSame DEF dockerVars
  <2>3. \A n \in Name : ~(n = row[p].name /\ Clean(n))
    BY <1>2, <1>3 DEF RowThere, Clean
  <2> QED BY <1>0, <2>1, <2>2, <2>3, EndKeeps DEF dbVars
<1>4. CASE RowThere(p)
  <2>1. PICK c \in Id \cup {Mock}, st \in {"RUNNING", "STOPPED"} :
           /\ c = (CHOOSE r \in rows : r.id = row[p].id).cid
           /\ st = IF Verb[op[p]] = "stop" THEN "STOPPED" ELSE "RUNNING"
           /\ c # Mock => c[1] = row[p].name /\ c[2] \in {"n8n", "api"}
           /\ UpdateRow(p, c, st)
    <3> DEFINE s == CHOOSE r \in rows : r.id = row[p].id
    <3>1. s \in rows /\ s.id = row[p].id
      BY <1>4 DEF RowThere
    <3>2. s.cid \in Id \cup {Mock} /\ (s.cid # Mock => s.cid[1] = row[p].name /\ s.cid[2] \in {"n8n", "api"})
      BY <1>0, <1>1, <3>1, RowHas DEF TypeOK, Keyed, CidFits, Own, Known
    <3>3. UpdateRow(p, s.cid, IF Verb[op[p]] = "stop" THEN "STOPPED" ELSE "RUNNING")
      BY <1>4 DEF Record
    <3> HIDE DEF s
    <3> QED BY <3>2, <3>3 DEF s
  <2>2. /\ rows' \subseteq Row /\ Keyed'
        /\ \A r \in rows' : \E s \in rows : s.id = r.id /\ s.name = r.name /\ s.user = r.user
        /\ \A r \in rows : \E s \in rows' : s.id = r.id
        /\ \A r \in rows : r.id # row[p].id => r \in rows'
        /\ \A r \in rows' :
               \/ r \in rows /\ r.id # row[p].id
               \/ r.id = row[p].id /\ r.name = row[p].name /\ r.cid = c /\ r.status = st
        /\ \A r \in rows \cup rows' : r.name # row[p].name => r \in rows /\ r \in rows'
    <3>1. Updated(p, c, st)
      BY <1>0, <1>4, <2>1, UpdateRowIs
    <3> QED BY <3>1 DEF Updated
  <2>0. Grows
    BY <1>0, BlameIs
  <2>3. \A n \in Name \ {row[p].name} : Still(n)
    BY <1>0, <2>2 DEF Still, dockerVars
  <2>4. ASSUME NEW n \in Name, n = row[p].name, Clean(n)'
        PROVE  Good(n)'
    <3>1. Clean(n) /\ row[p] \in rows /\ n \notin raced
      BY <1>2, <2>0, <2>4 DEF Clean, Grows, Wider
    <3>2. c = row[p].cid
      BY <2>1, <3>1 DEF IInv, Keyed
    <3>3. Fit(row[p]) /\ (Main8n(row[p]) => (box[<<n, "n8n">>] = "running" <=> Verb[op[p]] # "stop"))
      BY <1>0, <1>1, <2>4, <3>1, WorkHas DEF Work, Hand
    <3>4. \A r \in rows' : r.name = n => r.cid = row[p].cid /\ r.status = st
      <4>1. \A r \in rows : r.name = n => r = row[p]
        BY <2>4, <3>1, OnlyOne
      <4> QED BY <2>2, <3>2, <4>1
    <3>5. \E r \in rows' : r.name = n
      BY <1>1, <2>2, <2>4, <3>1 DEF Own, Known
    <3>7. \A r \in rows' : r.name = n => Fit(r)'
      BY <1>0, <2>4, <3>3, <3>4 DEF Fit, Bare, Exists, IdOf, Named, dockerVars
    <3> QED BY <1>0, <2>1, <3>3, <3>4, <3>5, <3>7 DEF Good, Main8n, Lone, dockerVars
  <2>5. \A n \in Name \ NamesOf(p) : \A r \in rows \cup rows' : r.name = n => r \in rows /\ r \in rows'
    BY <1>1, <2>2
  <2>7. user' \in [User -> {"none", "PENDING", "ACTIVE", "SUSPENDED", "gone"}] /\ user' = user
    BY <1>0 DEF TypeOK
  <2>8. CASE End(p)
    <3>1. Local(p) /\ Over(p) /\ Held(p)' = {}
      BY <1>0, <2>8, EndLocal, OverHeld
    <3>2. Here(p)
      BY <1>0, <2>3, <2>4, <2>0, <3>1, HereEnd
    <3> QED BY <1>0, <2>2, <2>5, <2>7, <3>1, <3>2, OverOwn, WriteKeeps
  <2>9. CASE NextRow(p)
    <3>1. Local(p) /\ Onto(p) /\ Held(p)' = todo[p] /\ todo[p] \subseteq Held(p)
      BY <1>0, <2>9, NextLocal, OntoHeld
    <3>2. Here(p)
      BY <1>0, <2>3, <2>4, <2>0, <3>1, HereNext
    <3>3. Shape(p)' /\ Fresh(p)' /\ Runs(p)' /\ op[p] \in {"suspend", "unsuspend", "delete"}
      <4>1. pc[p] \notin Late
        BY <1>0 DEF Shape, Late, Making
      <4> QED BY <1>0, <3>1, <4>1, OntoOwn
    <3>4. ASSUME NEW r \in todo[p], r.name \notin raced
          PROVE  r \in rows'
      <4>1. r \in rows /\ r # row[p] /\ r \in Row
        BY <1>0, <3>1, <3>3, <3>4, HeldIs DEF Own, Copies, New, Shape
      <4>2. r.id # row[p].id
        <5> SUFFICES ASSUME r.id = row[p].id PROVE FALSE
          OBVIOUS
        <5>1. r.name = row[p].name
          BY <1>0, <1>1, <4>1 DEF Own, Known
        <5>2. row[p] \in rows
          BY <1>1, <1>2, <3>4, <5>1
        <5> QED BY <1>0, <4>1, <5>2 DEF Keyed
      <4> QED BY <2>2, <4>1, <4>2
    <3>5. Copies(p)'
      BY <2>0, <3>1, <3>3, <3>4 DEF Copies, Onto, New, Grows, Wider
    <3> QED BY <1>0, <2>2, <2>5, <2>7, <3>1, <3>2, <3>3, <3>5, WriteKeeps
  <2> QED BY <1>4, <2>8, <2>9 DEF Record, Advance
<1> QED BY <1>3, <1>4

LEMMA SetUserKeeps ==
    ASSUME IInv, Mark, NEW p \in Proc, SetUser(p), UNCHANGED requests
    PROVE  IInv'
<1>0. /\ TypeOK /\ Keyed /\ Present /\ Own(p) /\ Shape(p) /\ pc[p] = "setUser"
      /\ op[p] \in {"approve", "suspend", "unsuspend"} /\ who[p] \in User
      /\ UNCHANGED <<rows, made, dockerVars, requests, faultVars>> /\ Blame(p)
      /\ rows' = rows /\ made' = made /\ pc[p] \notin Late
  BY DEF IInv, Own, SetUser, Shape, Blame, Late, Making
<1>1. Docks(row[p].name) /\ \A n \in Name : Still(n)
  BY <1>0, DocksSame DEF dockerVars, Still
<1>2. Grows
  BY <1>0, BlameIs
<1>3. ASSUME NEW n \in Name, n = row[p].name, Clean(n)
      PROVE  Good(n) /\ Good(n)'
  <2>1. row[p] # NoRow
    BY <1>3, NoRowIs
  <2>2. Good(n)
    BY <1>0, <1>3, <2>1, RowFits, WorkHas DEF Work, Hand
  <2> QED BY <1>0, <1>1, <2>2, GoodStill
<1>4. CASE ~UserThere(p)
  <2>1. End(p) /\ UNCHANGED user
    BY <1>4 DEF SetUser
  <2> QED BY <1>0, <1>1, <1>3, <2>1, EndKeeps DEF dbVars
<1>5. CASE UserThere(p)
  <2>1. user' = [user EXCEPT ![who[p]] = IF op[p] = "suspend" THEN "SUSPENDED" ELSE "ACTIVE"]
    BY <1>5 DEF SetUser
  <2>2. /\ user' \in [User -> {"none", "PENDING", "ACTIVE", "SUSPENDED", "gone"}]
        /\ \A u \in User : user[u] = "gone" => user'[u] = "gone"
    BY <1>0, <1>5, <2>1 DEF TypeOK, UserThere, There
  <2>3. Keyed'
    BY <1>0 DEF Keyed, CidFits
  <2>4. \A n \in Name : Clean(n)' => Clean(n)
    BY <1>2 DEF Clean, Grows, Wider
  <2>5. ASSUME Local(p), Held(p)' \subseteq Held(p), Shape(p)', Fresh(p)', Copies(p)', Runs(p)', Here(p)
        PROVE  IInv'
    BY <1>0, <2>2, <2>3, <2>5, WriteKeeps DEF TypeOK
  <2>6. CASE op[p] # "approve" /\ NextRow(p)
    <3>1. Local(p) /\ Onto(p) /\ Held(p)' = todo[p] /\ todo[p] \subseteq Held(p)
      BY <1>0, <2>6, NextLocal, OntoHeld
    <3>2. Shape(p)' /\ Fresh(p)' /\ Runs(p)'
      BY <1>0, <2>2, <3>1, OntoOwn
    <3>3. Copies(p)'
      BY <1>0, <1>2, <2>6, <3>1 DEF Own, Copies, Onto, New, Grows, Wider
    <3>4. Here(p)
      BY <1>0, <1>1, <1>2, <1>3, <2>4, <3>1, HereNext
    <3> QED BY <2>5, <3>1, <3>2, <3>3, <3>4
  <2>7. CASE op[p] # "approve" /\ End(p)
    <3>1. Local(p) /\ Over(p) /\ Held(p)' = {}
      BY <1>0, <2>7, EndLocal, OverHeld
    <3>2. Here(p)
      BY <1>0, <1>1, <1>2, <1>3, <2>4, <3>1, HereEnd
    <3> QED BY <2>5, <3>1, <3>2, OverOwn
  <2>8. CASE /\ op[p] = "approve" /\ Step(p, IF RowThere(p) THEN "main" ELSE "list")
             /\ UNCHANGED <<handle, main>>
    <3>1. Local(p) /\ Stays(p) /\ pc'[p] = IF RowThere(p) THEN "main" ELSE "list"
      BY <1>0, <2>8, StepLocal DEF Steps, Puts
    <3>2. Held(p)' = Held(p) /\ row[p] # NoRow /\ main[p] = NoId /\ main' = main
      BY <1>0, <2>8, <3>1, StaysHeld DEF Shape, Late, Making
    <3>3. Shape(p)'
      BY <1>0, <2>2, <2>8, <3>1, <3>2 DEF Shape, Stays, Making, Late, New, Verb, CidFits, Main8n
    <3>4. Fresh(p)'
      <4>1. CASE RowThere(p)
        BY <1>0, <3>1, <4>1 DEF Fresh, Making
      <4>2. CASE ~RowThere(p)
        <5>1. Unused(p)
          BY <1>0, <1>5, <2>8, <4>2 DEF Own, Fresh, RowThere, UserThere, There
        <5>2. \A q \in Proc \ {p} : Held(q)' = Held(q)
          BY <3>1 DEF Local, Same, Held
        <5>3. Unused(p)'
          BY <1>0, <3>1, <5>1, <5>2 DEF Unused, Stays
        <5> QED BY <3>1, <5>3 DEF Fresh, Stays
      <4> QED BY <4>1, <4>2
    <3>5. Copies(p)'
      BY <1>0, <1>2, <2>8, <3>1, <3>2 DEF Own, Copies, Stays, New, Grows, Wider, RowThere
    <3>6. Runs(p)'
      BY <3>1, <3>2 DEF Runs
    <3>7. ASSUME NEW n \in Name, n = row[p].name, Clean(n)
          PROVE  Hand(p, n)'
      <4>1. Lone(n)' => Bare(n)'
        BY <1>3, <3>7 DEF Good
      <4> QED BY <1>3, <2>8, <3>1, <3>2, <3>7, <4>1 DEF Hand, Build, Stays, Making, Late, New
    <3>8. Here(p)
      BY <1>0, <1>1, <1>2, <3>1, <3>7, HereStep
    <3> QED BY <2>5, <3>1, <3>2, <3>3, <3>4, <3>5, <3>6, <3>8
  <2> QED BY <1>5, <2>6, <2>7, <2>8 DEF SetUser, Advance
<1> QED BY <1>4, <1>5

LEMMA DropKeeps ==
    ASSUME IInv, Mark, NEW p \in Proc, Drop(p), UNCHANGED requests
    PROVE  IInv'
<1>0. /\ TypeOK /\ Keyed /\ Twins /\ Present /\ Own(p) /\ Shape(p) /\ pc[p] = "drop"
      /\ op[p] = "delete" /\ who[p] \in User /\ End(p) /\ todo[p] = {}
      /\ user' = [user EXCEPT ![who[p]] = "gone"] /\ rows' = rows \ RowsOf(who[p])
      /\ UNCHANGED <<made, dockerVars, requests, faultVars>> /\ Blame(p) /\ made' = made
  BY DEF IInv, Own, Drop, Shape, Blame
<1>1. Local(p) /\ Over(p) /\ Held(p)' = {} /\ NamesOf(p)' = {} /\ Grows
  BY <1>0, EndLocal, OverHeld, BlameIs
<1>2. Here(p)
  <2> SUFFICES ASSUME NEW n \in Name, Clean(n)', n \in NamesOf(p)
               PROVE  Good(n)'
    BY <1>1 DEF Here
  <2>1. Clean(n) /\ Work(p, n) /\ n \notin raced
    BY <1>1, WorkHas DEF Clean, Grows, Wider
  <2>2. PICK r \in rows : r.name = n /\ r.user = who[p] /\ Bare(n)
    <3>1. CASE row[p].name = n
      <4>1. row[p] \in rows /\ row[p] # NoRow
        BY <1>0, <2>1, <3>1, InTable, NoRowIs DEF New
      <4>2. row[p].user = who[p]
        BY <1>0, <4>1, RowFits
      <4> QED BY <1>0, <2>1, <3>1, <4>1, <4>2 DEF Work, Hand
    <3>2. CASE row[p].name # n
      <4>1. \A r \in Held(p) : r.name # n
        BY <1>0, <3>2 DEF Held
      <4>2. PICK r \in rows : r.name = n /\ r.user = who[p]
        BY <1>0, <4>1, HeldIs
      <4>3. r \in RowsOf(who[p]) \ Held(p)
        BY <4>1, <4>2 DEF RowsOf
      <4> QED BY <1>0, <2>1, <4>2, <4>3 DEF Work
    <3> QED BY <3>1, <3>2
  <2>3. \A s \in rows : s.name = n => s = r
    BY <1>0, <2>1, <2>2 DEF Keyed, Twins, Clean
  <2>4. \A s \in rows' : s.name # n
    BY <1>0, <2>2, <2>3 DEF RowsOf
  <2>5. Bare(n)'
    BY <1>0, <2>2 DEF Bare, dockerVars
  <2> QED BY <2>4, <2>5 DEF Good
<1>3. /\ user' \in [User -> {"none", "PENDING", "ACTIVE", "SUSPENDED", "gone"}]
      /\ \A u \in User : user[u] = "gone" => user'[u] = "gone"
      /\ user'[who[p]] = "gone"
  BY <1>0 DEF TypeOK
<1>4. rows' \subseteq Row /\ rows' \subseteq rows /\ Keyed'
  BY <1>0 DEF TypeOK, Keyed, CidFits
<1>5. \A r \in rows : r \in rows' \/ r.user = who[p]
  BY <1>0 DEF RowsOf
<1>6. \A n \in Name \ NamesOf(p) : \A r \in rows \cup rows' : r.name = n => r \in rows /\ r \in rows'
  BY <1>0, <1>4, <1>5 DEF NamesOf
<1> QED BY <1>0, <1>1, <1>2, <1>3, <1>4, <1>5, <1>6, OverOwn, WriteKeeps

\* createInstance that throws.
LEMMA AbandonKeeps ==
    ASSUME IInv, Mark, NEW p \in Proc, Abandon(p), UNCHANGED <<dbVars, requests>>
    PROVE  IInv'
<1>1. Docks(row[p].name)
  BY DocksSame DEF IInv, Abandon, dockerVars
<1> QED BY <1>1, EndKeeps DEF Abandon, Blame

LEMMA SaveKeeps ==
    ASSUME IInv, Mark, NEW p \in Proc, Save(p), UNCHANGED requests
    PROVE  IInv'
<1>0. /\ TypeOK /\ Keyed /\ Present /\ Own(p) /\ Shape(p) /\ pc[p] = "save" /\ row[p] # NoRow
      /\ op[p] \in New \cup {"start", "restart"} /\ who[p] \in User
      /\ UNCHANGED <<user, made, requests>> /\ made' = made /\ user' = user /\ op[p] # "delete"
  BY DEF IInv, Own, Save, Shape, Making, New
<1>1. /\ row[p] \in Row /\ row[p] \in Held(p) /\ row[p].name \in Name /\ row[p].name \in NamesOf(p)
      /\ row[p].user = who[p]
  BY <1>0, RowFits
<1>2. /\ ContainerId(p) \in Id \cup {Mock}
      /\ ContainerId(p) # Mock => /\ main[p] # NoId /\ ContainerId(p) = main[p] /\ main[p] \in Id
                                  /\ main[p][1] = row[p].name /\ main[p][2] \in {"n8n", "api"}
      /\ ContainerId(p) = Mock => main[p] = NoId
  <2>1. main[p] \in Id \cup {NoId}
    BY <1>0 DEF TypeOK
  <2>2. main[p] \in Id => main[p] # Mock
    BY IdHas
  <2> QED BY <1>0, <2>1, <2>2 DEF ContainerId, Shape
<1>3. user' \in [User -> {"none", "PENDING", "ACTIVE", "SUSPENDED", "gone"}]
  BY <1>0 DEF TypeOK
<1>4. CASE ~(IF op[p] \in New THEN UserThere(p) ELSE RowThere(p)) /\ Abandon(p) /\ UNCHANGED rows
  BY <1>0, <1>4, AbandonKeeps DEF dbVars
<1>5. CASE /\ op[p] \in New /\ rows' = rows \cup {[row[p] EXCEPT !.cid = ContainerId(p)]}
           /\ End(p) /\ UNCHANGED <<dockerVars, faultVars>>
  <2>1. PICK new \in Row : /\ new = [row[p] EXCEPT !.cid = ContainerId(p)]
                           /\ new.id = row[p].id /\ new.user = row[p].user /\ new.name = row[p].name
                           /\ new.cid = ContainerId(p) /\ new.status = row[p].status
    <3> DEFINE r == row[p]
               c == ContainerId(p)
    <3>1. r \in Row /\ c \in Id \cup {Mock}
      BY <1>1, <1>2
    <3> HIDE DEF r, c
    <3>2. [r EXCEPT !.cid = c] \in Row
      BY <3>1 DEF Row
    <3>3. /\ [r EXCEPT !.cid = c].id = r.id /\ [r EXCEPT !.cid = c].user = r.user
          /\ [r EXCEPT !.cid = c].name = r.name /\ [r EXCEPT !.cid = c].cid = c
          /\ [r EXCEPT !.cid = c].status = r.status
      BY <3>1 DEF Row
    <3> QED BY <3>2, <3>3 DEF r, c
  <2>2. rows' = rows \cup {new}
    BY <1>5, <2>1
  <2>3. Local(p) /\ Over(p) /\ Held(p)' = {} /\ Blame(p) /\ Grows
    BY <1>0, <1>5, EndLocal, OverHeld, BlameIs DEF Blame
  <2>4. Unused(p)
    BY <1>0, <1>5 DEF Own, Fresh, Making
  <2>5. rows' \subseteq Row
    BY <1>0, <2>1, <2>2 DEF TypeOK
  <2>6. Keyed'
    <3>1. \A r \in rows : r.id # new.id
      BY <2>1, <2>4 DEF Unused
    <3>2. CidFits(new) /\ new.id <= made
      BY <1>0, <1>1, <1>2, <2>1 DEF CidFits, Own, Known
    <3> QED BY <1>0, <2>2, <3>1, <3>2 DEF Keyed, CidFits
  <2>7. \A r \in rows' : \/ \E s \in rows : s.id = r.id /\ s.name = r.name /\ s.user = r.user
                         \/ /\ r.id = row[p].id /\ r.name = row[p].name /\ r.user = who[p]
                            /\ Unused(p) /\ Held(p)' = {}
    BY <1>1, <2>1, <2>2, <2>3, <2>4
  <2>8. \A r \in rows \cup rows' : r.name # row[p].name => r \in rows /\ r \in rows'
    BY <2>1, <2>2
  <2>9. \A n \in Name \ {row[p].name} : Still(n)
    BY <1>5, <2>8 DEF Still, dockerVars
  <2>10. ASSUME NEW n \in Name, n = row[p].name, Clean(n)'
         PROVE  Good(n)'
    <3>1. Clean(n) /\ n \notin raced /\ Work(p, n)
      BY <1>1, <2>3, <2>10, WorkHas DEF Clean, Grows, Wider
    <3>2. Lone(n)
      <4> SUFFICES ASSUME NEW r \in rows, r.name = n PROVE FALSE
        BY DEF Lone
      <4>1. r.id # new.id /\ r \in rows' /\ new \in rows' /\ new.name = n
        BY <2>1, <2>2, <2>4, <2>10 DEF Unused
      <4> QED BY <2>10, <4>1 DEF Mark, Clean
    <3>3. Build(p, n)
      BY <1>0, <2>10, <3>1, <3>2 DEF Work, Hand, Making
    <3>4. new.status = "RUNNING"
      BY <2>1, <2>4 DEF Unused
    <3>5. main[p] # NoId /\ main[p][2] = "n8n" => Running(main[p])
      BY <1>0, <2>10, <3>1 DEF Own, Runs
    <3>6. Fit(new)'
      BY <1>0, <1>2, <1>5, <2>1, <2>10, <3>3 DEF Build, Fit, Bare, Exists, IdOf, Named, dockerVars, Late, Making
    <3>7. Main8n(new) => box'[<<n, "n8n">>] = "running"
      BY <1>2, <1>5, <2>1, <2>10, <3>5 DEF Main8n, Running, Named, dockerVars
    <3>8. \A r \in rows' : r.name = n => r = new
      BY <2>2, <3>2 DEF Lone
    <3>9. ~Lone(n)'
      BY <2>1, <2>2, <2>10 DEF Lone
    <3> QED BY <3>4, <3>6, <3>7, <3>8, <3>9 DEF Good
  <2>11. Here(p)
    BY <1>0, <2>3, <2>9, <2>10, HereEnd
  <2>12. \A n \in Name \ NamesOf(p) : \A r \in rows \cup rows' : r.name = n => r \in rows /\ r \in rows'
    BY <1>1, <2>8
  <2>13. \A r \in rows : \E s \in rows' : s.id = r.id
    BY <2>2
  <2> QED BY <1>0, <1>3, <1>5, <2>3, <2>5, <2>6, <2>7, <2>11, <2>12, <2>13, OverOwn, WriteKeeps
<1>6. CASE /\ op[p] \notin New /\ RowThere(p) /\ UpdateRow(p, ContainerId(p), "RUNNING")
           /\ lost' = IF main[p] # NoId /\ main[p][2] = "n8n" THEN lost \ {row[p].name} ELSE lost
           /\ End(p) /\ UNCHANGED <<dockerVars, faults, broken>>
  <2>1. Local(p) /\ Over(p) /\ Held(p)' = {} /\ NamesOf(p)' = {}
    BY <1>0, <1>6, EndLocal, OverHeld
  <2>2. PICK c \in Id \cup {Mock} : c = ContainerId(p) /\ Updated(p, c, "RUNNING")
    BY <1>0, <1>2, <1>6, UpdateRowIs
  <2>3. UNCHANGED faultVars \/ (UNCHANGED <<faults, broken>> /\ lost' = lost \ {row[p].name})
    BY <1>6 DEF faultVars
  <2>4. \A n \in NamesOf(p) : n = row[p].name
    BY <1>0, <1>6 DEF Shape, NamesOf
  <2>5. ASSUME NEW n \in NamesOf(p), Clean(n)'
        PROVE  Good(n)'
    <3>0. n = row[p].name /\ n \in Name /\ n \notin raced' /\ n \notin raced /\ n \notin shared
      BY <1>1, <2>4, <2>5 DEF Clean, Mark
    <3>1. CASE ~(main[p] # NoId /\ main[p][2] = "n8n")
      <4>1. Clean(n)
        BY <1>6, <2>5, <3>1 DEF Clean, Mark
      <4> QED BY <1>0, <1>6, <3>0, <4>1, WorkHas DEF Work, Hand, Making
    <3>2. CASE main[p] # NoId /\ main[p][2] = "n8n"
      <4>1. Running(main[p]) /\ main[p] \in Id /\ main[p][1] = n
        BY <1>0, <3>0, <3>2 DEF Own, Runs, Shape, TypeOK
      <4>2. c = main[p] /\ c \in Id /\ c # Mock
        BY <2>2, <3>2, <4>1, IdHas DEF ContainerId
      <4>3. row[p] \in rows
        BY <1>6, <3>0, InTable
      <4>4. \A r \in rows : r.name = n => r.id = row[p].id
        BY <3>0, <4>3 DEF IInv, Twins
      <4>5. \A r \in rows' : r.name = n => r.cid = c /\ r.status = "RUNNING"
        BY <2>2, <4>4 DEF Updated
      <4>6. \E r \in rows' : r.name = n
        BY <2>2, <3>0, <4>3 DEF Updated
      <4>7. Exists(c)' /\ box'[<<n, "n8n">>] = "running" /\ c[2] = "n8n"
        BY <1>6, <3>2, <4>1, <4>2, IdHas DEF Running, Exists, IdOf, Named, dockerVars
      <4> QED BY <4>2, <4>5, <4>6, <4>7 DEF Good, Fit, Lone
    <3> QED BY <3>1, <3>2
  <2>6. Here(p)
    BY <2>1, <2>5 DEF Here
  <2>7. \A n \in Name \ NamesOf(p) : \A r \in rows \cup rows' : r.name = n => r \in rows /\ r \in rows'
    BY <1>1, <2>2 DEF Updated
  <2> QED BY <1>0, <1>3, <1>6, <2>1, <2>2, <2>3, <2>6, <2>7, OverOwn, WriteKeeps DEF Updated
<1> QED BY <1>4, <1>5, <1>6 DEF Save, New

-----------------------------------------------------------------------------
(* createInstance *)

\* What any of its steps finds.
LEMMA MakingHas ==
    ASSUME IInv, NEW p \in Proc, pc[p] \in Making
    PROVE  /\ TypeOK /\ Present /\ Own(p) /\ Shape(p) /\ row[p] \in Row /\ row[p].name \in Name
           /\ row[p].name \in NamesOf(p)
           /\ \A k \in Kind : <<row[p].name, k>> \in Container
           /\ main[p] # NoId => /\ main[p] \in Id /\ main[p][1] = row[p].name
                                /\ main[p][2] = "n8n" \/ (main[p][2] = "api" /\ pc[p] = "save")
           /\ op[p] \in New \cup {"start", "restart"}
<1>1. TypeOK /\ Present /\ Own(p) /\ Shape(p) /\ row[p] # NoRow /\ op[p] \in New \cup {"start", "restart"}
  BY DEF IInv, Own, Shape, Making
<1>2. row[p] \in Row /\ row[p].name \in Name /\ row[p].name \in NamesOf(p)
  BY <1>1, RowFits
<1>3. main[p] \in Id \cup {NoId}
  BY <1>1 DEF TypeOK
<1> QED BY <1>1, <1>2, <1>3 DEF Shape, Container

LEMMA MakingKeeps ==
    ASSUME IInv, Mark, NEW p \in Proc, pc[p] \in Making, Local(p), Stays(p), pc'[p] \in Making,
           UNCHANGED <<dbVars, requests, faultVars>>, Docks(row[p].name),
           NEW m \in Id \cup {NoId}, main'[p] = m,
           m # NoId => /\ pc'[p] \in Late /\ m[1] = row[p].name
                       /\ m[2] = "n8n" \/ (m[2] = "api" /\ pc'[p] = "save"),
           m # NoId /\ m[2] = "n8n" /\ row[p].name \notin raced => Running(m)',
           NEW h \in Id \cup {NoId}, handle'[p] = h,
           pc'[p] = "boot" => h # NoId /\ h[1] = row[p].name /\ h[2] = "n8n",
           pc'[p] = "bootAi" => h # NoId /\ h[1] = row[p].name /\ h[2] = "ai",
           pc'[p] = "bootApi" => h # NoId /\ h[1] = row[p].name /\ h[2] = "api",
           \A n \in Name : n = row[p].name /\ n \notin raced /\ Build(p, n) => Build(p, n)'
    PROVE  IInv'
<1>0. /\ TypeOK /\ Shape(p) /\ Own(p) /\ row[p] \in Row /\ row[p].name \in NamesOf(p)
      /\ op[p] \in New \cup {"start", "restart"} /\ Held(p)' = Held(p) /\ row[p] # NoRow
      /\ user' = user /\ rows' = rows /\ Blame(p)
  BY MakingHas, StaysHeld, NoRowIs DEF dbVars, Blame
<1>1. Shape(p)'
  BY <1>0 DEF Shape, Stays, Making, Late, New, CidFits, Named
<1>2. Runs(p)'
  <2>1. raced \subseteq raced'
    BY DEF Mark
  <2>2. Running(main[p])' <=> Running(m)'
    BY DEF Running, Exists, IdOf, Named
  <2> QED BY <2>1, <2>2 DEF Runs, Stays, Making
<1>3. ASSUME NEW n \in Name, n = row[p].name, Clean(n)
      PROVE  Hand(p, n)'
  <2>1. Hand(p, n)
    BY <1>0, <1>3, WorkHas DEF Work
  <2>2. Lone(n)' => Lone(n)
    BY <1>0 DEF Lone
  <2> QED BY <1>3, <2>1, <2>2 DEF Hand, Stays, Making, Clean
<1>4. pc[p] # "free" /\ pc'[p] # "setUser" /\ pc'[p] \notin Hands
  BY DEF Making, Hands
<1> QED BY <1>0, <1>1, <1>2, <1>3, <1>4, StayKeeps

LEMMA OnwardIs ==
    ASSUME TypeOK, NEW p \in Proc, NEW l \in {"ai", "api", "save"}, NEW m \in Id \cup {NoId},
           Onward(p, l, m)
    PROVE  /\ Local(p) /\ Stays(p) /\ main'[p] = m /\ handle'[p] = NoId /\ UNCHANGED faultVars
           /\ pc'[p] = IF l = "ai" /\ "ai" \notin row[p].apps THEN "save" ELSE l
<1>1. PICK s \in Steps : s = IF l = "ai" /\ "ai" \notin row[p].apps THEN "save" ELSE l
  BY DEF Steps
<1>2. Step(p, s) /\ main' = [main EXCEPT ![p] = m] /\ handle' = [handle EXCEPT ![p] = NoId]
  BY <1>1 DEF Onward
<1>3. Local(p) /\ Stays(p) /\ pc'[p] = s
  BY <1>2, StepLocal DEF Puts
<1> QED BY <1>1, <1>2, <1>3 DEF TypeOK, Onward

LEMMA MakeThenIs ==
    ASSUME TypeOK, Present, NEW p \in Proc, NEW k \in Kind, NEW l \in Steps, row[p].name \in Name,
           MakeThen(p, k, l)
    PROVE  /\ Local(p) /\ Stays(p) /\ pc'[p] = l /\ main'[p] = main[p] /\ UNCHANGED faultVars
           /\ handle'[p] \in Id /\ handle'[p][1] = row[p].name /\ handle'[p][2] = k
           /\ Docks(row[p].name) /\ box'[<<row[p].name, k>>] # "absent"
           /\ \A d \in Container \ {<<row[p].name, k>>} : box'[d] = box[d] /\ gen'[d] = gen[d]
<1> DEFINE c == <<row[p].name, k>>
           h == <<row[p].name, k, gen[<<row[p].name, k>>] + 1>>
<1>1. c \in Container /\ Make(c) /\ handle' = [handle EXCEPT ![p] = h] /\ Step(p, l)
      /\ UNCHANGED <<main, faultVars>>
  BY DEF Container, MakeThen, At
<1>2. /\ Docks(c[1]) /\ box'[c] = "stopped" /\ gen[c] + 1 \in 1 .. MaxBoxes
      /\ \A d \in Container \ {c} : box'[d] = box[d] /\ gen'[d] = gen[d]
  BY <1>1, DocksMake
<1>3. h \in Id
  BY <1>2 DEF Id
<1>4. Local(p) /\ Stays(p) /\ pc'[p] = l
  BY <1>1, <1>3, StepLocal DEF Puts
<1> QED BY <1>1, <1>2, <1>3, <1>4 DEF TypeOK

\* A boot either throws or starts the container.
LEMMA BootIs ==
    ASSUME TypeOK, Present, NEW p \in Proc, NEW k \in Kind, row[p].name \in Name, handle[p] # NoId,
           Named(handle[p]) = <<row[p].name, k>>, NEW l \in {"ai", "api", "save"},
           NEW m \in Id \cup {NoId}, Boot(p, l, m)
    PROVE  \/ Abandon(p)
           \/ /\ Onward(p, l, m) /\ Docks(row[p].name) /\ gen' = gen
              /\ handle[p] \in Id /\ handle[p][1] = row[p].name /\ handle[p][2] = k
              /\ box'[<<row[p].name, k>>] = "running" /\ gen[<<row[p].name, k>>] = handle[p][3]
              /\ \A d \in Container \ {<<row[p].name, k>>} : box'[d] = box[d]
<1> SUFFICES ASSUME Exists(handle[p]) /\ Accepts("start", Named(handle[p])),
                    Apply("start", Named(handle[p])) /\ Onward(p, l, m)
             PROVE  /\ Docks(row[p].name) /\ gen' = gen
                    /\ handle[p] \in Id /\ handle[p][1] = row[p].name /\ handle[p][2] = k
                    /\ box'[<<row[p].name, k>>] = "running" /\ gen[<<row[p].name, k>>] = handle[p][3]
                    /\ \A d \in Container \ {<<row[p].name, k>>} : box'[d] = box[d]
  BY DEF Boot
<1>1. handle[p] \in Id /\ handle[p][1] = row[p].name /\ handle[p][2] = k
  BY DEF TypeOK, Named
<1>2. <<row[p].name, k>> \in Container /\ box[<<row[p].name, k>>] # "absent"
      /\ gen[<<row[p].name, k>>] = handle[p][3]
  BY <1>1, IdHas DEF Container, Exists, IdOf, Named
<1>3. /\ Docks(<<row[p].name, k>>[1]) /\ gen' = gen /\ box'[<<row[p].name, k>>] = After["start"]
      /\ \A d \in Container \ {<<row[p].name, k>>} : box'[d] = box[d]
  BY <1>2, DocksApply
<1> QED BY <1>1, <1>2, <1>3 DEF After

LEMMA ListKeeps ==
    ASSUME IInv, Mark, NEW p \in Proc, List(p), UNCHANGED requests
    PROVE  IInv'
<1> DEFINE c == <<row[p].name, "n8n">>
<1>0. /\ pc[p] = "list" /\ pc[p] \in Making /\ UNCHANGED <<dbVars, dockerVars, requests>> /\ main[p] = NoId
      /\ At(p, "n8n") = c
  BY DEF List, Making, Late, IInv, Own, Shape, At
<1>1. TypeOK /\ Present /\ row[p].name \in Name /\ c \in Container
  BY <1>0, MakingHas DEF Kind
<1>2. Docks(row[p].name) /\ box' = box /\ gen' = gen
  BY <1>0, <1>1, DocksSame DEF dockerVars
<1>3. NoId \in Id \cup {NoId} /\ pc[p] \notin Late
  BY <1>0 DEF Late
<1>4. box[c] # "absent" => IdOf(c) \in Id /\ IdOf(c)[1] = row[p].name /\ IdOf(c)[2] = "n8n"
                           /\ IdOf(c) # NoId /\ IdOf(c)[3] = gen[c]
  BY <1>1, IdOfIs, IdHas
<1>5. CASE "n8n" \notin row[p].apps /\ Onward(p, "ai", NoId)
  <2>1. /\ Local(p) /\ Stays(p) /\ main'[p] = NoId /\ handle'[p] = NoId /\ UNCHANGED faultVars
        /\ pc'[p] \in {"ai", "save"}
    BY <1>1, <1>5, OnwardIs
  <2>2. \A n \in Name : n = row[p].name /\ Build(p, n) => Build(p, n)'
    BY <1>0, <1>2, <2>1 DEF Build, Bare, Late, Making
  <2>3. pc'[p] \in Making
    BY <2>1 DEF Making
  <2> QED BY <1>0, <1>2, <1>3, <2>1, <2>2, <2>3, MakingKeeps
<1>6. CASE box[c] = "absent" /\ Step(p, "make") /\ UNCHANGED <<handle, main, faultVars>>
  <2>1. Local(p) /\ Stays(p) /\ pc'[p] = "make" /\ main'[p] = NoId
    BY <1>0, <1>1, <1>6, StepLocal DEF Steps, Puts
  <2>2. \A n \in Name : n = row[p].name /\ Build(p, n) => Build(p, n)'
    BY <1>0, <1>2, <2>1 DEF Build, Bare, Late, Making
  <2>3. pc'[p] \in Making /\ handle'[p] \in Id \cup {NoId} /\ UNCHANGED faultVars
    BY <1>1, <1>6, <2>1 DEF Making, TypeOK
  <2> QED BY <1>0, <1>2, <1>3, <2>1, <2>2, <2>3, MakingKeeps
<1>7. CASE box[c] = "running" /\ Onward(p, "ai", IdOf(c))
  <2>1. PICK m \in Id : /\ m = IdOf(c) /\ m # NoId /\ m[1] = row[p].name /\ m[2] = "n8n" /\ m[3] = gen[c]
    BY <1>4, <1>7
  <2>2. /\ Local(p) /\ Stays(p) /\ main'[p] = m /\ handle'[p] = NoId /\ UNCHANGED faultVars
        /\ pc'[p] \in {"ai", "save"}
    BY <1>1, <1>7, <2>1, OnwardIs
  <2>3. \A n \in Name : ~(n = row[p].name /\ Build(p, n))
    BY <1>0, <1>7 DEF Build, Bare
  <2>4. pc'[p] \in Making /\ pc'[p] \in Late
    BY <2>2 DEF Making, Late
  <2>5. Running(m)'
    BY <1>2, <1>7, <2>1, RunningIs
  <2> QED BY <1>0, <1>2, <1>3, <2>1, <2>2, <2>3, <2>4, <2>5, MakingKeeps
<1>8. CASE /\ box[c] \notin {"absent", "running"} /\ handle' = [handle EXCEPT ![p] = IdOf(c)]
           /\ Step(p, "boot") /\ UNCHANGED <<main, faultVars>>
  <2>1. PICK h \in Id : h = IdOf(c) /\ h # NoId /\ h[1] = row[p].name /\ h[2] = "n8n"
    BY <1>4, <1>8
  <2>2. Local(p) /\ Stays(p) /\ pc'[p] = "boot" /\ main'[p] = NoId
    BY <1>0, <1>1, <1>8, <2>1, StepLocal DEF Steps, Puts
  <2>3. \A n \in Name : ~(n = row[p].name /\ Build(p, n))
    BY <1>0, <1>8 DEF Build, Bare
  <2>4. pc'[p] \in Making /\ handle'[p] = h /\ UNCHANGED faultVars
    BY <1>1, <1>8, <2>1, <2>2 DEF Making, TypeOK
  <2> QED BY <1>0, <1>2, <1>3, <2>1, <2>2, <2>3, <2>4, MakingKeeps
<1> QED BY <1>0, <1>5, <1>6, <1>7, <1>8 DEF List

\* Making a container of kind k: the n8n one first, the others beside it.
LEMMA MakeThenKeeps ==
    ASSUME IInv, Mark, NEW p \in Proc, NEW k \in Kind, NEW l \in Making, MakeThen(p, k, l),
           UNCHANGED <<dbVars, requests>>,
           \/ pc[p] = "make" /\ k = "n8n" /\ l = "boot"
           \/ pc[p] = "ai" /\ k = "ai" /\ l = "bootAi"
           \/ pc[p] = "api" /\ k = "api" /\ l = "bootApi"
    PROVE  IInv'
<1>0. /\ pc[p] \in Making /\ l \in Steps
  BY DEF Making, Steps
<1>1. /\ TypeOK /\ Present /\ row[p].name \in Name /\ Own(p) /\ Shape(p)
      /\ main[p] # NoId => main[p] \in Id /\ main[p][1] = row[p].name /\ main[p][2] = "n8n"
  BY <1>0, MakingHas
<1>2. /\ Local(p) /\ Stays(p) /\ pc'[p] = l /\ main'[p] = main[p] /\ UNCHANGED faultVars
      /\ handle'[p] \in Id /\ handle'[p][1] = row[p].name /\ handle'[p][2] = k
      /\ Docks(row[p].name) /\ box'[<<row[p].name, k>>] # "absent"
      /\ \A d \in Container \ {<<row[p].name, k>>} : box'[d] = box[d] /\ gen'[d] = gen[d]
  BY <1>0, <1>1, MakeThenIs
<1>3. PICK m \in Id \cup {NoId} : m = main[p]
  BY <1>1
<1>4. PICK h \in Id : h = handle'[p]
  BY <1>2
<1>5. h # NoId
  BY IdHas
<1>6. m # NoId => pc[p] \notin {"make"}
  BY <1>1, <1>3 DEF Shape, Late
<1>7. /\ <<row[p].name, "n8n">> \in Container /\ <<row[p].name, "api">> \in Container
      /\ k # "n8n" => box'[<<row[p].name, "n8n">>] = box[<<row[p].name, "n8n">>]
                      /\ gen'[<<row[p].name, "n8n">>] = gen[<<row[p].name, "n8n">>]
      /\ k # "api" => box'[<<row[p].name, "api">>] = box[<<row[p].name, "api">>]
                      /\ gen'[<<row[p].name, "api">>] = gen[<<row[p].name, "api">>]
  BY <1>1, <1>2 DEF Container, Kind
<1>8. m # NoId /\ row[p].name \notin raced => Running(m)'
  <2> SUFFICES ASSUME m # NoId, row[p].name \notin raced PROVE Running(m)'
    OBVIOUS
  <2>1. Running(m)
    BY <1>1, <1>3 DEF Own, Runs
  <2>2. m \in Id /\ m[1] = row[p].name /\ m[2] = "n8n"
    BY <1>1, <1>3
  <2> QED BY <1>6, <1>7, <2>1, <2>2, RunningIs
<1>9. ASSUME NEW n \in Name, n = row[p].name, Build(p, n)
      PROVE  Build(p, n)'
  <2>1. pc'[p] = l /\ main'[p] = main[p]
    BY <1>2
  <2>2. CASE pc[p] = "make" /\ k = "n8n" /\ l = "boot"
    <3>1. box'[<<n, "api">>] = "absent"
      BY <1>7, <1>9, <2>2 DEF Build, Bare
    <3> QED BY <2>1, <2>2, <3>1 DEF Build, Late, Making
  <2>3. CASE pc[p] = "ai" /\ k = "ai" /\ l = "bootAi"
    <3>1. box'[<<n, "api">>] = "absent"
      BY <1>7, <1>9, <2>3 DEF Build
    <3>2. main[p] = NoId \/ main[p][2] = "api" => box'[<<n, "n8n">>] = "absent"
      BY <1>7, <1>9, <2>3 DEF Build, Late, Making
    <3> QED BY <2>1, <2>3, <3>1, <3>2 DEF Build, Late, Making
  <2>4. CASE pc[p] = "api" /\ k = "api" /\ l = "bootApi"
    <3>1. main[p] = NoId \/ main[p][2] = "api" => box'[<<n, "n8n">>] = "absent"
      BY <1>7, <1>9, <2>4 DEF Build, Late, Making
    <3> QED BY <2>1, <2>4, <3>1 DEF Build, Late, Making
  <2> QED BY <2>2, <2>3, <2>4
<1>10. m # NoId => pc'[p] \in Late /\ m[1] = row[p].name /\ m[2] = "n8n"
  BY <1>1, <1>2, <1>3, <1>6 DEF Late, Making
<1>11. main'[p] = m /\ handle'[p] = h /\ h[1] = row[p].name /\ h[2] = k /\ pc'[p] = l
  BY <1>2, <1>3, <1>4
<1> QED BY <1>0, <1>2, <1>5, <1>8, <1>9, <1>10, <1>11, MakingKeeps

\* Booting what was made or found.
LEMMA BootKeeps ==
    ASSUME IInv, Mark, NEW p \in Proc, NEW k \in Kind, NEW l \in {"ai", "api", "save"},
           NEW m \in Id \cup {NoId}, Boot(p, l, m), UNCHANGED <<dbVars, requests>>,
           \/ pc[p] = "boot" /\ k = "n8n" /\ l = "ai" /\ m = handle[p]
           \/ pc[p] = "bootAi" /\ k = "ai" /\ l = "api" /\ m = main[p]
           \/ /\ pc[p] = "bootApi" /\ k = "api" /\ l = "save"
              /\ m = IF main[p] = NoId THEN handle[p] ELSE main[p]
    PROVE  IInv'
<1>0. pc[p] \in Making
  BY DEF Making
<1>1. /\ TypeOK /\ Present /\ row[p].name \in Name /\ Own(p) /\ Shape(p)
      /\ main[p] # NoId => main[p] \in Id /\ main[p][1] = row[p].name /\ main[p][2] = "n8n"
  BY <1>0, MakingHas
<1>2. handle[p] # NoId /\ Named(handle[p]) = <<row[p].name, k>>
  BY <1>1 DEF Shape
<1>3. CASE Abandon(p)
  BY <1>3, AbandonKeeps
<1>4. CASE /\ Onward(p, l, m) /\ Docks(row[p].name) /\ gen' = gen
           /\ handle[p] \in Id /\ handle[p][1] = row[p].name /\ handle[p][2] = k
           /\ box'[<<row[p].name, k>>] = "running" /\ gen[<<row[p].name, k>>] = handle[p][3]
           /\ \A d \in Container \ {<<row[p].name, k>>} : box'[d] = box[d]
  <2>1. /\ Local(p) /\ Stays(p) /\ main'[p] = m /\ handle'[p] = NoId /\ UNCHANGED faultVars
        /\ pc'[p] = IF l = "ai" /\ "ai" \notin row[p].apps THEN "save" ELSE l
    BY <1>1, <1>4, OnwardIs
  <2>2. pc'[p] \in Making /\ pc'[p] \in Late /\ pc'[p] \in {"ai", "api", "save"} /\ (k # "n8n" => pc'[p] = l)
    BY <2>1 DEF Making, Late
  <2>3. /\ <<row[p].name, "n8n">> \in Container /\ <<row[p].name, "api">> \in Container
        /\ k # "n8n" => box'[<<row[p].name, "n8n">>] = box[<<row[p].name, "n8n">>]
        /\ k # "api" => box'[<<row[p].name, "api">>] = box[<<row[p].name, "api">>]
    BY <1>1, <1>4 DEF Container, Kind
  <2>4. m # NoId => m \in Id /\ m[1] = row[p].name
                    /\ \/ m[2] = "n8n"
                       \/ m[2] = "api" /\ pc'[p] = "save" /\ m = handle[p] /\ k = "api" /\ main[p] = NoId
    BY <1>1, <1>4, <2>1
  <2>5. m # NoId /\ m[2] = "n8n" /\ row[p].name \notin raced => Running(m)'
    <3> SUFFICES ASSUME m # NoId, m[2] = "n8n", row[p].name \notin raced PROVE Running(m)'
      OBVIOUS
    <3>1. CASE k = "n8n"
      BY <1>4, <2>4, <3>1, RunningIs
    <3>2. CASE k # "n8n"
      <4>1. m = main[p]
        BY <1>4, <3>2
      <4>2. Running(m)
        BY <1>1, <4>1 DEF Own, Runs
      <4> QED BY <1>4, <2>3, <2>4, <3>2, <4>2, RunningIs
    <3> QED BY <3>1, <3>2
  <2>6. ASSUME NEW n \in Name, n = row[p].name, n \notin raced, Build(p, n)
        PROVE  Build(p, n)'
    <3>1. m # NoId => Exists(m)'
      BY <1>4, <2>4, <2>5, <2>6, RunningIs, ExistsIs
    <3>2. Exists(m)' <=> Exists(main[p])'
      BY <2>1 DEF Exists, IdOf, Named
    <3>3. k = "n8n" => m # NoId /\ m[2] = "n8n"
      BY <1>2, <1>4
    <3> QED BY <1>1, <1>2, <1>4, <2>1, <2>2, <2>3, <2>4, <2>6, <3>1, <3>2, <3>3 DEF Build, Late, Making
  <2> QED BY <1>0, <1>4, <2>1, <2>2, <2>4, <2>5, <2>6, MakingKeeps
<1> QED BY <1>1, <1>2, <1>3, <1>4, BootIs

LEMMA MakeN8nKeeps ==
    ASSUME IInv, Mark, NEW p \in Proc, MakeN8n(p), UNCHANGED requests
    PROVE  IInv'
<1>1. CASE MakeThen(p, "n8n", "boot")
  BY <1>1, MakeThenKeeps DEF MakeN8n, Making, Kind
<1>2. CASE Abandon(p)
  BY <1>2, AbandonKeeps DEF MakeN8n
<1> QED BY <1>1, <1>2 DEF MakeN8n

LEMMA BootN8nKeeps ==
    ASSUME IInv, Mark, NEW p \in Proc, BootN8n(p), UNCHANGED requests
    PROVE  IInv'
<1>1. PICK m \in Id \cup {NoId} : m = handle[p]
  BY DEF IInv, TypeOK
<1>2. Boot(p, "ai", m) /\ pc[p] = "boot"
  BY <1>1 DEF BootN8n
<1> QED BY <1>1, <1>2, BootKeeps DEF BootN8n, Kind

LEMMA BootAiKeeps ==
    ASSUME IInv, Mark, NEW p \in Proc, BootAi(p), UNCHANGED requests
    PROVE  IInv'
<1>1. PICK m \in Id \cup {NoId} : m = main[p]
  BY DEF IInv, TypeOK
<1>2. Boot(p, "api", m) /\ pc[p] = "bootAi"
  BY <1>1 DEF BootAi
<1> QED BY <1>1, <1>2, BootKeeps DEF BootAi, Kind

LEMMA BootApiKeeps ==
    ASSUME IInv, Mark, NEW p \in Proc, BootApi(p), UNCHANGED requests
    PROVE  IInv'
<1>1. PICK m \in Id \cup {NoId} : m = IF main[p] = NoId THEN handle[p] ELSE main[p]
  BY DEF IInv, TypeOK
<1>2. Boot(p, "save", m) /\ pc[p] = "bootApi"
  BY <1>1 DEF BootApi
<1> QED BY <1>1, <1>2, BootKeeps DEF BootApi, Kind

\* The next step of createInstance, which leaves the n8n container and its own handles.
LEMMA BesideKeeps ==
    ASSUME IInv, Mark, NEW p \in Proc, pc[p] \in Making, NEW l \in Making, Step(p, l),
           UNCHANGED <<dbVars, requests, faultVars, handle, main>>, Docks(row[p].name), gen' = gen,
           box'[<<row[p].name, "n8n">>] = box[<<row[p].name, "n8n">>],
           main[p] # NoId => l \in Late, l \notin {"boot", "bootAi", "bootApi"},
           main[p] # NoId /\ main[p][2] = "api" => l = "save",
           \A n \in Name : n = row[p].name /\ Build(p, n) => Build(p, n)'
    PROVE  IInv'
<1>1. /\ TypeOK /\ Own(p) /\ row[p].name \in Name
      /\ main[p] # NoId => main[p] \in Id /\ main[p][1] = row[p].name /\ main[p][2] \in {"n8n", "api"}
      /\ l \in Steps /\ main' = main /\ handle' = handle
  BY MakingHas DEF Making, Steps
<1>2. PICK m \in Id \cup {NoId} : m = main[p]
  BY <1>1
<1>3. PICK h \in Id \cup {NoId} : h = handle[p]
  BY <1>1 DEF TypeOK
<1>4. Local(p) /\ Stays(p) /\ pc'[p] = l
  BY <1>1, StepLocal DEF Puts
<1>5. m # NoId /\ m[2] = "n8n" /\ row[p].name \notin raced => Running(m)'
  BY <1>1, <1>2, RunningIs DEF Own, Runs
<1> QED BY <1>1, <1>2, <1>3, <1>4, <1>5, MakingKeeps

LEMMA MakeAiKeeps ==
    ASSUME IInv, Mark, NEW p \in Proc, MakeAi(p), UNCHANGED requests
    PROVE  IInv'
<1>0. pc[p] = "ai" /\ UNCHANGED <<dbVars, requests>> /\ pc[p] \in Making /\ TypeOK /\ Present
  BY DEF MakeAi, MakeTenant, Making, IInv
<1>1. CASE MakeThen(p, "ai", "bootAi")
  BY <1>0, <1>1, MakeThenKeeps DEF Making, Kind
<1>2. CASE Step(p, "reuseAi") /\ UNCHANGED <<dockerVars, handle, main, faultVars>>
  <2>1. Docks(row[p].name) /\ box' = box /\ gen' = gen
    BY <1>0, <1>2, DocksSame DEF dockerVars
  <2>2. pc'[p] = "reuseAi" /\ main' = main
    BY <1>0, <1>2 DEF Step, Goto, TypeOK
  <2>3. \A n \in Name : n = row[p].name /\ Build(p, n) => Build(p, n)'
    BY <1>0, <2>1, <2>2 DEF Build, Late, Making
  <2>4. main[p] # NoId => main[p][2] # "api"
    BY <1>0, MakingHas
  <2> QED BY <1>0, <1>2, <2>1, <2>3, <2>4, BesideKeeps DEF Making, Late
<1> QED BY <1>1, <1>2 DEF MakeAi, MakeTenant

LEMMA MakeApiKeeps ==
    ASSUME IInv, Mark, NEW p \in Proc, MakeApi(p), UNCHANGED requests
    PROVE  IInv'
<1>0. pc[p] = "api" /\ UNCHANGED <<dbVars, requests>> /\ pc[p] \in Making /\ TypeOK /\ Present
  BY DEF MakeApi, MakeTenant, Making, IInv
<1>1. CASE MakeThen(p, "api", "bootApi")
  BY <1>0, <1>1, MakeThenKeeps DEF Making, Kind
<1>2. CASE box[At(p, "api")] # "absent" /\ Step(p, "reuseApi") /\ UNCHANGED <<dockerVars, handle, main, faultVars>>
  <2>1. Docks(row[p].name) /\ box' = box /\ gen' = gen
    BY <1>0, <1>2, DocksSame DEF dockerVars
  <2>3. \A n \in Name : ~(n = row[p].name /\ Build(p, n))
    BY <1>0, <1>2 DEF Build, At
  <2>4. main[p] # NoId => main[p][2] # "api"
    BY <1>0, MakingHas
  <2> QED BY <1>0, <1>2, <2>1, <2>3, <2>4, BesideKeeps DEF Making, Late
<1> QED BY <1>1, <1>2 DEF MakeApi, MakeTenant

\* Starting a container that is there, or doing without.
LEMMA ReuseDocks ==
    ASSUME IInv, NEW p \in Proc, NEW k \in {"api", "ai"}, NEW l, Reuse(p, k, l), row[p].name \in Name
    PROVE  /\ Docks(row[p].name) /\ gen' = gen
           /\ \A d \in Container \ {<<row[p].name, k>>} : box'[d] = box[d]
           /\ box'[<<row[p].name, "n8n">>] = box[<<row[p].name, "n8n">>]
<1> DEFINE c == <<row[p].name, k>>
<1>1. c \in Container /\ TypeOK /\ Present /\ At(p, k) = c
  BY DEF Container, Kind, IInv, At
<1>2. /\ Docks(row[p].name) /\ gen' = gen /\ \A d \in Container \ {c} : box'[d] = box[d]
  <2>1. CASE box[c] # "absent" /\ Apply("start", c)
    <3>1. Docks(c[1]) /\ gen' = gen /\ \A d \in Container \ {c} : box'[d] = box[d]
      BY <1>1, <2>1, DocksApply
    <3> QED BY <3>1
  <2>2. CASE UNCHANGED dockerVars
    BY <1>1, <2>2, DocksSame DEF dockerVars
  <2> QED BY <1>1, <2>1, <2>2 DEF Reuse
<1> QED BY <1>2 DEF Container, Kind

LEMMA ReuseAiKeeps ==
    ASSUME IInv, Mark, NEW p \in Proc, ReuseAi(p), UNCHANGED requests
    PROVE  IInv'
<1>0. /\ pc[p] = "reuseAi" /\ Reuse(p, "ai", "api") /\ Step(p, "api")
      /\ UNCHANGED <<dbVars, requests, faultVars, handle, main>> /\ pc[p] \in Making /\ TypeOK
      /\ main' = main
  BY DEF ReuseAi, Reuse, Making, IInv
<1>1. row[p].name \in Name /\ <<row[p].name, "api">> \in Container
      /\ (main[p] # NoId => main[p][2] # "api")
  BY <1>0, MakingHas DEF Kind
<1>2. /\ Docks(row[p].name) /\ gen' = gen
      /\ box'[<<row[p].name, "api">>] = box[<<row[p].name, "api">>]
      /\ box'[<<row[p].name, "n8n">>] = box[<<row[p].name, "n8n">>]
  BY <1>0, <1>1, ReuseDocks
<1>3. pc'[p] = "api"
  BY <1>0 DEF Step, Goto, TypeOK
<1>4. \A n \in Name : n = row[p].name /\ Build(p, n) => Build(p, n)'
  BY <1>0, <1>2, <1>3 DEF Build, Late, Making
<1> QED BY <1>0, <1>1, <1>2, <1>4, BesideKeeps DEF Making, Late

LEMMA ReuseApiKeeps ==
    ASSUME IInv, Mark, NEW p \in Proc, ReuseApi(p), UNCHANGED requests
    PROVE  IInv'
<1>1. PICK l \in {"findApi", "save"} : l = IF main[p] = NoId THEN "findApi" ELSE "save"
  OBVIOUS
<1>0. /\ pc[p] = "reuseApi" /\ Reuse(p, "api", l) /\ Step(p, l)
      /\ UNCHANGED <<dbVars, requests, faultVars, handle, main>> /\ pc[p] \in Making
  BY <1>1 DEF ReuseApi, Reuse, Making
<1>2. row[p].name \in Name /\ (main[p] # NoId => main[p][2] # "api")
  BY <1>0, MakingHas
<1>3. /\ Docks(row[p].name) /\ gen' = gen
      /\ box'[<<row[p].name, "n8n">>] = box[<<row[p].name, "n8n">>]
  BY <1>0, <1>2, ReuseDocks
<1>4. \A n \in Name : ~(n = row[p].name /\ Build(p, n))
  BY <1>0 DEF Build
<1> QED BY <1>0, <1>1, <1>2, <1>3, <1>4, BesideKeeps DEF Making, Late

LEMMA FindApiKeeps ==
    ASSUME IInv, Mark, NEW p \in Proc, FindApi(p), UNCHANGED requests
    PROVE  IInv'
<1> DEFINE c == <<row[p].name, "api">>
<1>0. /\ pc[p] = "findApi" /\ pc[p] \in Making /\ UNCHANGED <<dbVars, dockerVars, requests>>
      /\ Onward(p, "save", IF box[c] = "absent" THEN NoId ELSE IdOf(c))
  BY DEF FindApi, Making, At
<1>1. TypeOK /\ Present /\ row[p].name \in Name /\ c \in Container
  BY <1>0, MakingHas DEF Kind
<1>2. Docks(row[p].name)
  BY <1>0, <1>1, DocksSame DEF dockerVars
<1>3. box[c] # "absent" => IdOf(c) \in Id /\ IdOf(c)[1] = row[p].name /\ IdOf(c)[2] = "api"
  BY <1>1, IdOfIs
<1>4. PICK m \in Id \cup {NoId} : /\ m = IF box[c] = "absent" THEN NoId ELSE IdOf(c)
                                  /\ m # NoId => m[1] = row[p].name /\ m[2] = "api"
  BY <1>3
<1>5. /\ Local(p) /\ Stays(p) /\ main'[p] = m /\ handle'[p] = NoId /\ UNCHANGED faultVars
      /\ pc'[p] = "save"
  BY <1>0, <1>1, <1>4, OnwardIs
<1>6. \A n \in Name : ~(n = row[p].name /\ Build(p, n))
  BY <1>0 DEF Build
<1>7. pc'[p] \in Making /\ pc'[p] \in Late /\ NoId \in Id \cup {NoId}
  BY <1>5 DEF Making, Late
<1> QED BY <1>0, <1>2, <1>4, <1>5, <1>6, <1>7, MakingKeeps

-----------------------------------------------------------------------------
(* Failures *)

\* A failed await that is passed over.
LEMMA PassKeeps ==
    ASSUME IInv, Mark, NEW p \in Proc, pc[p] # "free", NEW l \in Steps, Step(p, l),
           UNCHANGED <<dbVars, dockerVars, requests, handle, main, lost>>, Fault, Break(p),
           \/ pc[p] = "sideApi" /\ l = "sideAi"
           \/ pc[p] \in {"sideAi", "sideVolume"} /\ l = AfterMain(p)
           \/ pc[p] = "main" /\ op[p] = "delete" /\ l = "volume"
           \/ pc[p] = "reuseAi" /\ l = "api"
           \/ pc[p] = "reuseApi" /\ l \in {"findApi", "save"} /\ (main[p] # NoId => l = "save")
    PROVE  IInv'
<1>0. /\ TypeOK /\ Present /\ Own(p) /\ Shape(p) /\ Blame(p) /\ row[p] # NoRow
      /\ user' = user /\ box' = box /\ gen' = gen /\ main' = main /\ handle' = handle
  BY DEF IInv, Own, Blame, dbVars, dockerVars, Shape
<1>1. Local(p) /\ Stays(p) /\ pc'[p] = l
  BY <1>0, StepLocal DEF Puts
<1>2. Docks(row[p].name)
  BY <1>0, DocksSame DEF dockerVars
<1>3. pc[p] = "sideVolume" => op[p] = "delete"
  BY <1>0 DEF Shape
<1>4. Shape(p)'
  <2>1. CASE pc[p] \in {"sideApi", "sideAi", "sideVolume", "main"}
    BY <1>0, <1>1, <1>3, <2>1, HandShape DEF Hands, AfterMain, Shape
  <2>2. CASE pc[p] \in {"reuseAi", "reuseApi"}
    <3>1. Held(p)' = Held(p)
      BY <1>1, StaysHeld
    <3> QED BY <1>0, <1>1, <2>2, <3>1 DEF Shape, Stays, Making, Late, New, CidFits
  <2> QED BY <2>1, <2>2
<1>5. Runs(p)'
  <2>1. /\ row'[p] = row[p] /\ op'[p] = op[p] /\ main'[p] = main[p] /\ raced \subseteq raced'
        /\ pc'[p] \in {"sideApi", "sideAi", "record"} => pc[p] \in {"sideApi", "sideAi", "record"}
    BY <1>0, <1>1, <1>3 DEF Stays, Mark, AfterMain
  <2> QED BY <1>0, <2>1 DEF Own, Runs, Running, Exists, IdOf, Named
<1>6. pc'[p] \in Making => pc[p] \in Making
  BY <1>1 DEF Making, AfterMain
<1>7. pc'[p] \in Hands => pc[p] \in Hands
  BY <1>1, <1>3 DEF Hands, AfterMain
<1>8. pc'[p] # "setUser"
  BY <1>1 DEF AfterMain
<1> QED BY <1>0, <1>1, <1>2, <1>4, <1>5, <1>6, <1>7, <1>8, StayKeeps

LEMMA StepFailsKeeps ==
    ASSUME IInv, Mark, NEW p \in Proc, StepFails(p), UNCHANGED requests
    PROVE  IInv'
<1>0. /\ pc[p] # "free" /\ Fault /\ Break(p) /\ UNCHANGED <<dbVars, dockerVars>> /\ Blame(p)
      /\ UNCHANGED <<box, gen, dbVars, lost>> /\ TypeOK /\ Present
  BY DEF StepFails, Blame, dockerVars, IInv
<1>1. Docks(row[p].name)
  BY <1>0, DocksSame DEF dockerVars
<1>2. CASE End(p)
  BY <1>0, <1>1, <1>2, EndKeeps
<1>3. CASE pc[p] = "sideApi" /\ Step(p, "sideAi") /\ UNCHANGED <<handle, main>>
  BY <1>0, <1>3, PassKeeps DEF Steps
<1>4. CASE /\ pc[p] \in {"sideAi", "sideVolume"} /\ Step(p, AfterMain(p))
           /\ UNCHANGED <<handle, main>>
  <2>1. PICK l \in Steps : l = AfterMain(p)
    BY DEF Steps, AfterMain
  <2> QED BY <1>0, <1>4, <2>1, PassKeeps
<1>5. CASE pc[p] = "volume" /\ NextVolume(p)
  BY <1>0, <1>1, <1>5, NextVolumeKeeps
<1>6. CASE pc[p] = "main" /\ op[p] = "delete" /\ Step(p, "volume") /\ UNCHANGED <<handle, main>>
  BY <1>0, <1>6, PassKeeps DEF Steps
<1>7. CASE pc[p] = "reuseAi" /\ Step(p, "api") /\ UNCHANGED <<handle, main>>
  BY <1>0, <1>7, PassKeeps DEF Steps
<1>8. CASE /\ pc[p] = "reuseApi" /\ Step(p, IF main[p] = NoId THEN "findApi" ELSE "save")
           /\ UNCHANGED <<handle, main>>
  <2>1. PICK l \in Steps : /\ l = IF main[p] = NoId THEN "findApi" ELSE "save"
                           /\ l \in {"findApi", "save"} /\ (main[p] # NoId => l = "save")
    BY DEF Steps
  <2> QED BY <1>0, <1>8, <2>1, PassKeeps
<1> QED BY <1>2, <1>3, <1>4, <1>5, <1>6, <1>7, <1>8 DEF StepFails, Ignoring

LEMMA InspectFailsKeeps ==
    ASSUME IInv, Mark, NEW p \in Proc, InspectFails(p), UNCHANGED requests
    PROVE  IInv'
<1> DEFINE id == row[p].cid
           v == Verb[op[p]]
<1>0. /\ TypeOK /\ Present /\ Own(p) /\ Shape(p) /\ pc[p] = "main" /\ row[p] # NoRow
      /\ op[p] \in DOMAIN Verb /\ UNCHANGED <<dbVars, requests>> /\ Blame(p) /\ Break(p)
      /\ main[p] = NoId /\ id # Mock /\ Exists(id) /\ Apply(v, Named(id))
      /\ Step(p, AfterMain(p)) /\ UNCHANGED <<handle, main>> /\ user' = user /\ main' = main
  BY DEF IInv, Own, InspectFails, Shape, Blame, Late, Making, dbVars
<1>1. /\ id \in Id /\ id[1] = row[p].name /\ id[2] \in {"n8n", "api"}
      /\ Named(id) = <<row[p].name, id[2]>> /\ Named(id) \in Container
  BY <1>0, RowFits
<1>2. AfterMain(p) \in {"volume", "record"} /\ (AfterMain(p) = "volume" <=> op[p] = "delete")
  BY DEF AfterMain
<1>3. Local(p) /\ Stays(p) /\ pc'[p] = AfterMain(p)
  BY <1>0, <1>2, StepLocal DEF Steps, Puts
<1>4. v \in {"start", "restart", "stop", "remove"}
  BY <1>0, VerbIs
<1>5. Docks(row[p].name) /\ gen' = gen /\ box'[<<row[p].name, id[2]>>] = After[v]
  <2>1. box[Named(id)] # "absent"
    BY <1>0 DEF Exists
  <2>2. Docks(Named(id)[1]) /\ gen' = gen /\ box'[Named(id)] = After[v]
    BY <1>0, <1>1, <1>4, <2>1, DocksApply
  <2> QED BY <1>1, <2>2
<1>6. Shape(p)'
  BY <1>0, <1>2, <1>3, HandShape DEF Hands
<1>7. gen[<<row[p].name, id[2]>>] = id[3]
  BY <1>0, <1>1, ExistsIs
<1>8. Runs(p)'
  BY <1>0, <1>1, <1>3, <1>5, <1>7, IdHas DEF Runs, Stays, Running, Exists, IdOf, Named, After
<1> QED BY <1>0, <1>2, <1>3, <1>5, <1>6, <1>8, StayKeeps DEF Hands, Making

\* Nobody is at work after a crash, and what somebody was at work on is broken.
LEMMA CrashKeeps ==
    ASSUME IInv, Mark, Crash, UNCHANGED requests
    PROVE  IInv'
<1>0. /\ TypeOK /\ Keyed /\ Present /\ user' = user /\ rows' = rows /\ made' = made
      /\ box' = box /\ gen' = gen /\ vol' = vol
  BY DEF IInv, Crash, dbVars, dockerVars
<1>1. \A p \in Proc : Over(p)
  BY DEF Crash, Over
<1>2. TypeOK'
  <2>1. /\ pc' \in [Proc -> Steps] /\ op' \in [Proc -> Ops] /\ who' \in [Proc -> User \cup {NoUser}]
        /\ row' \in [Proc -> Row \cup {NoRow}] /\ todo' \in [Proc -> SUBSET Row]
        /\ handle' \in [Proc -> Id \cup {NoId}] /\ main' \in [Proc -> Id \cup {NoId}]
    BY DEF Crash, Steps, Ops
  <2>2. faults' \in 0 .. MaxFaults
    BY <1>0, ProvisioningAssumption DEF TypeOK, Crash, Fault
  <2>3. broken' \subseteq Name /\ lost' \subseteq Name /\ raced' \subseteq Name /\ shared' \subseteq Name
    BY <1>0 DEF TypeOK, Crash, NamesOf, Mark
  <2> QED BY <1>0, <2>1, <2>2, <2>3 DEF TypeOK
<1>3. Keyed' /\ Present' /\ Apart'
  BY <1>0 DEF Keyed, CidFits, Present, Apart, Mark
<1>4. Twins'
  <2>1. \A r \in rows' : r.name \in Name
    BY <1>0, RowHas DEF TypeOK
  <2> QED BY <2>1 DEF Twins, Mark
<1>5. \A p \in Proc : Own(p)'
  <2> SUFFICES ASSUME NEW p \in Proc PROVE Own(p)'
    OBVIOUS
  <2>1. Known(p)'
    BY <1>1, OverHeld DEF Known
  <2> QED BY <1>1, <2>1, OverOwn DEF Own
<1>6. ASSUME NEW n \in Name
      PROVE  Kept(n)'
  <2>1. \A p \in Proc : NamesOf(p)' = {}
    BY <1>1, OverHeld
  <2>2. ASSUME Clean(n)'
        PROVE  Good(n)'
    <3>1. Clean(n) /\ \A p \in Proc : n \notin NamesOf(p)
      BY <2>2 DEF Clean, Crash, Mark
    <3>2. Good(n) /\ Still(n)
      BY <1>0, <3>1 DEF IInv, Kept, Still
    <3> QED BY <1>0, <3>2, GoodStill
  <2> QED BY <2>1, <2>2 DEF Kept
<1> QED BY <1>2, <1>3, <1>4, <1>5, <1>6 DEF IInv

\* A container that vanishes beside a request marks its name; else, if a row refers to
\* it, its name is lost, and if none does, every row of that name still has its container.
LEMMA VanishKeeps ==
    ASSUME IInv, NEW c \in Container, Vanish(c)
    PROVE  IInv'
<1>0. /\ TypeOK /\ Keyed /\ Present /\ user' = user /\ rows' = rows /\ made' = made
      /\ gen' = gen /\ vol' = vol /\ box' = [box EXCEPT ![c] = "absent"]
      /\ UNCHANGED <<pc, op, who, row, todo, handle, main, requests, shared>>
      /\ raced \subseteq raced' /\ raced' \subseteq raced \cup {c[1]}
      /\ broken' = broken /\ lost \subseteq lost' /\ lost' \subseteq lost \cup {c[1]}
      /\ c[1] \in Name /\ c[2] \in Kind /\ c = <<c[1], c[2]>>
  BY DEF IInv, Vanish, dbVars, local, Container
<1>1. /\ box' \in [Container -> {"absent", "stopped", "running"}]
      /\ \A d \in Container \ {c} : box'[d] = box[d]
      /\ \A p \in Proc : Same(p)
  BY <1>0 DEF TypeOK, Same
<1>2. TypeOK'
  <2>1. faults' \in 0 .. MaxFaults
    BY <1>0, ProvisioningAssumption DEF TypeOK, Vanish, Fault
  <2>2. broken' \subseteq Name /\ lost' \subseteq Name /\ raced' \subseteq Name /\ shared' \subseteq Name
    BY <1>0 DEF TypeOK
  <2> QED BY <1>0, <1>1, <2>1, <2>2 DEF TypeOK
<1>3. Keyed' /\ Apart'
  BY <1>0 DEF IInv, Keyed, CidFits, Apart, Overlap, NamesOf
<1>4. Present'
  BY <1>0, <1>1 DEF Present, TypeOK
<1>5. Twins'
  BY <1>0 DEF IInv, Twins
<1>6. \A n \in Name \ {c[1]} : Still(n)
  BY <1>0, <1>1 DEF Still, Container
<1>7. \A q \in Proc : c[1] \in NamesOf(q) => c[1] \in raced'
  BY DEF Vanish
<1>8. ASSUME NEW q \in Proc
      PROVE  Own(q)'
  <2>1. Same(q) /\ Held(q)' = Held(q) /\ Own(q)
    BY <1>1 DEF Held, Same, IInv
  <2>2. Shape(q)' /\ Known(q)' /\ Copies(q)'
    BY <1>0, <2>1 DEF Own, Same, Shape, Known, Copies, CidFits
  <2>3. \A s \in Proc : Held(s)' = Held(s)
    BY <1>0 DEF Held
  <2>4. Fresh(q)'
    BY <1>0, <2>1, <2>3 DEF Own, Same, Fresh, Unused
  <2>5. Runs(q)'
    <3>1. CASE row[q] = NoRow
      BY <2>1, <2>2, <3>1 DEF Runs, Same, Shape, Late, Making
    <3>2. CASE row[q].name \in raced'
      BY <2>1, <3>2 DEF Runs, Same
    <3>3. CASE row[q] # NoRow /\ row[q].name \notin raced'
      <4>1. row[q].name # c[1]
        BY <1>0, <1>7, <2>1, <3>3, RowFits DEF Own
      <4>2. Still(row[q].name)
        BY <1>0, <1>6, <2>1, <3>3, <4>1, RowFits DEF Own
      <4>3. main[q] # NoId => main[q] \in Id /\ main[q][1] = row[q].name
        BY <1>0, <2>1 DEF TypeOK, Own, Shape
      <4>4. Main8n(row[q]) => row[q].cid \in Id /\ row[q].cid[1] = row[q].name
        BY <1>0, <2>1, <3>3, RowFits DEF Main8n, Own
      <4>5. main[q] # NoId /\ Running(main[q]) => Running(main[q])'
        BY <1>0, <4>2, <4>3, IdHas DEF Still, Running, Exists, IdOf, Named
      <4>6. Main8n(row[q]) /\ Running(row[q].cid) => Running(row[q].cid)'
        BY <1>0, <4>2, <4>4, IdHas DEF Still, Running, Exists, IdOf, Named
      <4> QED BY <1>0, <2>1, <4>5, <4>6 DEF Own, Runs, Main8n
    <3> QED BY <3>1, <3>2, <3>3
  <2> QED BY <2>2, <2>4, <2>5 DEF Own
<1>9. ASSUME NEW n \in Name
      PROVE  Kept(n)'
  <2> SUFFICES ASSUME Clean(n)'
               PROVE  /\ (\A q \in Proc : n \notin NamesOf(q)') => Good(n)'
                      /\ \A q \in Proc : n \in NamesOf(q)' => Work(q, n)'
    BY DEF Kept
  <2>1. Clean(n) /\ Kept(n)
    BY <1>0 DEF Clean, IInv
  <2>2. \A q \in Proc : NamesOf(q)' = NamesOf(q)
    BY <1>0 DEF NamesOf
  <2>3. CASE n # c[1]
    <3>1. Still(n)
      BY <1>6, <2>3
    <3>2. (\A q \in Proc : n \notin NamesOf(q)') => Good(n)'
      BY <1>0, <2>1, <2>2, <3>1, GoodStill DEF Kept
    <3>3. ASSUME NEW q \in Proc, n \in NamesOf(q)'
          PROVE  Work(q, n)'
      <4>1. Work(q, n) /\ Shape(q) /\ Same(q)
        BY <1>1, <2>1, <2>2, <3>3 DEF IInv, Kept, Own
      <4> QED BY <1>0, <3>1, <4>1, WorkStill
    <3> QED BY <3>2, <3>3
  <2>4. CASE n = c[1]
    <3>1. (\A q \in Proc : n \notin NamesOf(q)) /\ Good(n)
      BY <1>7, <2>1, <2>4 DEF Kept, Clean
    <3>2. \A r \in rows : r.cid # IdOf(c)
      BY <2>4 DEF Vanish, Clean
    <3>3. Bare(n) => Bare(n)'
      BY <1>0, <1>1 DEF Bare, TypeOK
    <3>4. ASSUME NEW r \in rows, r.name = n
          PROVE  Fit(r)' /\ (Main8n(r) => (r.status = "RUNNING" <=> box'[<<n, "n8n">>] = "running"))
      <4>1. Fit(r) /\ (Main8n(r) => (r.status = "RUNNING" <=> box[<<n, "n8n">>] = "running"))
        BY <3>1, <3>4 DEF Good
      <4>2. CASE r.cid = Mock
        BY <3>3, <3>4, <4>1, <4>2 DEF Fit, Main8n
      <4>3. CASE r.cid # Mock
        <5>1. r.cid \in Id /\ r.cid[1] = n /\ r.cid[2] \in {"n8n", "api"} /\ Named(r.cid) = <<n, r.cid[2]>>
          BY <1>0, <3>4, <4>3, RowHas, IdHas DEF TypeOK, Keyed, CidFits
        <5>2. Exists(r.cid) /\ (r.cid[2] = "api" => box[<<n, "n8n">>] = "absent")
          BY <3>4, <4>1, <4>3 DEF Fit
        <5>3. Named(r.cid) # c
          BY <3>2, <5>2 DEF Exists
        <5>4. box'[Named(r.cid)] = box[Named(r.cid)]
          BY <1>1, <5>1, <5>3, IdHas
        <5>5. Exists(r.cid)'
          BY <1>0, <5>2, <5>4, <5>1 DEF Exists, IdOf, Named
        <5>6. <<n, "n8n">> \in Container
          BY DEF Container, Kind
        <5>7. box[<<n, "n8n">>] = "absent" => box'[<<n, "n8n">>] = "absent"
          BY <1>1, <1>0, <5>6 DEF TypeOK
        <5>8. Main8n(r) => box'[<<n, "n8n">>] = box[<<n, "n8n">>]
          BY <5>1, <5>4 DEF Main8n
        <5> QED BY <3>4, <4>1, <4>3, <5>2, <5>5, <5>7, <5>8 DEF Fit
      <4> QED BY <4>2, <4>3
    <3>5. Good(n)'
      BY <1>0, <3>1, <3>3, <3>4 DEF Good, Lone, Main8n
    <3> QED BY <2>2, <3>1, <3>5
  <2> QED BY <2>3, <2>4
<1> QED BY <1>2, <1>3, <1>4, <1>5, <1>8, <1>9 DEF IInv

-----------------------------------------------------------------------------
(* Requests that begin *)

\* The row a request makes ready to insert.
NewOne(r) == r.id > made /\ r.id <= made' /\ r.status = "RUNNING" /\ r.cid = Mock

\* What each request starts with.
Entry(o, u, l, r, rest) ==
    \/ l = "list" /\ o \in {"signup", "create"} /\ r # NoRow /\ NewOne(r) /\ rest = {}
    \/ l = "setUser" /\ o = "approve" /\ r # NoRow /\ (r \in rows \/ NewOne(r)) /\ rest = {}
    \/ l = "setUser" /\ o \in {"suspend", "unsuspend"} /\ r = NoRow
    \/ l = "drop" /\ o = "delete" /\ r = NoRow /\ rest = {} /\ RowsOf(u) = {}
    \/ l = "main" /\ o = "delete" /\ r \in rows /\ RowsOf(u) = {r} \cup rest
    \/ l = "main" /\ o \in {"start", "stop", "restart"} /\ r \in rows /\ rest = {}

LEMMA BeginKeeps ==
    ASSUME IInv, Mark, NEW p \in Proc, NEW o \in Ops, NEW u \in User,
           NEW l \in {"list", "setUser", "drop", "main"}, NEW r \in Row \cup {NoRow},
           NEW rest \in SUBSET rows, Start(p, o, u, l, r, rest), Entry(o, u, l, r, rest),
           r # NoRow => r.user = u, \A s \in rest : s.user = u, r \notin rest,
           UNCHANGED <<rows, dockerVars, handle, main, faultVars>>,
           user' \in [User -> {"none", "PENDING", "ACTIVE", "SUSPENDED", "gone"}],
           \A w \in User : user[w] = "gone" => user'[w] = "gone",
           made' \in 0 .. MaxRows, made <= made'
    PROVE  IInv'
<1>0. /\ TypeOK /\ Keyed /\ Present /\ Own(p) /\ Shape(p) /\ rows \subseteq Row /\ Apart
      /\ rows' = rows /\ box' = box /\ gen' = gen /\ vol' = vol /\ main' = main
      /\ handle' = handle /\ pc[p] = "free" /\ requests' = requests + 1 /\ requests < MaxRequests
      /\ made \in Nat /\ made' \in Nat /\ Blame(p) /\ rest \subseteq Row
      /\ \A s \in rows : s.id \in Nat /\ s.id <= made /\ s.id <= made'
  BY RowHas, ProvisioningAssumption
  DEF IInv, TypeOK, Own, dockerVars, Start, Blame, Keyed
<1>1. /\ pc'[p] = l /\ op'[p] = o /\ who'[p] = u /\ row'[p] = r /\ todo'[p] = rest
      /\ \A q \in Proc \ {p} : Same(q)
      /\ pc' \in [Proc -> Steps] /\ op' \in [Proc -> Ops] /\ who' \in [Proc -> User \cup {NoUser}]
      /\ row' \in [Proc -> Row \cup {NoRow}] /\ todo' \in [Proc -> SUBSET Row]
  <2>1. /\ pc' = [pc EXCEPT ![p] = l] /\ op' = [op EXCEPT ![p] = o] /\ who' = [who EXCEPT ![p] = u]
        /\ row' = [row EXCEPT ![p] = r] /\ todo' = [todo EXCEPT ![p] = rest] /\ l \in Steps
    BY DEF Start, Goto, Steps
  <2>2. \A q \in Proc \ {p} : Same(q)
    BY <1>0, <2>1 DEF TypeOK, Same
  <2> QED BY <1>0, <2>1, <2>2 DEF TypeOK
<1>2. Held(p)' = ({r} \cup rest) \ {NoRow} /\ NamesOf(p) = {}
  <2>1. op[p] = "none" /\ row[p] = NoRow /\ todo[p] = {}
    BY <1>0 DEF Shape
  <2>2. NamesOf(p) = {NoRow.name} \cap Name
    BY <2>1 DEF NamesOf
  <2> QED BY <1>1, <2>2, NoRowIs DEF Held
<1>3. \A n \in Name : Still(n)
  BY <1>0 DEF Still
<1>4. \A h \in Held(p)' : h \in rows \/ NewOne(h)
  BY <1>2 DEF Entry
<1>5. Only(p)
  BY <1>0, <1>1, <1>3, <1>4 DEF Only, NewOne
<1>6. TypeOK'
  <2>1. requests' \in 0 .. MaxRequests
    BY <1>0, ProvisioningAssumption DEF TypeOK
  <2> QED BY <1>0, <1>1, <2>1, BlameIs DEF TypeOK
<1>7. Keyed' /\ Present'
  BY <1>0 DEF Keyed, CidFits, Present
<1>8. Shape(p)'
  <2>1. \A h \in Held(p)' : h.user = u /\ CidFits(h)
    BY <1>0, <1>2, <1>4 DEF Keyed, CidFits, NewOne
  <2>2. main[p] = NoId
    BY <1>0 DEF Shape, Late, Making
  <2>3. o # "none" /\ (r = NoRow => l \in {"setUser", "drop"} /\ o \notin New)
    BY <1>0, NoRowIs DEF Entry, New
  <2>4. o \in New \cup {"start", "stop", "restart"} => rest = {}
    BY DEF Entry, New
  <2> QED BY <1>0, <1>1, <1>2, <2>1, <2>2, <2>3, <2>4, NoRowIs
      DEF Shape, Entry, Making, Late, New, Verb
<1>9. Fresh(p)'
  <2>1. ASSUME NewOne(r), r # NoRow
        PROVE  Unused(p)'
    <3>1. r \in Row /\ r.id \in Nat /\ r.id > made
      BY <2>1, RowHas DEF NewOne
    <3>2. \A s \in rows' : s.id # r.id
      BY <1>0, <3>1
    <3>3. \A q \in Proc \ {p} : \A s \in Held(q)' : s.id # r.id
      <4> SUFFICES ASSUME NEW q \in Proc \ {p}, NEW s \in Held(q)'
                   PROVE  s.id # r.id
        OBVIOUS
      <4>1. s \in Held(q) /\ s \in Row
        BY <1>0, <1>1, HeldIs DEF Same, Held
      <4>2. s.id <= made /\ s.id \in Nat
        BY <4>1, RowHas DEF IInv, Own, Known
      <4> QED BY <1>0, <3>1, <4>2
    <3> QED BY <1>1, <2>1, <3>2, <3>3 DEF Unused, NewOne
  <2> QED BY <1>0, <1>1, <2>1 DEF Fresh, Entry, Making, New
<1>10. Copies(p)'
  <2>1. o \notin New => \A h \in Held(p)' : h \in rows
    BY <1>2 DEF Entry, New
  <2>2. o = "approve" => l = "setUser" /\ (r \in rows \/ (NewOne(r) /\ r \in Row))
    BY DEF Entry
  <2>3. r \in Row /\ NewOne(r) => \A s \in rows : s.id # r.id
    BY <1>0, RowHas DEF NewOne
  <2> QED BY <1>0, <1>1, <2>1, <2>2, <2>3 DEF Copies
<1>11. Runs(p)'
  <2>1. main'[p] = NoId /\ pc'[p] \notin {"sideApi", "sideAi", "record"}
    BY <1>0, <1>1 DEF Shape, Late, Making
  <2> QED BY <2>1 DEF Runs
<1>12. Here(p)
  <2> SUFFICES ASSUME NEW n \in Name, Clean(n)', n \in NamesOf(p)'
               PROVE  Work(p, n)'
    BY <1>2 DEF Here
  <2>1. Clean(n)
    BY BlameIs, <1>0 DEF Clean, Grows, Wider
  <2>2. \A q \in Proc : n \notin NamesOf(q)
    <3> SUFFICES ASSUME NEW q \in Proc \ {p}, n \in NamesOf(q) PROVE FALSE
      BY <1>2
    <3>1. n \in NamesOf(q)'
      BY <1>1, <1>3, NamesStill
    <3>2. Overlap(n)'
      BY <3>1 DEF Overlap
    <3> QED BY <3>2 DEF Mark, Clean
  <2>3. Good(n) /\ Good(n)'
    BY <1>0, <1>3, <2>1, <2>2, GoodStill DEF IInv, Kept
  <2>4. r.name = n => Hand(p, n)'
    <3>1. r = NoRow => r.name # n
      BY NoRowIs
    <3>2. l = "list" => o \in New /\ (Lone(n)' => Build(p, n)')
      <4>1. l = "list" => o \in New /\ (Lone(n)' => Bare(n)')
        BY <2>3 DEF Entry, New, Good
      <4> QED BY <1>1, <4>1 DEF Build, Late, Making
    <3> QED BY <1>1, <2>3, <3>1, <3>2 DEF Hand, Making, Entry
  <2>5. o = "delete" => \A s \in RowsOf(u) : s \in Held(p)'
    <3>1. \A s \in RowsOf(u) : s # NoRow
      BY <1>0, NoRowIs DEF RowsOf
    <3> QED BY <1>2, <3>1 DEF Entry
  <2> QED BY <1>0, <1>1, <2>3, <2>4, <2>5 DEF Work, RowsOf
<1> QED BY <1>0, <1>5, <1>6, <1>7, <1>8, <1>9, <1>10, <1>11, <1>12, StepKeeps DEF faultVars

LEMMA NewRowIs ==
    ASSUME TypeOK, NEW u \in User, NEW n \in Name, NEW a \in Apps, made < MaxRows, made' = made + 1
    PROVE  /\ NewRow(made + 1, u, n, a) \in Row /\ NewRow(made + 1, u, n, a) # NoRow
           /\ NewRow(made + 1, u, n, a).user = u /\ NewOne(NewRow(made + 1, u, n, a))
           /\ made' \in 0 .. MaxRows /\ made <= made'
<1>1. made + 1 \in 1 .. MaxRows /\ made + 1 > made /\ made \in Nat /\ made' \in 0 .. MaxRows
  BY ProvisioningAssumption DEF TypeOK
<1>2. NewRow(made + 1, u, n, a) \in Row
  BY <1>1 DEF NewRow, Row
<1> QED BY <1>1, <1>2, NoRowIs DEF NewRow, NewOne

LEMMA SignupKeeps ==
    ASSUME IInv, Mark, NEW p \in Proc, NEW u \in User, Signup(p, u)
    PROVE  IInv'
<1>0. /\ TypeOK /\ user[u] = "none" /\ UNCHANGED <<rows, dockerVars, handle, main, faultVars>>
  BY DEF IInv, Signup
<1>1. CASE /\ user' = [user EXCEPT ![u] = "PENDING"] /\ pc[p] = "free"
           /\ UNCHANGED <<made, pc, local, row, requests>>
  <2>1. /\ user' \in [User -> {"none", "PENDING", "ACTIVE", "SUSPENDED", "gone"}]
        /\ \A w \in User : user[w] = "gone" => user'[w] = "gone"
    BY <1>0, <1>1 DEF TypeOK
  <2>2. /\ made' = made /\ \A q \in Proc : Same(q)
        /\ UNCHANGED <<pc, op, who, row, todo, handle, main>> /\ rows' = rows
    BY <1>0, <1>1 DEF local, Same
  <2>3. Local(p) /\ Held(p)' = Held(p) /\ NamesOf(p)' = NamesOf(p)
    BY <1>0, <2>2 DEF Local, TypeOK, Held, NamesOf
  <2>4. /\ pc[p] = "free" /\ Own(p) /\ NamesOf(p) = {} /\ Shape(p)
    <3>1. pc[p] = "free" /\ Own(p) /\ op[p] = "none" /\ row[p] = NoRow /\ todo[p] = {}
      BY <1>1 DEF IInv, Own, Shape
    <3>2. NamesOf(p) = {NoRow.name} \cap Name
      BY <3>1 DEF NamesOf
    <3> QED BY <3>1, <3>2, NoRowIs DEF Own
  <2>5. Shape(p)' /\ Fresh(p)' /\ Copies(p)' /\ Runs(p)'
    <3>1. /\ pc'[p] = "free" /\ op'[p] = "none" /\ row'[p] = NoRow /\ who'[p] = NoUser /\ todo'[p] = {}
          /\ main'[p] = NoId
      BY <2>2, <2>4 DEF Shape, Late, Making
    <3>2. Held(p)' = {}
      BY <3>1 DEF Held
    <3>3. Shape(p)'
      BY <3>1, <3>2 DEF Shape, Making, Late, New
    <3> QED BY <3>1, <3>2, <3>3 DEF Fresh, Copies, Runs, Making, New
  <2>6. Keyed' /\ rows' \subseteq Row
    BY <2>2 DEF IInv, Keyed, CidFits, TypeOK
  <2>7. Here(p)
    BY <2>3, <2>4 DEF Here
  <2> QED BY <1>0, <1>1, <2>1, <2>2, <2>3, <2>5, <2>6, <2>7, WriteKeeps
<1>2. CASE /\ made < MaxRows /\ made' = made + 1 /\ user' = [user EXCEPT ![u] = "ACTIVE"]
           /\ \E a \in Apps : Start(p, "signup", u, "list", NewRow(made + 1, u, NameOf[u], a), {})
  <2>1. PICK a \in Apps : Start(p, "signup", u, "list", NewRow(made + 1, u, NameOf[u], a), {})
    BY <1>2
  <2>2. /\ user' \in [User -> {"none", "PENDING", "ACTIVE", "SUSPENDED", "gone"}]
        /\ \A w \in User : user[w] = "gone" => user'[w] = "gone"
    BY <1>0, <1>2 DEF TypeOK
  <2>3. NameOf[u] \in Name
    BY ProvisioningAssumption
  <2>4. PICK r \in Row : /\ r = NewRow(made + 1, u, NameOf[u], a) /\ r # NoRow /\ r.user = u
                         /\ NewOne(r) /\ made' \in 0 .. MaxRows /\ made <= made'
    BY <1>0, <1>2, <2>3, NewRowIs
  <2>5. Start(p, "signup", u, "list", r, {}) /\ Entry("signup", u, "list", r, {})
    BY <2>1, <2>4 DEF Entry
  <2> QED BY <1>0, <2>2, <2>4, <2>5, BeginKeeps DEF Ops
<1> QED BY <1>1, <1>2 DEF Signup

LEMMA ApproveKeeps ==
    ASSUME IInv, Mark, NEW p \in Proc, NEW u \in User, Approve(p, u)
    PROVE  IInv'
<1>0. /\ TypeOK /\ UNCHANGED <<rows, dockerVars, handle, main, faultVars>> /\ rows \subseteq Row
      /\ user' \in [User -> {"none", "PENDING", "ACTIVE", "SUSPENDED", "gone"}]
      /\ \A w \in User : user[w] = "gone" => user'[w] = "gone"
  BY DEF IInv, Approve, TypeOK
<1>1. ASSUME NEW r \in RowsOf(u), Start(p, "approve", u, "setUser", r, {}), made' = made
      PROVE  IInv'
  <2>1. r \in rows /\ r \in Row /\ r.user = u /\ r # NoRow
    BY <1>0, NoRowIs DEF RowsOf
  <2>2. Entry("approve", u, "setUser", r, {}) /\ made' \in 0 .. MaxRows /\ made <= made'
    BY <1>0, <1>1, <2>1, ProvisioningAssumption DEF Entry, TypeOK
  <2> QED BY <1>0, <1>1, <2>1, <2>2, BeginKeeps DEF Ops
<1>2. ASSUME made < MaxRows, made' = made + 1, NEW a \in Apps,
             Start(p, "approve", u, "setUser", NewRow(made + 1, u, NameOf[u], a), {})
      PROVE  IInv'
  <2>3. NameOf[u] \in Name
    BY ProvisioningAssumption
  <2>4. PICK r \in Row : /\ r = NewRow(made + 1, u, NameOf[u], a) /\ r # NoRow /\ r.user = u
                         /\ NewOne(r) /\ made' \in 0 .. MaxRows /\ made <= made'
    BY <1>0, <1>2, <2>3, NewRowIs
  <2>5. Start(p, "approve", u, "setUser", r, {}) /\ Entry("approve", u, "setUser", r, {})
    BY <1>2, <2>4 DEF Entry
  <2> QED BY <1>0, <2>4, <2>5, BeginKeeps DEF Ops
<1> QED BY <1>1, <1>2 DEF Approve

LEMMA CreateKeeps ==
    ASSUME IInv, Mark, NEW p \in Proc, NEW u \in User, Create(p, u)
    PROVE  IInv'
<1>0. /\ TypeOK /\ UNCHANGED <<rows, dockerVars, handle, main, faultVars>> /\ rows \subseteq Row
      /\ user' \in [User -> {"none", "PENDING", "ACTIVE", "SUSPENDED", "gone"}]
      /\ \A w \in User : user[w] = "gone" => user'[w] = "gone"
      /\ made < MaxRows /\ made' = made + 1
  BY DEF IInv, Create, TypeOK
<1>1. PICK n \in Name, a \in Apps : Start(p, "create", u, "list", NewRow(made + 1, u, n, a), {})
  BY DEF Create
<1>2. PICK r \in Row : /\ r = NewRow(made + 1, u, n, a) /\ r # NoRow /\ r.user = u
                       /\ NewOne(r) /\ made' \in 0 .. MaxRows /\ made <= made'
  BY <1>0, NewRowIs
<1>3. Start(p, "create", u, "list", r, {}) /\ Entry("create", u, "list", r, {})
  BY <1>1, <1>2 DEF Entry
<1> QED BY <1>0, <1>2, <1>3, BeginKeeps DEF Ops

LEMMA WholeUserKeeps ==
    ASSUME IInv, Mark, NEW p \in Proc, NEW u \in User, WholeUser(p, u)
    PROVE  IInv'
<1>0. /\ TypeOK /\ UNCHANGED <<rows, dockerVars, handle, main, faultVars>> /\ rows \subseteq Row
      /\ user' \in [User -> {"none", "PENDING", "ACTIVE", "SUSPENDED", "gone"}]
      /\ \A w \in User : user[w] = "gone" => user'[w] = "gone"
      /\ made' \in 0 .. MaxRows /\ made <= made'
  BY ProvisioningAssumption DEF IInv, WholeUser, TypeOK, dbVars
<1>1. RowsOf(u) \subseteq rows /\ \A r \in RowsOf(u) : r \in Row /\ r.user = u /\ r # NoRow
  BY <1>0, NoRowIs DEF RowsOf
<1>2. ASSUME NEW o \in {"suspend", "unsuspend"}, Start(p, o, u, "setUser", NoRow, RowsOf(u))
      PROVE  IInv'
  <2>1. Entry(o, u, "setUser", NoRow, RowsOf(u)) /\ NoRow \notin RowsOf(u)
    BY <1>0, <1>1 DEF Entry
  <2> QED BY <1>0, <1>1, <1>2, <2>1, BeginKeeps DEF Ops
<1>3. CASE RowsOf(u) = {} /\ Start(p, "delete", u, "drop", NoRow, {})
  <2>1. Entry("delete", u, "drop", NoRow, {})
    BY <1>3 DEF Entry
  <2> QED BY <1>0, <1>3, <2>1, BeginKeeps DEF Ops
<1>4. ASSUME NEW r \in RowsOf(u), Start(p, "delete", u, "main", r, RowsOf(u) \ {r})
      PROVE  IInv'
  <2>1. Entry("delete", u, "main", r, RowsOf(u) \ {r}) /\ r \notin RowsOf(u) \ {r}
    BY <1>1 DEF Entry
  <2>2. RowsOf(u) \ {r} \in SUBSET rows /\ \A s \in RowsOf(u) \ {r} : s.user = u
    BY <1>1
  <2>3. r \in Row \cup {NoRow} /\ (r # NoRow => r.user = u)
    BY <1>1
  <2> QED BY <1>0, <1>4, <2>1, <2>2, <2>3, BeginKeeps DEF Ops
<1> QED BY <1>2, <1>3, <1>4 DEF WholeUser

LEMMA OneInstanceKeeps ==
    ASSUME IInv, Mark, NEW p \in Proc, NEW r \in rows, OneInstance(p, r)
    PROVE  IInv'
<1>0. /\ TypeOK /\ UNCHANGED <<rows, dockerVars, handle, main, faultVars>> /\ r \in Row
      /\ user' \in [User -> {"none", "PENDING", "ACTIVE", "SUSPENDED", "gone"}]
      /\ \A w \in User : user[w] = "gone" => user'[w] = "gone"
      /\ made' \in 0 .. MaxRows /\ made <= made'
  BY ProvisioningAssumption DEF IInv, OneInstance, TypeOK, dbVars
<1>1. PICK o \in {"start", "stop", "restart"} : Start(p, o, r.user, "main", r, {})
  BY DEF OneInstance
<1>2. PICK u \in User : u = r.user
  BY <1>0, RowHas
<1>3. Start(p, o, u, "main", r, {}) /\ Entry(o, u, "main", r, {}) /\ o \in Ops
  BY <1>1, <1>2 DEF Entry, Ops
<1> QED BY <1>0, <1>2, <1>3, BeginKeeps


-----------------------------------------------------------------------------
(* The invariant, and what it says *)

\* Nothing is there, nobody is at work.
LEMMA InitIs == Init => IInv
<1> SUFFICES ASSUME Init PROVE IInv
  OBVIOUS
<1>1. TypeOK
  BY ProvisioningAssumption DEF Init, TypeOK, Steps, Ops, Kind, Container
<1>2. \A p \in Proc : /\ pc[p] = "free" /\ op[p] = "none" /\ who[p] = NoUser /\ row[p] = NoRow
                      /\ todo[p] = {} /\ main[p] = NoId /\ Held(p) = {} /\ NamesOf(p) = {}
  <2> SUFFICES ASSUME NEW p \in Proc
               PROVE  /\ pc[p] = "free" /\ op[p] = "none" /\ who[p] = NoUser /\ row[p] = NoRow
                      /\ todo[p] = {} /\ main[p] = NoId /\ Held(p) = {} /\ NamesOf(p) = {}
    OBVIOUS
  <2>1. /\ pc[p] = "free" /\ op[p] = "none" /\ who[p] = NoUser /\ row[p] = NoRow
        /\ todo[p] = {} /\ main[p] = NoId
    BY DEF Init
  <2>2. NamesOf(p) = {NoRow.name} \cap Name
    BY <2>1 DEF NamesOf
  <2> QED BY <2>1, <2>2, NoRowIs DEF Held
<1>3. Keyed /\ Twins /\ Present /\ Apart
  BY <1>2 DEF Init, Keyed, Twins, Present, Apart, Overlap
<1>4. \A p \in Proc : Own(p)
  BY <1>2 DEF Own, Shape, Known, Fresh, Copies, Runs, Making, Late, New
<1>5. \A n \in Name : Kept(n)
  <2> SUFFICES ASSUME NEW n \in Name PROVE Good(n)
    BY <1>2 DEF Kept
  <2> QED BY DEF Init, Good, Lone, Bare, Container, Kind
<1> QED BY <1>1, <1>3, <1>4, <1>5 DEF IInv

LEMMA StutterKeeps ==
    ASSUME IInv, UNCHANGED vars
    PROVE  IInv'
<1>1. \A p \in Proc : Own(p)'
  BY DEF vars, IInv, Own, Shape, Known, Fresh, Unused, Copies, Runs, Held, CidFits, Main8n,
         Running, Exists, IdOf, Named
<1>2. \A n \in Name : Kept(n)'
  <2> SUFFICES ASSUME NEW n \in Name PROVE Kept(n)'
    OBVIOUS
  <2>1. /\ \A p \in Proc : Same(p) /\ Shape(p)
        /\ Still(n) /\ Kept(n) /\ (Clean(n)' <=> Clean(n)) /\ TypeOK /\ Keyed
    BY DEF vars, IInv, Same, Still, Clean, Own
  <2>2. \A p \in Proc : n \in NamesOf(p)' <=> n \in NamesOf(p)
    BY <2>1, NamesStill
  <2>3. Good(n) => Good(n)'
    BY <2>1, GoodStill
  <2>4. \A p \in Proc : Work(p, n) => Work(p, n)'
    BY <2>1, WorkStill
  <2> QED BY <2>1, <2>2, <2>3, <2>4 DEF Kept
<1>3. TypeOK' /\ Keyed' /\ Twins' /\ Present' /\ Apart'
  BY DEF vars, IInv, TypeOK, Keyed, CidFits, Twins, Present, Apart, Overlap, NamesOf
<1> QED BY <1>1, <1>2, <1>3 DEF IInv

LEMMA ProgressKeeps ==
    ASSUME IInv, Mark, NEW p \in Proc, Progress(p), UNCHANGED requests
    PROVE  IInv'
<1>1. CASE SetUser(p)     BY <1>1, SetUserKeeps
<1>2. CASE Main(p)        BY <1>2, MainKeeps
<1>3. CASE SideApi(p)     BY <1>3, SideKeeps DEF SideApi
<1>4. CASE SideAi(p)
  <2>1. PICK l \in {"sideVolume", "record"} : l = IF op[p] = "delete" THEN "sideVolume" ELSE "record"
    OBVIOUS
  <2> QED BY <1>4, <2>1, SideKeeps DEF SideAi
<1>5. CASE SideVolume(p)  BY <1>5, SideVolumeKeeps
<1>6. CASE Volume(p)      BY <1>6, VolumeKeeps
<1>7. CASE Record(p)      BY <1>7, RecordKeeps
<1>8. CASE Drop(p)        BY <1>8, DropKeeps
<1>9. CASE List(p)        BY <1>9, ListKeeps
<1>10. CASE MakeN8n(p)    BY <1>10, MakeN8nKeeps
<1>11. CASE BootN8n(p)    BY <1>11, BootN8nKeeps
<1>12. CASE MakeAi(p)     BY <1>12, MakeAiKeeps
<1>13. CASE BootAi(p)     BY <1>13, BootAiKeeps
<1>14. CASE ReuseAi(p)    BY <1>14, ReuseAiKeeps
<1>15. CASE MakeApi(p)    BY <1>15, MakeApiKeeps
<1>16. CASE BootApi(p)    BY <1>16, BootApiKeeps
<1>17. CASE ReuseApi(p)   BY <1>17, ReuseApiKeeps
<1>18. CASE FindApi(p)    BY <1>18, FindApiKeeps
<1>19. CASE Save(p)       BY <1>19, SaveKeeps
<1> QED BY <1>1, <1>2, <1>3, <1>4, <1>5, <1>6, <1>7, <1>8, <1>9, <1>10, <1>11, <1>12, <1>13,
           <1>14, <1>15, <1>16, <1>17, <1>18, <1>19 DEF Progress

\* Every step keeps the invariant.
LEMMA AnyStepKeeps == IInv /\ [Next]_vars => IInv'
<1> SUFFICES ASSUME IInv, [Next]_vars PROVE IInv'
  OBVIOUS
<1>1. CASE UNCHANGED vars
  BY <1>1, StutterKeeps
<1>2. CASE Next
  <2>1. ASSUME Mark, NEW p \in Proc, Begin(p)
        PROVE  IInv'
    BY <2>1, SignupKeeps, ApproveKeeps, CreateKeeps, WholeUserKeeps, OneInstanceKeeps DEF Begin
  <2>2. ASSUME Mark, UNCHANGED requests, NEW p \in Proc, Progress(p) \/ StepFails(p) \/ InspectFails(p)
        PROVE  IInv'
    BY <2>2, ProgressKeeps, StepFailsKeeps, InspectFailsKeeps
  <2>3. ASSUME Mark, UNCHANGED requests, Crash
        PROVE  IInv'
    BY <2>3, CrashKeeps
  <2>4. ASSUME NEW c \in Container, Vanish(c)
        PROVE  IInv'
    BY <2>4, VanishKeeps
  <2> QED BY <1>2, <2>1, <2>2, <2>3, <2>4 DEF Next
<1> QED BY <1>1, <1>2

\* Whatever requests, failures and bounds: a user's rows, the copies requests work
\* on and the containers stay in step as IInv says.
THEOREM Inductive == Spec => []IInv
BY InitIs, AnyStepKeeps, PTL DEF Spec

\* Of requests, rows and containers nothing leaves its domain (Provisioning.TypeOK).
THEOREM TypeCorrect == Spec => []TypeOK
BY Inductive, PTL DEF IInv

\* A settled name is good: the last request on it has left its row and its
\* containers in agreement.
LEMMA SettledIs ==
    ASSUME IInv, NEW n \in Name, Settled(n)
    PROVE  Good(n)
BY DEF IInv, Settled, Kept, Clean

\* A row of a settled name says RUNNING exactly when its n8n container runs: the order
\* of docker call and status update in every handler of routes/instances.ts and
\* routes/users.ts keeps them together.
THEOREM StatusesAgree == Spec => []StatusAgrees
<1>1. IInv => StatusAgrees
  <2> SUFFICES ASSUME IInv, NEW r \in rows, Settled(r.name), Main8n(r)
               PROVE  r.status = "RUNNING" <=> Running(r.cid)
    BY DEF StatusAgrees
  <2>1. r \in Row /\ r.name \in Name /\ CidFits(r)
    BY RowHas DEF IInv, TypeOK, Keyed
  <2>2. Fit(r) /\ (r.status = "RUNNING" <=> box[<<r.name, "n8n">>] = "running")
    BY <2>1, SettledIs DEF Good
  <2>3. r.cid \in Id /\ r.cid[1] = r.name /\ r.cid[2] = "n8n"
    BY <2>1, RowHas DEF Main8n, CidFits
  <2> QED BY <2>2, <2>3, ExistsIs, RunningIs DEF Fit, Main8n
<1> QED BY <1>1, Inductive, PTL

\* The n8n and api containers of a settled name belong to a row: deleteInstance and
\* createInstance leave none behind, for a name too whose n8n container has vanished
\* and has been made again by a start or a restart.
THEOREM NothingOrphaned == Spec => []NoOrphan
<1>1. IInv => NoOrphan
  <2> SUFFICES ASSUME IInv, NEW n \in Name, NEW k \in {"n8n", "api"}, Settled(n),
                      box[<<n, k>>] # "absent", \A r \in rows : r.name # n
               PROVE  FALSE
    BY DEF NoOrphan
  <2> QED BY SettledIs DEF Good, Lone, Bare
<1> QED BY <1>1, Inductive, PTL

\* The row UPDATE instances SET status leaves.
LEMMA RecordRuns ==
    ASSUME IInv, Mark, NEW p \in Proc, Record(p), NEW r \in rows' \ rows, r.status = "RUNNING",
           Main8n(r), r.name \notin raced'
    PROVE  Running(r.cid)'
<1>0. /\ TypeOK /\ Keyed /\ Own(p) /\ Shape(p) /\ pc[p] = "record" /\ row[p] # NoRow
      /\ op[p] \in DOMAIN Verb /\ op[p] # "delete" /\ box' = box /\ gen' = gen /\ made' = made
      /\ RowThere(p)
  BY DEF IInv, Own, Record, Shape, dockerVars
<1>1. row[p] \in Row /\ row[p].name \in Name
  BY <1>0, RowFits
<1>2. PICK s \in rows : s = (CHOOSE x \in rows : x.id = row[p].id) /\ s.id = row[p].id
  BY <1>0 DEF RowThere
<1>3. UpdateRow(p, s.cid, IF Verb[op[p]] = "stop" THEN "STOPPED" ELSE "RUNNING")
  BY <1>0, <1>2 DEF Record
<1>4. s \in Row /\ s.cid \in Id \cup {Mock} /\ s.name = row[p].name /\ CidFits(s)
  BY <1>0, <1>2, RowHas, HeldIs DEF TypeOK, Keyed, Own, Known
<1>5. PICK st \in {"RUNNING", "STOPPED"} : st = IF Verb[op[p]] = "stop" THEN "STOPPED" ELSE "RUNNING"
  OBVIOUS
<1>6. Updated(p, s.cid, st)
  BY <1>0, <1>3, <1>4, <1>5, UpdateRowIs DEF CidFits
<1>7. r.name = row[p].name /\ r.cid = s.cid /\ r.status = st
  BY <1>6 DEF Updated
<1>8. row[p] \in rows
  BY <1>0, <1>1, <1>7, InTable DEF Mark
<1>9. s = row[p]
  BY <1>0, <1>2, <1>8 DEF Keyed
<1>10. Verb[op[p]] \in {"start", "restart"}
  BY <1>0, <1>5, <1>7, VerbIs
<1>11. Running(row[p].cid)
  BY <1>0, <1>7, <1>9, <1>10 DEF Own, Runs, Main8n, Mark
<1> QED BY <1>0, <1>7, <1>9, <1>11 DEF Running, Exists, IdOf, Named

\* The row createInstance inserts or makes refer to its container.
LEMMA SaveRuns ==
    ASSUME IInv, Mark, NEW p \in Proc, Save(p), NEW r \in rows' \ rows, Main8n(r),
           r.name \notin raced'
    PROVE  Running(r.cid)'
<1>0. /\ TypeOK /\ Keyed /\ Own(p) /\ Shape(p) /\ pc[p] = "save" /\ row[p] \in Row
      /\ made' = made /\ row[p] # NoRow
  BY MakingHas, NoRowIs DEF IInv, Save, Making
<1>1. PICK m \in Id \cup {NoId} : m = main[p] /\ (m # NoId => m[1] = row[p].name /\ m[2] \in {"n8n", "api"})
  BY <1>0 DEF TypeOK, Shape
<1>2. PICK c \in Id \cup {Mock} : /\ c = ContainerId(p) /\ (c # Mock => c = main[p] /\ c # NoId)
                                  /\ c # Mock => c[1] = row[p].name /\ c[2] \in {"n8n", "api"}
  BY <1>1, IdHas DEF ContainerId
<1>3. UNCHANGED dockerVars /\ r.name = row[p].name /\ r.cid = c
  <2>1. CASE rows' = rows \cup {[row[p] EXCEPT !.cid = ContainerId(p)]} /\ UNCHANGED dockerVars
    <3> DEFINE h == row[p]
    <3>1. h \in Row
      BY <1>0
    <3> HIDE DEF h
    <3>2. [h EXCEPT !.cid = c].name = h.name /\ [h EXCEPT !.cid = c].cid = c
      BY <3>1 DEF Row
    <3>3. r = [h EXCEPT !.cid = c]
      BY <1>2, <2>1 DEF h
    <3> QED BY <2>1, <3>2, <3>3 DEF h
  <2>2. CASE RowThere(p) /\ UpdateRow(p, ContainerId(p), "RUNNING") /\ UNCHANGED dockerVars
    <3>1. Updated(p, c, "RUNNING")
      BY <1>0, <1>2, <2>2, UpdateRowIs
    <3> QED BY <2>2, <3>1 DEF Updated
  <2> QED BY <2>1, <2>2 DEF Save
<1>4. c # Mock /\ c[2] = "n8n"
  BY <1>3 DEF Main8n
<1>5. Running(main[p])
  BY <1>0, <1>2, <1>3, <1>4 DEF Own, Runs, Mark
<1> QED BY <1>2, <1>3, <1>4, <1>5 DEF Running, Exists, IdOf, Named, dockerVars

\* A row turns RUNNING with an n8n container that runs, unless two requests, or one and
\* a removal by hand, were on its name: whatever earlier failures have left is mended
\* before the row is written.
THEOREM ProvisionedRun == Spec => ProvisionedRuns
<1> DEFINE Turned == \A r \in rows' \ rows :
              r.status = "RUNNING" /\ Main8n(r) => Running(r.cid)' \/ r.name \in raced'
<1>1. IInv /\ [Next]_vars => [Turned]_vars
  <2> SUFFICES ASSUME IInv, Next, NEW r \in rows' \ rows, r.status = "RUNNING", Main8n(r),
                      r.name \notin raced'
               PROVE  Running(r.cid)'
    BY DEF Main8n
  <2>0. rows' # rows /\ ~(rows' \subseteq rows)
    OBVIOUS
  <2>1. ASSUME NEW p \in Proc, Begin(p)
        PROVE  FALSE
    BY <2>0, <2>1 DEF Begin, Signup, Approve, Create, WholeUser, OneInstance, dbVars
  <2>2. ASSUME NEW p \in Proc, StepFails(p) \/ InspectFails(p)
        PROVE  FALSE
    BY <2>0, <2>2 DEF StepFails, InspectFails, dbVars
  <2>3. ASSUME Crash \/ \E c \in Container : Vanish(c)
        PROVE  FALSE
    BY <2>0, <2>3 DEF Crash, Vanish, dbVars
  <2>4. ASSUME NEW p \in Proc, Progress(p)
        PROVE  Record(p) \/ Save(p)
    BY <2>0, <2>4
    DEF Progress, SetUser, Main, SideApi, SideAi, Side, SideVolume, Volume, Drop, List, MakeN8n,
        BootN8n, MakeAi, MakeApi, MakeTenant, BootAi, BootApi, ReuseAi, ReuseApi, Reuse, FindApi,
        dbVars
  <2>5. PICK p \in Proc : Record(p) \/ Save(p)
    BY <2>1, <2>2, <2>3, <2>4 DEF Next
  <2>6. Mark
    BY <2>0 DEF Next, Vanish, dbVars
  <2> QED BY <2>5, <2>6, RecordRuns, SaveRuns
<1> QED BY <1>1, Inductive, PTL DEF Spec, ProvisionedRuns

=============================================================================
