---------------------------- MODULE Sessions_proofs ----------------------------
(* Proofs about Sessions: what ended stays ended, a session goes on with one     *)
(* token, and the second factor works, for any users, devices, overlapping       *)
(* requests and bounds.                                                          *)
EXTENDS Sessions, FiniteSetTheorems, SequenceTheorems, TLAPS

Account == [status : {"none", "unverified", "verified"}, subscribed : BOOLEAN, password : Nat,
            fails : Nat, locked : BOOLEAN, reset : BOOLEAN, enabled : BOOLEAN,
            secret : Secret \cup {NoSecret}, temp : Secret \cup {NoSecret}, fails2 : Nat]
TokenRow == [user : User, family : Token, password : Nat]
Issued == DOMAIN issued
Request0 == [at : Steps, user : User \cup {NoUser}, dev : Device \cup {NoDevice},
             given : {0} \cup Issued, got : {0} \cup Issued,
             seen : Account, good : BOOLEAN, crossed : BOOLEAN]

\* Types without the bounds of the counters, and what a step knows of its request.
Forms ==
    /\ acct \in [User -> Account] /\ issued \in Seq(TokenRow)
    /\ live \subseteq Issued /\ stale \subseteq live /\ ended \subseteq Issued
    /\ cookie \in [Device -> {0} \cup Issued]
    /\ req \in [Proc -> Request0]
    /\ \A p \in Proc :
        /\ req[p].at # "free" => req[p].user \in User
        /\ req[p].given # 0 => req[p].at \in {"rotate", "insert", "respond", "drop", "dropFamily"}
        /\ req[p].at \in {"rotate", "drop", "dropFamily"} => req[p].given # 0
        /\ req[p].got # 0 <=> req[p].at = "respond"
        /\ req[p].at \in {"compare", "backup", "count", "insert"} \/ req[p].given # 0 \/ req[p].got # 0 =>
              req[p].dev \in Device

\* The tokens of a family are those of one sign-in.
FamiliesAgree == \A t \in Issued : Family(t) \in Issued /\ issued[Family(t)] = issued[t]

\* A browser has a token, or one of its requests was given or has got it.
Holds(d, t) == cookie[d] = t \/ \E p \in Proc : req[p].dev = d /\ t \in {req[p].given, req[p].got}

\* A family stays with one browser.
OwnDevice ==
    \A d, e \in Device, s, t \in Issued : Holds(d, s) /\ Holds(e, t) /\ Family(s) = Family(t) => d = e

\* Nobody else has the token a response still brings.
FreshAt(p) == req[p].at = "respond" =>
    /\ \A d \in Device : cookie[d] # req[p].got
    /\ \A q \in Proc : req[q].given # req[p].got /\ (q # p => req[q].got # req[p].got)

\* A refresh gets a token of the family it was given one of.
GotAt(p) == req[p].at = "respond" /\ req[p].given # 0 => Family(req[p].got) = Family(req[p].given)

Refreshes(p) == req[p].at \in {"rotate", "insert", "respond"} /\ req[p].given # 0
FamilyAt(p) == Family(req[p].given)
Over(f) == f \in ended \cup frayed

\* A family has one live token, and one refresh at a time, which has none between
\* its two statements.
OneLive == \A s, t \in live : Family(s) = Family(t) /\ Family(s) \notin frayed => s = t
OneRefresh == \A p, q \in Proc :
    Refreshes(p) /\ Refreshes(q) /\ FamilyAt(p) = FamilyAt(q) /\ FamilyAt(p) \notin frayed => p = q
NoneAt(p) == req[p].at = "insert" /\ req[p].given # 0 /\ FamilyAt(p) \notin frayed =>
    \A t \in live : Family(t) # FamilyAt(p)

\* The token a request is about to delete or to hand out is live, or its family
\* is over.
TokenAt(p) ==
    /\ req[p].at = "rotate" => req[p].given \in live \/ Over(FamilyAt(p))
    /\ req[p].at = "respond" => req[p].got \in live \/ Over(Family(req[p].got))
    /\ req[p].at = "drop" => req[p].given \in stale \/ Over(FamilyAt(p))

\* An expired token is not refreshed beside its removal.
DropAlone == \A p, q \in Proc :
    req[p].at = "drop" /\ req[q].at = "rotate" /\ req[q].given = req[p].given => FamilyAt(p) \in frayed

\* A browser without a live token has lost its family, or is getting another.
CookieAt(d) == cookie[d] # 0 =>
    \/ cookie[d] \in live \/ Over(Family(cookie[d]))
    \/ \E p \in Proc : /\ req[p].at \in {"insert", "respond"} /\ req[p].given # 0
                       /\ FamilyAt(p) = Family(cookie[d])

\* A token in use is of a family that goes on, under the password of its user or
\* beside the reset that will delete it.
Good(t) == Family(t) \notin frayed =>
    /\ Family(t) \notin ended
    /\ \/ issued[t].password = acct[issued[t].user].password
       \/ \E p \in Proc : req[p].at = "purge" /\ req[p].user = issued[t].user

GoodTokens == (\A t \in live : Good(t)) /\ \A p \in Proc : Refreshes(p) => Good(req[p].given)

\* A verification of the second factor that nothing crossed knows the secret.
ProvesAt(p) == req[p].at = "enable" =>
    /\ req[p].seen.temp # NoSecret
    /\ ~req[p].crossed => req[p].seen.temp = acct[req[p].user].temp

\* The inductive invariant: about tokens, and about second factors.
Tokens ==
    /\ FamiliesAgree /\ OwnDevice /\ OneLive /\ OneRefresh /\ DropAlone /\ GoodTokens
    /\ \A p \in Proc : GotAt(p) /\ FreshAt(p) /\ NoneAt(p) /\ TokenAt(p)
    /\ \A d \in Device : CookieAt(d)
Factors ==
    /\ confirmed \in [User -> Secret \cup {NoSecret}]
    /\ (\A p \in Proc : ProvesAt(p)) /\ SecondFactorWorks
IInv == Forms /\ Tokens /\ Factors

-----------------------------------------------------------------------------
\* Fields of requests and rows of tokens have their types.
LEMMA RequestTypes ==
    ASSUME Forms, NEW p \in Proc
    PROVE  /\ req[p] \in Request0 /\ req[p].at \in Steps /\ req[p].given \in {0} \cup Issued
           /\ req[p].got \in {0} \cup Issued /\ req[p].seen \in Account
           /\ req[p].given # 0 => req[p].given \in Issued
           /\ req[p].got # 0 => req[p].got \in Issued
BY DEF Forms, Request0

LEMMA TokenTypes ==
    ASSUME Forms, NEW t \in Issued
    PROVE  /\ issued[t] \in TokenRow /\ Family(t) = issued[t].family /\ Family(t) \in Token
           /\ issued[t].user \in User /\ issued[t].password \in Nat /\ t \in Nat /\ t # 0
           /\ Issued = 1 .. Len(issued) /\ Len(issued) \in Nat
<1>1. issued \in Seq(TokenRow)
  BY DEF Forms
<1>2. Len(issued) \in Nat /\ Issued = 1 .. Len(issued) /\ issued[t] \in TokenRow
  BY <1>1 DEF Issued
<1> QED
  BY <1>2 DEF TokenRow, Family

\* Before the first request nobody has a token.
LEMMA IInvInit == Init => IInv
<1> SUFFICES ASSUME Init PROVE IInv
  OBVIOUS
<1>1. /\ issued = <<>> /\ live = {} /\ stale = {} /\ ended = {}
      /\ (\A p \in Proc : req[p] = Idle) /\ (\A d \in Device : cookie[d] = 0)
  BY DEF Init
<1>2. NewRow \in Account /\ [NewRow EXCEPT !.status = "verified", !.subscribed = TRUE] \in Account
  BY DEF NewRow, Account
<1>3. acct \in [User -> Account] /\ \A u \in User : acct[u].enabled = FALSE
  <2>1. NewRow.enabled = FALSE /\ [NewRow EXCEPT !.status = "verified", !.subscribed = TRUE].enabled = FALSE
    BY DEF NewRow
  <2> QED
    BY <1>2, <2>1 DEF Init
<1>4. Issued = {}
  BY <1>1 DEF Issued
<1>5. Idle \in Request0
  BY <1>2 DEF Idle, Request0, Steps
<1>6. Forms
  <2>1. issued \in Seq(TokenRow)
    BY <1>1
  <2>2. cookie \in [Device -> {0} \cup Issued] /\ req \in [Proc -> Request0]
    BY <1>5 DEF Init
  <2> QED
    BY <1>1, <1>3, <2>1, <2>2 DEF Forms, Idle
<1>7. Tokens
  <2>1. \A p \in Proc : req[p].at = "free" /\ req[p].given = 0 /\ req[p].got = 0
    BY <1>1 DEF Idle
  <2> QED
    BY <1>1, <1>4, <2>1 DEF Tokens, FamiliesAgree, OwnDevice, OneLive, OneRefresh, DropAlone, GoodTokens,
        GotAt, FreshAt, NoneAt, TokenAt, CookieAt, Refreshes
<1>8. Factors
  BY <1>1, <1>3 DEF Factors, ProvesAt, SecondFactorWorks, Idle, Init
<1> QED
  BY <1>6, <1>7, <1>8 DEF IInv

\* A step that touches no token, no password and no request about tokens.
Keeps(p) ==
    /\ req'[p].given = req[p].given /\ req'[p].got = req[p].got
    /\ req[p].given # 0 \/ req[p].got # 0 => req'[p].at = req[p].at /\ req'[p].dev = req[p].dev
    /\ req[p].at = "purge" => req'[p].at = "purge" /\ req'[p].user = req[p].user

LEMMA TokensKept ==
    ASSUME Forms, Tokens, Forms', UNCHANGED <<issued, live, cookie, ended, frayed>>,
           stale \subseteq stale',
           \A u \in User : \/ acct'[u].password = acct[u].password
                          \/ \E p \in Proc : req'[p].at = "purge" /\ req'[p].user = u,
           \A p \in Proc : Keeps(p)
    PROVE  Tokens'
<1>1. Issued' = Issued /\ \A t : Family(t)' = Family(t)
  BY DEF Issued, Family
<1>2. \A d \in Device, t \in Issued : Holds(d, t)' => Holds(d, t)
  <2> SUFFICES ASSUME NEW d \in Device, NEW t \in Issued, cookie[d] # t,
                      NEW p \in Proc, req'[p].dev = d, t \in {req'[p].given, req'[p].got}
               PROVE  Holds(d, t)
    BY DEF Holds
  <2>1. t # 0
    BY TokenTypes
  <2> QED
    BY <2>1 DEF Holds, Keeps
<1>3. \A p \in Proc : /\ Refreshes(p)' <=> Refreshes(p)
                      /\ FamilyAt(p)' = FamilyAt(p)
                      /\ req'[p].given = req[p].given /\ req'[p].got = req[p].got
                      /\ \A at \in {"respond", "rotate", "drop"} : req'[p].at = at <=> req[p].at = at
                      /\ req[p].given # 0 => req'[p].at = req[p].at
  BY <1>1 DEF Keeps, Forms, Refreshes, FamilyAt
<1>4. FamiliesAgree' /\ OwnDevice' /\ OneLive'
  BY <1>1, <1>2 DEF Tokens, FamiliesAgree, OwnDevice, OneLive
<1>5. OneRefresh' /\ DropAlone'
  BY <1>1, <1>3 DEF Tokens, OneRefresh, DropAlone
<1>6. \A p \in Proc : GotAt(p)' /\ FreshAt(p)' /\ NoneAt(p)' /\ TokenAt(p)'
  BY <1>1, <1>3 DEF Tokens, GotAt, FreshAt, NoneAt, TokenAt, Over
<1>7. \A d \in Device : CookieAt(d)'
  BY <1>1, <1>3 DEF Tokens, CookieAt, Over
<1>8. GoodTokens'
  <2>1. ASSUME NEW t \in Issued, Good(t) PROVE Good(t)'
    <3>1. issued[t].user \in User
      BY TokenTypes
    <3> QED
      BY <1>1, <2>1, <3>1 DEF Good, Keeps
  <2>2. \A p \in Proc : Refreshes(p) => req[p].given \in Issued
    BY RequestTypes DEF Refreshes
  <2> QED
    BY <1>3, <2>1, <2>2 DEF Tokens, GoodTokens, Forms
<1> QED
  BY <1>4, <1>5, <1>6, <1>7, <1>8 DEF Tokens

-----------------------------------------------------------------------------
\* Tokens ts are deleted and the families fs end, at the hands of requests ps.
EndsTokens(ps, ts, fs) ==
    /\ issued' = issued /\ live' = live \ ts /\ stale' = stale \ ts /\ ended' = ended \cup fs
    /\ frayed' = frayed \cup {f \in fs : Refreshing(f, ps)}
    /\ \A d \in Device : cookie'[d] \in {0, cookie[d]}
    /\ \A p \in Proc \ ps : req'[p] = req[p]
    /\ \A p \in ps : req'[p] = Idle /\ ~Refreshes(p) /\ req[p].at # "respond"
    /\ \A u \in User : acct'[u].password = acct[u].password
    /\ \A t \in live \cap ts : Family(t) \in fs
    /\ \A t \in live \ ts : Family(t) \in fs => Family(t) \in frayed'
    /\ \A p \in ps : req[p].at = "purge" =>
            \A t \in Issued : issued[t].user = req[p].user => Family(t) \in fs

LEMMA TokensEnd ==
    ASSUME Forms, Tokens, Forms', NEW ps \in SUBSET Proc, NEW ts, NEW fs \in SUBSET Issued,
           EndsTokens(ps, ts, fs)
    PROVE  Tokens'
<1> USE DEF EndsTokens
<1>1. Issued' = Issued /\ (\A t : Family(t)' = Family(t)) /\ live' \subseteq live /\ ended \subseteq ended' /\ frayed \subseteq frayed'
  BY DEF Issued, Family
<1>2. \A p \in ps : req'[p].at = "free" /\ req'[p].given = 0 /\ req'[p].got = 0
  BY DEF Idle
<1>3. \A p \in Proc : /\ Refreshes(p)' => Refreshes(p) /\ req'[p] = req[p] /\ FamilyAt(p)' = FamilyAt(p)
                      /\ req'[p].at # "free" => req'[p] = req[p]
  BY <1>1, <1>2 DEF Refreshes, FamilyAt
<1>4. \A f \in fs, p \in Proc : Refreshes(p) /\ FamilyAt(p) = f => f \in frayed'
  BY DEF Refreshing, Refreshes, FamilyAt
<1>5. \A d \in Device, t \in Issued : Holds(d, t)' => Holds(d, t)
  <2> SUFFICES ASSUME NEW d \in Device, NEW t \in Issued, cookie[d] # t, Holds(d, t)'
               PROVE  Holds(d, t)
    BY DEF Holds
  <2>1. t # 0
    BY TokenTypes
  <2>2. PICK p \in Proc : req'[p].dev = d /\ t \in {req'[p].given, req'[p].got}
    BY <2>1 DEF Holds
  <2>3. p \notin ps
    BY <1>2, <2>1, <2>2
  <2> QED
    BY <2>2, <2>3 DEF Holds
<1>6. FamiliesAgree' /\ OwnDevice' /\ OneLive'
  BY <1>1, <1>5 DEF Tokens, FamiliesAgree, OwnDevice, OneLive
<1>7. OneRefresh'
  BY <1>1, <1>3 DEF Tokens, OneRefresh
<1>8. DropAlone'
  BY <1>1, <1>2 DEF Tokens, DropAlone, FamilyAt
<1>9. ASSUME NEW p \in Proc PROVE GotAt(p)' /\ FreshAt(p)' /\ NoneAt(p)' /\ TokenAt(p)'
  <2>0. GotAt(p)'
    BY <1>1, <1>3 DEF Tokens, GotAt
  <2>1. FreshAt(p)'
    <3> SUFFICES ASSUME req'[p].at = "respond" PROVE FreshAt(p)'
      BY DEF FreshAt
    <3>1. req'[p] = req[p] /\ req[p].got # 0
      BY <1>3 DEF Forms
    <3>2. \A q \in Proc : req'[q].given \in {0, req[q].given} /\ req'[q].got \in {0, req[q].got}
      BY <1>2
    <3> QED
      BY <3>1, <3>2 DEF Tokens, FreshAt
  <2>2. NoneAt(p)'
    BY <1>1, <1>3 DEF Tokens, NoneAt, FamilyAt
  <2>3. TokenAt(p)'
    <3> SUFFICES ASSUME req'[p] = req[p] PROVE TokenAt(p)'
      BY <1>3 DEF TokenAt
    <3>1. \A t \in Issued : t \in live => t \in live' \/ Over(Family(t))'
      BY <1>1 DEF Over
    <3>2. \A t \in Issued : t \in stale => t \in stale' \/ Over(Family(t))'
      BY <1>1 DEF Over, Forms
    <3>3. \A f : Over(f) => Over(f)'
      BY <1>1 DEF Over
    <3>4. /\ req[p].at \in {"rotate", "drop"} => req[p].given \in Issued /\ FamilyAt(p)' = FamilyAt(p)
          /\ req[p].at = "respond" => req[p].got \in Issued
      BY <1>1, RequestTypes DEF FamilyAt, Forms
    <3> QED
      BY <1>1, <3>1, <3>2, <3>3, <3>4 DEF Tokens, TokenAt, FamilyAt
  <2> QED
    BY <2>0, <2>1, <2>2, <2>3
<1>10. ASSUME NEW d \in Device PROVE CookieAt(d)'
  <2> SUFFICES ASSUME cookie'[d] = cookie[d], cookie[d] # 0 PROVE CookieAt(d)'
    BY DEF CookieAt
  <2>1. cookie[d] \in Issued
    BY DEF Forms
  <2>2. CASE cookie[d] \in live \/ Over(Family(cookie[d]))
    BY <1>1, <2>1, <2>2 DEF CookieAt, Over
  <2>3. CASE ~(cookie[d] \in live \/ Over(Family(cookie[d])))
    <3>1. PICK p \in Proc : req[p].at \in {"insert", "respond"} /\ req[p].given # 0 /\ FamilyAt(p) = Family(cookie[d])
      BY <2>3 DEF Tokens, CookieAt
    <3>2. Refreshes(p) /\ p \notin ps
      BY <3>1 DEF Refreshes
    <3> QED
      BY <1>1, <3>1, <3>2 DEF CookieAt, FamilyAt
  <2> QED
    BY <2>2, <2>3
<1>11. GoodTokens'
  <2>1. ASSUME NEW t \in Issued, Good(t), Family(t) \in fs => Family(t) \in frayed' PROVE Good(t)'
    <3> SUFFICES ASSUME Family(t) \notin frayed' PROVE Good(t)'
      BY <1>1 DEF Good
    <3>1. Family(t) \notin fs /\ Family(t) \notin frayed
      BY <1>1, <2>1
    <3>2. Family(t) \notin ended'
      BY <2>1, <3>1 DEF Good
    <3>3. issued[t].user \in User
      BY TokenTypes
    <3>4. ASSUME NEW p \in Proc, req[p].at = "purge", req[p].user = issued[t].user PROVE req'[p] = req[p]
      BY <3>1, <3>4
    <3> QED
      BY <1>1, <2>1, <3>1, <3>2, <3>3, <3>4 DEF Good
  <2>2. ASSUME NEW t \in live' PROVE Good(t)'
    BY <1>1, <2>1, <2>2 DEF Tokens, GoodTokens, Forms
  <2>3. ASSUME NEW p \in Proc, Refreshes(p)' PROVE Good(req[p].given)'
    <3>1. Refreshes(p) /\ req'[p] = req[p] /\ req[p].given \in Issued
      BY <1>3, <2>3, RequestTypes DEF Refreshes
    <3> QED
      BY <1>4, <2>1, <3>1 DEF Tokens, GoodTokens, FamilyAt
  <2> QED
    BY <1>3, <2>2, <2>3 DEF GoodTokens
<1> QED
  BY <1>6, <1>7, <1>8, <1>9, <1>10, <1>11 DEF Tokens

-----------------------------------------------------------------------------
\* A request that ends leaves the others, and the types, as they are.
LEMMA Ended ==
    ASSUME Forms, NEW p \in Proc, End(p), UNCHANGED issued
    PROVE  /\ req'[p] = Idle /\ (\A q \in Proc \ {p} : req'[q] = req[q])
           /\ req' \in [Proc -> Request0'] /\ Issued' = Issued
           /\ \A q \in Proc : req'[q] = Idle \/ req'[q] = req[q]
<1>1. Issued' = Issued /\ Request0' = Request0
  BY DEF Issued, Request0
<1>2. NewRow \in Account
  BY DEF NewRow, Account
<1>3. Idle \in Request0
  BY <1>2 DEF Idle, Request0, Steps
<1> QED
  BY <1>1, <1>3 DEF End, Forms

\* So do deletions, whoever makes them.
LEMMA DeletesForms ==
    ASSUME Forms, NEW ts, NEW fs \in SUBSET Issued, Delete(ts), ended' = ended \cup fs,
           \A d \in Device : cookie'[d] \in {0, cookie[d]}, cookie' \in [Device -> {0} \cup Issued],
           req' \in [Proc -> Request0'], \A q \in Proc : req'[q] = Idle \/ req'[q] = req[q]
    PROVE  Forms'
<1>1. Issued' = Issued /\ UNCHANGED <<acct, issued>>
  BY DEF Issued, Delete
<1>2. live' \subseteq Issued /\ stale' \subseteq live' /\ ended' \subseteq Issued
  BY DEF Delete, Forms
<1>3. \A q \in Proc : req'[q] = Idle =>
         req'[q].at = "free" /\ req'[q].given = 0 /\ req'[q].got = 0
  BY DEF Idle
<1> QED
  BY <1>1, <1>2, <1>3 DEF Forms

\* Deletions by a request that ends with them.
LEMMA RequestDeletes ==
    ASSUME Forms, Tokens, NEW p \in Proc, End(p), NEW ts, Delete(ts),
           NEW fs \in SUBSET Issued, EndFamilies({p}, fs),
           \A d \in Device : cookie'[d] \in {0, cookie[d]}, cookie' \in [Device -> {0} \cup Issued],
           ~Refreshes(p), req[p].at # "respond",
           \A t \in live \cap ts : Family(t) \in fs,
           \A t \in live \ ts : Family(t) \in fs => Family(t) \in frayed',
           req[p].at = "purge" => \A t \in Issued : issued[t].user = req[p].user => Family(t) \in fs
    PROVE  Forms' /\ Tokens'
<1>1. /\ UNCHANGED <<acct, issued>> /\ live' = live \ ts /\ stale' = stale \ ts
      /\ ended' = ended \cup fs /\ frayed' = frayed \cup {f \in fs : Refreshing(f, {p})}
  BY DEF Delete, EndFamilies
<1>2. /\ req'[p] = Idle /\ (\A q \in Proc \ {p} : req'[q] = req[q])
      /\ req' \in [Proc -> Request0'] /\ \A q \in Proc : req'[q] = Idle \/ req'[q] = req[q]
  BY <1>1, Ended
<1>3. Forms'
  BY <1>1, <1>2, DeletesForms
<1>4. {p} \in SUBSET Proc /\ \A q \in {p} : /\ req'[q] = Idle /\ ~Refreshes(q) /\ req[q].at # "respond"
                                        /\ req[q].at = "purge" =>
                                              \A t \in Issued : issued[t].user = req[q].user => Family(t) \in fs
  BY <1>2
<1> DEFINE ps == {p}
<1>5. /\ ps \in SUBSET Proc /\ \A q \in Proc \ ps : req'[q] = req[q]
      /\ \A q \in ps : req'[q] = Idle /\ ~Refreshes(q) /\ req[q].at # "respond"
      /\ \A q \in ps : req[q].at = "purge" =>
              \A t \in Issued : issued[t].user = req[q].user => Family(t) \in fs
      /\ frayed' = frayed \cup {f \in fs : Refreshing(f, ps)}
  BY <1>1, <1>2, <1>4
<1>6. \A u \in User : acct'[u].password = acct[u].password
  BY <1>1
<1> HIDE DEF ps
<1>7. EndsTokens(ps, ts, fs)
  BY <1>1, <1>5, <1>6 DEF EndsTokens
<1>8. Tokens'
  BY <1>3, <1>5, <1>7, TokensEnd
<1> QED
  BY <1>3, <1>8

\* Deletions by a request of one statement.
LEMMA StatementDeletes ==
    ASSUME Forms, Tokens, UNCHANGED req, NEW ts, Delete(ts),
           NEW fs \in SUBSET Issued, EndFamilies({}, fs),
           \A d \in Device : cookie'[d] \in {0, cookie[d]}, cookie' \in [Device -> {0} \cup Issued],
           \A t \in live \cap ts : Family(t) \in fs,
           \A t \in live \ ts : Family(t) \in fs => Family(t) \in frayed'
    PROVE  Forms' /\ Tokens'
<1>1. /\ UNCHANGED <<acct, issued>> /\ live' = live \ ts /\ stale' = stale \ ts
      /\ ended' = ended \cup fs /\ frayed' = frayed \cup {f \in fs : Refreshing(f, {})}
  BY DEF Delete, EndFamilies
<1>2. req' \in [Proc -> Request0'] /\ \A q \in Proc : req'[q] = Idle \/ req'[q] = req[q]
  BY <1>1 DEF Forms, Request0, Issued
<1>3. Forms'
  BY <1>1, <1>2, DeletesForms
<1> DEFINE ps == {}
<1>4. /\ ps \in SUBSET Proc /\ \A q \in Proc \ ps : req'[q] = req[q]
      /\ \A q \in ps : req'[q] = Idle /\ ~Refreshes(q) /\ req[q].at # "respond"
      /\ \A q \in ps : req[q].at = "purge" =>
              \A t \in Issued : issued[t].user = req[q].user => Family(t) \in fs
      /\ frayed' = frayed \cup {f \in fs : Refreshing(f, ps)}
  BY <1>1
<1>5. \A u \in User : acct'[u].password = acct[u].password
  BY <1>1
<1> HIDE DEF ps
<1>6. EndsTokens(ps, ts, fs)
  BY <1>1, <1>4, <1>5 DEF EndsTokens
<1>7. Tokens'
  BY <1>3, <1>4, <1>6, TokensEnd
<1> QED
  BY <1>3, <1>7

LEMMA DropsKeep == ASSUME Forms, Tokens, NEW p \in Proc, DropExpired(p) \/ DropFamily(p) PROVE Forms' /\ Tokens'
<1> DEFINE t == req[p].given
           f == FamilyAt(p)
           ts == IF req[p].at = "drop" THEN {t} ELSE FamilyOf(t)
<1>1. /\ req[p].at \in {"drop", "dropFamily"} /\ End(p) /\ Delete(ts) /\ EndFamilies({p}, {f})
      /\ \A d \in Device : cookie'[d] \in {0, cookie[d]}
      /\ cookie' \in [Device -> {0} \cup Issued]
  BY DEF DropExpired, DropFamily, FamilyAt, Forms
<1>2. t \in Issued /\ f \in Issued /\ ~Refreshes(p)
  BY <1>1, RequestTypes DEF Forms, Tokens, FamiliesAgree, FamilyAt, Refreshes
<1>3. {f} \in SUBSET Issued /\ req[p].at \notin {"respond", "purge"}
  BY <1>1, <1>2
<1>4. \A s \in live \cap ts : Family(s) = f
  BY <1>2 DEF FamilyOf, FamilyAt
<1>5. ASSUME NEW s \in live \ ts, Family(s) = f PROVE f \in frayed'
  <2>1. req[p].at = "drop" /\ s # t
    BY <1>1, <1>5 DEF FamilyOf, FamilyAt
  <2>2. t \in stale \/ Over(f)
    BY <2>1 DEF Tokens, TokenAt, FamilyAt
  <2>3. f \in ended => f \in frayed
    BY <1>5 DEF Tokens, GoodTokens, Good
  <2>4. t \in stale => f \in frayed
    BY <1>5, <2>1 DEF Forms, Tokens, OneLive, FamilyAt
  <2> QED
    BY <1>1, <2>2, <2>3, <2>4 DEF EndFamilies, Over
<1> HIDE DEF ts, f
<1> DEFINE fs == {f}
<1>6. /\ fs \in SUBSET Issued /\ EndFamilies({p}, fs) /\ \A s \in live \cap ts : Family(s) \in fs
      /\ \A s \in live \ ts : Family(s) \in fs => Family(s) \in frayed'
  BY <1>1, <1>3, <1>4, <1>5
<1> HIDE DEF fs
<1> QED
  BY <1>1, <1>2, <1>3, <1>6, RequestDeletes

\* Signing out, with or without its DELETE, and the revocation of a session.
LEMMA LogoutKeeps == ASSUME Forms, Tokens, NEW d \in Device, Logout(d) PROVE Forms' /\ Tokens'
<1> DEFINE t == cookie[d]
           f == Family(t)
<1>1. /\ t # 0 /\ Delete({t}) /\ EndFamilies({}, {f}) /\ cookie' = [cookie EXCEPT ![d] = 0] /\ UNCHANGED req
  BY DEF Logout
<1>2. t \in Issued /\ f \in Issued /\ UNCHANGED <<acct, issued>>
  BY <1>1 DEF Forms, Tokens, FamiliesAgree, Delete
<1>4. (\A e \in Device : cookie'[e] \in {0, cookie[e]}) /\ cookie' \in [Device -> {0} \cup Issued]
  BY <1>1 DEF Forms
<1>6. ASSUME NEW s \in live \ {t}, Family(s) = f PROVE f \in frayed'
  <2>1. t \in live => f \in frayed
    BY <1>6 DEF Tokens, OneLive
  <2>2. f \in ended => f \in frayed
    BY <1>6 DEF Tokens, GoodTokens, Good
  <2>3. ASSUME NEW p \in Proc, req[p].at \in {"insert", "respond"}, req[p].given # 0, FamilyAt(p) = f
        PROVE  f \in frayed'
    <3>1. Refreshing(f, {})
      BY <2>3 DEF Refreshing, FamilyAt
    <3> QED
      BY <1>1, <3>1 DEF EndFamilies
  <2> QED
    BY <1>1, <2>1, <2>2, <2>3 DEF Tokens, CookieAt, EndFamilies, Over
<1> HIDE DEF t, f
<1> DEFINE fs == {f}
           ts == {t}
<1>7. /\ fs \in SUBSET Issued /\ EndFamilies({}, fs) /\ Delete(ts)
      /\ \A s \in live \ ts : Family(s) \in fs => Family(s) \in frayed'
  BY <1>1, <1>2, <1>6
<1>8. \A s \in live \cap ts : Family(s) \in fs
  BY DEF t, f
<1> HIDE DEF fs, ts
<1> QED
  BY <1>1, <1>4, <1>7, <1>8, StatementDeletes

LEMMA LogoutUnheardKeeps == ASSUME Forms, Tokens, NEW d \in Device, LogoutUnheard(d) PROVE Forms' /\ Tokens'
<1>1. cookie' = [cookie EXCEPT ![d] = 0] /\ UNCHANGED <<acct, issued, live, stale, req, history>>
  BY DEF LogoutUnheard, tables
<1>2. (\A e \in Device : cookie'[e] \in {0, cookie[e]}) /\ cookie' \in [Device -> {0} \cup Issued]
  BY <1>1 DEF Forms
<1> DEFINE none == {}
<1>3. Delete(none) /\ EndFamilies({}, none) /\ none \in SUBSET Issued
  BY <1>1 DEF Delete, EndFamilies, history
<1>4. (\A s \in live \cap none : Family(s) \in none) /\ (\A s \in live \ none : Family(s) \in none => Family(s) \in frayed')
  OBVIOUS
<1> HIDE DEF none
<1> QED
  BY <1>1, <1>2, <1>3, <1>4, StatementDeletes

LEMMA RevokeKeeps == ASSUME Forms, Tokens, NEW t \in Token, Revoke(t) PROVE Forms' /\ Tokens'
<1> DEFINE f == Family(t)
<1>1. /\ t \in live /\ Delete({t}) /\ EndFamilies({}, {f}) /\ UNCHANGED <<cookie, req>>
  BY DEF Revoke
<1>2. t \in Issued /\ f \in Issued /\ UNCHANGED <<acct, issued>>
  BY <1>1 DEF Forms, Tokens, FamiliesAgree, Delete
<1>3. ASSUME NEW s \in live \ {t}, Family(s) = f PROVE f \in frayed'
  BY <1>1, <1>3 DEF Tokens, OneLive, EndFamilies
<1>4. (\A e \in Device : cookie'[e] \in {0, cookie[e]}) /\ cookie' \in [Device -> {0} \cup Issued]
  BY <1>1 DEF Forms
<1> HIDE DEF f
<1> DEFINE fs == {f}
           ts == {t}
<1>5. /\ fs \in SUBSET Issued /\ EndFamilies({}, fs) /\ Delete(ts)
      /\ \A s \in live \ ts : Family(s) \in fs => Family(s) \in frayed'
  BY <1>1, <1>2, <1>3
<1>6. \A s \in live \cap ts : Family(s) \in fs
  BY DEF f
<1> HIDE DEF fs, ts
<1> QED
  BY <1>1, <1>4, <1>5, <1>6, StatementDeletes

\* The second statement of a reset deletes its user's tokens.
LEMMA PurgeKeeps == ASSUME Forms, Tokens, NEW p \in Proc, PurgeTokens(p) PROVE Forms' /\ Tokens'
<1> DEFINE ts == {t \in DOMAIN issued : issued[t].user = req[p].user}
           fs == {Family(t) : t \in ts}
<1>1. /\ req[p].at = "purge" /\ Delete(ts) /\ EndFamilies({p}, fs) /\ End(p) /\ UNCHANGED cookie
  BY DEF PurgeTokens
<1>2. fs \in SUBSET Issued /\ ~Refreshes(p)
  BY <1>1 DEF Tokens, FamiliesAgree, Refreshes, Issued
<1>3. (\A e \in Device : cookie'[e] \in {0, cookie[e]}) /\ cookie' \in [Device -> {0} \cup Issued]
  BY <1>1 DEF Forms
<1>4. ASSUME NEW s \in live \ ts PROVE Family(s) \notin fs
  <2> SUFFICES ASSUME NEW t \in ts, Family(s) = Family(t) PROVE FALSE
    OBVIOUS
  <2>1. s \in Issued /\ t \in Issued
    BY DEF Forms, Issued
  <2>2. issued[s] = issued[t]
    BY <2>1 DEF Tokens, FamiliesAgree
  <2> QED
    BY <2>1, <2>2 DEF Issued
<1>5. \A t \in Issued : issued[t].user = req[p].user => Family(t) \in fs
  BY DEF Issued
<1>6. \A t \in live \cap ts : Family(t) \in fs
  OBVIOUS
<1> HIDE DEF ts, fs
<1> QED
  BY <1>1, <1>2, <1>3, <1>4, <1>5, <1>6, RequestDeletes

-----------------------------------------------------------------------------
\* INSERT INTO refresh_tokens: the new token, and what it does to the requests.
LEMMA Inserted ==
    ASSUME Forms, Tokens, NEW p \in Proc, InsertToken(p), NEW t, t = Len(issued) + 1
    PROVE  /\ Issued' = Issued \cup {t} /\ t \notin Issued /\ t # 0 /\ t \in Token
           /\ issued' \in Seq(TokenRow)
           /\ \A s \in Issued : issued'[s] = issued[s] /\ Family(s)' = Family(s)
           /\ issued'[t] = IF req[p].given = 0 THEN NewFamily(req[p], t) ELSE issued[req[p].given]
           /\ Family(t)' = IF req[p].given = 0 THEN t ELSE FamilyAt(p)
           /\ req[p].given # 0 => req[p].given \in Issued /\ FamilyAt(p) \in Issued
<1>1. /\ req[p].at = "insert" /\ t <= MaxTokens
      /\ issued' = Append(issued, IF req[p].given = 0 THEN NewFamily(req[p], t) ELSE SameFamily(req[p]))
  BY DEF InsertToken
<1>2. issued \in Seq(TokenRow) /\ Issued = 1 .. Len(issued) /\ Len(issued) \in Nat /\ MaxTokens \in Nat
  BY SessionsAssumption DEF Forms, Issued
<1>3. t \in Token /\ t \notin Issued /\ t # 0
  BY <1>1, <1>2 DEF Token
<1>4. req[p].user \in User /\ req[p].seen.password \in Nat
  BY <1>1, RequestTypes DEF Forms, Account
<1>5. NewFamily(req[p], t) \in TokenRow
  BY <1>3, <1>4 DEF NewFamily, TokenRow
<1>6. req[p].given # 0 => req[p].given \in Issued /\ issued[req[p].given] \in TokenRow
  BY RequestTypes, TokenTypes
<1> DEFINE row == IF req[p].given = 0 THEN NewFamily(req[p], t) ELSE SameFamily(req[p])
<1>7. row \in TokenRow
  BY <1>5, <1>6 DEF SameFamily
<1>8. issued' = Append(issued, row)
  BY <1>1
<1> HIDE DEF row
<1>9. /\ issued' \in Seq(TokenRow) /\ Len(issued') = t /\ issued'[t] = row
      /\ \A s \in 1 .. Len(issued) : issued'[s] = issued[s]
  BY <1>2, <1>7, <1>8
<1>10. Issued' = Issued \cup {t}
  <2>1. Issued' = 1 .. t
    BY <1>9 DEF Issued
  <2> QED
    BY <1>2, <2>1
<1>11. \A s \in Issued : issued'[s] = issued[s] /\ Family(s)' = Family(s)
  BY <1>2, <1>9 DEF Family
<1>12. issued'[t] = IF req[p].given = 0 THEN NewFamily(req[p], t) ELSE issued[req[p].given]
  BY <1>9 DEF row, SameFamily
<1>13. Family(t)' = IF req[p].given = 0 THEN t ELSE FamilyAt(p)
  BY <1>12 DEF Family, FamilyAt, NewFamily
<1>14. req[p].given # 0 => FamilyAt(p) \in Issued
  BY <1>6 DEF Tokens, FamiliesAgree, FamilyAt
<1> QED
  BY <1>3, <1>6, <1>9, <1>10, <1>11, <1>12, <1>13, <1>14

LEMMA InsertKeeps == ASSUME Forms, Tokens, NEW p \in Proc, InsertToken(p) PROVE Forms' /\ Tokens'
<1>0. PICK t : t = Len(issued) + 1
  OBVIOUS
<1>1. /\ req[p].at = "insert" /\ live' = live \cup {t} /\ UNCHANGED <<acct, stale, cookie, ended>>
      /\ req' = [req EXCEPT ![p].at = "respond", ![p].got = t]
      /\ frayed' = IF req[p].given = 0 /\ req[p].seen.password # acct[req[p].user].password
                   THEN frayed \cup {t} ELSE frayed
  BY <1>0 DEF InsertToken
<1>2. /\ Issued' = Issued \cup {t} /\ t \notin Issued /\ t # 0 /\ t \in Token
      /\ issued' \in Seq(TokenRow)
      /\ \A s \in Issued : issued'[s] = issued[s] /\ Family(s)' = Family(s)
      /\ issued'[t] = IF req[p].given = 0 THEN NewFamily(req[p], t) ELSE issued[req[p].given]
      /\ Family(t)' = IF req[p].given = 0 THEN t ELSE FamilyAt(p)
      /\ req[p].given # 0 => req[p].given \in Issued /\ FamilyAt(p) \in Issued
  BY <1>0, Inserted
<1>3. \A q \in Proc \ {p} : req'[q] = req[q]
  BY <1>1 DEF Forms
<1>4. /\ req'[p].at = "respond" /\ req'[p].got = t /\ req'[p].given = req[p].given
      /\ req'[p].dev = req[p].dev /\ req'[p].user = req[p].user
      /\ req[p].dev \in Device /\ req[p].user \in User /\ req[p].got = 0
  BY <1>1, RequestTypes DEF Forms, Request0
<1>5. Forms'
  <2>1. \A q \in Proc : req'[q] \in Request0'
    <3>1. ASSUME NEW q \in Proc \ {p} PROVE req'[q] \in Request0'
      BY <1>2, <1>3, RequestTypes DEF Request0
    <3>2. req'[p] \in Request0'
      BY <1>1, <1>2, RequestTypes DEF Request0, Forms, Steps
    <3> QED
      BY <3>1, <3>2
  <2>2. req' \in [Proc -> Request0']
    <3>1. req' = [q \in Proc |-> req'[q]]
      BY <1>1 DEF Forms
    <3> QED
      BY <2>1, <3>1
  <2>3. cookie' \in [Device -> {0} \cup Issued']
    BY <1>1, <1>2 DEF Forms
  <2>4. \A q \in Proc :
        /\ req'[q].at # "free" => req'[q].user \in User
        /\ req'[q].given # 0 => req'[q].at \in {"rotate", "insert", "respond", "drop", "dropFamily"}
        /\ req'[q].at \in {"rotate", "drop", "dropFamily"} => req'[q].given # 0
        /\ req'[q].got # 0 <=> req'[q].at = "respond"
        /\ req'[q].at \in {"compare", "backup", "count", "insert"} \/ req'[q].given # 0 \/ req'[q].got # 0 =>
              req'[q].dev \in Device
    BY <1>2, <1>3, <1>4 DEF Forms
  <2> QED
    BY <1>1, <1>2, <2>2, <2>3, <2>4 DEF Forms
<1>6. frayed \subseteq frayed' /\ \A s \in Issued : s \in frayed' => s \in frayed
  BY <1>1, <1>2
<1>7. \A q \in Proc : /\ Refreshes(q)' <=> Refreshes(q)
                      /\ Refreshes(q) => req[q].given \in Issued /\ FamilyAt(q)' = FamilyAt(q) /\ FamilyAt(q) \in Issued
                      /\ req[q].given # 0 => FamilyAt(q)' = FamilyAt(q) /\ FamilyAt(q) \in Issued
                      /\ req'[q].given = req[q].given
  <2> SUFFICES ASSUME NEW q \in Proc
               PROVE  /\ Refreshes(q)' <=> Refreshes(q)
                      /\ Refreshes(q) => req[q].given \in Issued /\ FamilyAt(q)' = FamilyAt(q) /\ FamilyAt(q) \in Issued
                      /\ req[q].given # 0 => FamilyAt(q)' = FamilyAt(q) /\ FamilyAt(q) \in Issued
                      /\ req'[q].given = req[q].given
    OBVIOUS
  <2>1. req'[q].given = req[q].given /\ (Refreshes(q)' <=> Refreshes(q))
    BY <1>1, <1>3, <1>4 DEF Refreshes
  <2>2. req[q].given # 0 => req[q].given \in Issued /\ FamilyAt(q)' = FamilyAt(q) /\ FamilyAt(q) \in Issued
    BY <1>2, <2>1, RequestTypes DEF FamilyAt, Tokens, FamiliesAgree
  <2> QED
    BY <2>1, <2>2 DEF Refreshes
<1>8. FamiliesAgree'
  <2>1. \A s \in Issued : Family(s) \in Issued /\ issued[Family(s)] = issued[s]
    BY DEF Tokens, FamiliesAgree
  <2>2. ASSUME NEW s \in Issued PROVE Family(s)' \in Issued' /\ issued'[Family(s)'] = issued'[s]
    BY <1>2, <2>1
  <2>3. Family(t)' \in Issued' /\ issued'[Family(t)'] = issued'[t]
    <3>1. CASE req[p].given = 0
      BY <1>2, <3>1
    <3>2. CASE req[p].given # 0
      <4>1. FamilyAt(p) \in Issued /\ issued[FamilyAt(p)] = issued[req[p].given]
        BY <1>2, <2>1, <3>2 DEF FamilyAt
      <4> QED
        BY <1>2, <3>2, <4>1
    <3> QED
      BY <3>1, <3>2
  <2> QED
    BY <1>2, <2>2, <2>3 DEF FamiliesAgree
<1>9. \A d \in Device, s \in Issued' : Holds(d, s)' =>
         IF s = t THEN d = req[p].dev ELSE s \in Issued /\ Holds(d, s)
  <2> SUFFICES ASSUME NEW d \in Device, NEW s \in Issued', Holds(d, s)'
               PROVE  IF s = t THEN d = req[p].dev ELSE s \in Issued /\ Holds(d, s)
    OBVIOUS
  <2>1. cookie[d] \in {0} \cup Issued
    BY DEF Forms
  <2>2. CASE cookie[d] = s
    BY <1>2, <2>1, <2>2 DEF Holds
  <2>3. CASE cookie[d] # s
    <3>1. PICK q \in Proc : req'[q].dev = d /\ s \in {req'[q].given, req'[q].got}
      BY <1>1, <2>3 DEF Holds
    <3>2. CASE q = p /\ s = t
      BY <1>4, <3>1, <3>2
    <3>3. CASE q # p \/ s # t
      <4>1. s \in {req[q].given, req[q].got} /\ req[q].dev = d /\ s \in Issued
        BY <1>2, <1>3, <1>4, <3>1, <3>3, RequestTypes, TokenTypes
      <4> QED
        BY <1>2, <4>1 DEF Holds
    <3> QED
      BY <3>2, <3>3
  <2> QED
    BY <2>2, <2>3
<1>10. OwnDevice'
  <2> SUFFICES ASSUME NEW d \in Device, NEW e \in Device, NEW r \in Issued', NEW s \in Issued',
                      Holds(d, r)', Holds(e, s)', Family(r)' = Family(s)'
               PROVE  d = e
    BY DEF OwnDevice
  <2>1. CASE r = t /\ s = t
    BY <1>9, <2>1
  <2>2. CASE r # t /\ s # t
    BY <1>2, <1>9, <2>2 DEF Tokens, OwnDevice
  <2>3. \A x \in Issued, c \in Device : Family(x) = Family(t)' /\ Holds(c, x) => c = req[p].dev
    <3> SUFFICES ASSUME NEW x \in Issued, NEW c \in Device, Family(x) = Family(t)', Holds(c, x)
                 PROVE  c = req[p].dev
      OBVIOUS
    <3>1. Family(x) \in Issued
      BY DEF Tokens, FamiliesAgree
    <3>2. req[p].given \in Issued /\ Family(x) = Family(req[p].given)
      BY <1>2, <3>1 DEF FamilyAt
    <3>3. Holds(req[p].dev, req[p].given)
      BY DEF Holds
    <3> QED
      BY <1>4, <3>2, <3>3 DEF Tokens, OwnDevice
  <2>4. CASE r = t /\ s # t
    BY <1>2, <1>9, <2>3, <2>4
  <2>5. CASE r # t /\ s = t
    BY <1>2, <1>9, <2>3, <2>5
  <2> QED
    BY <2>1, <2>2, <2>4, <2>5
<1>11. \A s \in live : Family(s) = Family(t)' => Family(s) \in frayed
  <2> SUFFICES ASSUME NEW s \in live, Family(s) = Family(t)' PROVE Family(s) \in frayed
    OBVIOUS
  <2>1. s \in Issued /\ Family(s) \in Issued
    BY DEF Forms, Tokens, FamiliesAgree
  <2>2. req[p].given # 0 /\ Family(s) = FamilyAt(p)
    BY <1>2, <2>1
  <2> QED
    BY <1>1, <2>2 DEF Tokens, NoneAt
<1>12. OneLive'
  BY <1>1, <1>2, <1>6, <1>11 DEF Tokens, OneLive, Forms
<1>13. OneRefresh'
  BY <1>6, <1>7 DEF Tokens, OneRefresh
<1>14. DropAlone'
  <2> SUFFICES ASSUME NEW q \in Proc, NEW r \in Proc, req'[q].at = "drop", req'[r].at = "rotate",
                      req'[r].given = req'[q].given
               PROVE  FamilyAt(q)' \in frayed'
    BY DEF DropAlone
  <2>1. q # p /\ r # p
    BY <1>4
  <2>2. req'[q] = req[q] /\ req'[r] = req[r] /\ req[q].given # 0
    BY <1>3, <2>1 DEF Forms
  <2> QED
    BY <1>6, <1>7, <2>2 DEF Tokens, DropAlone
<1>15. ASSUME NEW q \in Proc PROVE GotAt(q)' /\ FreshAt(q)' /\ NoneAt(q)' /\ TokenAt(q)'
  <2>0. GotAt(q)'
    <3>1. CASE q = p
      BY <1>2, <1>4, <1>7, <3>1 DEF GotAt, FamilyAt
    <3>2. CASE q # p
      <4> SUFFICES ASSUME req[q].at = "respond", req[q].given # 0 PROVE GotAt(q)'
        BY <1>3, <3>2 DEF GotAt
      <4>1. req[q].got \in Issued /\ req[q].given \in Issued
        BY RequestTypes DEF Forms
      <4> QED
        BY <1>2, <1>3, <3>2, <4>1 DEF Tokens, GotAt
    <3> QED
      BY <3>1, <3>2
  <2>1. FreshAt(q)'
    <3> SUFFICES ASSUME req'[q].at = "respond" PROVE FreshAt(q)'
      BY DEF FreshAt
    <3>1. CASE q = p
      <4>1. \A d \in Device : cookie'[d] # t
        BY <1>1, <1>2 DEF Forms
      <4>2. \A r \in Proc : req'[r].given # t /\ (r # p => req'[r].got # t)
        BY <1>2, <1>3, <1>7, RequestTypes
      <4> QED
        BY <1>4, <3>1, <4>1, <4>2 DEF FreshAt
    <3>2. CASE q # p
      <4>1. req'[q] = req[q] /\ req[q].got \in Issued /\ req[q].got # t
        BY <1>2, <1>3, <3>2, RequestTypes DEF Forms
      <4>2. \A d \in Device : cookie'[d] # req[q].got
        BY <1>1, <4>1 DEF Tokens, FreshAt
      <4>3. \A r \in Proc : req'[r].given # req[q].got
        BY <1>7, <4>1 DEF Tokens, FreshAt
      <4>4. \A r \in Proc : r # q => req'[r].got # req[q].got
        BY <1>3, <1>4, <4>1 DEF Tokens, FreshAt
      <4> QED
        BY <4>1, <4>2, <4>3, <4>4 DEF FreshAt
    <3> QED
      BY <3>1, <3>2
  <2>2. NoneAt(q)'
    <3> SUFFICES ASSUME req'[q].at = "insert", req'[q].given # 0, FamilyAt(q)' \notin frayed',
                        NEW s \in live', Family(s)' = FamilyAt(q)'
                 PROVE  FALSE
      BY DEF NoneAt
    <3>1. q # p /\ req'[q] = req[q]
      BY <1>3, <1>4
    <3>2. FamilyAt(q)' = FamilyAt(q) /\ FamilyAt(q) \in Issued /\ FamilyAt(q) \notin frayed
      BY <1>6, <1>7, <3>1
    <3>3. CASE s \in live
      BY <1>2, <3>1, <3>2, <3>3 DEF Tokens, NoneAt, Forms
    <3>4. CASE s = t
      <4>1. req[p].given # 0 /\ FamilyAt(p) = FamilyAt(q)
        BY <1>2, <3>2, <3>4
      <4> QED
        BY <1>1, <3>1, <3>2, <4>1 DEF Tokens, OneRefresh, Refreshes
    <3> QED
      BY <1>1, <3>3, <3>4
  <2>3. TokenAt(q)'
    <3>1. CASE q = p
      BY <1>1, <1>4, <3>1 DEF TokenAt
    <3>2. CASE q # p
      <4>1. req'[q] = req[q]
        BY <1>3, <3>2
      <4>2. req[q].at = "respond" => req[q].got \in Issued
        BY RequestTypes DEF Forms
      <4>3. \A f : Over(f) => Over(f)'
        BY <1>1, <1>6 DEF Over
      <4>4. req[q].at \in {"rotate", "drop"} => FamilyAt(q)' = FamilyAt(q)
        BY <1>7 DEF Forms
      <4> QED
        BY <1>1, <1>2, <4>1, <4>2, <4>3, <4>4 DEF Tokens, TokenAt
    <3> QED
      BY <3>1, <3>2
  <2> QED
    BY <2>0, <2>1, <2>2, <2>3
<1>16. ASSUME NEW d \in Device PROVE CookieAt(d)'
  <2> SUFFICES ASSUME cookie[d] # 0 PROVE CookieAt(d)'
    BY <1>1 DEF CookieAt
  <2>1. cookie[d] \in Issued /\ cookie'[d] = cookie[d] /\ Family(cookie[d])' = Family(cookie[d])
    BY <1>1, <1>2 DEF Forms
  <2>2. \A q \in Proc : req[q].at \in {"insert", "respond"} => req'[q].at \in {"insert", "respond"}
    BY <1>3, <1>4
  <2>3. cookie[d] \in live \/ Over(Family(cookie[d])) =>
           cookie[d] \in live' \/ Over(Family(cookie[d]))'
    BY <1>1, <1>6, <2>1 DEF Over
  <2>4. CASE cookie[d] \in live \/ Over(Family(cookie[d]))
    BY <2>1, <2>3, <2>4 DEF CookieAt
  <2>5. CASE ~ (cookie[d] \in live \/ Over(Family(cookie[d])))
    <3>1. PICK q \in Proc : /\ req[q].at \in {"insert", "respond"} /\ req[q].given # 0
                            /\ FamilyAt(q) = Family(cookie[d])
      BY <2>5 DEF Tokens, CookieAt
    <3>2. /\ req'[q].at \in {"insert", "respond"} /\ req'[q].given # 0
          /\ FamilyAt(q)' = Family(cookie[d])'
      BY <1>7, <2>1, <2>2, <3>1
    <3> QED
      BY <3>2 DEF CookieAt
  <2> QED
    BY <2>4, <2>5
<1>17. GoodTokens'
  <2>1. \A q \in Proc : req[q].at = "purge" => req'[q] = req[q]
    BY <1>1, <1>3
  <2>2. ASSUME NEW s \in Issued, Good(s) PROVE Good(s)'
    BY <1>1, <1>2, <1>6, <2>1, <2>2 DEF Good
  <2>3. Good(t)'
    <3>1. CASE req[p].given = 0
      <4>1. t \notin ended' /\ Family(t)' = t
        BY <1>1, <1>2, <3>1 DEF Forms
      <4>2. issued'[t].password = req[p].seen.password /\ issued'[t].user = req[p].user
        BY <1>2, <3>1 DEF NewFamily
      <4>3. t \notin frayed' => req[p].seen.password = acct[req[p].user].password
        BY <1>1, <3>1
      <4> QED
        BY <1>1, <4>1, <4>2, <4>3 DEF Good
    <3>2. CASE req[p].given # 0
      <4>1. Good(req[p].given)
        BY <1>1, <3>2 DEF Tokens, GoodTokens, Refreshes
      <4> QED
        BY <1>1, <1>2, <1>6, <2>1, <3>2, <4>1 DEF Good, FamilyAt
    <3> QED
      BY <3>1, <3>2
  <2>4. \A s \in live : s \in Issued /\ Good(s)
    BY DEF Tokens, GoodTokens, Forms
  <2> QED
    BY <1>1, <1>7, <2>2, <2>3, <2>4 DEF Tokens, GoodTokens
<1> QED
  BY <1>5, <1>8, <1>10, <1>12, <1>13, <1>14, <1>15, <1>16, <1>17 DEF Tokens

-----------------------------------------------------------------------------
\* The browser gets its token.
LEMMA RespondKeeps == ASSUME Forms, Tokens, NEW p \in Proc, Respond(p) PROVE Forms' /\ Tokens'
<1> DEFINE d0 == req[p].dev
           t == req[p].got
<1>1. /\ req[p].at = "respond" /\ cookie' = [cookie EXCEPT ![d0] = t] /\ End(p)
      /\ UNCHANGED <<acct, issued, live, stale, ended, frayed>>
  BY DEF Respond, tables, history
<1>2. t \in Issued /\ d0 \in Device /\ t # 0
  BY <1>1, RequestTypes DEF Forms
<1>3. /\ req'[p] = Idle /\ (\A q \in Proc \ {p} : req'[q] = req[q])
      /\ req' \in [Proc -> Request0'] /\ Issued' = Issued
  BY <1>1, Ended
<1>4. \A s : Family(s)' = Family(s)
  BY <1>1 DEF Family
<1>5. req'[p].at = "free" /\ req'[p].given = 0 /\ req'[p].got = 0
  BY <1>3 DEF Idle
<1>6. cookie'[d0] = t /\ \A d \in Device \ {d0} : cookie'[d] = cookie[d]
  BY <1>1, <1>2 DEF Forms
<1>7. Forms'
  <2>1. cookie' \in [Device -> {0} \cup Issued]
    BY <1>1, <1>2 DEF Forms
  <2> QED
    BY <1>1, <1>3, <1>5, <2>1 DEF Forms
<1>8. \A q \in Proc : /\ Refreshes(q)' => Refreshes(q) /\ q # p /\ req'[q] = req[q] /\ FamilyAt(q)' = FamilyAt(q)
                      /\ req'[q].at # "free" => q # p /\ req'[q] = req[q] /\ FamilyAt(q)' = FamilyAt(q)
  BY <1>3, <1>4, <1>5 DEF Refreshes, FamilyAt
<1>9. \A d \in Device, s \in Issued : Holds(d, s)' => Holds(d, s)
  <2> SUFFICES ASSUME NEW d \in Device, NEW s \in Issued, Holds(d, s)'
               PROVE  Holds(d, s)
    OBVIOUS
  <2>1. s # 0
    BY TokenTypes
  <2> QED
    BY <1>3, <1>5, <1>6, <2>1 DEF Holds
<1>10. FamiliesAgree' /\ OwnDevice' /\ OneLive'
  BY <1>1, <1>3, <1>4, <1>9 DEF Tokens, FamiliesAgree, OwnDevice, OneLive
<1>11. OneRefresh'
  BY <1>1, <1>8 DEF Tokens, OneRefresh
<1>12. DropAlone'
  BY <1>1, <1>8 DEF Tokens, DropAlone
<1>13. ASSUME NEW q \in Proc PROVE GotAt(q)' /\ FreshAt(q)' /\ NoneAt(q)' /\ TokenAt(q)'
  <2> SUFFICES ASSUME q # p, req'[q] = req[q], FamilyAt(q)' = FamilyAt(q)
               PROVE  GotAt(q)' /\ FreshAt(q)' /\ NoneAt(q)' /\ TokenAt(q)'
    BY <1>8 DEF GotAt, FreshAt, NoneAt, TokenAt
  <2>1. FreshAt(q)'
    <3> SUFFICES ASSUME req[q].at = "respond" PROVE FreshAt(q)'
      BY DEF FreshAt
    <3>1. req[q].got # 0 /\ t # req[q].got
      BY DEF Forms, Tokens, FreshAt
    <3> QED
      BY <1>3, <1>5, <1>6, <3>1 DEF Tokens, FreshAt
  <2>2. GotAt(q)' /\ NoneAt(q)' /\ TokenAt(q)'
    BY <1>1, <1>4 DEF Tokens, GotAt, NoneAt, TokenAt, Over
  <2> QED
    BY <2>1, <2>2
<1>14. ASSUME NEW d \in Device PROVE CookieAt(d)'
  <2>1. CASE d = d0
    BY <1>1, <1>4, <1>6, <2>1 DEF Tokens, TokenAt, CookieAt, Over
  <2>2. CASE d # d0
    <3> SUFFICES ASSUME cookie[d] # 0 PROVE CookieAt(d)'
      BY <1>6, <2>2 DEF CookieAt
    <3>1. CASE cookie[d] \in live \/ Over(Family(cookie[d]))
      BY <1>1, <1>4, <1>6, <2>2, <3>1 DEF CookieAt, Over
    <3>2. CASE ~(cookie[d] \in live \/ Over(Family(cookie[d])))
      <4>1. PICK q \in Proc : req[q].at \in {"insert", "respond"} /\ req[q].given # 0 /\ FamilyAt(q) = Family(cookie[d])
        BY <3>2 DEF Tokens, CookieAt
      <4>2. q # p
        <5> SUFFICES ASSUME q = p PROVE FALSE
          OBVIOUS
        <5>1. req[p].given \in Issued /\ cookie[d] \in Issued
          BY <4>1, RequestTypes DEF Forms
        <5>2. Holds(d0, req[p].given) /\ Holds(d, cookie[d])
          BY DEF Holds
        <5> QED
          BY <1>2, <2>2, <4>1, <5>1, <5>2 DEF Tokens, OwnDevice, FamilyAt
      <4> QED
        BY <1>3, <1>4, <1>6, <2>2, <4>1, <4>2 DEF CookieAt, FamilyAt
    <3> QED
      BY <3>1, <3>2
  <2> QED
    BY <2>1, <2>2
<1>15. GoodTokens'
  <2>1. \A q \in Proc : req[q].at = "purge" => req'[q] = req[q]
    BY <1>1, <1>3
  <2>2. \A s : Good(s) => Good(s)'
    BY <1>1, <1>4, <2>1 DEF Good
  <2> QED
    BY <1>1, <1>8, <2>2 DEF Tokens, GoodTokens
<1> QED
  BY <1>7, <1>10, <1>11, <1>12, <1>13, <1>14, <1>15 DEF Tokens

\* A request as it begins.
LEMMA RequestIs ==
    ASSUME Forms, NEW u \in User, NEW at \in Steps, NEW fields
    PROVE  /\ Request(at, u) \in Request0 /\ Request(at, u).at = at /\ Request(at, u).user = u
           /\ Request(at, u).given = 0 /\ Request(at, u).got = 0
           /\ Seen(u, fields) \in Account /\ NewRow \in Account
           /\ "temp" \in fields => Seen(u, fields).temp = acct[u].temp
<1>1. NewRow \in Account
  BY DEF NewRow, Account
<1>2. acct[u] \in Account
  BY DEF Forms
<1>3. Seen(u, fields) \in Account
  BY <1>1, <1>2 DEF Seen, NewRow, Account
<1>4. "temp" \in fields => Seen(u, fields).temp = acct[u].temp
  BY <1>2 DEF Seen, NewRow, Account
<1>5. Idle \in Request0 /\ Idle.given = 0 /\ Idle.got = 0
  BY <1>1 DEF Idle, Request0, Steps
<1>6. /\ Request(at, u) \in Request0 /\ Request(at, u).at = at /\ Request(at, u).user = u
      /\ Request(at, u).given = 0 /\ Request(at, u).got = 0
  BY <1>5 DEF Request, Request0
<1> QED
  BY <1>1, <1>3, <1>4, <1>6

\* A refresh begins with the token of its browser.
LEMMA RefreshKeeps ==
    ASSUME Forms, Tokens, NEW p \in Proc, NEW d \in Device, NEW moved \in BOOLEAN, Refresh(p, d, moved)
    PROVE  Forms' /\ Tokens'
<1> DEFINE t == cookie[d]
           at == IF t \in stale THEN "drop" ELSE IF moved THEN "dropFamily" ELSE "rotate"
           new == [Request(at, issued[t].user) EXCEPT !.dev = d, !.given = t]
<1>1. /\ t \in live /\ req[p] = Idle /\ req' = [req EXCEPT ![p] = new]
      /\ frayed' = IF \E q \in Proc : req[q].at = "rotate" /\ req[q].given = t
                   THEN frayed \cup {Family(t)} ELSE frayed
      /\ UNCHANGED <<acct, issued, live, stale, cookie, ended>>
  BY DEF Refresh, Begin, tables
<1>2. t \in Issued /\ t # 0 /\ issued[t].user \in User /\ Issued' = Issued
  BY <1>1, TokenTypes DEF Forms, Issued
<1>3. at \in {"drop", "dropFamily", "rotate"}
  OBVIOUS
<1>4. /\ new \in Request0 /\ new.at = at /\ new.user = issued[t].user /\ new.dev = d /\ new.given = t /\ new.got = 0
  <2> DEFINE old == Request(at, issued[t].user)
  <2>1. old \in Request0 /\ old.at = at /\ old.user = issued[t].user /\ old.got = 0
    <3>1. at \in Steps
      BY <1>3 DEF Steps
    <3> QED
      BY <1>2, <3>1, RequestIs
  <2>2. new = [old EXCEPT !.dev = d, !.given = t]
    OBVIOUS
  <2> HIDE DEF old, new
  <2> QED
    BY <1>2, <2>1, <2>2 DEF Request0
<1>5. req'[p] = new /\ (\A q \in Proc \ {p} : req'[q] = req[q]) /\ req[p].at = "free" /\ req[p].given = 0 /\ req[p].got = 0
  BY <1>1 DEF Forms, Idle
<1>6. /\ req'[p].at = at /\ req'[p].given = t /\ req'[p].got = 0 /\ req'[p].dev = d /\ req'[p].user = issued[t].user
      /\ t \in stale => at = "drop"
      /\ t \notin stale => at # "drop"
  BY <1>4, <1>5
<1>7. Forms'
  <2>3. req' \in [Proc -> Request0'] /\ Request0' = Request0
    BY <1>1, <1>2, <1>4 DEF Forms, Request0
  <2> QED
    BY <1>1, <1>2, <1>3, <1>5, <1>6, <2>3 DEF Forms
<1> HIDE DEF at, new
<1>8. \A s : Family(s)' = Family(s)
  BY <1>1 DEF Family
<1>9. frayed \subseteq frayed'
  BY <1>1
<1>10. \A q \in Proc \ {p} : (Refreshes(q)' <=> Refreshes(q)) /\ FamilyAt(q)' = FamilyAt(q)
  BY <1>5, <1>8 DEF Refreshes, FamilyAt
<1>11. FamilyAt(p)' = Family(t) /\ ~Refreshes(p) /\ (Refreshes(p)' <=> at = "rotate")
  BY <1>3, <1>2, <1>5, <1>6, <1>8 DEF Refreshes, FamilyAt
<1>12. FamiliesAgree' /\ OneLive'
  BY <1>1, <1>2, <1>8, <1>9 DEF Tokens, FamiliesAgree, OneLive
<1>13. OwnDevice'
  <2>1. \A e \in Device, s \in Issued : Holds(e, s)' => Holds(e, s)
    <3> SUFFICES ASSUME NEW e \in Device, NEW s \in Issued, Holds(e, s)', cookie[e] # s PROVE Holds(e, s)
      BY DEF Holds
    <3>1. s # 0
      BY TokenTypes
    <3>2. PICK q \in Proc : req'[q].dev = e /\ s \in {req'[q].given, req'[q].got}
      BY <1>1 DEF Holds
    <3>3. q # p
      BY <1>6, <3>1, <3>2
    <3> QED
      BY <1>5, <3>2, <3>3 DEF Holds
  <2> QED
    BY <1>2, <1>8, <2>1 DEF Tokens, OwnDevice
<1>14. \A f : Family(t) = f /\ f \in ended => f \in frayed
  BY <1>1 DEF Tokens, GoodTokens, Good
<1>15. ASSUME NEW q \in Proc, Refreshes(q), FamilyAt(q) = Family(t) PROVE Family(t) \in frayed'
  <2>1. CASE req[q].at = "rotate"
    BY <1>1, <1>9, <1>14, <1>15, <2>1 DEF Tokens, TokenAt, OneLive, Over, FamilyAt
  <2>2. CASE req[q].at = "insert"
    BY <1>1, <1>9, <1>15, <2>2 DEF Tokens, NoneAt, Refreshes
  <2>3. CASE req[q].at = "respond"
    <3>1. req[q].got # t /\ req[q].got \in Issued /\ req[q].given \in Issued
      BY <2>3, <1>15, RequestTypes DEF Tokens, FreshAt, Forms, Refreshes
    <3>2. req[q].got \in live \/ Over(Family(req[q].got))
      BY <2>3 DEF Tokens, TokenAt
    <3>3. Family(req[q].got) = Family(t)
      BY <2>3, <1>15 DEF Tokens, GotAt, FamilyAt, Refreshes
    <3> QED
      BY <1>1, <1>9, <1>14, <3>1, <3>2, <3>3 DEF Tokens, OneLive, Over
  <2> QED
    BY <1>15, <2>1, <2>2, <2>3 DEF Refreshes
<1>16. OneRefresh'
  BY <1>9, <1>10, <1>11, <1>15 DEF Tokens, OneRefresh
<1>17. DropAlone'
  <2> SUFFICES ASSUME NEW q \in Proc, NEW r \in Proc, req'[q].at = "drop", req'[r].at = "rotate",
                      req'[r].given = req'[q].given
               PROVE  FamilyAt(q)' \in frayed'
    BY DEF DropAlone
  <2>1. CASE q # p /\ r # p
    BY <1>5, <1>9, <1>10, <2>1 DEF Tokens, DropAlone
  <2>2. CASE q = p
    BY <1>1, <1>5, <1>6, <1>11, <2>2
  <2>3. CASE q # p /\ r = p
    <3>1. req[q].at = "drop" /\ req[q].given = t /\ t \notin stale /\ FamilyAt(q)' = Family(t)
      BY <1>5, <1>6, <1>8, <2>3 DEF FamilyAt
    <3>2. Over(Family(t))
      BY <3>1 DEF Tokens, TokenAt, FamilyAt
    <3> QED
      BY <1>9, <1>14, <3>1, <3>2 DEF Over
  <2> QED
    BY <2>1, <2>2, <2>3
<1>18. ASSUME NEW q \in Proc PROVE GotAt(q)' /\ FreshAt(q)' /\ NoneAt(q)' /\ TokenAt(q)'
  <2>1. CASE q = p
    BY <1>1, <1>3, <1>6, <2>1 DEF GotAt, FreshAt, NoneAt, TokenAt
  <2>2. CASE q # p
    <3>1. FreshAt(q)'
      <4> SUFFICES ASSUME req[q].at = "respond" PROVE FreshAt(q)'
        BY <1>5, <2>2 DEF FreshAt
      <4>1. req[q].got # 0 /\ req[q].got # t
        BY DEF Forms, Tokens, FreshAt
      <4> QED
        BY <1>1, <1>5, <1>6, <2>2, <4>1 DEF Tokens, FreshAt
    <3>2. GotAt(q)' /\ NoneAt(q)' /\ TokenAt(q)'
      BY <1>1, <1>5, <1>8, <1>9, <1>10, <2>2 DEF Tokens, GotAt, NoneAt, TokenAt, Over
    <3> QED
      BY <3>1, <3>2
  <2> QED
    BY <2>1, <2>2
<1>19. ASSUME NEW e \in Device PROVE CookieAt(e)'
  <2>1. \A q \in Proc : req[q].at \in {"insert", "respond"} => req'[q] = req[q] /\ FamilyAt(q)' = FamilyAt(q)
    BY <1>5, <1>10
  <2> QED
    BY <1>1, <1>8, <1>9, <2>1 DEF Tokens, CookieAt, Over
<1>20. GoodTokens'
  <2>1. \A q \in Proc : req[q].at = "purge" => req'[q] = req[q]
    BY <1>5
  <2>2. \A s : Good(s) => Good(s)'
    BY <1>1, <1>8, <1>9, <2>1 DEF Good
  <2>3. Good(t)
    BY <1>1 DEF Tokens, GoodTokens
  <2> QED
    BY <1>1, <1>5, <1>6, <1>10, <2>2, <2>3 DEF Tokens, GoodTokens
<1> QED
  BY <1>7, <1>12, <1>13, <1>16, <1>17, <1>18, <1>19, <1>20 DEF Tokens

\* The token given is deleted.
LEMMA RotateKeeps == ASSUME Forms, Tokens, NEW p \in Proc, Rotate(p) PROVE Forms' /\ Tokens'
<1> DEFINE t == req[p].given
<1>1. /\ req[p].at = "rotate" /\ live' = live \ {t} /\ stale' = stale \ {t}
      /\ req' = [req EXCEPT ![p].at = "insert"]
      /\ UNCHANGED <<acct, issued, cookie, ended, frayed>>
  BY DEF Rotate, Delete, Goto, history
<1>2. t \in Issued /\ t # 0 /\ Issued' = Issued /\ Refreshes(p)
  BY <1>1, RequestTypes DEF Forms, Issued, Refreshes
<1>3. /\ \A q \in Proc \ {p} : req'[q] = req[q]
      /\ req'[p].at = "insert" /\ req'[p].given = t /\ req'[p].got = 0 /\ req[p].got = 0
      /\ req'[p].dev = req[p].dev /\ req'[p].user = req[p].user
  BY <1>1, RequestTypes DEF Forms, Request0
<1>4. Forms'
  <2>1. req' \in [Proc -> Request0'] /\ Request0' = Request0
    BY <1>1, <1>2 DEF Forms, Request0, Steps
  <2>2. req[p].dev \in Device /\ req[p].user \in User
    BY <1>1, <1>2 DEF Forms
  <2>3. live' \subseteq Issued /\ stale' \subseteq live'
    BY <1>1 DEF Forms
  <2> QED
    BY <1>1, <1>2, <1>3, <2>1, <2>2, <2>3 DEF Forms
<1>5. \A s : Family(s)' = Family(s)
  BY <1>1 DEF Family
<1>6. \A q \in Proc : /\ Refreshes(q)' <=> Refreshes(q)
                      /\ req'[q].given = req[q].given /\ req'[q].got = req[q].got
                      /\ FamilyAt(q)' = FamilyAt(q) /\ req'[q].dev = req[q].dev
                      /\ q # p => req'[q] = req[q]
  BY <1>1, <1>2, <1>3, <1>5 DEF Refreshes, FamilyAt
<1>7. FamiliesAgree' /\ OneLive' /\ OneRefresh'
  BY <1>1, <1>2, <1>5, <1>6 DEF Tokens, FamiliesAgree, OneLive, OneRefresh
<1>8. OwnDevice'
  <2>1. \A d \in Device, s \in Issued : Holds(d, s)' => Holds(d, s)
    BY <1>1, <1>6 DEF Holds
  <2> QED
    BY <1>2, <1>5, <2>1 DEF Tokens, OwnDevice
<1>9. DropAlone'
  <2> SUFFICES ASSUME NEW q \in Proc, NEW r \in Proc, req'[q].at = "drop", req'[r].at = "rotate",
                      req'[r].given = req'[q].given
               PROVE  FamilyAt(q)' \in frayed'
    BY DEF DropAlone
  <2> QED
    BY <1>1, <1>3, <1>6 DEF Tokens, DropAlone
<1>10. ASSUME NEW q \in Proc PROVE GotAt(q)' /\ FreshAt(q)' /\ NoneAt(q)' /\ TokenAt(q)'
  <2>1. CASE q = p
    <3>1. NoneAt(p)'
      <4> SUFFICES ASSUME FamilyAt(p) \notin frayed, NEW s \in live, s # t, Family(s) = FamilyAt(p) PROVE FALSE
        BY <1>1, <1>5, <1>6 DEF NoneAt
      <4>1. t \in live \/ FamilyAt(p) \in ended
        BY <1>1 DEF Tokens, TokenAt, Over
      <4>2. FamilyAt(p) \notin ended
        BY DEF Tokens, GoodTokens, Good
      <4> QED
        BY <4>1, <4>2 DEF Tokens, OneLive, FamilyAt
    <3> QED
      BY <1>3, <2>1, <3>1 DEF GotAt, FreshAt, TokenAt
  <2>2. CASE q # p
    <3>1. GotAt(q)' /\ FreshAt(q)' /\ NoneAt(q)'
      BY <1>1, <1>5, <1>6, <2>2 DEF Tokens, GotAt, FreshAt, NoneAt
    <3>2. req[q].at = "rotate" => req[q].given \in live' \/ Over(FamilyAt(q))
      <4> SUFFICES ASSUME req[q].at = "rotate", req[q].given = t PROVE Over(FamilyAt(q))
        BY <1>1 DEF Tokens, TokenAt
      <4> QED
        BY <1>2, <2>2 DEF Tokens, OneRefresh, Refreshes, FamilyAt, Over
    <3>3. req[q].at = "respond" => req[q].got \in live' \/ Over(Family(req[q].got))
      BY <1>1 DEF Tokens, TokenAt, FreshAt
    <3>4. req[q].at = "drop" => req[q].given \in stale' \/ Over(FamilyAt(q))
      BY <1>1 DEF Tokens, TokenAt, DropAlone, Over
    <3>5. TokenAt(q)'
      BY <1>1, <1>5, <1>6, <2>2, <3>2, <3>3, <3>4 DEF TokenAt, Over
    <3> QED
      BY <3>1, <3>5
  <2> QED
    BY <2>1, <2>2
<1>11. ASSUME NEW d \in Device PROVE CookieAt(d)'
  <2>1. CASE cookie[d] = t
    BY <1>1, <1>2, <1>3, <1>5, <1>6, <2>1 DEF CookieAt, FamilyAt
  <2>2. CASE cookie[d] # t
    <3>1. \A q \in Proc : req[q].at \in {"insert", "respond"} => req'[q] = req[q]
      BY <1>1, <1>3
    <3> QED
      BY <1>1, <1>5, <1>6, <2>2, <3>1 DEF Tokens, CookieAt, Over
  <2> QED
    BY <2>1, <2>2
<1>12. GoodTokens'
  <2>1. \A q \in Proc : req[q].at = "purge" => req'[q] = req[q]
    BY <1>1, <1>3
  <2>2. \A s : Good(s) => Good(s)'
    BY <1>1, <1>5, <2>1 DEF Good
  <2> QED
    BY <1>1, <1>6, <2>2 DEF Tokens, GoodTokens
<1> QED
  BY <1>4, <1>7, <1>8, <1>9, <1>10, <1>11, <1>12 DEF Tokens

\* A request that breaks off: its family, or with a reset every family, is frayed.
LEMMA AbortKeeps == ASSUME Forms, Tokens, NEW p \in Proc, Abort(p) PROVE Forms' /\ Tokens'
<1>1. /\ End(p) /\ UNCHANGED <<acct, issued, live, stale, cookie, ended>> /\ frayed \subseteq frayed'
      /\ req[p].at \in {"insert", "respond"} /\ req[p].given # 0 => FamilyAt(p) \in frayed'
      /\ req[p].at = "purge" => \A t \in Issued : Family(t) \in frayed'
  BY DEF Abort, tables, FamilyAt, Issued
<1>2. /\ req'[p] = Idle /\ (\A q \in Proc \ {p} : req'[q] = req[q])
      /\ req' \in [Proc -> Request0'] /\ Issued' = Issued
  BY <1>1, Ended
<1>3. req'[p].at = "free" /\ req'[p].given = 0 /\ req'[p].got = 0
  BY <1>2 DEF Idle
<1>4. \A s : Family(s)' = Family(s)
  BY <1>1 DEF Family
<1>5. Forms'
  BY <1>1, <1>2, <1>3 DEF Forms
<1>6. \A q \in Proc : /\ Refreshes(q)' => Refreshes(q) /\ q # p /\ req'[q] = req[q] /\ FamilyAt(q)' = FamilyAt(q)
                      /\ req'[q].at # "free" => q # p /\ req'[q] = req[q] /\ FamilyAt(q)' = FamilyAt(q)
                      /\ req'[q].given \in {0, req[q].given} /\ req'[q].got \in {0, req[q].got}
  BY <1>2, <1>3, <1>4 DEF Refreshes, FamilyAt
<1>7. OwnDevice'
  <2>1. \A d \in Device, s \in Issued : Holds(d, s)' => Holds(d, s)
    <3> SUFFICES ASSUME NEW d \in Device, NEW s \in Issued, Holds(d, s)' PROVE Holds(d, s)
      OBVIOUS
    <3>1. s # 0
      BY TokenTypes
    <3> QED
      BY <1>1, <1>2, <1>3, <3>1 DEF Holds
  <2> QED
    BY <1>2, <1>4, <2>1 DEF Tokens, OwnDevice
<1>8. FamiliesAgree' /\ OneLive' /\ OneRefresh'
  BY <1>1, <1>2, <1>4, <1>6 DEF Tokens, FamiliesAgree, OneLive, OneRefresh
<1>9. DropAlone'
  BY <1>1, <1>6 DEF Tokens, DropAlone
<1>10. ASSUME NEW q \in Proc PROVE GotAt(q)' /\ FreshAt(q)' /\ NoneAt(q)' /\ TokenAt(q)'
  <2> SUFFICES ASSUME q # p, req'[q] = req[q], FamilyAt(q)' = FamilyAt(q)
               PROVE  GotAt(q)' /\ FreshAt(q)' /\ NoneAt(q)' /\ TokenAt(q)'
    BY <1>6 DEF GotAt, FreshAt, NoneAt, TokenAt
  <2>1. FreshAt(q)'
    <3> SUFFICES ASSUME req[q].at = "respond" PROVE FreshAt(q)'
      BY DEF FreshAt
    <3>1. req[q].got # 0
      BY DEF Forms
    <3> QED
      BY <1>1, <1>6, <3>1 DEF Tokens, FreshAt
  <2>2. GotAt(q)' /\ NoneAt(q)' /\ TokenAt(q)'
    BY <1>1, <1>4 DEF Tokens, GotAt, NoneAt, TokenAt, Over
  <2> QED
    BY <2>1, <2>2
<1>11. ASSUME NEW d \in Device PROVE CookieAt(d)'
  <2> SUFFICES ASSUME cookie[d] # 0 PROVE CookieAt(d)'
    BY <1>1 DEF CookieAt
  <2>1. CASE cookie[d] \in live \/ Over(Family(cookie[d]))
    BY <1>1, <1>4, <2>1 DEF CookieAt, Over
  <2>2. CASE ~(cookie[d] \in live \/ Over(Family(cookie[d])))
    <3>1. PICK q \in Proc : req[q].at \in {"insert", "respond"} /\ req[q].given # 0 /\ FamilyAt(q) = Family(cookie[d])
      BY <2>2 DEF Tokens, CookieAt
    <3>2. CASE q = p
      BY <1>1, <1>4, <3>1, <3>2 DEF CookieAt, Over
    <3>3. CASE q # p
      BY <1>1, <1>2, <1>4, <3>1, <3>3 DEF CookieAt, FamilyAt
    <3> QED
      BY <3>2, <3>3
  <2> QED
    BY <2>1, <2>2
<1>12. GoodTokens'
  <2>1. ASSUME NEW s \in Issued, Good(s) PROVE Good(s)'
    <3>1. CASE req[p].at = "purge"
      BY <1>1, <1>4, <3>1 DEF Good
    <3>2. CASE req[p].at # "purge"
      <4>1. \A q \in Proc : req[q].at = "purge" => req'[q] = req[q]
        BY <1>2, <3>2
      <4> QED
        BY <1>1, <1>4, <2>1, <4>1 DEF Good
    <3> QED
      BY <3>1, <3>2
  <2>2. \A q \in Proc : Refreshes(q) => req[q].given \in Issued
    BY RequestTypes DEF Refreshes
  <2> QED
    BY <1>1, <1>6, <2>1, <2>2 DEF Tokens, GoodTokens, Forms
<1> QED
  BY <1>5, <1>7, <1>8, <1>9, <1>10, <1>11, <1>12 DEF Tokens

-----------------------------------------------------------------------------
\* A request about no token moves on, or only notes that it was crossed.
Moves(p) ==
    /\ req[p].given = 0 /\ req[p].got = 0 /\ req[p].at # "purge"
    /\ req'[p].given = 0 /\ req'[p].got = 0 /\ req'[p].at \notin {"rotate", "drop", "dropFamily", "respond"}
    /\ req'[p].at # "free" => req'[p].user \in User
    /\ req'[p].at \in {"compare", "backup", "count", "insert"} => req'[p].dev \in Device
Notes(p) ==
    /\ req'[p].given = req[p].given /\ req'[p].got = req[p].got /\ req'[p].at = req[p].at
    /\ req'[p].user = req[p].user /\ req'[p].dev = req[p].dev

LEMMA OtherStep ==
    ASSUME Forms, Tokens, acct' \in [User -> Account], UNCHANGED <<issued, live, cookie, ended, frayed>>,
           stale \subseteq stale', stale' \subseteq live,
           req' \in [Proc -> Request0], \A p \in Proc : Moves(p) \/ Notes(p),
           \A u \in User : \/ acct'[u].password = acct[u].password
                          \/ \E p \in Proc : req'[p].at = "purge" /\ req'[p].user = u
    PROVE  Forms' /\ Tokens'
<1>1. Issued' = Issued /\ Request0' = Request0
  BY DEF Issued, Request0
<1>2. Forms'
  <2>1. ASSUME NEW p \in Proc
        PROVE  /\ req'[p].at # "free" => req'[p].user \in User
               /\ req'[p].given # 0 => req'[p].at \in {"rotate", "insert", "respond", "drop", "dropFamily"}
               /\ req'[p].at \in {"rotate", "drop", "dropFamily"} => req'[p].given # 0
               /\ req'[p].got # 0 <=> req'[p].at = "respond"
               /\ req'[p].at \in {"compare", "backup", "count", "insert"} \/ req'[p].given # 0 \/ req'[p].got # 0 =>
                     req'[p].dev \in Device
    <3>1. CASE Moves(p)
      BY <3>1 DEF Moves
    <3>2. CASE Notes(p)
      BY <3>2 DEF Notes, Forms
    <3> QED
      BY <3>1, <3>2
  <2> QED
    BY <1>1, <2>1 DEF Forms
<1>3. \A p \in Proc : Keeps(p)
  BY DEF Moves, Notes, Keeps
<1> QED
  BY <1>2, <1>3, TokensKept

\* The second factors are as before where nothing about them is written.
LEMMA FactorsKept ==
    ASSUME Factors, Forms, UNCHANGED <<confirmed, mixed>>,
           \A u \in User : /\ acct'[u].enabled = acct[u].enabled /\ acct'[u].secret = acct[u].secret
                           /\ acct'[u].temp = acct[u].temp,
           \A p \in Proc : req'[p].at = "enable" => req'[p] = req[p]
    PROVE  Factors'
<1>1. \A p \in Proc : ProvesAt(p)'
  BY DEF Factors, ProvesAt, Forms
<1> QED
  BY <1>1 DEF Factors, SecondFactorWorks

\* A request begins.
LEMMA BeginKeeps ==
    ASSUME Forms, Tokens, NEW p \in Proc, NEW r, Begin(p, r), UNCHANGED <<tables, cookie, history>>,
           r \in Request0, r.user \in User, r.given = 0, r.got = 0,
           r.at \notin {"rotate", "drop", "dropFamily", "respond"},
           r.at \in {"compare", "backup", "count", "insert"} => r.dev \in Device
    PROVE  Forms' /\ Tokens' /\ req'[p] = r /\ req[p] = Idle /\ (\A q \in Proc \ {p} : req'[q] = req[q])
<1>1. /\ req[p] = Idle /\ req' = [req EXCEPT ![p] = r]
      /\ UNCHANGED <<acct, issued, live, stale, cookie, ended, frayed>>
  BY DEF Begin, tables, history
<1>2. req'[p] = r /\ (\A q \in Proc \ {p} : req'[q] = req[q]) /\ req' \in [Proc -> Request0]
  BY <1>1 DEF Forms
<1>3. req[p].at = "free" /\ req[p].given = 0 /\ req[p].got = 0
  BY <1>1 DEF Idle
<1>4. Moves(p) /\ \A q \in Proc \ {p} : Notes(q)
  BY <1>2, <1>3 DEF Moves, Notes
<1>5. stale \subseteq stale' /\ stale' \subseteq live /\ acct' \in [User -> Account]
  BY <1>1 DEF Forms
<1> QED
  BY <1>1, <1>2, <1>4, <1>5, OtherStep

LEMMA BeginsKeep ==
    ASSUME IInv, NEW p \in Proc, NEW u \in User, NEW d, NEW good,
           \/ Register(p, u) \/ ResetPassword(p, u) \/ VerifySecondFactor(p, u)
           \/ /\ d \in Device /\ good \in BOOLEAN
              /\ Login(p, u, d, good) \/ SecondFactor(p, u, d, good)
    PROVE  IInv'
<1> DEFINE at == IF good THEN "insert" ELSE "backup"
           r1 == [Request("enable", u) EXCEPT !.seen = Seen(u, {"temp"})]
           r2 == [Request("compare", u) EXCEPT !.dev = d, !.good = good,
                    !.seen = Seen(u, {"status", "password", "fails", "enabled"})]
           r3 == [Request(at, u) EXCEPT !.dev = d, !.seen = Seen(u, {"password"})]
<1>1. Forms /\ Tokens /\ Factors
  BY DEF IInv
<1>2. PICK r :
        /\ Begin(p, r) /\ UNCHANGED <<tables, cookie, history>>
        /\ r \in Request0 /\ r.user \in User /\ r.given = 0 /\ r.got = 0
        /\ r.at \notin {"rotate", "drop", "dropFamily", "respond"}
        /\ r.at \in {"compare", "backup", "count", "insert"} => r.dev \in Device
        /\ r.at = "enable" => r.seen.temp = acct[u].temp /\ acct[u].temp # NoSecret /\ r.user = u
  <2>1. CASE Register(p, u)
    <3>1. "insertUser" \in Steps /\ Begin(p, Request("insertUser", u)) /\ UNCHANGED <<tables, cookie, history>>
      BY <2>1 DEF Register, Steps
    <3> QED
      BY <1>1, <3>1, RequestIs
  <2>2. CASE ResetPassword(p, u)
    <3>1. "hash" \in Steps /\ Begin(p, Request("hash", u)) /\ UNCHANGED <<tables, cookie, history>>
      BY <2>2 DEF ResetPassword, Steps
    <3> QED
      BY <1>1, <3>1, RequestIs
  <2>3. CASE VerifySecondFactor(p, u)
    <3>1. /\ "enable" \in Steps /\ acct[u].temp # NoSecret
          /\ Begin(p, r1) /\ UNCHANGED <<tables, cookie, history>>
      BY <2>3 DEF VerifySecondFactor, Steps
    <3>2. /\ Request("enable", u) \in Request0 /\ Request("enable", u).at = "enable" /\ Request("enable", u).user = u
          /\ Request("enable", u).given = 0 /\ Request("enable", u).got = 0 /\ Seen(u, {"temp"}) \in Account
      BY <1>1, <3>1, RequestIs
    <3>3. r1 \in Request0
      BY <3>2 DEF Request0
    <3>4. Seen(u, {"temp"}).temp = acct[u].temp
      BY <1>1, <3>1, RequestIs
    <3>5. r1.seen.temp = acct[u].temp /\ r1.user = u /\ r1.given = 0 /\ r1.got = 0 /\ r1.at = "enable"
      BY <3>2, <3>4 DEF Request0
    <3> HIDE DEF r1
    <3> QED
      BY <3>1, <3>3, <3>5
  <2>4. CASE d \in Device /\ good \in BOOLEAN /\ Login(p, u, d, good)
    <3>1. "compare" \in Steps /\ Begin(p, r2) /\ UNCHANGED <<tables, cookie, history>>
      BY <2>4 DEF Login, Steps
    <3>2. /\ Request("compare", u) \in Request0 /\ Request("compare", u).at = "compare" /\ Request("compare", u).user = u
          /\ Request("compare", u).given = 0 /\ Request("compare", u).got = 0 /\ Seen(u, {"status", "password", "fails", "enabled"}) \in Account
      BY <1>1, <3>1, RequestIs
    <3>3. r2 \in Request0
      BY <2>4, <3>2 DEF Request0
    <3>4. r2.user = u /\ r2.given = 0 /\ r2.got = 0 /\ r2.at = "compare" /\ r2.dev = d
      BY <3>2 DEF Request0
    <3> HIDE DEF r2
    <3> QED
      BY <2>4, <3>1, <3>3, <3>4
  <2>5. CASE d \in Device /\ good \in BOOLEAN /\ SecondFactor(p, u, d, good)
    <3>1. at \in Steps /\ Begin(p, r3) /\ UNCHANGED <<tables, cookie, history>>
      BY <2>5 DEF SecondFactor, Steps
    <3>2. /\ Request(at, u) \in Request0 /\ Request(at, u).at = at /\ Request(at, u).user = u
          /\ Request(at, u).given = 0 /\ Request(at, u).got = 0 /\ Seen(u, {"password"}) \in Account
      BY <1>1, <3>1, RequestIs
    <3>3. r3 \in Request0
      BY <2>5, <3>2 DEF Request0
    <3>4. r3.user = u /\ r3.given = 0 /\ r3.got = 0 /\ r3.at \in {"insert", "backup"} /\ r3.dev = d
      BY <3>2 DEF Request0
    <3> HIDE DEF r3
    <3> QED
      BY <2>5, <3>1, <3>3, <3>4
  <2> QED
    BY <2>1, <2>2, <2>3, <2>4, <2>5
<1>3. Forms' /\ Tokens' /\ req'[p] = r /\ req[p] = Idle /\ (\A q \in Proc \ {p} : req'[q] = req[q])
  BY <1>1, <1>2, BeginKeeps
<1>4. UNCHANGED <<acct, confirmed, mixed>>
  BY <1>2 DEF tables, history
<1>5. ASSUME NEW q \in Proc PROVE ProvesAt(q)'
  <2>1. CASE q = p
    BY <1>2, <1>3, <1>4, <2>1 DEF ProvesAt
  <2>2. CASE q # p
    BY <1>1, <1>3, <1>4, <2>2 DEF Factors, ProvesAt
  <2> QED
    BY <2>1, <2>2
<1> QED
  BY <1>1, <1>3, <1>4, <1>5 DEF IInv, Factors, SecondFactorWorks

\* A step that writes neither tokens nor second factors; passwords change only
\* where the deletion of the tokens is to follow.
Plain ==
    /\ UNCHANGED <<issued, live, cookie, ended, frayed, confirmed, mixed>>
    /\ stale \subseteq stale' /\ stale' \subseteq live
    /\ acct' \in [User -> Account]
    /\ \A u \in User : /\ acct'[u].enabled = acct[u].enabled /\ acct'[u].secret = acct[u].secret
                       /\ acct'[u].temp = acct[u].temp
                       /\ \/ acct'[u].password = acct[u].password
                          \/ \E p \in Proc : req'[p].at = "purge" /\ req'[p].user = u
    /\ req' \in [Proc -> Request0]
    /\ \A p \in Proc : req'[p] = req[p] \/ (Moves(p) /\ req'[p].at # "enable")

LEMMA PlainStep == ASSUME IInv, Plain PROVE IInv'
<1> USE DEF Plain
<1>1. UNCHANGED <<issued, live, cookie, ended, frayed, confirmed, mixed>>
  BY DEF history
<1>2. \A p \in Proc : Moves(p) \/ Notes(p)
  BY DEF Notes
<1>3. Forms' /\ Tokens'
  BY <1>1, <1>2, OtherStep DEF IInv
<1>4. Factors'
  BY <1>1, FactorsKept DEF IInv
<1> QED
  BY <1>3, <1>4 DEF IInv

\* Statements on the row of a user that make no request move.
LEMMA RowsKeep ==
    ASSUME IInv, NEW u \in User, VerifyEmail(u) \/ ForgotPassword(u) \/ LockExpires(u) \/ ResetExpires(u)
    PROVE  IInv'
<1>1. acct[u] \in Account /\ acct \in [User -> Account]
  BY DEF IInv, Forms
<1>2. UNCHANGED <<issued, live, stale, cookie, history, req>>
  BY DEF VerifyEmail, ForgotPassword, LockExpires, ResetExpires
<1>3. PICK row \in Account :
        /\ acct' = [acct EXCEPT ![u] = row]
        /\ row.enabled = acct[u].enabled /\ row.secret = acct[u].secret /\ row.temp = acct[u].temp
        /\ row.password = acct[u].password
  <2>1. CASE VerifyEmail(u)
    <3> DEFINE row == [acct[u] EXCEPT !.status = "verified"]
    <3>1. acct' = [acct EXCEPT ![u] = row]
      BY <2>1, <1>1 DEF VerifyEmail
    <3>2. /\ row \in Account /\ row.enabled = acct[u].enabled /\ row.secret = acct[u].secret
          /\ row.temp = acct[u].temp /\ row.password = acct[u].password
      BY <1>1 DEF Account
    <3> QED
      BY <3>1, <3>2
  <2>2. CASE ForgotPassword(u)
    <3> DEFINE row == [acct[u] EXCEPT !.reset = TRUE]
    <3>1. acct' = [acct EXCEPT ![u] = row]
      BY <2>2, <1>1 DEF ForgotPassword
    <3>2. /\ row \in Account /\ row.enabled = acct[u].enabled /\ row.secret = acct[u].secret
          /\ row.temp = acct[u].temp /\ row.password = acct[u].password
      BY <1>1 DEF Account
    <3> QED
      BY <3>1, <3>2
  <2>3. CASE LockExpires(u)
    <3> DEFINE row == [acct[u] EXCEPT !.locked = FALSE]
    <3>1. acct' = [acct EXCEPT ![u] = row]
      BY <2>3, <1>1 DEF LockExpires
    <3>2. /\ row \in Account /\ row.enabled = acct[u].enabled /\ row.secret = acct[u].secret
          /\ row.temp = acct[u].temp /\ row.password = acct[u].password
      BY <1>1 DEF Account
    <3> QED
      BY <3>1, <3>2
  <2>4. CASE ResetExpires(u)
    <3> DEFINE row == [acct[u] EXCEPT !.reset = FALSE]
    <3>1. acct' = [acct EXCEPT ![u] = row]
      BY <2>4, <1>1 DEF ResetExpires
    <3>2. /\ row \in Account /\ row.enabled = acct[u].enabled /\ row.secret = acct[u].secret
          /\ row.temp = acct[u].temp /\ row.password = acct[u].password
      BY <1>1 DEF Account
    <3> QED
      BY <3>1, <3>2
  <2> QED
    BY <2>1, <2>2, <2>3, <2>4
<1>4. /\ acct' \in [User -> Account]
      /\ \A v \in User : /\ acct'[v].enabled = acct[v].enabled /\ acct'[v].secret = acct[v].secret
                         /\ acct'[v].temp = acct[v].temp /\ acct'[v].password = acct[v].password
  BY <1>1, <1>3
<1>5. stale \subseteq stale' /\ stale' \subseteq live /\ req' \in [Proc -> Request0]
  BY <1>2 DEF IInv, Forms
<1>6. Plain
  BY <1>2, <1>4, <1>5 DEF Plain, history
<1> QED
  BY <1>6, PlainStep

\* A request p goes on to the step s, with what it may have read.
GoesOn(p, s) == \E seen \in Account : req' = [req EXCEPT ![p].at = s, ![p].seen = seen]

\* Statements on the row of its user by a request p, which goes on to the step
\* s or ends.
LEMMA RequestMoves ==
    ASSUME IInv, NEW p \in Proc, req[p].at \in {"insertUser", "subscribe", "compare", "backup", "count", "hash"},
           UNCHANGED <<issued, live, stale, cookie, history>>,
           NEW row \in Account, acct' = [acct EXCEPT ![req[p].user] = row],
           row.enabled = acct[req[p].user].enabled, row.secret = acct[req[p].user].secret,
           row.temp = acct[req[p].user].temp,
           NEW s \in {"free", "subscribe", "count", "insert", "purge"},
           row.password = acct[req[p].user].password \/ s = "purge",
           s \in {"count", "insert"} => req[p].at \in {"compare", "backup", "count"},
           IF s = "free" THEN End(p) ELSE GoesOn(p, s)
    PROVE  IInv'
<1> DEFINE u == req[p].user
<1>1. /\ u \in User /\ acct \in [User -> Account] /\ req[p] \in Request0 /\ req[p].given = 0 /\ req[p].got = 0
  BY RequestTypes DEF IInv, Forms
<1>2. acct' \in [User -> Account] /\ acct'[u] = row /\ \A v \in User \ {u} : acct'[v] = acct[v]
  BY <1>1
<1>3. Idle \in Request0
  <2>1. NewRow \in Account
    BY DEF NewRow, Account
  <2> QED
    BY <2>1 DEF Idle, Request0, Steps
<1>4. /\ req' \in [Proc -> Request0] /\ (\A q \in Proc \ {p} : req'[q] = req[q])
      /\ req'[p].at = s /\ req'[p].given = 0 /\ req'[p].got = 0
      /\ s # "free" => req'[p].user = u /\ req'[p].dev = req[p].dev
  <2>1. CASE s = "free"
    <3>1. req' = [req EXCEPT ![p] = Idle]
      BY <2>1 DEF End
    <3> QED
      BY <1>3, <2>1, <3>1 DEF IInv, Forms, Idle
  <2>2. CASE s # "free"
    <3>1. PICK seen \in Account : req' = [req EXCEPT ![p].at = s, ![p].seen = seen]
      BY <2>2 DEF GoesOn
    <3>2. s \in Steps
      BY DEF Steps
    <3>3. /\ req' \in [Proc -> Request0] /\ (\A q \in Proc \ {p} : req'[q] = req[q])
          /\ req'[p].at = s /\ req'[p].given = req[p].given /\ req'[p].got = req[p].got
          /\ req'[p].user = u /\ req'[p].dev = req[p].dev
      BY <1>1, <3>1, <3>2 DEF IInv, Forms, Request0
    <3> QED
      BY <1>1, <3>3
  <2> QED
    BY <2>1, <2>2
<1>5. Moves(p) /\ req'[p].at # "enable"
  BY <1>1, <1>4 DEF Moves, IInv, Forms
<1>6. stale \subseteq stale' /\ stale' \subseteq live
  BY DEF IInv, Forms
<1>7. ASSUME NEW v \in User
      PROVE  /\ acct'[v].enabled = acct[v].enabled /\ acct'[v].secret = acct[v].secret
             /\ acct'[v].temp = acct[v].temp
             /\ \/ acct'[v].password = acct[v].password
                \/ \E q \in Proc : req'[q].at = "purge" /\ req'[q].user = v
  BY <1>2, <1>4
<1>8. Plain
  BY <1>2, <1>4, <1>5, <1>6, <1>7 DEF Plain, history
<1> QED
  BY <1>8, PlainStep

\* Going on without having read anything is going on with what was read.
LEMMA GotoIs ==
    ASSUME IInv, NEW p \in Proc, NEW s, Goto(p, s)
    PROVE  GoesOn(p, s)
<1>1. req[p].seen \in Account /\ req[p] \in Request0 /\ req \in [Proc -> Request0]
  BY RequestTypes DEF IInv, Forms
<1>2. [req[p] EXCEPT !.at = s] = [req[p] EXCEPT !.at = s, !.seen = req[p].seen]
  BY <1>1 DEF Request0
<1>3. req' = [req EXCEPT ![p] = [req[p] EXCEPT !.at = s]]
  BY <1>1 DEF Goto
<1>4. req' = [req EXCEPT ![p].at = s, ![p].seen = req[p].seen]
  BY <1>1, <1>2, <1>3
<1> QED
  BY <1>1, <1>4 DEF GoesOn

LEMMA RequestsKeep ==
    ASSUME IInv, NEW p \in Proc,
           \/ InsertUser(p) \/ Subscribe(p) \/ LoginFails(p) \/ LoginPasses(p)
           \/ ReadBackup(p) \/ CountBackup(p) \/ SetPassword(p)
    PROVE  IInv'
<1> DEFINE u == req[p].user
<1>1. req[p].at \in {"insertUser", "subscribe", "compare", "backup", "count", "hash"}
  BY DEF InsertUser, Subscribe, LoginFails, LoginPasses, ReadBackup, CountBackup, SetPassword
<1>2. /\ u \in User /\ acct[u] \in Account /\ acct \in [User -> Account] /\ req[p].seen \in Account
      /\ req[p] \in Request0 /\ req \in [Proc -> Request0]
  BY <1>1, RequestTypes DEF IInv, Forms
<1>3. UNCHANGED <<issued, live, stale, cookie, history>>
  BY DEF InsertUser, Subscribe, LoginFails, LoginPasses, ReadBackup, CountBackup, SetPassword, tables
<1>4. acct = [acct EXCEPT ![u] = acct[u]]
  BY <1>2
<1>5. CASE InsertUser(p)
  <2>1. CASE acct[u].status = "none"
    <3> DEFINE row == [acct[u] EXCEPT !.status = "unverified"]
    <3>1. acct' = [acct EXCEPT ![u] = row] /\ Goto(p, "subscribe")
      BY <1>2, <1>5, <2>1 DEF InsertUser
    <3>2. /\ row \in Account /\ row.enabled = acct[u].enabled /\ row.secret = acct[u].secret
          /\ row.temp = acct[u].temp /\ row.password = acct[u].password
      BY <1>2 DEF Account
    <3> HIDE DEF row
    <3>3. GoesOn(p, "subscribe")
      BY <3>1, GotoIs
    <3> QED
      BY <1>1, <1>3, <3>1, <3>2, <3>3, RequestMoves
  <2>2. CASE acct[u].status # "none"
    <3>1. acct' = [acct EXCEPT ![u] = acct[u]] /\ End(p)
      BY <1>4, <1>5, <2>2 DEF InsertUser
    <3> QED
      BY <1>1, <1>2, <1>3, <3>1, RequestMoves
  <2> QED
    BY <2>1, <2>2
<1>6. CASE Subscribe(p)
  <2> DEFINE row == [acct[u] EXCEPT !.subscribed = TRUE]
  <2>1. acct' = [acct EXCEPT ![u] = row] /\ End(p)
    BY <1>2, <1>6 DEF Subscribe
  <2>2. /\ row \in Account /\ row.enabled = acct[u].enabled /\ row.secret = acct[u].secret
        /\ row.temp = acct[u].temp /\ row.password = acct[u].password
    BY <1>2 DEF Account
  <2> HIDE DEF row
  <2> QED
    BY <1>1, <1>3, <2>1, <2>2, RequestMoves
<1>7. CASE LoginFails(p)
  <2> DEFINE n == req[p].seen.fails + 1
             b == acct[u].locked \/ n >= LoginLimit
             row == [acct[u] EXCEPT !.fails = n, !.locked = b]
  <2>1. acct' = [acct EXCEPT ![u] = row] /\ End(p)
    BY <1>2, <1>7 DEF LoginFails
  <2>2. n \in Nat /\ b \in BOOLEAN
    BY <1>2 DEF Account
  <2> HIDE DEF n, b
  <2>3. /\ row \in Account /\ row.enabled = acct[u].enabled /\ row.secret = acct[u].secret
        /\ row.temp = acct[u].temp /\ row.password = acct[u].password
    BY <1>2, <2>2 DEF Account
  <2> HIDE DEF row
  <2> QED
    BY <1>1, <1>3, <2>1, <2>3, RequestMoves
<1>8. CASE LoginPasses(p)
  <2> DEFINE row == [acct[u] EXCEPT !.fails = 0, !.locked = FALSE]
             seen == [NewRow EXCEPT !.password = req[p].seen.password]
  <2>1. /\ acct' = [acct EXCEPT ![u] = row] /\ req[p].at = "compare"
        /\ req' = [req EXCEPT ![p].at = "insert", ![p].seen = seen] \/ End(p)
    BY <1>2, <1>8 DEF LoginPasses
  <2>2. /\ row \in Account /\ row.enabled = acct[u].enabled /\ row.secret = acct[u].secret
        /\ row.temp = acct[u].temp /\ row.password = acct[u].password
    BY <1>2 DEF Account
  <2>3. seen \in Account
    BY <1>2 DEF NewRow, Account
  <2> HIDE DEF row, seen
  <2>4. GoesOn(p, "insert") \/ End(p)
    BY <2>1, <2>3 DEF GoesOn
  <2> QED
    BY <1>3, <2>1, <2>2, <2>4, RequestMoves
<1>9. CASE ReadBackup(p)
  <2> DEFINE s == IF acct[u].locked THEN "insert" ELSE "count"
             seen == [req[p].seen EXCEPT !.fails2 = acct[u].fails2]
  <2>1. /\ UNCHANGED acct /\ req[p].at = "backup" /\ s \in {"insert", "count"}
        /\ req' = [req EXCEPT ![p].seen.fails2 = acct[u].fails2, ![p].at = s]
    BY <1>9 DEF ReadBackup, tables
  <2>2. seen \in Account
    BY <1>2 DEF Account
  <2> HIDE DEF s
  <2>3. [req[p] EXCEPT !.seen.fails2 = acct[u].fails2, !.at = s] = [req[p] EXCEPT !.at = s, !.seen = seen]
    BY <1>2 DEF Request0
  <2>4. req' = [req EXCEPT ![p] = [req[p] EXCEPT !.seen.fails2 = acct[u].fails2, !.at = s]]
    BY <1>2, <2>1
  <2> HIDE DEF seen
  <2>5. req' = [req EXCEPT ![p].at = s, ![p].seen = seen]
    BY <1>2, <2>3, <2>4
  <2>6. GoesOn(p, s)
    BY <2>2, <2>5 DEF GoesOn
  <2>7. acct' = [acct EXCEPT ![u] = acct[u]]
    BY <1>4, <2>1
  <2> QED
    BY <1>2, <1>3, <2>1, <2>6, <2>7, RequestMoves
<1>10. CASE CountBackup(p)
  <2> DEFINE n == req[p].seen.fails2 + 1
             b == n >= BackupLimit
             row == [acct[u] EXCEPT !.fails2 = n, !.locked = b]
  <2>1. acct' = [acct EXCEPT ![u] = row] /\ Goto(p, "insert") /\ req[p].at = "count"
    BY <1>2, <1>10 DEF CountBackup
  <2>2. n \in Nat /\ b \in BOOLEAN
    BY <1>2 DEF Account
  <2> HIDE DEF n, b
  <2>3. /\ row \in Account /\ row.enabled = acct[u].enabled /\ row.secret = acct[u].secret
        /\ row.temp = acct[u].temp /\ row.password = acct[u].password
    BY <1>2, <2>2 DEF Account
  <2> HIDE DEF row
  <2>4. GoesOn(p, "insert")
    BY <2>1, GotoIs
  <2> QED
    BY <1>3, <2>1, <2>3, <2>4, RequestMoves
<1>11. CASE SetPassword(p)
  <2> DEFINE n == acct[u].password + 1
             row == [acct[u] EXCEPT !.password = n, !.reset = FALSE]
  <2>1. acct' = [acct EXCEPT ![u] = row] /\ Goto(p, "purge")
    BY <1>2, <1>11 DEF SetPassword
  <2>3. n \in Nat
    BY <1>2 DEF Account
  <2> HIDE DEF n
  <2>2. /\ row \in Account /\ row.enabled = acct[u].enabled /\ row.secret = acct[u].secret
        /\ row.temp = acct[u].temp
    BY <1>2, <2>3 DEF Account
  <2> HIDE DEF row
  <2>4. GoesOn(p, "purge")
    BY <2>1, GotoIs
  <2> QED
    BY <1>1, <1>3, <2>1, <2>2, <2>4, RequestMoves
<1> QED
  BY <1>5, <1>6, <1>7, <1>8, <1>9, <1>10, <1>11

-----------------------------------------------------------------------------
\* Statements on the second factor of u, which mark what they cross.
Writes(u, ps, row, secret) ==
    /\ Cross(ps, u) /\ \A p \in ps : req[p].at = "enable"
    /\ acct' = [acct EXCEPT ![u] = row] /\ row.password = acct[u].password
    /\ UNCHANGED <<issued, live, stale, cookie, ended, frayed>>
    /\ confirmed' = [confirmed EXCEPT ![u] = secret]
    /\ \A v \in User \ {u} : v \in mixed <=> v \in mixed'
    /\ row.enabled /\ u \notin mixed' => row.secret = secret /\ secret # NoSecret

LEMMA FactorWritten ==
    ASSUME IInv, NEW u \in User, NEW ps \in SUBSET Proc, NEW row \in Account,
           NEW secret \in Secret \cup {NoSecret}, Writes(u, ps, row, secret)
    PROVE  IInv'
<1> USE DEF Writes
<1>1. Forms /\ Tokens /\ Factors /\ acct \in [User -> Account] /\ req \in [Proc -> Request0]
  BY DEF IInv, Forms
<1>2. acct' \in [User -> Account] /\ acct'[u] = row /\ \A v \in User \ {u} : acct'[v] = acct[v]
  BY <1>1
<1>3. Idle \in Request0
  <2>1. NewRow \in Account
    BY DEF NewRow, Account
  <2> QED
    BY <2>1 DEF Idle, Request0, Steps
<1>4. ASSUME NEW q \in Proc
      PROVE  /\ req'[q] \in Request0
             /\ q \in ps => req'[q] = Idle
             /\ q \notin ps => /\ Notes(q) /\ req'[q].seen = req[q].seen
                               /\ req'[q].crossed <=> req[q].crossed \/ (req[q].at = "enable" /\ req[q].user = u)
  <2> DEFINE b == req[q].crossed \/ (req[q].at = "enable" /\ req[q].user = u)
  <2>1. req[q] \in Request0 /\ b \in BOOLEAN
    BY <1>1 DEF Request0
  <2>2. req'[q] = IF q \in ps THEN Idle ELSE [req[q] EXCEPT !.crossed = b]
    BY <2>1 DEF Cross, Request0
  <2> HIDE DEF b
  <2>3. q \notin ps => Notes(q) /\ req'[q].seen = req[q].seen /\ req'[q].crossed = b /\ req'[q] \in Request0
    BY <2>1, <2>2 DEF Notes, Request0
  <2> QED
    BY <1>3, <2>2, <2>3 DEF b
<1>5. req' \in [Proc -> Request0]
  BY <1>4 DEF Cross
<1>6. \A q \in Proc : Moves(q) \/ Notes(q)
  <2>1. \A q \in ps : Moves(q)
    BY <1>1, <1>4 DEF Moves, Forms, Idle
  <2> QED
    BY <1>4, <2>1
<1>7. \A v \in User : acct'[v].password = acct[v].password
  BY <1>2
<1>8. Forms' /\ Tokens'
  <2>1. stale \subseteq stale' /\ stale' \subseteq live
    BY <1>1 DEF Forms
  <2> QED
    BY <1>1, <1>2, <1>5, <1>6, <1>7, <2>1, OtherStep
<1>9. ASSUME NEW q \in Proc PROVE ProvesAt(q)'
  <2>1. CASE q \in ps
    BY <1>4, <2>1 DEF ProvesAt, Idle
  <2>2. CASE q \notin ps
    <3> SUFFICES ASSUME req[q].at = "enable" PROVE ProvesAt(q)'
      BY <1>4, <2>2 DEF ProvesAt, Notes
    <3>1. ProvesAt(q) /\ req[q].user \in User
      BY <1>1 DEF Factors, Forms
    <3> QED
      BY <1>2, <1>4, <2>2, <3>1 DEF ProvesAt, Notes
  <2> QED
    BY <2>1, <2>2
<1>10. SecondFactorWorks' /\ confirmed' \in [User -> Secret \cup {NoSecret}]
  BY <1>1, <1>2 DEF Factors, SecondFactorWorks
<1> QED
  BY <1>8, <1>9, <1>10 DEF IInv, Factors

LEMMA SetUpKeeps == ASSUME IInv, NEW u \in User, NEW s \in Secret, SetUpSecondFactor(u, s) PROVE IInv'
<1> DEFINE row == [acct[u] EXCEPT !.temp = s]
<1>1. acct \in [User -> Account] /\ acct[u] \in Account /\ SecondFactorWorks
  BY DEF IInv, Forms, Factors
<1>2. /\ acct' = [acct EXCEPT ![u] = row] /\ Cross({}, u)
      /\ UNCHANGED <<issued, live, stale, cookie, ended, frayed, confirmed, mixed>>
  BY <1>1 DEF SetUpSecondFactor, history
<1>3. /\ row \in Account /\ row.enabled = acct[u].enabled /\ row.secret = acct[u].secret
      /\ row.password = acct[u].password
  BY <1>1 DEF Account
<1> HIDE DEF row
<1>4. /\ confirmed[u] \in Secret \cup {NoSecret} /\ confirmed' = [confirmed EXCEPT ![u] = confirmed[u]]
      /\ row.enabled /\ u \notin mixed' => row.secret = confirmed[u] /\ confirmed[u] # NoSecret
  BY <1>1, <1>2, <1>3 DEF SecondFactorWorks, IInv, Factors
<1>5. Writes(u, {}, row, confirmed[u])
  BY <1>2, <1>3, <1>4 DEF Writes
<1> QED
  BY <1>3, <1>4, <1>5, FactorWritten

LEMMA DisableKeeps == ASSUME IInv, NEW u \in User, DisableSecondFactor(u) PROVE IInv'
<1> DEFINE row == [acct[u] EXCEPT !.enabled = FALSE, !.secret = NoSecret, !.temp = NoSecret]
<1>1. acct \in [User -> Account] /\ acct[u] \in Account
  BY DEF IInv, Forms
<1>2. /\ acct' = [acct EXCEPT ![u] = row] /\ Cross({}, u)
      /\ UNCHANGED <<issued, live, stale, cookie, ended, frayed>>
      /\ \A v \in User \ {u} : v \in mixed <=> v \in mixed'
      /\ confirmed' = [confirmed EXCEPT ![u] = NoSecret]
  BY <1>1 DEF DisableSecondFactor
<1>3. row \in Account /\ row.enabled = FALSE /\ row.password = acct[u].password
  BY <1>1 DEF Account
<1> HIDE DEF row
<1>4. Writes(u, {}, row, NoSecret)
  BY <1>2, <1>3 DEF Writes
<1> QED
  BY <1>3, <1>4, FactorWritten

LEMMA EnableKeeps == ASSUME IInv, NEW p \in Proc, EnableSecondFactor(p) PROVE IInv'
<1> DEFINE u == req[p].user
           row == [acct[u] EXCEPT !.enabled = TRUE, !.secret = acct[u].temp, !.temp = NoSecret]
<1>1. /\ req[p].at = "enable" /\ u \in User /\ acct \in [User -> Account] /\ acct[u] \in Account
      /\ ProvesAt(p)
  BY DEF IInv, Forms, Factors, EnableSecondFactor
<1>2. /\ acct' = [acct EXCEPT ![u] = row] /\ Cross({p}, u)
      /\ UNCHANGED <<issued, live, stale, cookie, ended, frayed>>
      /\ \A v \in User \ {u} : v \in mixed <=> v \in mixed'
      /\ req[p].crossed => u \in mixed'
  BY <1>1 DEF EnableSecondFactor
<1>3. row \in Account /\ row.secret = acct[u].temp /\ row.password = acct[u].password
  BY <1>1 DEF Account
<1> HIDE DEF row
<1>4. req[p].seen.temp \in Secret \cup {NoSecret} /\ confirmed' = [confirmed EXCEPT ![u] = req[p].seen.temp]
  BY RequestTypes DEF EnableSecondFactor, IInv, Account
<1>5. Writes(u, {p}, row, req[p].seen.temp)
  BY <1>1, <1>2, <1>3, <1>4 DEF Writes, ProvesAt
<1> QED
  BY <1>1, <1>3, <1>4, <1>5, FactorWritten
-----------------------------------------------------------------------------
LEMMA ExpiresKeeps == ASSUME IInv, NEW t \in Token, TokenExpires(t) PROVE IInv'
<1>1. /\ UNCHANGED <<acct, issued, live, cookie, req, history>>
      /\ stale \subseteq stale' /\ stale' \subseteq live
      /\ acct \in [User -> Account] /\ req \in [Proc -> Request0]
  BY DEF TokenExpires, IInv, Forms
<1>2. Plain
  BY <1>1 DEF Plain, history
<1> QED
  BY <1>2, PlainStep

\* A step about tokens writes no second factor.
LEMMA TokenStep ==
    ASSUME IInv, Forms' /\ Tokens', UNCHANGED <<acct, confirmed, mixed>>,
           \A q \in Proc : req'[q].at = "enable" => req'[q] = req[q]
    PROVE  IInv'
<1>1. Factors'
  BY FactorsKept DEF IInv
<1> QED
  BY <1>1 DEF IInv

LEMMA EndsKeepFactors ==
    ASSUME IInv, NEW p \in Proc, End(p), UNCHANGED issued
    PROVE  \A q \in Proc : req'[q].at = "enable" => req'[q] = req[q]
<1>1. \A q \in Proc : req'[q] = Idle \/ req'[q] = req[q]
  BY Ended DEF IInv
<1> QED
  BY <1>1 DEF Idle

LEMMA TokenRequestsKeep ==
    ASSUME IInv, NEW p \in Proc,
           \/ InsertToken(p) \/ Respond(p) \/ DropExpired(p) \/ DropFamily(p)
           \/ Rotate(p) \/ PurgeTokens(p) \/ Abort(p)
    PROVE  IInv'
<1>1. Forms' /\ Tokens'
  BY InsertKeeps, RespondKeeps, DropsKeep, RotateKeeps, PurgeKeeps, AbortKeeps DEF IInv
<1>2. UNCHANGED <<acct, confirmed, mixed>>
  BY DEF InsertToken, Respond, DropExpired, DropFamily, Rotate, PurgeTokens, Abort, tables, history,
      EndFamilies, Delete
<1>3. ASSUME NEW q \in Proc, req'[q].at = "enable" PROVE req'[q] = req[q]
  <2>1. CASE InsertToken(p) \/ Rotate(p)
    <3>1. req \in [Proc -> Request0]
      BY DEF IInv, Forms
    <3>2. (\A r \in Proc \ {p} : req'[r] = req[r]) /\ req'[p].at # "enable"
      BY <2>1, <3>1 DEF InsertToken, Rotate, Goto, Request0
    <3> QED
      BY <1>3, <3>2
  <2>2. CASE Respond(p) \/ DropExpired(p) \/ DropFamily(p) \/ PurgeTokens(p) \/ Abort(p)
    <3>1. End(p) /\ UNCHANGED issued
      BY <2>2 DEF Respond, DropExpired, DropFamily, PurgeTokens, Abort, Delete, tables
    <3> QED
      BY <1>3, <3>1, EndsKeepFactors
  <2> QED
    BY <2>1, <2>2
<1> QED
  BY <1>1, <1>2, <1>3, TokenStep

LEMMA RefreshKeepsAll ==
    ASSUME IInv, NEW p \in Proc, NEW d \in Device, NEW moved \in BOOLEAN, Refresh(p, d, moved)
    PROVE  IInv'
<1>1. Forms' /\ Tokens'
  BY RefreshKeeps DEF IInv
<1>2. UNCHANGED <<acct, confirmed, mixed>>
  BY DEF Refresh, tables
<1> DEFINE t == cookie[d]
           at == IF t \in stale THEN "drop" ELSE IF moved THEN "dropFamily" ELSE "rotate"
           r == [Request(at, issued[t].user) EXCEPT !.dev = d, !.given = t]
<1>3. req' = [req EXCEPT ![p] = r]
  BY DEF Refresh, Begin
<1>4. r.at = at /\ at # "enable"
  BY DEF Request, Idle
<1> HIDE DEF r
<1>5. ASSUME NEW q \in Proc, req'[q].at = "enable" PROVE req'[q] = req[q]
  BY <1>3, <1>4, <1>5 DEF IInv, Forms
<1> QED
  BY <1>1, <1>2, <1>5, TokenStep

\* Requests of one statement that write neither requests nor accounts.
LEMMA TokenStatementsKeep ==
    ASSUME IInv,
           \/ \E d \in Device : Logout(d) \/ LogoutUnheard(d)
           \/ \E t \in Token : Revoke(t)
    PROVE  IInv'
<1>1. Forms' /\ Tokens'
  BY LogoutKeeps, LogoutUnheardKeeps, RevokeKeeps DEF IInv
<1>2. UNCHANGED <<acct, confirmed, mixed, req>>
  BY DEF Logout, LogoutUnheard, Revoke, tables, history, EndFamilies, Delete
<1> QED
  BY <1>1, <1>2, TokenStep

LEMMA IInvNext == IInv /\ [Next]_vars => IInv'
<1> SUFFICES ASSUME IInv, [Next]_vars PROVE IInv'
  OBVIOUS
<1>1. CASE UNCHANGED vars
  <2>1. /\ UNCHANGED <<acct, issued, live, stale, cookie, req, history>>
        /\ stale \subseteq stale' /\ stale' \subseteq live
        /\ acct \in [User -> Account] /\ req \in [Proc -> Request0]
    BY <1>1 DEF vars, history, IInv, Forms
  <2>2. Plain
    BY <2>1 DEF Plain, history
  <2> QED
    BY <2>2, PlainStep
<1>2. ASSUME NEW p \in Proc, Step(p) \/ Abort(p) PROVE IInv'
  BY <1>2, RequestsKeep, TokenRequestsKeep, EnableKeeps DEF Step, RespondLogin, RespondRefresh
<1>3. ASSUME NEW p \in Proc, NEW u \in User, Register(p, u) \/ ResetPassword(p, u) \/ VerifySecondFactor(p, u)
      PROVE  IInv'
  BY <1>3, BeginsKeep
<1>4. ASSUME NEW p \in Proc, NEW u \in User, NEW d \in Device, NEW good \in BOOLEAN,
             Login(p, u, d, good) \/ SecondFactor(p, u, d, good)
      PROVE  IInv'
  BY <1>4, BeginsKeep
<1>5. ASSUME NEW p \in Proc, NEW d \in Device, NEW moved \in BOOLEAN, Refresh(p, d, moved) PROVE IInv'
  BY <1>5, RefreshKeepsAll
<1>6. ASSUME \/ \E d \in Device : Logout(d) \/ LogoutUnheard(d)
             \/ \E t \in Token : Revoke(t) \/ TokenExpires(t)
      PROVE  IInv'
  BY <1>6, TokenStatementsKeep, ExpiresKeeps
<1>7. ASSUME NEW u \in User, \/ VerifyEmail(u) \/ ForgotPassword(u) \/ DisableSecondFactor(u)
                             \/ LockExpires(u) \/ ResetExpires(u)
      PROVE  IInv'
  BY <1>7, RowsKeep, DisableKeeps
<1>8. ASSUME NEW u \in User, NEW s \in Secret, SetUpSecondFactor(u, s) PROVE IInv'
  BY <1>8, SetUpKeeps
<1> QED
  BY <1>1, <1>2, <1>3, <1>4, <1>5, <1>6, <1>7, <1>8 DEF Next

LEMMA Inductive == Spec => []IInv
<1> QED
  BY IInvInit, IInvNext, PTL DEF Spec

\* Signing out, revoking a session, a stolen or expired token and a new password
\* (handleLogout, handleRefresh, handleResetPassword) end a family for good,
\* whatever else is under way, unless an overlap with a refresh or a fault split it.
THEOREM SignedOutIsOut == Spec => []EndedStaysEnded
<1>1. IInv => EndedStaysEnded
  BY DEF IInv, Tokens, GoodTokens, Good, EndedStaysEnded
<1> QED
  BY <1>1, Inductive, PTL

\* handleRefresh deletes one token of a family and inserts one: no family has two,
\* and the browser's is live, its family is over, or the next one is on its way.
THEOREM OneTokenPerSession == Spec => []SessionKept
<1>1. IInv => SessionKept
  <2> SUFFICES ASSUME IInv PROVE SessionKept
    OBVIOUS
  <2>1. \A s, t \in live : Family(s) = Family(t) /\ Family(s) \notin frayed => s = t
    BY DEF IInv, Tokens, OneLive
  <2>2. \A d \in Device : CookieAt(d)
    BY DEF IInv, Tokens
  <2> QED
    BY <2>1, <2>2 DEF SessionKept, CookieAt, Over, FamilyAt, Refreshing
<1> QED
  BY <1>1, Inductive, PTL

\* POST /2fa/verify copies the temporary secret of the moment: it is the one its
\* user proved to have, unless another 2FA request came in between.
THEOREM ProvedSecretIsAsked == Spec => []SecondFactorWorks
<1>1. IInv => SecondFactorWorks
  BY DEF IInv, Factors
<1> QED
  BY <1>1, Inductive, PTL
-----------------------------------------------------------------------------
(* The bounds on the counters *)

\* The backup codes under way: each of them may still be counted as a failure.
Pending == {p \in Proc : req[p].at \in {"backup", "count"}}

\* What an account has counted was guessed, and there are guesses left for the codes
\* under way.
RowAt(u) ==
    /\ acct[u].password <= MaxResets /\ acct[u].fails <= wrong
    /\ acct[u].fails2 + Cardinality(Pending) <= wrong

\* So it is with what a request has read of an account, and will count up.
SeenAt(p) ==
    /\ req[p].seen.password <= MaxResets /\ req[p].seen.fails <= wrong /\ req[p].seen.fails2 <= wrong
    /\ req[p].at = "compare" /\ ~req[p].good => req[p].seen.fails < wrong
    /\ req[p].at = "count" => req[p].seen.fails2 + Cardinality(Pending) <= wrong

Guesses == IsFiniteSet(Pending) /\ (\A u \in User : RowAt(u)) /\ \A p \in Proc : SeenAt(p)
Histories ==
    /\ Len(issued) <= MaxTokens /\ \A t \in Issued : issued[t].password <= MaxResets
    /\ frayed \subseteq Token /\ mixed \subseteq User
Counters == requests \in 0 .. MaxRequests /\ wrong \in 0 .. MaxWrong /\ faults \in 0 .. MaxFaults

Bounded == Guesses /\ Histories /\ Counters

\* A request goes on with what it has read, without coming to a check that counts.
SameAt(p) ==
    /\ req'[p].seen = req[p].seen
    /\ req'[p].at \in {"compare", "backup", "count"} => req'[p].at = req[p].at /\ req'[p].good = req[p].good

\* A request that begins or ends has read nothing but what has been guessed.
Starts(r, n) ==
    /\ r.at \notin {"backup", "count"}
    /\ r.seen.password <= MaxResets /\ r.seen.fails <= n /\ r.seen.fails2 <= n
    /\ r.at = "compare" /\ ~r.good => r.seen.fails < n
NewAt(p) == Starts(req'[p], wrong')

LEMMA GuessesKept ==
    ASSUME Forms, Forms', Guesses, wrong \in Nat, wrong' \in Nat, wrong <= wrong',
           \A u \in User : /\ acct'[u].password <= MaxResets /\ acct'[u].fails <= wrong'
                           /\ acct'[u].fails2 = acct[u].fails2,
           \A p \in Proc : SameAt(p) \/ NewAt(p)
    PROVE  Guesses'
<1>1. Pending' \subseteq Pending
  BY DEF Pending, SameAt, NewAt, Starts
<1>2. /\ IsFiniteSet(Pending') /\ Cardinality(Pending') <= Cardinality(Pending)
      /\ Cardinality(Pending') \in Nat /\ Cardinality(Pending) \in Nat
  BY <1>1, FS_Subset, FS_CardinalityType DEF Guesses
<1>3. ASSUME NEW u \in User PROVE RowAt(u)'
  <2>1. acct[u] \in Account /\ acct'[u] \in Account /\ RowAt(u)
    BY DEF Forms, Guesses
  <2>2. acct[u].fails2 \in Nat
    BY <2>1 DEF Account
  <2> QED
    BY <1>2, <2>1, <2>2 DEF RowAt
<1>4. ASSUME NEW p \in Proc PROVE SeenAt(p)'
  <2>1. req[p].seen \in Account /\ SeenAt(p)
    BY RequestTypes DEF Guesses
  <2>2. req[p].seen.fails \in Nat /\ req[p].seen.fails2 \in Nat
    BY <2>1 DEF Account
  <2>3. CASE SameAt(p)
    BY <1>2, <2>1, <2>2, <2>3 DEF SameAt, SeenAt
  <2>4. CASE NewAt(p)
    BY <2>4 DEF NewAt, Starts, SeenAt
  <2> QED
    BY <2>3, <2>4
<1> QED
  BY <1>2, <1>3, <1>4 DEF Guesses

\* A step that writes no account.
LEMMA GuessesStay ==
    ASSUME Forms, Forms', Guesses, wrong \in Nat, wrong' \in Nat, wrong <= wrong', acct' = acct,
           \A p \in Proc : SameAt(p) \/ NewAt(p)
    PROVE  Guesses'
<1>1. ASSUME NEW u \in User
      PROVE  /\ acct'[u].password <= MaxResets /\ acct'[u].fails <= wrong'
             /\ acct'[u].fails2 = acct[u].fails2
  <2>1. acct[u] \in Account /\ RowAt(u)
    BY DEF Forms, Guesses
  <2>2. acct[u].fails \in Nat
    BY <2>1 DEF Account
  <2> QED
    BY <2>1, <2>2 DEF RowAt
<1> QED
  BY <1>1, GuessesKept

\* A step that writes the row of u.
LEMMA RowWritten ==
    ASSUME Forms, Forms', Guesses, wrong \in Nat, wrong' = wrong, NEW u \in User, NEW row,
           acct' = [acct EXCEPT ![u] = row], row.password <= MaxResets, row.fails <= wrong,
           row.fails2 = acct[u].fails2, \A p \in Proc : SameAt(p) \/ NewAt(p)
    PROVE  Guesses'
<1>1. ASSUME NEW v \in User
      PROVE  /\ acct'[v].password <= MaxResets /\ acct'[v].fails <= wrong'
             /\ acct'[v].fails2 = acct[v].fails2
  <2>1. acct'[v] = IF v = u THEN row ELSE acct[v]
    BY DEF Forms
  <2>2. RowAt(v)
    BY DEF Guesses
  <2> QED
    BY <2>1, <2>2 DEF RowAt
<1> QED
  BY <1>1, GuessesKept

\* The ways a step treats the requests.
LEMMA NewRowIs ==
    NewRow.password = 0 /\ NewRow.fails = 0 /\ NewRow.fails2 = 0
BY DEF NewRow

LEMMA EndIs ==
    ASSUME Forms, wrong' \in Nat, NEW p \in Proc, End(p)
    PROVE  \A q \in Proc : SameAt(q) \/ NewAt(q)
<1>1. \A q \in Proc : req'[q] = Idle \/ req'[q] = req[q]
  BY DEF End, Forms
<1>2. MaxResets \in Nat
  BY SessionsAssumption
<1>3. Starts(Idle, wrong')
  BY <1>2, NewRowIs DEF Idle, Starts
<1>4. \A q \in Proc : req'[q] = req[q] => SameAt(q)
  BY DEF SameAt
<1> QED
  BY <1>1, <1>3, <1>4 DEF NewAt

LEMMA GotoKeepsSeen ==
    ASSUME Forms, NEW p \in Proc, NEW s, Goto(p, s), s \notin {"compare", "backup", "count"}
    PROVE  \A q \in Proc : SameAt(q) \/ NewAt(q)
<1>1. req[p] \in Request0 /\ req'[p] = [req[p] EXCEPT !.at = s] /\ \A q \in Proc \ {p} : req'[q] = req[q]
  BY RequestTypes DEF Goto, Forms
<1>2. req'[p].seen = req[p].seen /\ req'[p].at = s
  BY <1>1 DEF Request0
<1> QED
  BY <1>1, <1>2 DEF SameAt

LEMMA BeginIs ==
    ASSUME Forms, wrong' \in Nat, NEW p \in Proc, NEW r, Begin(p, r), Starts(r, wrong')
    PROVE  \A q \in Proc : SameAt(q) \/ NewAt(q)
<1>1. req'[p] = r /\ \A q \in Proc \ {p} : req'[q] = req[q]
  BY DEF Begin, Forms
<1> QED
  BY <1>1 DEF SameAt, NewAt

LEMMA CrossIs ==
    ASSUME Forms, wrong' \in Nat, NEW ps, NEW u, Cross(ps, u)
    PROVE  \A q \in Proc : SameAt(q) \/ NewAt(q)
<1> TAKE q \in Proc
<1>1. MaxResets \in Nat
  BY SessionsAssumption
<1>2. CASE q \in ps
  <2>1. req'[q] = Idle
    BY <1>2 DEF Cross
  <2> QED
    BY <1>1, <2>1, NewRowIs DEF Idle, NewAt, Starts
<1>3. CASE q \notin ps
  <2> DEFINE b == req[q].crossed \/ (req[q].at = "enable" /\ req[q].user = u)
  <2>1. req[q] \in Request0
    BY RequestTypes
  <2>2. req'[q] = [req[q] EXCEPT !.crossed = b]
    BY <1>3, <2>1 DEF Cross, Request0
  <2> HIDE DEF b
  <2>3. req'[q].seen = req[q].seen /\ req'[q].at = req[q].at /\ req'[q].good = req[q].good
    BY <2>1, <2>2 DEF Request0
  <2> QED
    BY <2>3 DEF SameAt
<1> QED
  BY <1>2, <1>3

LEMMA SeenIs ==
    ASSUME Forms, NEW u \in User, NEW fields
    PROVE  /\ Seen(u, fields).password \in {0, acct[u].password}
           /\ "fails" \in fields => Seen(u, fields).fails = acct[u].fails
           /\ "fails" \notin fields => Seen(u, fields).fails = 0
           /\ "fails2" \notin fields => Seen(u, fields).fails2 = 0
BY DEF Seen, NewRow

-----------------------------------------------------------------------------
\* The accounts stay as they are, and so does the count of guesses.
Untouched(p) ==
    \/ InsertToken(p) \/ Respond(p) \/ DropExpired(p) \/ DropFamily(p) \/ Rotate(p) \/ PurgeTokens(p) \/ Abort(p)

LEMMA TokensKeepGuesses ==
    ASSUME IInv, IInv', Guesses, wrong \in Nat, NEW p \in Proc, Untouched(p)
    PROVE  Guesses'
<1>1. acct' = acct /\ wrong' = wrong
  BY DEF Untouched, InsertToken, Respond, DropExpired, DropFamily, Rotate, PurgeTokens, Abort, tables, Delete
<1>2. \A q \in Proc : SameAt(q) \/ NewAt(q)
  <2>1. CASE InsertToken(p)
    <3> DEFINE t == Len(issued) + 1
    <3>1. req[p] \in Request0 /\ req' = [req EXCEPT ![p].at = "respond", ![p].got = t] /\ req \in [Proc -> Request0]
      BY <2>1, RequestTypes DEF InsertToken, IInv, Forms
    <3> HIDE DEF t
    <3>2. req'[p] = [req[p] EXCEPT !.at = "respond", !.got = t] /\ \A q \in Proc \ {p} : req'[q] = req[q]
      BY <3>1
    <3>3. req'[p].seen = req[p].seen /\ req'[p].at = "respond"
      BY <3>1, <3>2 DEF Request0
    <3> QED
      BY <3>2, <3>3 DEF SameAt
  <2>2. CASE Rotate(p)
    <3>1. Goto(p, "insert")
      BY <2>2 DEF Rotate
    <3> QED
      BY <3>1, GotoKeepsSeen DEF IInv
  <2>3. CASE ~InsertToken(p) /\ ~Rotate(p)
    <3>1. End(p)
      BY <2>3 DEF Untouched, Respond, DropExpired, DropFamily, PurgeTokens, Abort
    <3> QED
      BY <1>1, <3>1, EndIs DEF IInv
  <2> QED
    BY <2>1, <2>2, <2>3
<1> QED
  BY <1>1, <1>2, GuessesStay DEF IInv

\* Steps that move no request.
LEMMA StillKeepsGuesses ==
    ASSUME IInv, IInv', Guesses, wrong \in Nat, UNCHANGED <<acct, req, wrong>>
    PROVE  Guesses'
<1>1. \A q \in Proc : SameAt(q) \/ NewAt(q)
  BY DEF SameAt
<1> QED
  BY <1>1, GuessesStay DEF IInv

\* Requests that begin without a guess.
LEMMA BeginsKeepGuesses ==
    ASSUME IInv, IInv', Guesses, wrong \in Nat, NEW p \in Proc, NEW u \in User,
           \/ Register(p, u) \/ ResetPassword(p, u) \/ VerifySecondFactor(p, u)
    PROVE  Guesses'
<1>1. acct' = acct /\ wrong' = wrong
  BY DEF Register, ResetPassword, VerifySecondFactor, tables
<1>2. MaxResets \in Nat /\ acct[u] \in Account /\ acct[u].password <= MaxResets
  BY SessionsAssumption DEF IInv, Forms, Guesses, RowAt
<1>3. PICK r : Begin(p, r) /\ Starts(r, wrong)
  <2>1. CASE Register(p, u)
    <3> DEFINE r == Request("insertUser", u)
    <3>1. Begin(p, r) /\ r.at = "insertUser" /\ r.seen = NewRow
      BY <2>1 DEF Register, Request, Idle
    <3> QED
      BY <1>2, <3>1, NewRowIs DEF Starts
  <2>2. CASE ResetPassword(p, u)
    <3> DEFINE r == Request("hash", u)
    <3>1. Begin(p, r) /\ r.at = "hash" /\ r.seen = NewRow
      BY <2>2 DEF ResetPassword, Request, Idle
    <3> QED
      BY <1>2, <3>1, NewRowIs DEF Starts
  <2>3. CASE VerifySecondFactor(p, u)
    <3> DEFINE seen == Seen(u, {"temp"})
               r == [Request("enable", u) EXCEPT !.seen = seen]
    <3>1. Begin(p, r) /\ r.at = "enable" /\ r.seen = seen
      BY <2>3 DEF VerifySecondFactor, Request, Idle
    <3>2. seen.password \in {0, acct[u].password} /\ seen.fails = 0 /\ seen.fails2 = 0
      BY SeenIs DEF IInv
    <3> HIDE DEF r, seen
    <3> QED
      BY <1>2, <3>1, <3>2 DEF Starts
  <2> QED
    BY <2>1, <2>2, <2>3
<1>4. \A q \in Proc : SameAt(q) \/ NewAt(q)
  BY <1>1, <1>3, BeginIs DEF IInv
<1> QED
  BY <1>1, <1>4, GuessesStay DEF IInv

LEMMA RefreshKeepsGuesses ==
    ASSUME IInv, IInv', Guesses, wrong \in Nat, NEW p \in Proc, NEW d, NEW moved, Refresh(p, d, moved)
    PROVE  Guesses'
<1> DEFINE t == cookie[d]
           at == IF t \in stale THEN "drop" ELSE IF moved THEN "dropFamily" ELSE "rotate"
           r == [Request(at, issued[t].user) EXCEPT !.dev = d, !.given = t]
<1>1. acct' = acct /\ wrong' = wrong /\ Begin(p, r)
  BY DEF Refresh, tables
<1>2. r.at = at /\ r.seen = NewRow /\ MaxResets \in Nat
  BY SessionsAssumption DEF Request, Idle
<1> HIDE DEF r
<1>3. Starts(r, wrong)
  BY <1>2, NewRowIs DEF Starts
<1>4. \A q \in Proc : SameAt(q) \/ NewAt(q)
  BY <1>1, <1>3, BeginIs DEF IInv
<1> QED
  BY <1>1, <1>4, GuessesStay DEF IInv

\* A sign-in with a password: a wrong one is guessed before it is counted.
LEMMA LoginKeepsGuesses ==
    ASSUME IInv, IInv', Guesses, wrong \in Nat, NEW p \in Proc, NEW u \in User, NEW d, NEW good \in BOOLEAN,
           Login(p, u, d, good)
    PROVE  Guesses'
<1> DEFINE seen == Seen(u, {"status", "password", "fails", "enabled"})
           r == [Request("compare", u) EXCEPT !.dev = d, !.good = good, !.seen = seen]
<1>1. /\ acct' = acct /\ Begin(p, r) /\ wrong' = IF good THEN wrong ELSE wrong + 1
      /\ r.at = "compare" /\ r.good = good /\ r.seen = seen
  BY DEF Login, Guess, tables, Request, Idle
<1>2. /\ MaxResets \in Nat /\ acct[u].password <= MaxResets /\ acct[u].fails <= wrong
      /\ acct[u].fails \in Nat
  BY SessionsAssumption DEF IInv, Forms, Guesses, RowAt, Account
<1>3. seen.password \in {0, acct[u].password} /\ seen.fails = acct[u].fails /\ seen.fails2 = 0
  BY SeenIs DEF IInv
<1> HIDE DEF r, seen
<1>4. Starts(r, wrong') /\ wrong' \in Nat /\ wrong <= wrong'
  BY <1>1, <1>2, <1>3 DEF Starts
<1>5. \A q \in Proc : SameAt(q) \/ NewAt(q)
  BY <1>1, <1>4, BeginIs DEF IInv
<1> QED
  BY <1>1, <1>4, <1>5, GuessesStay DEF IInv

\* The set of codes under way, with one more and one less.
LEMMA PendingMoves ==
    ASSUME Guesses, NEW p \in Proc, \A q \in Proc \ {p} : req'[q] = req[q]
    PROVE  /\ IsFiniteSet(Pending') /\ Cardinality(Pending) \in Nat /\ Cardinality(Pending') \in Nat
           /\ Cardinality(Pending') <= Cardinality(Pending) + 1
           /\ p \in Pending /\ p \notin Pending' => Cardinality(Pending) = Cardinality(Pending') + 1
           /\ p \in Pending \/ p \notin Pending' => Cardinality(Pending') <= Cardinality(Pending)
<1>1. IsFiniteSet(Pending) /\ Cardinality(Pending) \in Nat
  BY FS_CardinalityType DEF Guesses
<1>2. CASE p \in Pending'
  <2>1. Pending' = Pending \cup {p}
    BY <1>2 DEF Pending
  <2>2. IsFiniteSet(Pending \cup {p}) /\ Cardinality(Pending \cup {p}) \in Nat
    BY <1>1, FS_AddElement, FS_CardinalityType
  <2>3. Cardinality(Pending \cup {p}) = IF p \in Pending THEN Cardinality(Pending) ELSE Cardinality(Pending) + 1
    BY <1>1, FS_AddElement
  <2> QED
    BY <1>1, <1>2, <2>1, <2>2, <2>3
<1>3. CASE p \notin Pending'
  <2>1. Pending' = Pending \ {p}
    BY <1>3 DEF Pending
  <2>2. IsFiniteSet(Pending \ {p}) /\ Cardinality(Pending \ {p}) \in Nat
    BY <1>1, FS_RemoveElement, FS_CardinalityType
  <2> QED
    BY <1>1, <1>3, <2>1, <2>2, FS_RemoveElement
<1> QED
  BY <1>2, <1>3

LEMMA OthersSeen ==
    ASSUME Forms, Guesses, Cardinality(Pending) \in Nat, Cardinality(Pending') \in Nat, wrong \in Nat,
           wrong' \in Nat, wrong <= wrong',
           Cardinality(Pending') + wrong <= Cardinality(Pending) + wrong',
           NEW q \in Proc, req'[q] = req[q]
    PROVE  SeenAt(q)'
<1>1. req[q].seen \in Account /\ SeenAt(q)
  BY RequestTypes DEF Guesses
<1>2. req[q].seen.fails \in Nat /\ req[q].seen.fails2 \in Nat /\ req[q].seen.password \in Nat
  BY <1>1 DEF Account
<1> QED
  BY <1>1, <1>2 DEF SeenAt
\* POST /login/2fa: a wrong code is guessed here and counted two statements later.
LEMMA SecondFactorKeepsGuesses ==
    ASSUME IInv, IInv', Guesses, wrong \in Nat, NEW p \in Proc, NEW u \in User, NEW d, NEW good \in BOOLEAN,
           SecondFactor(p, u, d, good)
    PROVE  Guesses'
<1> DEFINE seen == Seen(u, {"password"})
           at == IF good THEN "insert" ELSE "backup"
           r == [Request(at, u) EXCEPT !.dev = d, !.seen = seen]
<1>1. /\ acct' = acct /\ Begin(p, r) /\ wrong' = IF good THEN wrong ELSE wrong + 1
      /\ r.at = at /\ r.seen = seen
  BY DEF SecondFactor, Guess, tables, Request, Idle
<1>2. MaxResets \in Nat /\ acct[u].password <= MaxResets
  BY SessionsAssumption DEF IInv, Forms, Guesses, RowAt
<1>3. seen.password \in {0, acct[u].password} /\ seen.fails = 0 /\ seen.fails2 = 0
  BY SeenIs DEF IInv
<1> HIDE DEF r, seen
<1>4. CASE good
  <2>1. Starts(r, wrong)
    BY <1>1, <1>2, <1>3, <1>4 DEF Starts
  <2>2. \A q \in Proc : SameAt(q) \/ NewAt(q)
    BY <1>1, <1>4, <2>1, BeginIs DEF IInv
  <2> QED
    BY <1>1, <1>4, <2>2, GuessesStay DEF IInv
<1>5. CASE ~good
  <2>1. wrong' = wrong + 1 /\ req'[p] = r /\ r.at = "backup" /\ \A q \in Proc \ {p} : req'[q] = req[q]
    BY <1>1, <1>5 DEF Begin, IInv, Forms
  <2>2. /\ IsFiniteSet(Pending') /\ Cardinality(Pending) \in Nat /\ Cardinality(Pending') \in Nat
        /\ Cardinality(Pending') <= Cardinality(Pending) + 1
    BY <2>1, PendingMoves
  <2>3. ASSUME NEW v \in User PROVE RowAt(v)'
    <3>1. RowAt(v) /\ acct[v].fails \in Nat /\ acct[v].fails2 \in Nat
      BY DEF IInv, Forms, Guesses, Account
    <3> QED
      BY <1>1, <2>1, <2>2, <3>1 DEF RowAt
  <2>4. ASSUME NEW q \in Proc PROVE SeenAt(q)'
    <3>1. CASE q = p
      BY <1>2, <1>3, <1>1, <2>1, <3>1 DEF SeenAt
    <3>2. CASE q # p
      BY <2>1, <2>2, <3>2, OthersSeen DEF IInv
    <3> QED
      BY <3>1, <3>2
  <2> QED
    BY <2>2, <2>3, <2>4 DEF Guesses
<1> QED
  BY <1>4, <1>5

\* verifyBackupCode has read the counter, which leaves room for all codes under way.
LEMMA ReadKeepsGuesses ==
    ASSUME IInv, IInv', Guesses, wrong \in Nat, NEW p \in Proc, ReadBackup(p)
    PROVE  Guesses'
<1> DEFINE u == req[p].user
           s == IF acct[u].locked THEN "insert" ELSE "count"
           seen == [req[p].seen EXCEPT !.fails2 = acct[u].fails2]
<1>1. /\ req[p].at = "backup" /\ u \in User /\ req[p] \in Request0 /\ req[p].seen \in Account
      /\ req \in [Proc -> Request0] /\ acct[u] \in Account
  BY RequestTypes DEF ReadBackup, IInv, Forms
<1>2. acct' = acct /\ wrong' = wrong /\ s \in {"insert", "count"}
  BY DEF ReadBackup, tables
<1>3. req'[p] = [req[p] EXCEPT !.seen = seen, !.at = s] /\ \A q \in Proc \ {p} : req'[q] = req[q]
  BY <1>1 DEF ReadBackup, Request0
<1>4. /\ seen.password = req[p].seen.password /\ seen.fails = req[p].seen.fails
      /\ seen.fails2 = acct[u].fails2
  BY <1>1 DEF Account
<1> HIDE DEF seen, s
<1>5. req'[p].seen = seen /\ req'[p].at = s
  BY <1>1, <1>3 DEF Request0
<1>6. /\ IsFiniteSet(Pending') /\ Cardinality(Pending) \in Nat /\ Cardinality(Pending') \in Nat
      /\ Cardinality(Pending') <= Cardinality(Pending)
  BY <1>1, <1>3, PendingMoves DEF Pending
<1>7. ASSUME NEW v \in User PROVE RowAt(v)' /\ RowAt(v) /\ acct[v].fails2 \in Nat
  <2>1. RowAt(v) /\ acct[v].fails \in Nat /\ acct[v].fails2 \in Nat
    BY DEF IInv, Forms, Guesses, Account
  <2> QED
    BY <1>2, <1>6, <2>1 DEF RowAt
<1>8. ASSUME NEW q \in Proc PROVE SeenAt(q)'
  <2>1. CASE q = p
    <3>1. SeenAt(p) /\ RowAt(u) /\ acct[u].fails2 \in Nat
      BY <1>1, <1>7 DEF Guesses
    <3> QED
      BY <1>2, <1>4, <1>5, <1>6, <2>1, <3>1 DEF SeenAt, RowAt
  <2>2. CASE q # p
    BY <1>2, <1>3, <1>6, <2>2, OthersSeen DEF IInv
  <2> QED
    BY <2>1, <2>2
<1> QED
  BY <1>6, <1>7, <1>8 DEF Guesses

\* The code that is counted is no longer under way.
LEMMA CountKeepsGuesses ==
    ASSUME IInv, IInv', Guesses, wrong \in Nat, NEW p \in Proc, CountBackup(p)
    PROVE  Guesses'
<1> DEFINE u == req[p].user
           n == req[p].seen.fails2 + 1
           b == n >= BackupLimit
           row == [acct[u] EXCEPT !.fails2 = n, !.locked = b]
<1>1. /\ req[p].at = "count" /\ u \in User /\ req[p] \in Request0 /\ req[p].seen \in Account
      /\ req \in [Proc -> Request0] /\ acct[u] \in Account /\ acct \in [User -> Account]
  BY RequestTypes DEF CountBackup, IInv, Forms
<1>2. acct' = [acct EXCEPT ![u] = row] /\ wrong' = wrong /\ Goto(p, "insert")
  BY <1>1 DEF CountBackup
<1>3. req'[p] = [req[p] EXCEPT !.at = "insert"] /\ \A q \in Proc \ {p} : req'[q] = req[q]
  BY <1>1, <1>2 DEF Goto
<1>4. req'[p].seen = req[p].seen /\ req'[p].at = "insert"
  BY <1>1, <1>3 DEF Request0
<1>5. n \in Nat /\ n = req[p].seen.fails2 + 1 /\ req[p].seen.fails2 \in Nat
  BY <1>1 DEF Account
<1>6. row.password = acct[u].password /\ row.fails = acct[u].fails /\ row.fails2 = n
  BY <1>1 DEF Account
<1> HIDE DEF n, b, row
<1>7. /\ IsFiniteSet(Pending') /\ Cardinality(Pending) \in Nat /\ Cardinality(Pending') \in Nat
      /\ Cardinality(Pending) = Cardinality(Pending') + 1
  BY <1>1, <1>3, <1>4, PendingMoves DEF Pending
<1>8. SeenAt(p)
  BY DEF Guesses
<1>9. ASSUME NEW v \in User PROVE RowAt(v)'
  <2>1. RowAt(v) /\ acct[v].fails \in Nat /\ acct[v].fails2 \in Nat
    BY DEF IInv, Forms, Guesses, Account
  <2>2. CASE v = u
    <3>1. acct'[v] = row
      BY <1>1, <1>2, <2>2
    <3> QED
      BY <1>1, <1>2, <1>5, <1>6, <1>7, <1>8, <2>1, <2>2, <3>1 DEF RowAt, SeenAt
  <2>3. CASE v # u
    <3>1. acct'[v] = acct[v]
      BY <1>1, <1>2, <2>3
    <3> QED
      BY <1>2, <1>7, <2>1, <3>1 DEF RowAt
  <2> QED
    BY <2>2, <2>3
<1>10. ASSUME NEW q \in Proc PROVE SeenAt(q)'
  <2>1. CASE q = p
    BY <1>2, <1>4, <1>8, <2>1 DEF SeenAt
  <2>2. CASE q # p
    BY <1>2, <1>3, <1>7, <2>2, OthersSeen DEF IInv
  <2> QED
    BY <2>1, <2>2
<1> QED
  BY <1>7, <1>9, <1>10 DEF Guesses

\* Statements on a row that leave the counters, or set back that of the passwords.
LEMMA RowsKeepGuesses ==
    ASSUME IInv, IInv', Guesses, wrong \in Nat, NEW u \in User,
           \/ VerifyEmail(u) \/ ForgotPassword(u) \/ LockExpires(u) \/ ResetExpires(u)
           \/ DisableSecondFactor(u) \/ \E s \in Secret : SetUpSecondFactor(u, s)
    PROVE  Guesses'
<1>1. /\ acct[u] \in Account /\ acct \in [User -> Account] /\ acct[u].password <= MaxResets
      /\ acct[u].fails <= wrong
  BY DEF IInv, Forms, Guesses, RowAt
<1>2. wrong' = wrong /\ (req' = req \/ Cross({}, u))
  BY DEF VerifyEmail, ForgotPassword, LockExpires, ResetExpires, DisableSecondFactor, SetUpSecondFactor
<1>3. \A q \in Proc : SameAt(q) \/ NewAt(q)
  <2>1. CASE req' = req
    BY <2>1 DEF SameAt
  <2>2. CASE Cross({}, u)
    BY <1>2, <2>2, CrossIs DEF IInv
  <2> QED
    BY <1>2, <2>1, <2>2
<1>4. PICK row : /\ acct' = [acct EXCEPT ![u] = row]
                 /\ row.password = acct[u].password /\ row.fails = acct[u].fails /\ row.fails2 = acct[u].fails2
  <2>1. CASE VerifyEmail(u)
    <3> DEFINE row == [acct[u] EXCEPT !.status = "verified"]
    <3>1. acct' = [acct EXCEPT ![u] = row]
      BY <2>1, <1>1 DEF VerifyEmail
    <3>2. row.password = acct[u].password /\ row.fails = acct[u].fails /\ row.fails2 = acct[u].fails2
      BY <1>1 DEF Account
    <3> QED
      BY <3>1, <3>2
  <2>2. CASE ForgotPassword(u)
    <3> DEFINE row == [acct[u] EXCEPT !.reset = TRUE]
    <3>1. acct' = [acct EXCEPT ![u] = row]
      BY <2>2, <1>1 DEF ForgotPassword
    <3>2. row.password = acct[u].password /\ row.fails = acct[u].fails /\ row.fails2 = acct[u].fails2
      BY <1>1 DEF Account
    <3> QED
      BY <3>1, <3>2
  <2>3. CASE LockExpires(u)
    <3> DEFINE row == [acct[u] EXCEPT !.locked = FALSE]
    <3>1. acct' = [acct EXCEPT ![u] = row]
      BY <2>3, <1>1 DEF LockExpires
    <3>2. row.password = acct[u].password /\ row.fails = acct[u].fails /\ row.fails2 = acct[u].fails2
      BY <1>1 DEF Account
    <3> QED
      BY <3>1, <3>2
  <2>4. CASE ResetExpires(u)
    <3> DEFINE row == [acct[u] EXCEPT !.reset = FALSE]
    <3>1. acct' = [acct EXCEPT ![u] = row]
      BY <2>4, <1>1 DEF ResetExpires
    <3>2. row.password = acct[u].password /\ row.fails = acct[u].fails /\ row.fails2 = acct[u].fails2
      BY <1>1 DEF Account
    <3> QED
      BY <3>1, <3>2
  <2>5. CASE DisableSecondFactor(u)
    <3> DEFINE row == [acct[u] EXCEPT !.enabled = FALSE, !.secret = NoSecret, !.temp = NoSecret]
    <3>1. acct' = [acct EXCEPT ![u] = row]
      BY <2>5, <1>1 DEF DisableSecondFactor
    <3>2. row.password = acct[u].password /\ row.fails = acct[u].fails /\ row.fails2 = acct[u].fails2
      BY <1>1 DEF Account
    <3> QED
      BY <3>1, <3>2
  <2>6. ASSUME NEW s \in Secret, SetUpSecondFactor(u, s)
        PROVE  \E row : /\ acct' = [acct EXCEPT ![u] = row]
                        /\ row.password = acct[u].password /\ row.fails = acct[u].fails
                        /\ row.fails2 = acct[u].fails2
    <3> DEFINE row == [acct[u] EXCEPT !.temp = s]
    <3>1. acct' = [acct EXCEPT ![u] = row]
      BY <2>6, <1>1 DEF SetUpSecondFactor
    <3>2. row.password = acct[u].password /\ row.fails = acct[u].fails /\ row.fails2 = acct[u].fails2
      BY <1>1 DEF Account
    <3> QED
      BY <3>1, <3>2
  <2> QED
    BY <2>1, <2>2, <2>3, <2>4, <2>5, <2>6
<1> QED
  BY <1>1, <1>2, <1>3, <1>4, RowWritten DEF IInv

\* The statements of requests on the row of their user.
LEMMA RequestsKeepGuesses ==
    ASSUME IInv, IInv', Guesses, wrong \in Nat, NEW p \in Proc,
           \/ InsertUser(p) \/ Subscribe(p) \/ LoginFails(p) \/ LoginPasses(p) \/ SetPassword(p)
           \/ EnableSecondFactor(p)
    PROVE  Guesses'
<1> DEFINE u == req[p].user
<1>1. req[p].at \in {"insertUser", "subscribe", "compare", "hash", "enable"}
  BY DEF InsertUser, Subscribe, LoginFails, LoginPasses, SetPassword, EnableSecondFactor
<1>2. /\ u \in User /\ acct[u] \in Account /\ acct \in [User -> Account] /\ req[p].seen \in Account
      /\ req[p] \in Request0 /\ req \in [Proc -> Request0]
  BY <1>1, RequestTypes DEF IInv, Forms
<1>3. /\ acct[u].password \in Nat /\ acct[u].password <= MaxResets /\ acct[u].fails <= wrong
      /\ SeenAt(p) /\ MaxResets \in Nat /\ req[p].seen.fails \in Nat
  BY <1>2, SessionsAssumption DEF Guesses, RowAt, Account
<1>4. wrong' = wrong
  BY DEF InsertUser, Subscribe, LoginFails, LoginPasses, SetPassword, EnableSecondFactor
<1>5. \A q \in Proc : SameAt(q) \/ NewAt(q)
  <2>1. CASE LoginPasses(p) /\ ~End(p)
    <3> DEFINE seen == [NewRow EXCEPT !.password = req[p].seen.password]
    <3>1. req' = [req EXCEPT ![p].at = "insert", ![p].seen = seen]
      BY <2>1 DEF LoginPasses
    <3>2. seen.password = req[p].seen.password /\ seen.fails = 0 /\ seen.fails2 = 0
      BY DEF NewRow
    <3> HIDE DEF seen
    <3>3. req'[p] = [req[p] EXCEPT !.at = "insert", !.seen = seen] /\ \A q \in Proc \ {p} : req'[q] = req[q]
      BY <1>2, <3>1
    <3>4. req'[p].seen = seen /\ req'[p].at = "insert"
      BY <1>2, <3>3 DEF Request0
    <3>5. NewAt(p)
      BY <1>3, <1>4, <3>2, <3>4 DEF SeenAt, NewAt, Starts
    <3> QED
      BY <3>3, <3>5 DEF SameAt
  <2>2. CASE End(p)
    BY <1>4, <2>2, EndIs DEF IInv
  <2>3. CASE EnableSecondFactor(p)
    <3>1. Cross({p}, u)
      BY <2>3 DEF EnableSecondFactor
    <3> QED
      BY <1>4, <3>1, CrossIs DEF IInv
  <2>4. CASE Goto(p, "subscribe") \/ Goto(p, "purge")
    BY <2>4, GotoKeepsSeen DEF IInv
  <2> QED
    BY <2>1, <2>2, <2>3, <2>4 DEF InsertUser, Subscribe, LoginFails, SetPassword
<1>6. CASE acct' = acct
  BY <1>4, <1>5, <1>6, GuessesStay DEF IInv
<1>7. CASE acct' # acct
  <2>1. PICK row : /\ acct' = [acct EXCEPT ![u] = row]
                   /\ row.password <= MaxResets /\ row.fails <= wrong /\ row.fails2 = acct[u].fails2
    <3>1. CASE InsertUser(p)
      <4> DEFINE row == [acct[u] EXCEPT !.status = "unverified"]
      <4>1. acct' = [acct EXCEPT ![u] = row]
        BY <3>1, <1>2, <1>7 DEF InsertUser
      <4>2. row.password = acct[u].password /\ row.fails = acct[u].fails /\ row.fails2 = acct[u].fails2
        BY <1>2 DEF Account
      <4> QED
        BY <1>3, <4>1, <4>2
    <3>2. CASE Subscribe(p)
      <4> DEFINE row == [acct[u] EXCEPT !.subscribed = TRUE]
      <4>1. acct' = [acct EXCEPT ![u] = row]
        BY <3>2, <1>2 DEF Subscribe
      <4>2. row.password = acct[u].password /\ row.fails = acct[u].fails /\ row.fails2 = acct[u].fails2
        BY <1>2 DEF Account
      <4> QED
        BY <1>3, <4>1, <4>2
    <3>3. CASE LoginFails(p)
      <4> DEFINE n == req[p].seen.fails + 1
                 b == acct[u].locked \/ n >= LoginLimit
                 row == [acct[u] EXCEPT !.fails = n, !.locked = b]
      <4>1. acct' = [acct EXCEPT ![u] = row] /\ req[p].at = "compare" /\ ~req[p].good
        BY <3>3, <1>2 DEF LoginFails
      <4>2. n <= wrong
        BY <1>3, <4>1 DEF SeenAt
      <4> HIDE DEF n, b
      <4>3. row.password = acct[u].password /\ row.fails = n /\ row.fails2 = acct[u].fails2
        BY <1>2 DEF Account
      <4> QED
        BY <1>3, <4>1, <4>2, <4>3
    <3>4. CASE LoginPasses(p)
      <4> DEFINE row == [acct[u] EXCEPT !.fails = 0, !.locked = FALSE]
      <4>1. acct' = [acct EXCEPT ![u] = row]
        BY <3>4, <1>2 DEF LoginPasses
      <4>2. row.password = acct[u].password /\ row.fails = 0 /\ row.fails2 = acct[u].fails2
        BY <1>2 DEF Account
      <4> HIDE DEF row
      <4>3. row.fails <= wrong
        BY <4>2
      <4> QED
        BY <1>3, <4>1, <4>2, <4>3
    <3>5. CASE SetPassword(p)
      <4> DEFINE n == acct[u].password + 1
                 row == [acct[u] EXCEPT !.password = n, !.reset = FALSE]
      <4>1. acct' = [acct EXCEPT ![u] = row] /\ acct[u].password < MaxResets
        BY <3>5, <1>2 DEF SetPassword
      <4>2. n <= MaxResets
        BY <1>3, <4>1
      <4> HIDE DEF n
      <4>3. row.password = n /\ row.fails = acct[u].fails /\ row.fails2 = acct[u].fails2
        BY <1>2 DEF Account
      <4> QED
        BY <1>3, <4>1, <4>2, <4>3
    <3>6. CASE EnableSecondFactor(p)
      <4> DEFINE row == [acct[u] EXCEPT !.enabled = TRUE, !.secret = acct[u].temp, !.temp = NoSecret]
      <4>1. acct' = [acct EXCEPT ![u] = row]
        BY <3>6, <1>2 DEF EnableSecondFactor
      <4>2. row.password = acct[u].password /\ row.fails = acct[u].fails /\ row.fails2 = acct[u].fails2
        BY <1>2 DEF Account
      <4> QED
        BY <1>3, <4>1, <4>2
    <3> QED
      BY <3>1, <3>2, <3>3, <3>4, <3>5, <3>6
  <2> QED
    BY <1>2, <1>4, <1>5, <2>1, RowWritten DEF IInv
<1> QED
  BY <1>6, <1>7

LEMMA GuessesNext == IInv /\ IInv' /\ Guesses /\ wrong \in Nat /\ [Next]_vars => Guesses'
<1> SUFFICES ASSUME IInv, IInv', Guesses, wrong \in Nat, [Next]_vars PROVE Guesses'
  OBVIOUS
<1>1. CASE UNCHANGED vars
  BY <1>1, StillKeepsGuesses DEF vars
<1>2. ASSUME NEW p \in Proc, Step(p) \/ Abort(p) PROVE Guesses'
  BY <1>2, RequestsKeepGuesses, TokensKeepGuesses, ReadKeepsGuesses, CountKeepsGuesses
     DEF Step, RespondLogin, RespondRefresh, Untouched
<1>3. ASSUME NEW p \in Proc, NEW u \in User, Register(p, u) \/ ResetPassword(p, u) \/ VerifySecondFactor(p, u)
      PROVE  Guesses'
  BY <1>3, BeginsKeepGuesses
<1>4. ASSUME NEW p \in Proc, NEW u \in User, NEW d \in Device, NEW good \in BOOLEAN,
             Login(p, u, d, good) \/ SecondFactor(p, u, d, good)
      PROVE  Guesses'
  BY <1>4, LoginKeepsGuesses, SecondFactorKeepsGuesses
<1>5. ASSUME NEW p \in Proc, NEW d \in Device, NEW moved \in BOOLEAN, Refresh(p, d, moved) PROVE Guesses'
  BY <1>5, RefreshKeepsGuesses
<1>6. ASSUME \/ \E d \in Device : Logout(d) \/ LogoutUnheard(d)
             \/ \E t \in Token : Revoke(t) \/ TokenExpires(t)
      PROVE  Guesses'
  <2>1. UNCHANGED <<acct, req, wrong>>
    BY <1>6 DEF Logout, LogoutUnheard, Revoke, TokenExpires, tables, Delete
  <2> QED
    BY <2>1, StillKeepsGuesses
<1>7. ASSUME NEW u \in User, \/ VerifyEmail(u) \/ ForgotPassword(u) \/ DisableSecondFactor(u)
                             \/ LockExpires(u) \/ ResetExpires(u)
      PROVE  Guesses'
  BY <1>7, RowsKeepGuesses
<1>8. ASSUME NEW u \in User, NEW s \in Secret, SetUpSecondFactor(u, s) PROVE Guesses'
  BY <1>8, RowsKeepGuesses
<1> QED
  BY <1>1, <1>2, <1>3, <1>4, <1>5, <1>6, <1>7, <1>8 DEF Next

\* No more tokens are issued, requests made and faults met than the bounds allow, and
\* the histories are of families and users there are.
LEMMA HistoriesNext == IInv /\ IInv' /\ Guesses /\ Histories /\ [Next]_vars => Histories'
<1> SUFFICES ASSUME IInv, IInv', Guesses, Histories, [Next]_vars PROVE Histories'
  OBVIOUS
<1>1. ASSUME NEW t \in Issued PROVE Family(t) \in Token
  BY <1>1, TokenTypes DEF IInv
<1>2. MaxTokens \in Nat /\ MaxResets \in Nat
  BY SessionsAssumption
<1>3. ASSUME NEW p \in Proc, InsertToken(p) PROVE Histories'
  <2> DEFINE r == req[p]
             t == Len(issued) + 1
             row == IF r.given = 0 THEN NewFamily(r, t) ELSE SameFamily(r)
  <2>1. r.at = "insert" /\ t <= MaxTokens /\ issued' = Append(issued, row)
    BY <1>3 DEF InsertToken
  <2>2. issued \in Seq(TokenRow) /\ Len(issued) \in Nat /\ r.given \in {0} \cup Issued
    BY RequestTypes DEF IInv, Forms
  <2>3. row.password <= MaxResets
    <3>1. CASE r.given = 0
      <4>1. row.password = r.seen.password
        BY <3>1 DEF NewFamily
      <4> QED
        BY <4>1 DEF Guesses, SeenAt
    <3>2. CASE r.given # 0
      BY <2>2, <3>2 DEF SameFamily, Histories
    <3> QED
      BY <3>1, <3>2
  <2> HIDE DEF row
  <2>4. Len(issued') = t /\ Issued = 1 .. Len(issued) /\ Issued' = 1 .. t
    BY <2>1, <2>2 DEF Issued
  <2>5. \A s \in Issued : issued'[s] = issued[s]
    BY <2>1, <2>2, <2>4
  <2>6. issued'[t] = row
    BY <2>1, <2>2
  <2>7. \A s \in Issued' : issued'[s].password <= MaxResets
    BY <2>2, <2>3, <2>4, <2>5, <2>6 DEF Histories
  <2>8. frayed' \subseteq frayed \cup {t} /\ t \in Token /\ mixed' = mixed
    BY <1>2, <1>3, <2>1, <2>2 DEF InsertToken, Token
  <2> QED
    BY <2>1, <2>4, <2>7, <2>8 DEF Histories
<1>4. CASE \A p \in Proc : ~InsertToken(p)
  <2>1. issued' = issued
    BY <1>4 DEF Next, Step, Abort, InsertUser, Subscribe, LoginFails, LoginPasses, ReadBackup, CountBackup,
          RespondLogin, RespondRefresh, Respond, DropExpired, DropFamily, Rotate, SetPassword, PurgeTokens,
          EnableSecondFactor, Register, ResetPassword, VerifySecondFactor, Login, SecondFactor, Refresh,
          Logout, LogoutUnheard, Revoke, TokenExpires, VerifyEmail, ForgotPassword, DisableSecondFactor,
          LockExpires, ResetExpires, SetUpSecondFactor, Delete, tables, vars
  <2>2. mixed' \subseteq mixed \cup User
    <3>1. CASE \E p \in Proc : EnableSecondFactor(p)
      <4>1. PICK p \in Proc : EnableSecondFactor(p)
        BY <3>1
      <4>2. req[p].user \in User
        BY <4>1 DEF EnableSecondFactor, IInv, Forms
      <4> QED
        BY <4>1, <4>2 DEF EnableSecondFactor
    <3>2. CASE ~ \E p \in Proc : EnableSecondFactor(p)
      BY <1>4, <3>2 DEF Next, Step, Abort, InsertUser, Subscribe, LoginFails, LoginPasses, ReadBackup, CountBackup,
          RespondLogin, RespondRefresh, Respond, DropExpired, DropFamily, Rotate, SetPassword, PurgeTokens,
          Register, ResetPassword, VerifySecondFactor, Login, SecondFactor, Refresh,
          Logout, LogoutUnheard, Revoke, TokenExpires, VerifyEmail, ForgotPassword, DisableSecondFactor,
          LockExpires, ResetExpires, SetUpSecondFactor, EndFamilies, history, vars
    <3> QED
      BY <3>1, <3>2
  <2>3. frayed' \subseteq frayed \cup {Family(t) : t \in Issued}
    <3> DEFINE all == {Family(t) : t \in Issued}
    <3>1. ASSUME NEW ps, NEW fs \in SUBSET all, EndFamilies(ps, fs) PROVE frayed' \subseteq frayed \cup all
      BY <3>1 DEF EndFamilies
    <3>2. ASSUME NEW p \in Proc, DropExpired(p) \/ DropFamily(p) PROVE frayed' \subseteq frayed \cup all
      <4>1. req[p].given \in Issued
        BY <3>2, RequestTypes DEF DropExpired, DropFamily, IInv, Forms
      <4>2. EndFamilies({p}, {Family(req[p].given)})
        BY <3>2 DEF DropExpired, DropFamily
      <4> QED
        BY <3>1, <4>1, <4>2
    <3>3. ASSUME NEW p \in Proc, PurgeTokens(p) PROVE frayed' \subseteq frayed \cup all
      <4> DEFINE mine == {t \in DOMAIN issued : issued[t].user = req[p].user}
      <4>1. EndFamilies({p}, {Family(t) : t \in mine}) /\ {Family(t) : t \in mine} \subseteq all
        BY <3>3 DEF PurgeTokens, Issued
      <4> QED
        BY <3>1, <4>1
    <3>4. ASSUME NEW d \in Device, Logout(d) PROVE frayed' \subseteq frayed \cup all
      <4>1. cookie[d] \in Issued /\ EndFamilies({}, {Family(cookie[d])})
        BY <3>4 DEF Logout, IInv, Forms
      <4> QED
        BY <3>1, <4>1
    <3>5. ASSUME NEW t \in Token, Revoke(t) PROVE frayed' \subseteq frayed \cup all
      <4>1. t \in Issued /\ EndFamilies({}, {Family(t)})
        BY <3>5 DEF Revoke, IInv, Forms
      <4> QED
        BY <3>1, <4>1
    <3>6. ASSUME NEW p \in Proc, NEW d \in Device, NEW moved \in BOOLEAN, Refresh(p, d, moved)
          PROVE  frayed' \subseteq frayed \cup all
      <4>1. cookie[d] \in Issued
        BY <3>6 DEF Refresh, IInv, Forms
      <4> QED
        BY <3>6, <4>1 DEF Refresh
    <3>7. ASSUME NEW p \in Proc, Abort(p) PROVE frayed' \subseteq frayed \cup all
      <4>1. req[p].given # 0 => req[p].given \in Issued
        BY RequestTypes DEF IInv
      <4> QED
        BY <3>7, <4>1 DEF Abort, Issued
    <3>8. \/ frayed' = frayed
          \/ \E p \in Proc : DropExpired(p) \/ DropFamily(p) \/ PurgeTokens(p) \/ Abort(p)
          \/ \E d \in Device : Logout(d)
          \/ \E t \in Token : Revoke(t)
          \/ \E p \in Proc, d \in Device, moved \in BOOLEAN : Refresh(p, d, moved)
      BY <1>4 DEF Next, Step, InsertUser, Subscribe, LoginFails, LoginPasses, ReadBackup, CountBackup,
          RespondLogin, RespondRefresh, Respond, Rotate, SetPassword,
          EnableSecondFactor, Register, ResetPassword, VerifySecondFactor, Login, SecondFactor,
          LogoutUnheard, TokenExpires, VerifyEmail, ForgotPassword, DisableSecondFactor,
          LockExpires, ResetExpires, SetUpSecondFactor, history, vars
    <3> HIDE DEF all
    <3> QED
      BY <3>2, <3>3, <3>4, <3>5, <3>6, <3>7, <3>8 DEF all
  <2> QED
    BY <1>1, <2>1, <2>2, <2>3 DEF Histories, Issued
<1> QED
  BY <1>3, <1>4

LEMMA CountersNext == Counters /\ [Next]_vars => Counters'
<1> SUFFICES ASSUME Counters, [Next]_vars PROVE Counters'
  OBVIOUS
<1>1. requests \in Nat /\ wrong \in Nat /\ faults \in Nat /\ MaxRequests \in Nat /\ MaxWrong \in Nat /\ MaxFaults \in Nat
  BY SessionsAssumption DEF Counters
<1>2. ASSUME Ask \/ requests' = requests PROVE requests' \in 0 .. MaxRequests
  BY <1>1, <1>2 DEF Counters, Ask
<1>3. requests' \in 0 .. MaxRequests
  <2>1. Ask \/ requests' = requests
    BY DEF Next, Step, Abort, InsertUser, Subscribe, LoginFails, LoginPasses, ReadBackup, CountBackup,
          InsertToken, RespondLogin, RespondRefresh, Respond, DropExpired, DropFamily, Rotate, SetPassword,
          PurgeTokens, EnableSecondFactor, Register, ResetPassword, VerifySecondFactor, Login, SecondFactor,
          Refresh, Logout, LogoutUnheard, Revoke, TokenExpires, VerifyEmail, ForgotPassword,
          DisableSecondFactor, LockExpires, ResetExpires, SetUpSecondFactor, Begin, vars
  <2> QED
    BY <1>2, <2>1
<1>4. faults' \in 0 .. MaxFaults
  <2>1. faults' = faults \/ (faults < MaxFaults /\ faults' = faults + 1)
    BY DEF Next, Step, Abort, InsertUser, Subscribe, LoginFails, LoginPasses, ReadBackup, CountBackup,
          InsertToken, RespondLogin, RespondRefresh, Respond, DropExpired, DropFamily, Rotate, SetPassword,
          PurgeTokens, EnableSecondFactor, Register, ResetPassword, VerifySecondFactor, Login, SecondFactor,
          Refresh, Logout, LogoutUnheard, Revoke, TokenExpires, VerifyEmail, ForgotPassword,
          DisableSecondFactor, LockExpires, ResetExpires, SetUpSecondFactor, vars
  <2> QED
    BY <1>1, <2>1 DEF Counters
<1>5. wrong' \in 0 .. MaxWrong
  <2>1. wrong' = wrong \/ (wrong' <= MaxWrong /\ \E good \in BOOLEAN : Guess(good))
    BY DEF Next, Step, Abort, InsertUser, Subscribe, LoginFails, LoginPasses, ReadBackup, CountBackup,
          InsertToken, RespondLogin, RespondRefresh, Respond, DropExpired, DropFamily, Rotate, SetPassword,
          PurgeTokens, EnableSecondFactor, Register, ResetPassword, VerifySecondFactor, Login, SecondFactor,
          Refresh, Logout, LogoutUnheard, Revoke, TokenExpires, VerifyEmail, ForgotPassword,
          DisableSecondFactor, LockExpires, ResetExpires, SetUpSecondFactor, vars
  <2> QED
    BY <1>1, <2>1 DEF Counters, Guess
<1> QED
  BY <1>3, <1>4, <1>5 DEF Counters

LEMMA BoundedInit == Init => Bounded
<1> SUFFICES ASSUME Init PROVE Bounded
  OBVIOUS
<1>1. MaxResets \in Nat /\ MaxTokens \in Nat /\ MaxRequests \in Nat /\ MaxWrong \in Nat /\ MaxFaults \in Nat
  BY SessionsAssumption
<1>2. Pending = {} /\ IsFiniteSet(Pending) /\ Cardinality(Pending) = 0
  <2>1. Pending = {}
    BY DEF Init, Pending, Idle
  <2> QED
    BY <2>1, FS_EmptySet
<1>3. ASSUME NEW u \in User PROVE RowAt(u)
  <2>1. acct[u].password = 0 /\ acct[u].fails = 0 /\ acct[u].fails2 = 0
    BY NewRowIs DEF Init, NewRow
  <2> QED
    BY <1>1, <1>2, <2>1 DEF Init, RowAt
<1>4. ASSUME NEW p \in Proc PROVE SeenAt(p)
  <2>1. req[p] = Idle
    BY DEF Init
  <2> QED
    BY <1>1, <2>1, NewRowIs DEF Init, SeenAt, Idle
<1>5. Histories
  <2>1. issued = <<>> /\ Issued = {} /\ Len(issued) = 0
    BY DEF Init, Issued
  <2> QED
    BY <1>1, <2>1 DEF Init, Histories
<1> QED
  BY <1>1, <1>2, <1>3, <1>4, <1>5 DEF Init, Bounded, Guesses, Counters

LEMMA BoundedNext == IInv /\ IInv' /\ Bounded /\ [Next]_vars => Bounded'
<1> SUFFICES ASSUME IInv, IInv', Bounded, [Next]_vars PROVE Bounded'
  OBVIOUS
<1>1. wrong \in Nat
  BY DEF Bounded, Counters
<1> QED
  BY <1>1, GuessesNext, HistoriesNext, CountersNext DEF Bounded

LEMMA BoundedIsTyped == IInv /\ Bounded => TypeOK
<1> SUFFICES ASSUME IInv, Bounded PROVE TypeOK
  OBVIOUS
<1>1. /\ MaxResets \in Nat /\ MaxTokens \in Nat /\ MaxWrong \in Nat /\ wrong \in Nat /\ wrong <= MaxWrong
      /\ Forms /\ Guesses /\ Histories /\ Counters
  BY SessionsAssumption DEF IInv, Bounded, Counters
<1>2. Cardinality(Pending) \in Nat
  BY <1>1, FS_CardinalityType DEF Guesses
<1>3. ASSUME NEW u \in User PROVE acct[u] \in Row
  <2>1. acct[u] \in Account /\ RowAt(u)
    BY <1>1 DEF Forms, Guesses
  <2>2. acct[u].password \in 0 .. MaxResets /\ acct[u].fails \in 0 .. MaxWrong /\ acct[u].fails2 \in 0 .. MaxWrong
    BY <1>1, <1>2, <2>1 DEF RowAt, Account
  <2> QED
    BY <2>1, <2>2 DEF Account, Row
<1>4. acct \in [User -> Row]
  BY <1>1, <1>3 DEF Forms
<1>5. ASSUME NEW p \in Proc PROVE req[p].seen \in Row
  <2>1. req[p].seen \in Account /\ SeenAt(p)
    BY <1>1, RequestTypes DEF Guesses
  <2>2. /\ req[p].seen.password \in 0 .. MaxResets /\ req[p].seen.fails \in 0 .. MaxWrong
        /\ req[p].seen.fails2 \in 0 .. MaxWrong
    BY <1>1, <2>1 DEF SeenAt, Account
  <2> QED
    BY <2>1, <2>2 DEF Account, Row
<1>6. req \in [Proc -> [at : Steps, user : User \cup {NoUser}, dev : Device \cup {NoDevice},
                        given : {0} \cup DOMAIN issued, got : {0} \cup DOMAIN issued,
                        seen : Row, good : BOOLEAN, crossed : BOOLEAN]]
  BY <1>1, <1>5 DEF Forms, Request0, Issued
<1>7. issued \in Seq([user : User, family : Token, password : 0 .. MaxResets])
  <2>1. issued \in Seq(TokenRow) /\ Len(issued) \in Nat /\ Issued = 1 .. Len(issued)
    BY <1>1 DEF Forms, Issued
  <2>2. ASSUME NEW t \in 1 .. Len(issued) PROVE issued[t] \in [user : User, family : Token, password : 0 .. MaxResets]
    <3>1. issued[t] \in TokenRow /\ issued[t].password <= MaxResets
      BY <1>1, <2>1 DEF Histories
    <3> QED
      BY <1>1, <3>1 DEF TokenRow
  <2>3. PICK n \in Nat : issued \in [1 .. n -> TokenRow]
    BY <2>1, SeqDef
  <2>4. issued \in [1 .. n -> [user : User, family : Token, password : 0 .. MaxResets]]
    BY <2>1, <2>2, <2>3 DEF Issued
  <2> QED
    BY <2>4, SeqDef
<1>8. Issued \subseteq Token
  BY <1>1 DEF Forms, Histories, Issued, Token
<1> QED
  BY <1>1, <1>4, <1>6, <1>7, <1>8 DEF TypeOK, Forms, Histories, Counters, IInv, Factors, Issued

\* Rows, tokens and requests have their types (auth.routes.ts, twoFactorService.ts);
\* above all, an account never counts more failed passwords or codes than were tried,
\* though a counter is read in one statement and written in another.
THEOREM CountedWasTried == Spec => []TypeOK
<1>1. IInv /\ IInv' /\ Bounded /\ [Next]_vars => Bounded'
  BY BoundedNext
<1>2. Spec => []Bounded
  BY <1>1, BoundedInit, Inductive, PTL DEF Spec
<1> QED
  BY <1>2, Inductive, BoundedIsTyped, PTL
================================================================================
