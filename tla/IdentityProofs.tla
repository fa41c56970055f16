---------------------------- MODULE IdentityProofs ----------------------------
(***************************************************************************)
(* Theorems of Login, for any handlers, users and session ids, and of      *)
(* Trust, for any certificates, chains and documents about them.           *)
(***************************************************************************)
EXTENDS Login, Trust, FiniteSetTheorems, TLAPS

(* Login: a row that is there is never written again, and a request is     *)
(* answered as the maker of a session only when the row is its own.        *)

Request == [kind : {"none", "mock", "visit"}, actor : Actor \cup {Nobody},
            sid : Sid \cup {Nobody}, made : BOOLEAN]
Stages == {"idle", "state", "lookup", "insert", "answer"}

LoginTypes ==
  /\ stage \in [Handler -> Stages]
  /\ job \in [Handler -> Request]
  /\ sessions \in [Sid -> Row \cup {Nobody}]
  /\ answered \subseteq Request
  /\ \A r \in answered : r.sid \in Sid

\* A login is one of mock mode, and who made a session still has its row.
Served(q) ==
  /\ job[q].kind = "mock" => mock
  /\ stage[q] \in {"lookup", "insert", "answer"} =>
       job[q].sid \in Sid /\ job[q].kind \in {"mock", "visit"}
  /\ stage[q] = "answer" => sessions[job[q].sid] # Nobody
  /\ job[q].made => stage[q] = "answer" /\ sessions[job[q].sid] = NewRow(job[q])

LoginInv == LoginTypes /\ (\A q \in Handler : Served(q)) /\ LoginsHold

-----------------------------------------------------------------------------
LEMMA NewRows ==
  ASSUME NEW j \in Request
  PROVE  /\ NewRow(j) \in Row /\ NewRow(j) # Nobody
         /\ NewRow(j).level = IF j.kind = "visit" THEN "eid_low" ELSE "idp_authenticated"
<1>1. NewRow(j) \in Row
  BY DEF NewRow, Row, Request
<1> QED BY <1>1, LoginAssumption DEF NewRow

LEMMA Senders == ASSUME LoginInv PROVE Sendable \subseteq Sid
  BY LoginAssumption DEF Sendable, Unused, LoginInv, LoginTypes

\* What the step of one handler leaves to the rest: rows that are there stay.
OthersWait(q) ==
  \A u \in Handler \ {q} : stage'[u] = stage[u] /\ job'[u] = job[u]
RowsHold == \A s \in Sid : sessions[s] # Nobody => sessions'[s] = sessions[s]

LEMMA OthersServed ==
  ASSUME LoginInv, NEW q \in Handler, OthersWait(q), RowsHold, mock' = mock
  PROVE  \A u \in Handler \ {q} : Served(u)'
<1> SUFFICES ASSUME NEW u \in Handler \ {q} PROVE Served(u)'
  OBVIOUS
<1>1. Served(u) /\ stage'[u] = stage[u] /\ job'[u] = job[u] /\ job[u] \in Request
  BY DEF LoginInv, LoginTypes, OthersWait
<1>2. stage[u] = "answer" =>
        job[u].sid \in Sid /\ sessions'[job[u].sid] = sessions[job[u].sid]
  BY <1>1 DEF Served, RowsHold
<1> QED BY <1>1, <1>2 DEF Served, NewRow

\* A handler that makes no session and is told of none.
LEMMA HandlerMoves ==
  ASSUME LoginInv, NEW q \in Handler, OthersWait(q), Served(q)',
         stage' \in [Handler -> Stages], job' \in [Handler -> Request],
         UNCHANGED <<mock, sessions, answered>>
  PROVE  LoginInv'
<1>1. RowsHold
  BY DEF RowsHold
<1>2. \A u \in Handler : Served(u)'
  BY <1>1, OthersServed
<1>3. LoginTypes' /\ LoginsHold'
  BY DEF LoginInv, LoginTypes, LoginsHold
<1> QED BY <1>2, <1>3 DEF LoginInv

LEMMA MoveFacts ==
  ASSUME LoginInv, NEW q \in Handler, NEW from, NEW to \in Stages, Move(q, from, to)
  PROVE  stage' \in [Handler -> Stages] /\ stage[q] = from /\ stage'[q] = to
         /\ \A u \in Handler \ {q} : stage'[u] = stage[u]
  BY DEF Move, LoginInv, LoginTypes

LEMMA FailFacts ==
  ASSUME LoginInv, NEW q \in Handler, NEW from, Fail(q, from)
  PROVE  /\ stage' \in [Handler -> Stages] /\ job' \in [Handler -> Request]
         /\ stage[q] = from /\ OthersWait(q)
         /\ (mock' = mock => Served(q)')
<1>1. NoJob \in Request /\ NoJob.kind = "none" /\ ~NoJob.made
  BY DEF NoJob, Request
<1>2. stage' \in [Handler -> Stages] /\ stage[q] = from /\ stage'[q] = "idle"
      /\ \A u \in Handler \ {q} : stage'[u] = stage[u]
  BY MoveFacts DEF Fail, Stages
<1>3. job' \in [Handler -> Request] /\ job'[q] = NoJob
      /\ \A u \in Handler \ {q} : job'[u] = job[u]
  BY <1>1 DEF Fail, LoginInv, LoginTypes
<1> QED BY <1>1, <1>2, <1>3 DEF OthersWait, Served

\* The live login, up to the statement that fails.
LEMMA StateSteps ==
  ASSUME LoginInv, NEW q \in Handler, StartLogin(q) \/ Callback(q) \/ NonceFails(q)
  PROVE  LoginInv'
<1>1. CASE StartLogin(q) \/ Callback(q)
  <2>1. stage' \in [Handler -> Stages] /\ stage[q] = "idle" /\ stage'[q] = "state"
        /\ \A u \in Handler \ {q} : stage'[u] = stage[u]
    BY <1>1, MoveFacts DEF StartLogin, Callback, Stages
  <2>2. UNCHANGED <<mock, job, sessions, answered>>
    BY <1>1 DEF StartLogin, Callback
  <2>3. Served(q)' /\ OthersWait(q) /\ job' \in [Handler -> Request]
    BY <2>1, <2>2 DEF LoginInv, LoginTypes, Served, OthersWait
  <2> QED BY <2>1, <2>2, <2>3, HandlerMoves
<1>2. CASE NonceFails(q)
  BY <1>2, FailFacts, HandlerMoves DEF NonceFails
<1> QED BY <1>1, <1>2

LEMMA AskKeeps ==
  ASSUME LoginInv, NEW q \in Handler, NEW kind \in {"mock", "visit"},
         NEW a \in Actor \cup {Nobody}, NEW s \in Sendable, Ask(q, kind, a, s),
         kind = "mock" => mock
  PROVE  LoginInv'
<1> DEFINE j == [kind |-> kind, actor |-> a, sid |-> s, made |-> FALSE]
<1>1. j \in Request /\ j.kind = kind /\ j.sid \in Sid /\ ~j.made
  BY Senders DEF Request
<1>2. stage' \in [Handler -> Stages] /\ stage[q] = "idle" /\ stage'[q] = "lookup"
      /\ \A u \in Handler \ {q} : stage'[u] = stage[u]
  BY MoveFacts DEF Ask, Stages
<1>3. job' \in [Handler -> Request] /\ job'[q] = j
      /\ \A u \in Handler \ {q} : job'[u] = job[u]
  BY <1>1 DEF Ask, LoginInv, LoginTypes
<1>4. Served(q)' /\ OthersWait(q)
  <2> HIDE DEF j
  <2> QED BY <1>1, <1>2, <1>3 DEF Served, OthersWait, Ask
<1> QED BY <1>2, <1>3, <1>4, HandlerMoves DEF Ask

\* A handler that waits for a row has not made one.
LEMMA LookupKeeps ==
  ASSUME LoginInv, NEW q \in Handler, Lookup(q)
  PROVE  LoginInv'
<1>1. PICK to \in {"insert", "answer"} :
          /\ Move(q, "lookup", to)
          /\ to = "answer" => sessions[job[q].sid] # Nobody
  BY DEF Lookup
<1>2. stage' \in [Handler -> Stages] /\ stage[q] = "lookup" /\ stage'[q] = to
      /\ \A u \in Handler \ {q} : stage'[u] = stage[u]
  BY <1>1, MoveFacts DEF Stages
<1>3. Served(q)' /\ OthersWait(q) /\ job' \in [Handler -> Request]
  BY <1>1, <1>2 DEF Lookup, LoginInv, LoginTypes, Served, OthersWait
<1> QED BY <1>2, <1>3, HandlerMoves DEF Lookup

\* The row that is written was none.
LEMMA InsertKeeps ==
  ASSUME LoginInv, NEW q \in Handler, Insert(q)
  PROVE  LoginInv'
<1>1. CASE Fail(q, "insert") /\ UNCHANGED <<mock, sessions, answered>>
  BY <1>1, FailFacts, HandlerMoves
<1>2. CASE sessions[job[q].sid] = Nobody /\ Inserted(q)
  <2> DEFINE s == job[q].sid
  <2>1. PICK j : j = [job[q] EXCEPT !.made = TRUE]
    OBVIOUS
  <2>2. /\ stage' \in [Handler -> Stages] /\ stage[q] = "insert" /\ stage'[q] = "answer"
        /\ \A u \in Handler \ {q} : stage'[u] = stage[u]
    BY <1>2, MoveFacts DEF Inserted, Stages
  <2>3. /\ s \in Sid /\ job[q] \in Request /\ job[q].kind \in {"mock", "visit"}
        /\ (job[q].kind = "mock" => mock)
    BY <2>2 DEF LoginInv, LoginTypes, Served
  <2>4. /\ j \in Request /\ j.sid = s /\ j.kind = job[q].kind /\ NewRow(j) = NewRow(job[q])
    BY <2>1, <2>3 DEF Request, NewRow
  <2>5. /\ job' = [job EXCEPT ![q] = j] /\ job' \in [Handler -> Request] /\ job'[q] = j
        /\ \A u \in Handler \ {q} : job'[u] = job[u]
    BY <1>2, <2>1, <2>4 DEF Inserted, LoginInv, LoginTypes
  <2>6. /\ NewRow(j) \in Row /\ NewRow(j) # Nobody
        /\ NewRow(j).level = IF j.kind = "visit" THEN "eid_low" ELSE "idp_authenticated"
    BY <2>4, NewRows
  <2>7. /\ sessions' \in [Sid -> Row \cup {Nobody}] /\ sessions'[s] = NewRow(j)
        /\ \A x \in Sid \ {s} : sessions'[x] = sessions[x]
        /\ UNCHANGED <<mock, answered>>
    BY <1>2, <2>3, <2>4, <2>6 DEF Inserted, LoginInv, LoginTypes
  <2>8. RowsHold /\ OthersWait(q)
    BY <1>2, <2>2, <2>5, <2>7 DEF RowsHold, OthersWait
  <2>9. Served(q)'
    BY <2>2, <2>3, <2>4, <2>5, <2>6, <2>7 DEF Served, NewRow
  <2>10. \A u \in Handler : Served(u)'
    BY <2>7, <2>8, <2>9, OthersServed
  <2>11. LoginTypes'
    BY <2>2, <2>5, <2>7 DEF LoginInv, LoginTypes
  <2>12. LoginsHold'
    <3>1. ASSUME NEW r \in answered PROVE sessions'[r.sid] = NewRow(r)
      <4>1. r \in Request /\ r.sid \in Sid /\ sessions[r.sid] = NewRow(r)
        BY DEF LoginInv, LoginTypes, LoginsHold
      <4>2. sessions[r.sid] # Nobody
        BY <4>1, NewRows
      <4> QED BY <2>8, <4>1, <4>2 DEF RowsHold
    <3>2. ASSUME ~mock, NEW x \in Sid, sessions'[x] # Nobody
          PROVE  sessions'[x].level = "eid_low"
      <4>1. x = s => sessions'[x].level = "eid_low"
        BY <2>3, <2>4, <2>6, <2>7, <3>2
      <4>2. x # s => sessions'[x].level = "eid_low"
        BY <2>7, <3>2 DEF LoginInv, LoginsHold
      <4> QED BY <4>1, <4>2
    <3> QED BY <2>7, <3>1, <3>2 DEF LoginsHold, NewRow
  <2> QED BY <2>10, <2>11, <2>12 DEF LoginInv
<1> QED BY <1>1, <1>2 DEF Insert

LEMMA AnswerKeeps ==
  ASSUME LoginInv, NEW q \in Handler, Answer(q)
  PROVE  LoginInv'
<1>1. Fail(q, "answer") /\ UNCHANGED <<mock, sessions>>
  BY DEF Answer
<1>2. /\ stage' \in [Handler -> Stages] /\ job' \in [Handler -> Request]
      /\ stage[q] = "answer" /\ OthersWait(q) /\ Served(q)'
  BY <1>1, FailFacts
<1>3. /\ job[q] \in Request /\ job[q].sid \in Sid
      /\ (job[q].made => sessions[job[q].sid] = NewRow(job[q]))
  BY <1>2 DEF LoginInv, LoginTypes, Served
<1>4. \A r \in answered' : r \in answered \/ (r = job[q] /\ r.made)
  BY DEF Answer
<1>5. LoginTypes' /\ LoginsHold'
  BY <1>1, <1>2, <1>3, <1>4 DEF LoginInv, LoginTypes, LoginsHold, NewRow
<1>6. \A u \in Handler : Served(u)'
  BY <1>1, <1>2, OthersServed DEF RowsHold
<1> QED BY <1>5, <1>6 DEF LoginInv

LEMMA LoginStep == LoginInv /\ [LoginNext]_login => LoginInv'
<1> SUFFICES ASSUME LoginInv, [LoginNext]_login PROVE LoginInv'
  OBVIOUS
<1>1. CASE UNCHANGED login
  BY <1>1 DEF login, LoginInv, LoginTypes, Served, LoginsHold, NewRow
<1>2. ASSUME NEW q \in Handler, Serve(q) PROVE LoginInv'
  <2>1. ASSUME NEW a \in Actor, NEW s \in Sendable, MockLogin(q, a, s) PROVE LoginInv'
    BY <2>1, AskKeeps DEF MockLogin
  <2>2. ASSUME NEW a \in Actor \cup {Nobody}, NEW s \in Sendable, Visit(q, a, s)
        PROVE  LoginInv'
    BY <2>2, AskKeeps DEF Visit
  <2> QED BY <1>2, <2>1, <2>2, StateSteps, LookupKeeps, InsertKeeps, AnswerKeeps DEF Serve
<1> QED BY <1>1, <1>2 DEF LoginNext

LEMMA InitLogin == LoginInit => LoginInv
  BY DEF LoginInit, LoginInv, LoginTypes, Served, LoginsHold, NoJob, Request, Stages

(* A session stays with who made it, at his level, for any number of       *)
(* requests at once, and the live login never makes one                    *)
(* (ensure_session, mock_login and identity.session).                      *)
THEOREM LoginsStayHeld == LoginSpec => []LoginsHold
<1>1. LoginInv => LoginsHold
  BY DEF LoginInv
<1> QED BY <1>1, InitLogin, LoginStep, PTL DEF LoginSpec

(* Stages and sessions have their types; who is past the request has an id *)
(* of a session, and who is answered has its row.                          *)
THEOREM LoginTypeCorrect == LoginSpec => []LoginTypeOK
<1>1. LoginInv => LoginTypeOK
  BY DEF LoginInv, LoginTypes, Served, LoginTypeOK, Stages
<1> QED BY <1>1, InitLogin, LoginStep, PTL DEF LoginSpec

-----------------------------------------------------------------------------
(* Trust: a chain is followed down from an anchor by keys and never by     *)
(* names alone, and a document tells of every revocation before it.        *)

LEMMA LeastOf ==
    ASSUME NEW T \in SUBSET Nat, T # {}
    PROVE  \E m \in T : \A k \in T : m <= k
<1> DEFINE R == StrictSubsetOrdering(Nat)
           D == {0..n : n \in T}
<1>1. D \subseteq FiniteSubsetsOf(Nat) /\ D # {}
    <2>1. \A n \in T : 0..n \in SUBSET Nat /\ IsFiniteSet(0..n)
        BY FS_Interval
    <2> QED
        BY <2>1 DEF FiniteSubsetsOf
<1>2. \E x \in D : \A y \in D : <<y, x>> \notin R
    <2> HIDE DEF R, D
    <2> QED
        BY <1>1, FS_StrictSubsetOrderingWellFounded, WFMin DEF R
<1>3. PICK m \in T : \A k \in T : <<0..k, 0..m>> \notin R
    BY <1>2
<1>4. ASSUME NEW k \in T, k < m PROVE FALSE
    <2>1. m \in 0..m /\ m \notin 0..k
        BY <1>4
    <2>2. 0..k \subseteq 0..m /\ 0..k # 0..m /\ 0..k \in SUBSET Nat /\ 0..m \in SUBSET Nat
        BY <1>4, <2>1
    <2> QED
        BY <1>3, <2>2 DEF StrictSubsetOrdering
<1> QED
    BY <1>3, <1>4

PaperTrue(p) ==
    /\ p.this \in 0..now
    /\ p.next = Never \/ p.next = p.this + Validity
    /\ \A x \in Cert :
         /\ About[x].signer = p.of /\ (p.kind = "crl" \/ About[x].serial = p.serial)
         /\ revoked[x] # Never /\ revoked[x] < p.this
         => About[x].serial \in p.revoked

TrustInv ==
    /\ now \in 0..MaxTime /\ made \in BOOLEAN
    /\ list \in {Never} \cup SUBSET Cert
    /\ made => \A a \in Anchors : About[a].ca
    /\ revoked \in [Cert -> {Never} \cup 0..now]
    /\ \A p \in papers : PaperTrue(p)
    /\ verdict.at <= now
    /\ TrustSound

\* From any member of a family down to the leaf.
LEMMA DownTheChain ==
    ASSUME NEW chain \in Seq(Cert), chain # <<>>, NEW S \in SUBSET Cert, Family(S),
           \A link \in Links(chain) : SignedBy(link[1], link[2]),
           NEW k \in DOMAIN chain, chain[k] \in S
    PROVE  chain[1] \in S
<1> DEFINE K == {j \in 1..Len(chain) : chain[j] \in S}
<1>1. Len(chain) \in Nat /\ DOMAIN chain = 1..Len(chain) /\ \A j \in 1..Len(chain) : chain[j] \in Cert
    OBVIOUS
<1>2. K \in SUBSET Nat /\ K # {}
    BY <1>1
<1>3. PICK m \in K : \A j \in K : m <= j
    <2> HIDE DEF K
    <2> QED
        BY <1>2, LeastOf
<1>4. ASSUME m # 1 PROVE FALSE
    <2>1. m \in 1..Len(chain) /\ m - 1 \in 1..(Len(chain) - 1) /\ m - 1 \in 1..Len(chain)
        BY <1>1, <1>3, <1>4
    <2>2. <<chain[m - 1], chain[(m - 1) + 1]>> \in Links(chain) /\ (m - 1) + 1 = m
        BY <2>1 DEF Links
    <2>3. SignedBy(chain[m - 1], chain[m])
        BY <2>2
    <2>4. About[chain[m - 1]].signer \in S /\ chain[m - 1] \in Cert
        BY <1>1, <1>3, <2>1, <2>3 DEF SignedBy
    <2>5. m - 1 \in K
        BY <2>1, <2>4 DEF Family
    <2> QED
        BY <1>3, <2>1, <2>5
<1> QED
    BY <1>3, <1>4

LEMMA TopInFamily ==
    ASSUME NEW chain \in Seq(Cert), chain # <<>>, Anchored(chain),
           NEW S \in SUBSET Cert, Family(S)
    PROVE  Len(chain) \in DOMAIN chain /\ chain[Len(chain)] \in S
<1>1. Len(chain) \in DOMAIN chain /\ chain[Len(chain)] \in Cert
    OBVIOUS
<1> QED
    BY <1>1 DEF Anchored, TopOf, SignedBy, Family

LEMMA ChainDescends ==
    ASSUME NEW chain \in Seq(Cert), chain # <<>>,
           \A link \in Links(chain) : SignedBy(link[1], link[2]),
           Anchored(chain) \/ {chain[k] : k \in DOMAIN chain} \cap Anchors # {}
    PROVE  Descends(chain[1])
<1> SUFFICES ASSUME NEW S \in SUBSET Cert, Family(S) PROVE chain[1] \in S
    BY DEF Descends
<1>1. CASE Anchored(chain)
    BY <1>1, TopInFamily, DownTheChain
<1>2. CASE {chain[k] : k \in DOMAIN chain} \cap Anchors # {}
    <2>1. PICK k \in DOMAIN chain : chain[k] \in Anchors
        BY <1>2
    <2>2. chain[k] \in S
        BY <2>1 DEF Family
    <2> QED
        BY <2>2, DownTheChain
<1> QED
    BY <1>1, <1>2

\* What a document that passes allows of the leaf it passes for.
LEMMA PaperFresh ==
    ASSUME TrustInv, NEW p \in papers, NEW leaf \in Cert, NEW issuer,
           About[leaf].signer = p.of, revoked[leaf] # Never,
           CrlValid(p, leaf, issuer) \/ OcspValid(p, leaf, issuer)
    PROVE  \/ now - revoked[leaf] <= Validity + Leeway
           \/ now - revoked[leaf] <= MaxAge
<1>1. /\ now \in Nat /\ revoked[leaf] \in Nat /\ Validity \in Nat /\ MaxAge \in Nat
      /\ PaperTrue(p) /\ p.this \in Nat
    BY TrustAssumption DEF TrustInv, PaperTrue
<1>2. p.this <= revoked[leaf]
    BY <1>1 DEF PaperTrue, CrlValid, OcspValid
<1>3. (p.next # Never /\ p.next >= now - Leeway) \/ p.this >= now - MaxAge
    BY DEF CrlValid, OcspValid, FreshEnough
<1> QED
    BY <1>1, <1>2, <1>3 DEF PaperTrue, Leeway

\* Steps of the clock, of the authorities and of the constructor.
LEMMA WorldKeeps ==
    ASSUME TrustInv, verdict = NoVerdict, verdict' = verdict, list' = list,
           now' \in 0..MaxTime, now' >= now, made' \in BOOLEAN,
           made' => \A a \in Anchors : About[a].ca,
           revoked' \in [Cert -> {Never} \cup 0..now'],
           \A p \in papers' : PaperTrue(p)'
    PROVE  TrustInv'
<1>1. TrustSound' /\ verdict'.at <= now'
    BY DEF TrustSound, NoVerdict
<1> QED
    BY <1>1 DEF TrustInv

LEMMA TickKeeps == TrustInv /\ verdict = NoVerdict /\ Tick => TrustInv'
<1> SUFFICES ASSUME TrustInv, verdict = NoVerdict, Tick PROVE TrustInv'
    OBVIOUS
<1>1. /\ now \in 0..MaxTime /\ MaxTime \in Nat /\ now < MaxTime /\ now' = now + 1
      /\ UNCHANGED <<made, list, revoked, papers, verdict>>
    BY TrustAssumption DEF TrustInv, Tick
<1>2. now' \in 0..MaxTime /\ now' >= now /\ 0..now \subseteq 0..now'
    BY <1>1
<1>3. revoked' \in [Cert -> {Never} \cup 0..now']
    BY <1>1, <1>2 DEF TrustInv
<1>4. \A p \in papers' : PaperTrue(p)'
    BY <1>1, <1>2 DEF TrustInv, PaperTrue
<1> QED
    BY <1>1, <1>2, <1>3, <1>4, WorldKeeps DEF TrustInv

LEMMA RevokeKeeps ==
    ASSUME TrustInv, verdict = NoVerdict, NEW c \in Cert, RevokeCert(c)
    PROVE  TrustInv'
<1>1. /\ now \in 0..MaxTime /\ MaxTime \in Nat
      /\ revoked \in [Cert -> {Never} \cup 0..now]
      /\ revoked' = [revoked EXCEPT ![c] = now] /\ revoked[c] = Never
      /\ UNCHANGED <<now, made, list, papers, verdict>>
    BY TrustAssumption DEF TrustInv, RevokeCert
<1>2. revoked' \in [Cert -> {Never} \cup 0..now']
    BY <1>1
<1>3. ASSUME NEW p \in papers' PROVE PaperTrue(p)'
    <2>1. PaperTrue(p) /\ p.this \in 0..now
        BY <1>1 DEF TrustInv, PaperTrue
    <2>2. \A x : revoked'[x] # Never /\ revoked'[x] < p.this /\ x \in Cert
              => revoked[x] # Never /\ revoked[x] < p.this
        BY <1>1, <2>1
    <2> QED
        BY <1>1, <2>1, <2>2 DEF PaperTrue
<1> QED
    BY <1>1, <1>2, <1>3, WorldKeeps DEF TrustInv

LEMMA PublishKeeps ==
    ASSUME TrustInv, verdict = NoVerdict, NEW c, NEW by,
           PublishCrl(c) \/ PublishOcsp(by, c)
    PROVE  TrustInv'
<1>1. UNCHANGED <<now, made, list, revoked, verdict>>
    BY DEF PublishCrl, PublishOcsp, SignPaper
<1>2. now \in 0..now
    BY TrustAssumption DEF TrustInv
<1>3. \A p \in papers : PaperTrue(p)'
    BY <1>1 DEF TrustInv, PaperTrue
<1>4. \E p : papers' = papers \cup {p} /\ PaperTrue(p)
    <2>1. CASE PublishCrl(c)
        <3>1. PICK until \in {now + Validity, Never} :
                  SignPaper([kind |-> "crl", signer |-> c, of |-> c, this |-> now,
                             next |-> until, serial |-> 0, revoked |-> RevokedBy(c)])
            BY <2>1 DEF PublishCrl
        <3> DEFINE p == [kind |-> "crl", signer |-> c, of |-> c, this |-> now,
                         next |-> until, serial |-> 0, revoked |-> RevokedBy(c)]
        <3>2. PaperTrue(p)
            BY <1>2 DEF PaperTrue, RevokedBy
        <3> QED
            BY <3>1, <3>2 DEF SignPaper
    <2>2. CASE PublishOcsp(by, c)
        <3> DEFINE issuer == About[c].signer
                   told == RevokedBy(issuer) \cap {About[c].serial}
        <3>1. PICK until \in {now + Validity, Never} :
                  SignPaper([kind |-> "ocsp", signer |-> by, of |-> issuer, this |-> now,
                             next |-> until, serial |-> About[c].serial, revoked |-> told])
            BY <2>2 DEF PublishOcsp
        <3> DEFINE p == [kind |-> "ocsp", signer |-> by, of |-> issuer, this |-> now,
                         next |-> until, serial |-> About[c].serial, revoked |-> told]
        <3>2. PaperTrue(p)
            BY <1>2 DEF PaperTrue, RevokedBy
        <3> QED
            BY <3>1, <3>2 DEF SignPaper
    <2> QED
        BY <2>1, <2>2
<1>5. \A p \in papers' : PaperTrue(p)'
    <2>1. PICK p : papers' = papers \cup {p} /\ PaperTrue(p)
        BY <1>4
    <2>2. PaperTrue(p)'
        BY <1>1, <2>1 DEF PaperTrue
    <2> QED
        BY <1>3, <2>1, <2>2
<1> QED
    BY <1>1, <1>2, <1>5, WorldKeeps DEF TrustInv

LEMMA MakeKeeps == TrustInv /\ verdict = NoVerdict /\ MakeVerifier => TrustInv'
<1> SUFFICES ASSUME TrustInv, verdict = NoVerdict, MakeVerifier PROVE TrustInv'
    OBVIOUS
<1>1. /\ UNCHANGED <<now, list, revoked, papers, verdict>> /\ made' = TRUE
      /\ \A a \in Anchors : About[a].ca
    BY DEF MakeVerifier
<1>2. \A p \in papers' : PaperTrue(p)'
    BY <1>1 DEF TrustInv, PaperTrue
<1>3. now \in Nat
    BY TrustAssumption DEF TrustInv
<1> QED
    BY <1>1, <1>2, <1>3, WorldKeeps DEF TrustInv

\* A verdict changes nothing else.
LEMMA VerdictKeeps ==
    ASSUME TrustInv, UNCHANGED <<now, made, list, revoked, papers>>,
           verdict'.at <= now, TrustSound'
    PROVE  TrustInv'
<1>1. \A p \in papers' : PaperTrue(p)'
    BY DEF TrustInv, PaperTrue
<1> QED
    BY <1>1 DEF TrustInv

LEMMA ProviderKeeps ==
    ASSUME TrustInv, NEW chain \in Chains, NEW given \in SUBSET papers,
           VerifyProvider(chain, given)
    PROVE  TrustInv'
<1>1. /\ verdict'.kind = "provider" /\ verdict'.leaf = chain[1] /\ verdict'.at = now
      /\ UNCHANGED <<now, made, list, revoked, papers>> /\ made /\ given # {}
      /\ ChainValid(chain)
    BY DEF VerifyProvider, NoVerdict
<1>2. now \in Nat /\ chain \in Seq(Cert) /\ chain # <<>>
    BY TrustAssumption DEF TrustInv
<1>3. chain[1] \in Cert
    BY <1>2
<1>4. Descends(chain[1])
    BY <1>1, <1>2, ChainDescends DEF ChainValid
<1>5. PICK issuer \in IssuersOf(chain) : \A p \in given :
          CrlValid(p, chain[1], issuer) \/ OcspValid(p, chain[1], issuer)
    BY DEF VerifyProvider
<1>6. verdict'.of = {p.of : p \in given}
    BY DEF VerifyProvider, NoVerdict
<1>7. revoked[chain[1]] # Never /\ About[chain[1]].signer \in verdict'.of =>
          \/ now - revoked[chain[1]] <= Validity + Leeway
          \/ now - revoked[chain[1]] <= MaxAge
    <2> SUFFICES ASSUME revoked[chain[1]] # Never, About[chain[1]].signer \in verdict'.of
                 PROVE  \/ now - revoked[chain[1]] <= Validity + Leeway
                        \/ now - revoked[chain[1]] <= MaxAge
        OBVIOUS
    <2>1. PICK p \in papers :
              /\ About[chain[1]].signer = p.of
              /\ CrlValid(p, chain[1], issuer) \/ OcspValid(p, chain[1], issuer)
        BY <1>5, <1>6
    <2> QED
        BY <1>3, <2>1, PaperFresh
<1>8. TrustSound'
    BY <1>1, <1>4, <1>7 DEF TrustSound, Descends, Family
<1> QED
    BY <1>1, <1>2, <1>8, VerdictKeeps

\* What one layer adds, whatever it answers.
LEMMA ShareBound ==
    ASSUME NEW w \in Nat, NEW score \in Int
    PROVE  w * Clamped(score) \in Nat
           /\ w * Clamped(score) <= (IF score > 0 THEN 100 * w ELSE 0)
<1>1. Clamped(score) \in 0..100 /\ (score <= 0 => Clamped(score) = 0)
    BY DEF Clamped
<1>2. \A x \in 0..100 : w * x \in Nat /\ w * x <= 100 * w
    OBVIOUS
<1>3. w * 0 = 0
    OBVIOUS
<1> QED
    BY <1>1, <1>2, <1>3

LEMMA EvaluationKeeps ==
    ASSUME TrustInv, NEW chain \in Chains, NEW qualified \in BOOLEAN, NEW sound \in BOOLEAN,
           NEW first, NEW rest, LayerScore(first) \in Int, LayerScore(rest) \in Int,
           EvaluateEvidence(chain, qualified, sound, first, rest)
    PROVE  TrustInv'
<1> DEFINE second == CredentialScore(chain, qualified, sound)
           Bound(w, score) == IF score > 0 THEN 100 * w ELSE 0
           one == 30 * Clamped(LayerScore(first))
           two == 35 * Clamped(second)
           three == 20 * Clamped(LayerScore(rest))
           four == 15 * Clamped(LayerScore(rest))
           sum == one + two + three + four
<1>1. UNCHANGED <<now, made, list, revoked, papers>> /\ now \in Nat
      /\ chain \in Seq(Cert) /\ chain # <<>>
    BY TrustAssumption DEF TrustInv, EvaluateEvidence
<1>2. verdict' = [kind |-> "evaluation", leaf |-> chain[1], of |-> {}, at |-> now,
                  score |-> IF sum > 10000 THEN 10000 ELSE sum,
                  layers |-> <<LayerScore(first), second, LayerScore(rest), LayerScore(rest)>>]
    <2> DEFINE all == <<LayerScore(first), second, LayerScore(rest), LayerScore(rest)>>
               clamped == IF sum > 10000 THEN 10000 ELSE sum
    <2>1. PICK total, scores : scores = all /\ total = clamped
        <3> HIDE DEF all, clamped
        <3> QED
            OBVIOUS
    <2>2. verdict' = [NoVerdict EXCEPT !.kind = "evaluation", !.leaf = chain[1], !.at = now,
                                       !.layers = scores, !.score = total]
        BY <2>1 DEF EvaluateEvidence, Weight
    <2>3. verdict' = [kind |-> "evaluation", leaf |-> chain[1], of |-> {}, at |-> now,
                      score |-> total, layers |-> scores]
        BY <2>2 DEF NoVerdict
    <2> QED
        BY <2>1, <2>3
<1>3. second \in {0, 25, 65, 100}
    BY DEF CredentialScore
<1>4. second > 25 => /\ \A link \in Links(chain) : SignedBy(link[1], link[2])
                     /\ Trusted(chain)
    BY <1>3 DEF CredentialScore
<1>5. second > 25 => IF list = Never THEN Descends(chain[1]) ELSE chain[1] \in list
    BY <1>1, <1>4, ChainDescends DEF Trusted
<1>6. /\ one \in Nat /\ one <= Bound(30, LayerScore(first))
      /\ two \in Nat /\ two <= Bound(35, second)
      /\ three \in Nat /\ three <= Bound(20, LayerScore(rest))
      /\ four \in Nat /\ four <= Bound(15, LayerScore(rest))
    <2>1. second \in Int
        BY <1>3
    <2> HIDE DEF second
    <2> QED
        BY <2>1, ShareBound
<1>7. verdict'.score <= Share(1)' + Share(2)' + Share(3)' + Share(4)'
    <2>1. /\ verdict'.layers[1] = LayerScore(first) /\ verdict'.layers[2] = second
          /\ verdict'.layers[3] = LayerScore(rest) /\ verdict'.layers[4] = LayerScore(rest)
          /\ verdict'.score = IF sum > 10000 THEN 10000 ELSE sum
        BY <1>2
    <2>2. /\ Share(1)' = Bound(30, LayerScore(first)) /\ Share(2)' = Bound(35, second)
          /\ Share(3)' = Bound(20, LayerScore(rest)) /\ Share(4)' = Bound(15, LayerScore(rest))
        BY <2>1 DEF Share, Weight
    <2>3. verdict'.score <= sum
        <3> HIDE DEF one, two, three, four
        <3> QED
            BY <1>6, <2>1
    <2>4. PICK b1, b2, b3, b4 :
              /\ b1 = Bound(30, LayerScore(first)) /\ b2 = Bound(35, second)
              /\ b3 = Bound(20, LayerScore(rest)) /\ b4 = Bound(15, LayerScore(rest))
        OBVIOUS
    <2>5. b1 \in Nat /\ b2 \in Nat /\ b3 \in Nat /\ b4 \in Nat
        BY <2>4
    <2>6. PICK v : v = verdict'.score
        OBVIOUS
    <2>7. v \in Int /\ v <= b1 + b2 + b3 + b4
        <3>1. /\ one \in Nat /\ two \in Nat /\ three \in Nat /\ four \in Nat
              /\ one <= b1 /\ two <= b2 /\ three <= b3 /\ four <= b4
              /\ v = IF sum > 10000 THEN 10000 ELSE sum
            BY <1>6, <2>1, <2>4, <2>6
        <3> HIDE DEF one, two, three, four
        <3> QED
            BY <2>5, <3>1
    <2> QED
        BY <2>2, <2>4, <2>6, <2>7
<1>8. TrustSound'
    <2>1. /\ verdict'.kind = "evaluation" /\ verdict'.leaf = chain[1]
          /\ verdict'.layers[2] = second
        BY <1>2
    <2>2. \A c : Descends(c)' <=> Descends(c)
        BY DEF Descends, Family
    <2> HIDE DEF second
    <2> QED
        BY <1>1, <1>5, <1>7, <2>1, <2>2 DEF TrustSound
<1> QED
    BY <1>1, <1>2, <1>8, VerdictKeeps

LEMMA TrustStep == TrustInv /\ [TrustNext]_trust => TrustInv'
<1> SUFFICES ASSUME TrustInv, [TrustNext]_trust PROVE TrustInv'
    OBVIOUS
<1>1. CASE UNCHANGED trust
    BY <1>1 DEF trust, TrustInv, PaperTrue, TrustSound, Share, Descends, Family
<1>2. CASE TrustNext
    <2>1. verdict = NoVerdict
        BY <1>2 DEF TrustNext
    <2>2. ASSUME NEW c \in Revocable, RevokeCert(c) PROVE TrustInv'
        BY <2>1, <2>2, RevokeKeeps, TrustAssumption
    <2>3. ASSUME NEW c, NEW by, PublishCrl(c) \/ PublishOcsp(by, c) PROVE TrustInv'
        BY <2>1, <2>3, PublishKeeps
    <2>4. ASSUME NEW chain \in Chains, NEW given \in SUBSET papers, VerifyProvider(chain, given)
          PROVE  TrustInv'
        BY <2>4, ProviderKeeps
    <2>5. ASSUME NEW chain \in Chains, NEW qualified \in BOOLEAN, NEW sound \in BOOLEAN,
                 NEW first \in {Never, -5, 200}, NEW rest \in {Never, -5, 200},
                 EvaluateEvidence(chain, qualified, sound, first, rest)
          PROVE  TrustInv'
        <3>1. LayerScore(first) \in Int /\ LayerScore(rest) \in Int
            BY DEF LayerScore
        <3> QED
            BY <2>5, <3>1, EvaluationKeeps
    <2> QED
        BY <1>2, <2>1, <2>2, <2>3, <2>4, <2>5, TickKeeps, MakeKeeps DEF TrustNext
<1> QED
    BY <1>1, <1>2

LEMMA InitTrust == TrustInit => TrustInv
<1> SUFFICES ASSUME TrustInit PROVE TrustInv
    OBVIOUS
<1>1. 0 \in 0..MaxTime /\ list \in {Never} \cup SUBSET Cert
    BY TrustAssumption DEF TrustInit
<1> QED
    <2>1. revoked \in [Cert -> {Never} \cup 0..now] /\ now \in 0..MaxTime /\ made = FALSE
          /\ papers = {}
        BY <1>1 DEF TrustInit
    <2>2. verdict.at <= now /\ TrustSound
        BY DEF TrustInit, NoVerdict, TrustSound
    <2> QED
        BY <1>1, <2>1, <2>2 DEF TrustInv

(* Who is believed deserves it: for any certificates, some of them false   *)
(* ones of an authority's name, any anchors, chains and documents, at any  *)
(* time.  That a responder is known by its name alone is in the steps, and *)
(* what it costs is in the property (production_cert_verifier.py,          *)
(* layer2_qeaa.py and veritasd.py).                                        *)
THEOREM BelievedDeserves == TrustSpec => []TrustSound
<1>1. TrustInv => TrustSound
    BY DEF TrustInv
<1> QED
    BY <1>1, InitTrust, TrustStep, PTL DEF TrustSpec

(* The clock, the lists, the revocations and the documents have their      *)
(* types, and no document and no verdict is from the future.               *)
THEOREM TrustTypeCorrect == TrustSpec => []TrustTypeOK
<1>1. ASSUME TrustInv PROVE TrustTypeOK
    <2>1. \A p \in papers : p.this <= now
        BY <1>1 DEF TrustInv, PaperTrue
    <2> QED
        BY <1>1, <2>1 DEF TrustInv, TrustTypeOK
<1> QED
    BY <1>1, InitTrust, TrustStep, PTL DEF TrustSpec
=============================================================================
