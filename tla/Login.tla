-------------------------------- MODULE Login --------------------------------
(***************************************************************************)
(* Sign-in and sessions: the logins (app/auth/oidc.py), their routes       *)
(* (app/routers/auth.py) and the session table (app/session_store.py).     *)
(* FastAPI runs each handler in a thread of its own, SQLite is autocommit  *)
(* for reads, so every statement below is a step of its own.               *)
(*                                                                         *)
(* Only mock logins can succeed.  The live login keeps a nonce with its    *)
(* state, in a column that the schema does not have: its start and its     *)
(* callback end at that statement, and nothing after it ever runs.         *)
(***************************************************************************)
EXTENDS Naturals, FiniteSets

CONSTANTS
    Handler,    \* threads that serve requests
    Actor,      \* users
    Sid,        \* session ids
    Chosen,     \* those a browser may make up; the others are uuid4s
    Nobody      \* no row, or an anonymous actor

Row == [actor : Actor \cup {Nobody}, level : {"eid_low", "idp_authenticated"}]

ASSUME LoginAssumption ==
    /\ Nobody \notin Actor \cup Row \cup Sid
    /\ Chosen \subseteq Sid

VARIABLES
    mock,       \* EIRA_OIDC_MOCK, read with every configuration
    job,        \* the request of each handler
    stage,      \* where it is
    sessions,   \* row of each session id: its actor and level, or Nobody
    answered    \* history: the requests that made a session and were told its id

login == <<mock, job, stage, sessions, answered>>

NoJob == [kind |-> "none", actor |-> Nobody, sid |-> Nobody, made |-> FALSE]

LoginTypeOK ==
    /\ stage \in [Handler -> {"idle", "state", "lookup", "insert", "answer"}]
    /\ sessions \in [Sid -> Row \cup {Nobody}]
    /\ \A q \in Handler : stage[q] \in {"lookup", "insert", "answer"} => job[q].sid \in Sid
    /\ \A q \in Handler : stage[q] = "answer" => sessions[job[q].sid] # Nobody

LoginInit ==
    /\ mock \in BOOLEAN
    /\ job = [q \in Handler |-> NoJob]
    /\ stage = [q \in Handler |-> "idle"]
    /\ sessions = [s \in Sid |-> Nobody]
    /\ answered = {}

-----------------------------------------------------------------------------
Move(q, from, to) == stage[q] = from /\ stage' = [stage EXCEPT ![q] = to]

\* An error answer, or the end of the request.
Fail(q, from) ==
    /\ Move(q, from, "idle")
    /\ job' = [job EXCEPT ![q] = NoJob]

\* The columns of oidc_auth_states.
StateColumns == {"state", "code_verifier", "created_at"}

\* start_oidc_login comes to _store_auth_state in live mode only ...
StartLogin(q) ==
    /\ ~mock /\ Move(q, "idle", "state")
    /\ UNCHANGED <<mock, job, sessions, answered>>

\* ... complete_oidc_callback comes to _pop_auth_state with a code and a state.
Callback(q) ==
    /\ Move(q, "idle", "state")
    /\ UNCHANGED <<mock, job, sessions, answered>>

\* sqlite3.OperationalError, which no handler catches.
NonceFails(q) ==
    /\ "nonce" \notin StateColumns
    /\ Fail(q, "state")
    /\ UNCHANGED <<mock, sessions, answered>>

-----------------------------------------------------------------------------
\* What uuid4 may draw.
Unused == {s \in Sid \ Chosen : /\ sessions[s] = Nobody
                                /\ \A q \in Handler : job[q].sid # s}

\* The session ids a browser can send: made up, drawn now, or given to one.
Sendable == Chosen \cup Unused \cup {r.sid : r \in answered}

Ask(q, kind, a, s) ==
    /\ Move(q, "idle", "lookup")
    /\ job' = [job EXCEPT ![q] = [kind |-> kind, actor |-> a, sid |-> s, made |-> FALSE]]
    /\ UNCHANGED <<mock, sessions, answered>>

\* mock_login: an actor and perhaps a session id, both from the request.
MockLogin(q, a, s) == mock /\ Ask(q, "mock", a, s)

\* The daemons make a session for whatever id they are sent, in the name that
\* comes with it or in none.
Visit(q, a, s) == Ask(q, "visit", a, s)

\* MUTANT: the id a browser sends is taken to have a row.
TakenForKnown(q) ==
    /\ Move(q, "lookup", "answer")
    /\ UNCHANGED <<mock, job, sessions, answered>>

\* ensure_session: a SELECT, an INSERT when it found nothing.  A row that is
\* there stays what it is, whoever logs in with its id.
Lookup(q) ==
    /\ Move(q, "lookup", IF sessions[job[q].sid] = Nobody THEN "insert"
                                                          ELSE "answer")
    /\ UNCHANGED <<mock, job, sessions, answered>>

\* A login's row says idp_authenticated, whatever its claims say.
NewRow(j) ==
    [actor |-> j.actor,
     level |-> IF j.kind = "visit" THEN "eid_low" ELSE "idp_authenticated"]

Inserted(q) ==
    /\ Move(q, "insert", "answer")
    /\ sessions' = [sessions EXCEPT ![job[q].sid] = NewRow(job[q])]
    /\ job' = [job EXCEPT ![q].made = TRUE]
    /\ UNCHANGED <<mock, answered>>

\* MUTANT: INSERT OR REPLACE, as for the states of the live login.
InsertOrReplace(q) == Inserted(q)

\* The other one's INSERT came first: the key is taken, the request fails.
Insert(q) ==
    /\ stage[q] = "insert"
    /\ \/ sessions[job[q].sid] = Nobody /\ Inserted(q)
       \/ /\ sessions[job[q].sid] # Nobody
          /\ Fail(q, "insert")
          /\ UNCHANGED <<mock, sessions, answered>>

\* A login is recorded in audit_events first; without it there is no answer.
Answer(q) ==
    /\ Fail(q, "answer")
    /\ \/ answered' = answered \cup {j \in {job[q]} : j.made}
       \/ job[q].kind = "mock" /\ UNCHANGED answered
    /\ UNCHANGED <<mock, sessions>>

Serve(q) ==
    \/ StartLogin(q) \/ Callback(q) \/ NonceFails(q)
    \/ \E a \in Actor, s \in Sendable : MockLogin(q, a, s)
    \/ \E a \in Actor \cup {Nobody}, s \in Sendable : Visit(q, a, s)
    \/ Lookup(q) \/ Insert(q) \/ Answer(q)

LoginNext == \E q \in Handler : Serve(q)

LoginSpec == LoginInit /\ [][LoginNext]_login

-----------------------------------------------------------------------------
(* Whoever was answered with a session of his own making has it for ever,  *)
(* at the level he came with, whichever requests with the same id overlap  *)
(* or follow; and without mock logins no session is ever authenticated.    *)
LoginsHold ==
    /\ \A r \in answered : sessions[r.sid] = NewRow(r)
    /\ ~mock => \A s \in Sid : sessions[s] # Nobody => sessions[s].level = "eid_low"
=============================================================================
