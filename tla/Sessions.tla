------------------------------ MODULE Sessions ------------------------------
(***************************************************************************)
(* Login sessions (internal/auth/auth.go, the handlers of                  *)
(* internal/api/handlers/auth.go, the settings handlers of                 *)
(* internal/api/router.go, the start-up of cmd/webux/main.go).             *)
(*                                                                         *)
(* A token is a signed JWT; it is named by its session id (jti).  The      *)
(* table webux_sessions and the stored bypass token survive a restart of   *)
(* the server, the signing secret is read back from the database, requests *)
(* in flight are lost.  A request is served by steps: other requests, the  *)
(* clock and a restart come between any two of them.                       *)
(***************************************************************************)
EXTENDS Naturals, FiniteSets

CONSTANTS
  Slots,       \* requests that may be in flight at the same time
  Users,       \* the accounts of the host
  Sso,         \* the user name of sessions issued for the bypass token
  AllowedUsers,\* cfg.Auth.AllowedUsers ({}: everybody)
  Bypass,      \* values a bypass token may take
  None,        \* no token, no bypass token
  TTL,         \* lifetime of a session (24 h)
  MaxTokens,   \* bound of the model: sessions issued
  MaxTime,     \* bound of the model: clock
  MaxFaults,   \* bound of the model: SQL statements that fail
  MaxRestarts  \* bound of the model: restarts of the server

ASSUME SessionAssumption ==
  /\ Sso \notin Users
  /\ None \notin Bypass
  /\ TTL \in Nat \ {0}
  /\ MaxTokens \in Nat /\ MaxTime \in Nat /\ MaxFaults \in Nat /\ MaxRestarts \in Nat

VARIABLES
  now,      \* the clock
  issued,   \* signed tokens: jti -> [user, exp], for the jtis 1..Len
  rows,     \* webux_sessions: the jtis of its rows (user and expiry as signed)
  stored,   \* auth.bypass_token in webux_settings
  inForce,  \* m.bypassToken, read when the server started
  req,      \* slot -> the request being served
  handed,   \* history: tokens handed to a client in a cookie
  loggedOut,\* history: tokens whose logout has been answered
  failed,   \* history: the statements that failed, <<statement, jti>>
  restarts

vars == <<now, issued, rows, stored, inForce, req, handed, loggedOut, failed, restarts>>

Jti == 1..MaxTokens
NoJti == 0

\* A request: what it presents, what it asks for, where it is.
\*   phase "pam"    Login: the password is being checked
\*         "gate"   the middleware has to decide
\*         "verify" the claims are fine, the session row is to be looked up
\*         "insert", "prune"  inside issueToken
\*         "handle" the handler itself runs
\*         "revoke" Logout: the session row is to be deleted
Idle == [phase |-> "idle", tok |-> NoJti, hdr |-> None, user |-> None,
         new |-> NoJti, dead |-> {}]

Init ==
  /\ now = 0
  /\ issued = [j \in {} |-> None]
  /\ rows = {}
  /\ stored = None
  /\ inForce = None
  /\ req = [q \in Slots |-> Idle]
  /\ handed = {}
  /\ loggedOut = {}
  /\ failed = {}
  /\ restarts = 0

Signed == DOMAIN issued
Phases == {"idle", "pam", "gate", "verify", "insert", "prune", "handle", "revoke"}
Step(q, to) == req' = [req EXCEPT ![q].phase = to]
Done(q) == req' = [req EXCEPT ![q] = Idle]
Permitted(u) == AllowedUsers = {} \/ u \in AllowedUsers

\* A statement about session j fails.
Fails(stmt, j) ==
  /\ Cardinality(failed) < MaxFaults
  /\ failed' = failed \union {<<stmt, j>>}

-----------------------------------------------------------------------------
(* POST /auth/login                                                        *)

\* Slip: a login without a user name is not turned away.
LoginUnnamed(q) ==
  /\ req[q].phase = "idle"
  /\ \E u \in Users \union {None} :
       req' = [req EXCEPT ![q] = [Idle EXCEPT !.phase = "pam", !.user = u]]
  /\ UNCHANGED <<now, issued, rows, stored, inForce, handed, loggedOut, failed, restarts>>

LoginArrives(q) ==
  /\ req[q].phase = "idle"
  /\ \E u \in Users : req' = [req EXCEPT ![q] = [Idle EXCEPT !.phase = "pam", !.user = u]]
  /\ UNCHANGED <<now, issued, rows, stored, inForce, handed, loggedOut, failed, restarts>>

\* The password is wrong, or the user is not on the allow-list: 401.
LoginRefused(q) ==
  /\ req[q].phase = "pam"
  /\ Done(q)
  /\ UNCHANGED <<now, issued, rows, stored, inForce, handed, loggedOut, failed, restarts>>

\* issueToken, first half: session id, claims and signature.
Sign(q, u) ==
  LET j == Cardinality(Signed) + 1 IN
  /\ j \in Jti
  /\ issued' = [i \in Signed \union {j} |->
                  IF i = j THEN [user |-> u, exp |-> now + TTL] ELSE issued[i]]
  /\ req' = [req EXCEPT ![q].phase = "insert", ![q].new = j, ![q].user = u]
  /\ UNCHANGED <<now, rows, stored, inForce, handed, loggedOut, failed, restarts>>

LoginAccepted(q) ==
  /\ req[q].phase = "pam"
  /\ Permitted(req[q].user)
  /\ Sign(q, req[q].user)

\* INSERT INTO webux_sessions; its error is ignored.
InsertSession(q) ==
  /\ req[q].phase = "insert"
  /\ \/ /\ rows' = rows \union {req[q].new}
        /\ UNCHANGED failed
     \/ /\ Fails("insert", req[q].new)
        /\ UNCHANGED rows
  /\ Step(q, "prune")
  /\ UNCHANGED <<now, issued, stored, inForce, handed, loggedOut, restarts>>

\* Slip: the sessions that have not expired are pruned.
NotExpired(j) == issued[j].exp > now

Expired(j) == issued[j].exp < now

\* DELETE ... WHERE expires_at < now; then the cookie is set.  Login answers,
\* a request with the bypass header goes on to its handler.
PruneSessions(q) ==
  /\ req[q].phase = "prune"
  /\ rows' = {j \in rows : ~Expired(j)}
  /\ handed' = handed \union {req[q].new}
  /\ IF req[q].user = Sso THEN Step(q, "handle") ELSE Done(q)
  /\ UNCHANGED <<now, issued, stored, inForce, loggedOut, failed, restarts>>

-----------------------------------------------------------------------------
(* Requests to /api and /ws: the middleware.                               *)

\* A request presents a token it was once handed, a bypass header, or nothing.
ApiArrives(q) ==
  /\ req[q].phase = "idle"
  /\ \E t \in handed \union {NoJti}, h \in Bypass \union {None} :
       req' = [req EXCEPT ![q] =
                 [Idle EXCEPT !.phase = "gate", !.tok = t, !.hdr = h, !.dead = loggedOut]]
  /\ UNCHANGED <<now, issued, rows, stored, inForce, handed, loggedOut, failed, restarts>>

\* The bypass header matches: a session for "sso" is issued on every request.
GateBypass(q) ==
  /\ req[q].phase = "gate"
  /\ inForce # None /\ req[q].hdr = inForce
  /\ Sign(q, Sso)

GateSession(q) ==
  /\ req[q].phase = "gate"
  /\ ~(inForce # None /\ req[q].hdr = inForce)
  /\ IF req[q].tok # NoJti /\ ~(now > issued[req[q].tok].exp)
     THEN Step(q, "verify")
     ELSE Done(q)
  /\ UNCHANGED <<now, issued, rows, stored, inForce, handed, loggedOut, failed, restarts>>

\* Slip: only the expiry is looked at.
LiveUnrevoked(j) == issued[j].exp > now

Live(j) == j \in rows /\ issued[j].exp > now

\* The revocation check, then the allow-list.
VerifySession(q) ==
  /\ req[q].phase = "verify"
  /\ IF Live(req[q].tok) /\ Permitted(issued[req[q].tok].user)
     THEN Step(q, "handle")
     ELSE Done(q)
  /\ UNCHANGED <<now, issued, rows, stored, inForce, handed, loggedOut, failed, restarts>>

\* The handler: PUT /api/settings/auth stores the bypass token of its body
\* (None: blank); no other handler of the API touches what is modelled here.
Handle(q) ==
  /\ req[q].phase = "handle"
  /\ stored' \in Bypass \union {None, stored}
  /\ Done(q)
  /\ UNCHANGED <<now, issued, rows, inForce, handed, loggedOut, failed, restarts>>

-----------------------------------------------------------------------------
(* POST /auth/logout (outside the gate)                                    *)

LogoutArrives(q) ==
  /\ req[q].phase = "idle"
  /\ \E t \in handed : req' = [req EXCEPT ![q] = [Idle EXCEPT !.phase = "revoke", !.tok = t]]
  /\ UNCHANGED <<now, issued, rows, stored, inForce, handed, loggedOut, failed, restarts>>

\* RevokeSession deletes the row, ignoring the error; the client is told ok.
Revoke(q) ==
  /\ req[q].phase = "revoke"
  /\ \/ /\ rows' = rows \ {req[q].tok}
        /\ UNCHANGED failed
     \/ /\ Fails("delete", req[q].tok)
        /\ UNCHANGED rows
  /\ loggedOut' = loggedOut \union {req[q].tok}
  /\ Done(q)
  /\ UNCHANGED <<now, issued, stored, inForce, handed, restarts>>

-----------------------------------------------------------------------------
(* The server stops at any moment and starts again: the secret comes from  *)
(* the database, so signed tokens stay valid; the bypass token is read     *)
(* once, from the database (none is set in the configuration file).        *)
Restart ==
  /\ restarts < MaxRestarts
  /\ restarts' = restarts + 1
  /\ req' = [q \in Slots |-> Idle]
  /\ inForce' = stored
  /\ UNCHANGED <<now, issued, rows, stored, handed, loggedOut, failed>>

Tick ==
  /\ now < MaxTime
  /\ now' = now + 1
  /\ UNCHANGED <<issued, rows, stored, inForce, req, handed, loggedOut, failed, restarts>>

Serve(q) ==
  \/ LoginArrives(q) \/ LoginRefused(q) \/ LoginAccepted(q)
  \/ InsertSession(q) \/ PruneSessions(q)
  \/ ApiArrives(q) \/ GateBypass(q) \/ GateSession(q) \/ VerifySession(q) \/ Handle(q)
  \/ LogoutArrives(q) \/ Revoke(q)

Next == Tick \/ Restart \/ \E q \in Slots : Serve(q)

Spec == Init /\ [][Next]_vars

-----------------------------------------------------------------------------
TypeOK ==
  /\ now \in 0..MaxTime
  /\ Signed \subseteq Jti
  /\ \A j \in Signed : issued[j] \in [user : Users \union {Sso}, exp : Nat]
  /\ rows \subseteq Signed
  /\ stored \in Bypass \union {None}
  /\ inForce \in Bypass \union {None}
  /\ req \in [Slots -> [phase : Phases,
                        tok : Signed \union {NoJti}, new : Signed \union {NoJti},
                        user : Users \union {Sso, None}, hdr : Bypass \union {None},
                        dead : SUBSET Signed]]
  /\ \A q \in Slots : req[q].phase = "pam" => req[q].user \in Users
  /\ handed \subseteq Signed
  /\ loggedOut \subseteq handed
  /\ failed \subseteq {"insert", "delete"} \X Jti
  /\ restarts \in 0..MaxRestarts

\* A request by session that reached its handler.
BySession(q) == req[q].phase = "handle" /\ req[q].user # Sso

\* Where each session is in its life.
Lives ==
  [j \in Jti |-> IF j \in rows THEN "live"
                ELSE IF j \notin Signed THEN "none"
                ELSE IF \E q \in Slots : req[q].phase = "insert" /\ req[q].new = j THEN "signed"
                ELSE "over"]
Expiries == [j \in Jti |-> IF j \in Signed THEN issued[j].exp ELSE 0]

(* The table of sessions gives every session one life: no request, prune   *)
(* or restart makes one live again, and none ends one that is live but its *)
(* expiry or its logout.                                                   *)
Life == INSTANCE SessionLife WITH Ids <- Jti, life <- Lives, until <- Expiries, clock <- now
EachLivesOnce == Life!Spec

(* Logout is final: a request that arrives after the logout of its token   *)
(* was answered never reaches a handler, whatever restarts, prunes and     *)
(* other logins come between ("invalidating the token immediately"),       *)
(* unless the DELETE of that logout failed.                                *)
LogoutIsFinal ==
  \A q \in Slots :
    BySession(q) /\ <<"delete", req[q].tok>> \notin failed => req[q].tok \notin req[q].dead

(* A cookie works: every token handed to a client that has not been logged *)
(* out and has not expired would pass the revocation check now, even after *)
(* restarts and after other logins pruned the table, unless the INSERT of  *)
(* its row failed.                                                         *)
CookiesWork ==
  \A j \in handed :
    /\ j \notin loggedOut
    /\ issued[j].exp > now
    /\ \A q \in Slots : ~(req[q].phase = "revoke" /\ req[q].tok = j)
    /\ <<"insert", j>> \notin failed
    => Live(j)

=============================================================================
