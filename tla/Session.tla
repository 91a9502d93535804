------------------------------- MODULE Session -------------------------------
(***************************************************************************)
(* The session of one browser: its tabs, each with a session store of its  *)
(* own (features/auth/session.ts), the refresh cookie they share, the      *)
(* route handler that moves tokens into it (app/api/session) and the rows  *)
(* of refresh_tokens the API rotates and revokes (internal/auth).  A       *)
(* request is a record in req from the moment it leaves its tab until its  *)
(* answer is taken; the server's side of it is one step per statement, and *)
(* goes on when nobody listens any more.  Access tokens are not checked    *)
(* against the rows, so here they are just being signed in.                *)
(***************************************************************************)
EXTENDS Naturals, Sequences, FiniteSets

CONSTANTS
    Tabs,
    Slots,          \* bound: requests under way at once, numbered
    MaxTokens,      \* bound: refresh tokens ever made
    MaxTroubles,    \* bound: reloads, requests given up, statements failing
    None

VARIABLES
    store,      \* status in the session store of each tab
    cookie,     \* the refresh token in the browser's cookie jar; 0: none
    rows,       \* refresh_tokens, by id: the family, and whether not revoked
    req,        \* what each slot carries
    ended,      \* families that Logout has revoked
    crossed,    \* families that were revoked while one of their tokens rotated
    excused,    \* two tabs have refreshed at once, or an answer was lost
    troubles

client == <<store, cookie>>
server == <<rows, ended, crossed>>
vars   == <<client, server, req, excused, troubles>>

Statuses == {"loading", "authenticated", "anonymous"}
Kinds == {"login", "refresh", "logout"}

FreeSlot == [at |-> "free", kind |-> None, tab |-> None, tok |-> 0, seen |-> {}, out |-> None]

Family(tok) == rows[tok].family
Live(f) == {k \in DOMAIN rows : rows[k].family = f /\ rows[k].live}

UnderWay(k) == {i \in Slots : req[i].kind = k /\ req[i].at # "free"}

\* The slot the next request takes; which one it is makes no difference.
Vacant(i) == req[i].at = "free" /\ \A j \in Slots : req[j].at = "free" => i <= j

\* The promise of tab t that a request of kind k will settle; inflightRefresh.
Pending(t, k) == {i \in UnderWay(k) : req[i].tab = t}

\* Room for the token that every sign-in and every refresh may make.
Room == Len(rows) + Cardinality(UnderWay("login")) + Cardinality(UnderWay("refresh")) < MaxTokens

Trouble == troubles < MaxTroubles /\ troubles' = troubles + 1

-----------------------------------------------------------------------------
Init ==
    /\ store = [t \in Tabs |-> "anonymous"]
    /\ cookie = 0
    /\ rows = <<>>
    /\ req = [i \in Slots |-> FreeSlot]
    /\ ended = {} /\ crossed = {}
    /\ excused = FALSE /\ troubles = 0

(* callSessionRoute: the browser attaches the cookie it holds now.  A      *)
(* refresh or a sign-out without a cookie never leaves the route handler.  *)
callSessionRoute(i, t, k) ==
    /\ Vacant(i)
    /\ req' = [req EXCEPT ![i] =
         [FreeSlot EXCEPT !.kind = k, !.tab = t,
                          !.tok = IF k = "login" THEN 0 ELSE cookie,
                          !.at  = IF k # "login" /\ cookie = 0 THEN "answered" ELSE "sent",
                          !.out = IF k = "refresh" THEN "denied" ELSE "done"]]

\* Another tab, or nobody, is waiting for a refresh too.
Overlaps(t) == \E j \in UnderWay("refresh") : req[j].tab # t

RefreshTwice(i, t) ==   \* mutant: every caller sends a request of its own
    /\ cookie # 0 => Room
    /\ callSessionRoute(i, t, "refresh")
    /\ excused' = (excused \/ Overlaps(t))

refreshSession(i, t) ==
    /\ Pending(t, "refresh") = {}
    /\ cookie # 0 => Room
    /\ callSessionRoute(i, t, "refresh")
    /\ excused' = (excused \/ Overlaps(t))

(* The timer a minute before the access token expires, or the 401 that     *)
(* answers a call made with an expired one.                                *)
Renew(i, t) ==
    /\ store[t] = "authenticated"
    /\ refreshSession(i, t)
    /\ UNCHANGED <<client, server, troubles>>

Login(i, t) ==
    /\ store[t] # "authenticated" /\ Pending(t, "login") = {}
    /\ Room
    /\ callSessionRoute(i, t, "login")
    /\ UNCHANGED <<client, server, excused, troubles>>

Logout(i, t) ==
    /\ store[t] = "authenticated" /\ Pending(t, "logout") = {}
    /\ callSessionRoute(i, t, "logout")
    /\ UNCHANGED <<client, server, excused, troubles>>

-----------------------------------------------------------------------------
(* The route handler and the API.                                          *)
Answer(i, o) == req' = [req EXCEPT ![i].at = "answered", ![i].out = o]

startSession(i) ==
    /\ req[i].at = "sent" /\ req[i].kind = "login"
    /\ rows' = Append(rows, [family |-> Len(rows) + 1, live |-> TRUE])
    /\ req' = [req EXCEPT ![i].at = "answered", ![i].out = "session", ![i].tok = Len(rows) + 1]
    /\ UNCHANGED <<client, ended, crossed, excused, troubles>>

(* GetByHash.  A token that was rotated before ends the family.            *)
GetByHash(i) ==
    /\ req[i].at = "sent" /\ req[i].kind # "login"
    /\ req' = [req EXCEPT ![i].at =
         IF req[i].kind = "refresh" /\ rows[req[i].tok].live THEN "loaded" ELSE "revoke"]
    /\ UNCHANGED <<client, server, excused, troubles>>

Rotating(f) == \E j \in Slots : req[j].at = "rotating" /\ Family(req[j].tok) = f
Revoking(f) == \E j \in Slots : req[j].at = "revoking" /\ Family(req[j].tok) = f

\* The row lock taken by the update inside Rotate.
Locked(tok) == \E j \in Slots : req[j].at = "rotating" /\ req[j].tok = tok

RotateUnchecked(i) ==   \* mutant: the update does not ask whether the row was revoked
    /\ req[i].at = "loaded" /\ ~Locked(req[i].tok)
    /\ req' = [req EXCEPT ![i].at = "rotating"]
    /\ crossed' = IF Revoking(Family(req[i].tok)) THEN crossed \cup {Family(req[i].tok)} ELSE crossed
    /\ UNCHANGED <<client, rows, ended, excused, troubles>>

Rotate(i) ==
    LET f == Family(req[i].tok) IN
    /\ req[i].at = "loaded" /\ ~Locked(req[i].tok)
    /\ req' = [req EXCEPT ![i].at = IF rows[req[i].tok].live THEN "rotating" ELSE "outrun"]
    /\ crossed' = IF Revoking(f) THEN crossed \cup {f} ELSE crossed
    /\ UNCHANGED <<client, rows, ended, excused, troubles>>

(* The commit of Rotate; its acknowledgement may be lost.                  *)
CommitRotation(i) ==
    /\ req[i].at = "rotating"
    /\ rows' = Append([rows EXCEPT ![req[i].tok].live = FALSE],
                      [family |-> Family(req[i].tok), live |-> TRUE])
    /\ \/ /\ req' = [req EXCEPT ![i].at = "answered", ![i].out = "session", ![i].tok = Len(rows) + 1]
          /\ UNCHANGED <<excused, troubles>>
       \/ Answer(i, "error") /\ Trouble /\ excused' = TRUE
    /\ UNCHANGED <<client, ended, crossed>>

RevokeToken(i) ==       \* mutant: only the token presented is revoked
    /\ req[i].at \in {"revoke", "outrun"}
    /\ req' = [req EXCEPT ![i].at = "revoking", ![i].seen = {req[i].tok}]
    /\ crossed' = IF Rotating(Family(req[i].tok)) THEN crossed \cup {Family(req[i].tok)} ELSE crossed
    /\ UNCHANGED <<client, rows, ended, excused, troubles>>

(* RevokeFamily: the update sees the rows committed when it starts, waits  *)
(* for those that are locked, and misses those committed meanwhile.  A     *)
(* refresh that another one has outrun ends the family too.                *)
RevokeFamily(i) ==
    LET f == Family(req[i].tok) IN
    /\ req[i].at \in {"revoke", "outrun"}
    /\ req' = [req EXCEPT ![i].at = "revoking", ![i].seen = Live(f)]
    /\ crossed' = IF Rotating(f) THEN crossed \cup {f} ELSE crossed
    /\ UNCHANGED <<client, rows, ended, excused, troubles>>

Revoked(i) ==
    /\ req[i].at = "revoking" /\ \A k \in req[i].seen : ~Locked(k)
    /\ rows' = [k \in DOMAIN rows |-> [rows[k] EXCEPT !.live = @ /\ k \notin req[i].seen]]
    /\ ended' = IF req[i].kind = "logout" THEN ended \cup {Family(req[i].tok)} ELSE ended
    /\ req' = [req EXCEPT ![i].at = "answered", ![i].seen = {},
                          ![i].out = IF req[i].kind = "logout" THEN "done" ELSE "denied"]
    /\ UNCHANGED <<client, crossed, excused, troubles>>

(* A statement fails, or the API cannot be reached.  The route answers a   *)
(* sign-out that the API refused like one it did, and Refresh one that was *)
(* outrun as if the family had been ended.                                 *)
Fail(i) ==
    /\ req[i].at \in {"sent", "loaded", "revoke", "outrun"} /\ Trouble
    /\ \/ req[i].at # "outrun" /\ Answer(i, "error")
       \/ req[i].kind = "logout" /\ Answer(i, "done")
       \/ req[i].at = "outrun" /\ Answer(i, "denied")
    /\ UNCHANGED <<client, server, excused>>

-----------------------------------------------------------------------------
(* What a tab does with an answer.                                         *)
Clear(t) == store' = [store EXCEPT ![t] = "anonymous"]

RefreshSettles(t, o) ==
    IF o = "session" THEN store' = [store EXCEPT ![t] = "authenticated"] ELSE Clear(t)

Settle(t, k, o) ==
    CASE k = "refresh" -> RefreshSettles(t, o)
      [] k = "logout"  -> Clear(t)
      [] k = "login"   -> IF o = "session" THEN store' = [store EXCEPT ![t] = "authenticated"]
                          ELSE UNCHANGED store

(* The headers of the answer set or clear the cookie before the tab sees   *)
(* its body: a session sets it, a denied refresh or a sign-out clears it.  *)
Deliver(i) ==
    /\ req[i].at = "answered"
    /\ req' = [req EXCEPT ![i] = FreeSlot]
    /\ IF req[i].tab = None THEN UNCHANGED client
       ELSE /\ cookie' = CASE req[i].out = "session" -> req[i].tok
                           [] req[i].out \in {"denied", "done"} -> 0
                           [] req[i].out = "error" -> cookie
            /\ Settle(req[i].tab, req[i].kind, req[i].out)
    /\ UNCHANGED <<server, excused, troubles>>

(* The connection breaks: the tab sees a network error, the server goes on.*)
Drop(i) ==
    /\ req[i].at # "free" /\ req[i].tab # None /\ Trouble
    /\ req' = [req EXCEPT ![i].tab = None]
    /\ Settle(req[i].tab, req[i].kind, "error")
    /\ excused' = (excused \/ req[i].kind = "refresh")
    /\ UNCHANGED <<cookie, server>>

(* The page is loaded again: what the old one waited for is given up, and  *)
(* the session restored from the cookie, if the hint beside it is there.   *)
Load(i, t) ==
    LET left == [j \in Slots |-> IF req[j].tab = t THEN [req[j] EXCEPT !.tab = None] ELSE req[j]]
    IN
    /\ Vacant(i) /\ Trouble
    /\ excused' = (excused \/ Pending(t, "refresh") # {} \/ (cookie # 0 /\ Overlaps(t)))
    /\ IF cookie = 0
       THEN Clear(t) /\ req' = left
       ELSE /\ Room
            /\ store' = [store EXCEPT ![t] = "loading"]
            /\ req' = [left EXCEPT ![i] = [FreeSlot EXCEPT !.kind = "refresh", !.tab = t,
                                                           !.tok = cookie, !.at = "sent"]]
    /\ UNCHANGED <<cookie, server>>

-----------------------------------------------------------------------------
Serve(i) ==
    \/ startSession(i) \/ GetByHash(i) \/ Rotate(i) \/ CommitRotation(i)
    \/ RevokeFamily(i) \/ Revoked(i) \/ Deliver(i)

Next ==
    \E i \in Slots :
        \/ \E t \in Tabs : Renew(i, t) \/ Login(i, t) \/ Logout(i, t) \/ Load(i, t)
        \/ Serve(i)
        \/ Fail(i) \/ Drop(i)

Spec == Init /\ [][Next]_vars

-----------------------------------------------------------------------------
(* Every variable holds a value of its type.                               *)
TypeOK ==
    /\ store \in [Tabs -> Statuses]
    /\ cookie \in 0..Len(rows)
    /\ rows \in Seq([family : 1..MaxTokens, live : BOOLEAN]) /\ Len(rows) <= MaxTokens
    /\ req \in [Slots -> [at : {"free", "sent", "loaded", "rotating", "revoke", "outrun", "revoking", "answered"},
                          kind : Kinds \cup {None}, tab : Tabs \cup {None},
                          tok : 0..MaxTokens, seen : SUBSET (1..MaxTokens),
                          out : {None, "session", "denied", "done", "error"}]]
    /\ ended \subseteq 1..MaxTokens /\ crossed \subseteq 1..MaxTokens
    /\ excused \in BOOLEAN /\ troubles \in 0..MaxTroubles

(* Refresh tokens are single-use: whatever refreshes meet, a session has   *)
(* at most one token that would still be taken.                            *)
OneLiveToken ==
    \A j, k \in DOMAIN rows :
        rows[j].live /\ rows[k].live /\ rows[j].family = rows[k].family => j = k

(* Callers within a tab share one request, so that the API never takes     *)
(* them for a thief: a session nobody signed out of is over only if two    *)
(* tabs refreshed at once or the answer of a refresh was lost.             *)
SessionsEndForACause ==
    \A k \in DOMAIN rows : Live(Family(k)) = {} => excused \/ Family(k) \in ended

(* What Logout has revoked stays revoked, tokens made meanwhile included,  *)
(* unless a rotation and a revocation of the session ran at the same time. *)
SignedOutIsOver ==
    \A f \in ended \ crossed : Live(f) = {}
=============================================================================
