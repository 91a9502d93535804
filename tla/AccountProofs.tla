--------------------------- MODULE AccountProofs ----------------------------
(***************************************************************************)
(* Theorems about the session and the e-mail codes of Pages, and about the *)
(* practice of a grammar level and its test, for any tabs, windows,        *)
(* questions and bounds: what a page promises is kept by its own steps,    *)
(* and the other pages leave it alone.                                     *)
(***************************************************************************)
EXTENDS Pages, FiniteSetTheorems, SequenceTheorems, WellFoundedInduction, TLAPS

\* While one page is looked at, the others stay as they are.
LEMMA PageSteps ==
    ASSUME [Next]_pageVars
    PROVE  /\ A!Next \/ UNCHANGED session
           /\ E!CodesNext \/ UNCHANGED codes
           /\ G!PracticeNext \/ UNCHANGED practice
           /\ K!TestNext \/ UNCHANGED tests
<1>1. CASE UNCHANGED pageVars
  BY <1>1 DEF pageVars
<1> QED
  BY <1>1 DEF Next, Section, Grammar, Coach, Builder, Word, Form, Task, List, Rounds, Ask, Talk,
     Exam, Mocks, Code, Speak, Live, Joining, Test, Shell, Looking, Stays

-----------------------------------------------------------------------------
(* The session.                                                            *)

Progress == {"free", "sent", "loaded", "rotating", "revoke", "outrun", "revoking", "answered"}

Outs == {"session", "denied", "done", "error"}

Requests == [at : Progress, kind : A!Kinds \union {None}, tab : Tabs \union {None}, tok : Nat,
             seen : SUBSET Nat, out : Outs \union {None}]

SessionTypes ==
    /\ rows \in Seq([family : Nat, live : BOOLEAN])
    /\ req \in [Slots -> Requests]
    /\ \A i \in Slots : req[i].at = "answered" => req[i].out \in Outs
    /\ cookie \in 0..Len(rows)

\* The request speaks of a token that was made.
Carries(i) == \/ req[i].at \in {"loaded", "rotating", "revoke", "outrun", "revoking"}
              \/ req[i].at = "sent" /\ req[i].kind # "login"
              \/ req[i].at = "answered" /\ req[i].out = "session"

TokensExist == \A i \in Slots : Carries(i) => req[i].tok \in DOMAIN rows

\* A family is named by the place of its first token.
FamiliesExist ==
    /\ \A k \in DOMAIN rows : rows[k].family \in 1..Len(rows)
    /\ ended \subseteq 1..Len(rows)

\* The row lock: one rotation of a token at a time, of one that is live.
RotatesLive ==
    \A i \in Slots : req[i].at = "rotating" =>
        /\ rows[req[i].tok].live
        /\ \A j \in Slots : req[j].at = "rotating" /\ req[j].tok = req[i].tok => i = j

\* A revocation has seen all there is, unless a rotation ran at the same time.
RevokesAll ==
    \A i \in Slots : req[i].at = "revoking" /\ rows[req[i].tok].family \notin crossed =>
        /\ A!Live(rows[req[i].tok].family) \subseteq req[i].seen
        /\ ~A!Rotating(rows[req[i].tok].family)

SessionInv == /\ SessionTypes /\ TokensExist /\ FamiliesExist /\ RotatesLive /\ RevokesAll
              /\ A!OneLiveToken /\ A!SignedOutIsOver

LEMMA SessionInit == Init => SessionInv
<1> SUFFICES ASSUME A!Init PROVE SessionInv
  BY DEF Init
<1>1. rows = <<>> /\ DOMAIN rows = {} /\ Len(rows) = 0 /\ cookie = 0 /\ ended = {}
  BY DEF A!Init
<1>2. req = [i \in Slots |-> A!FreeSlot] /\ A!FreeSlot \in Requests
  BY DEF A!Init, A!FreeSlot, Requests, Progress, Outs
<1>3. \A i \in Slots : req[i].at = "free"
  BY <1>2 DEF A!FreeSlot
<1>4. SessionTypes
  BY <1>1, <1>2, <1>3 DEF SessionTypes
<1>5. TokensExist /\ FamiliesExist /\ RotatesLive /\ RevokesAll
  BY <1>1, <1>3 DEF TokensExist, Carries, FamiliesExist, RotatesLive, RevokesAll
<1>6. A!OneLiveToken /\ A!SignedOutIsOver
  BY <1>1 DEF A!OneLiveToken, A!SignedOutIsOver
<1> QED
  BY <1>4, <1>5, <1>6 DEF SessionInv

\* A request that neither begins nor goes on with a rotation or a revocation.
Tame(i) ==
    /\ req'[i] \in Requests
    /\ req'[i].at = "answered" => req'[i].out \in Outs
    /\ Carries(i)' => req'[i].tok \in DOMAIN rows
    /\ req'[i].at \in {"rotating", "revoking"} =>
          req'[i].at = req[i].at /\ req'[i].tok = req[i].tok /\ req'[i].seen = req[i].seen

LEMMA TameStep ==
    ASSUME SessionInv, UNCHANGED <<rows, ended, crossed>>, cookie' \in 0..Len(rows),
           req' \in [Slots -> Requests], \A i \in Slots : Tame(i)
    PROVE  SessionInv'
<1> USE DEF SessionInv
<1>1. SessionTypes' /\ TokensExist' /\ FamiliesExist'
  BY DEF SessionTypes, TokensExist, FamiliesExist, Tame
<1>2. RotatesLive'
  BY DEF RotatesLive, Tame
<1>3. RevokesAll'
  BY DEF RevokesAll, Tame, A!Rotating, A!Live, A!Family
<1>4. A!OneLiveToken' /\ A!SignedOutIsOver'
  BY DEF A!OneLiveToken, A!SignedOutIsOver, A!Live
<1> QED
  BY <1>1, <1>2, <1>3, <1>4

LEMMA CallsAreTame ==
    ASSUME SessionInv, NEW i \in Slots, NEW t \in Tabs, NEW k \in A!Kinds,
           A!callSessionRoute(i, t, k)
    PROVE  req' \in [Slots -> Requests] /\ \A j \in Slots : Tame(j)
<1> USE DEF SessionInv, SessionTypes
<1>1. PICK q : q = [A!FreeSlot EXCEPT !.kind = k, !.tab = t,
                       !.tok = IF k = "login" THEN 0 ELSE cookie,
                       !.at  = IF k # "login" /\ cookie = 0 THEN "answered" ELSE "sent",
                       !.out = IF k = "refresh" THEN "denied" ELSE "done"]
  OBVIOUS
<1>2. req' = [req EXCEPT ![i] = q]
  BY <1>1 DEF A!callSessionRoute
<1>3. /\ q \in Requests
      /\ q.at \in {"answered", "sent"} /\ q.out \in Outs \ {"session"} /\ q.kind = k
      /\ q.at = "sent" /\ k # "login" => q.tok = cookie /\ cookie # 0
  <2>1. cookie \in Nat
    OBVIOUS
  <2>2. PICK tok \in Nat : tok = IF k = "login" THEN 0 ELSE cookie
    BY <2>1
  <2>3. PICK at \in {"answered", "sent"} : at = IF k # "login" /\ cookie = 0 THEN "answered" ELSE "sent"
    OBVIOUS
  <2>4. PICK o \in {"denied", "done"} : o = IF k = "refresh" THEN "denied" ELSE "done"
    OBVIOUS
  <2>5. q = [at |-> at, kind |-> k, tab |-> t, tok |-> tok, seen |-> {}, out |-> o]
    BY <1>1, <2>2, <2>3, <2>4 DEF A!FreeSlot
  <2> QED
    BY <2>2, <2>3, <2>4, <2>5 DEF Requests, Progress, Outs
<1>4. \A j \in Slots : req'[j] = IF j = i THEN q ELSE req[j]
  BY <1>2
<1>5. req' \in [Slots -> Requests]
  BY <1>2, <1>3
<1>6. Tame(i)
  BY <1>3, <1>4 DEF Tame, Carries
<1>7. \A j \in Slots \ {i} : Tame(j)
  BY <1>4 DEF Tame, Carries, TokensExist
<1> QED
  BY <1>5, <1>6, <1>7

\* A request that is given up by its tab goes on; one that is answered is over.
SameWork(q, i) == /\ q.at = req[i].at /\ q.tok = req[i].tok /\ q.seen = req[i].seen
                  /\ q.out = req[i].out /\ q.kind = req[i].kind

LEMMA SameWorkIsTame ==
    ASSUME SessionInv, NEW j \in Slots, req'[j] \in Requests, SameWork(req'[j], j)
    PROVE  Tame(j)
  BY DEF SessionInv, SessionTypes, TokensExist, Tame, SameWork, Carries

LEMMA OthersAreTame ==
    ASSUME SessionInv, NEW i \in Slots, NEW q \in Requests, req' = [req EXCEPT ![i] = q], Tame(i)
    PROVE  req' \in [Slots -> Requests] /\ \A j \in Slots : Tame(j)
<1>1. req \in [Slots -> Requests]
  BY DEF SessionInv, SessionTypes
<1>2. ASSUME NEW j \in Slots, j # i PROVE Tame(j)
  <2>1. req'[j] = req[j] /\ req[j] \in Requests
    BY <1>1, <1>2
  <2> QED
    BY <2>1, SameWorkIsTame DEF SameWork
<1> QED
  BY <1>1, <1>2

LEMMA TameActions ==
    ASSUME SessionInv, NEW i \in Slots, NEW t,
           \/ t \in Tabs /\ (A!Renew(i, t) \/ A!Login(i, t) \/ A!Logout(i, t) \/ A!Load(i, t))
           \/ A!GetByHash(i) \/ A!Fail(i) \/ A!Deliver(i) \/ A!Drop(i)
    PROVE  SessionInv'
<1> USE DEF SessionInv, SessionTypes, A!server, A!client
<1>1. CASE t \in Tabs /\ (A!Renew(i, t) \/ A!Login(i, t) \/ A!Logout(i, t))
  <2>1. PICK k \in A!Kinds : A!callSessionRoute(i, t, k)
    BY <1>1 DEF A!Renew, A!Login, A!Logout, A!refreshSession, A!Kinds
  <2>2. UNCHANGED <<rows, ended, crossed, cookie>>
    BY <1>1 DEF A!Renew, A!Login, A!Logout
  <2> QED
    BY <1>1, <2>1, <2>2, CallsAreTame, TameStep
<1>2. CASE A!GetByHash(i)
  <2>1. PICK at \in {"loaded", "revoke"} : req' = [req EXCEPT ![i].at = at]
    BY <1>2 DEF A!GetByHash
  <2>2. PICK q : q = [req[i] EXCEPT !.at = at]
    OBVIOUS
  <2>3. req[i] \in Requests
    OBVIOUS
  <2>4. q \in Requests /\ q.at = at /\ q.tok = req[i].tok
    BY <2>2, <2>3 DEF Requests, Progress
  <2>5. req' = [req EXCEPT ![i] = q]
    BY <2>1, <2>2
  <2>6. req[i].tok \in DOMAIN rows
    BY <1>2 DEF A!GetByHash, Carries, TokensExist
  <2>7. Tame(i)
    BY <2>4, <2>5, <2>6 DEF Tame
  <2> QED
    BY <1>2, <2>4, <2>5, <2>7, OthersAreTame, TameStep DEF A!GetByHash
<1>3. CASE A!Fail(i)
  <2>1. PICK o \in {"error", "done", "denied"} :
           req' = [req EXCEPT ![i].at = "answered", ![i].out = o]
    BY <1>3 DEF A!Fail, A!Answer
  <2>2. PICK q : q = [req[i] EXCEPT !.at = "answered", !.out = o]
    OBVIOUS
  <2>3. req[i] \in Requests
    OBVIOUS
  <2>4. q \in Requests /\ q.at = "answered" /\ q.out = o
    BY <2>2, <2>3 DEF Requests, Progress, Outs
  <2>5. req' = [req EXCEPT ![i] = q]
    BY <2>1, <2>2
  <2>6. Tame(i)
    BY <2>4, <2>5 DEF Tame, Carries, Outs
  <2> QED
    BY <1>3, <2>4, <2>5, <2>6, OthersAreTame, TameStep DEF A!Fail
<1>4. CASE A!Deliver(i)
  <2>1. req' = [req EXCEPT ![i] = A!FreeSlot] /\ req[i].at = "answered" /\ UNCHANGED <<rows, ended, crossed>>
    BY <1>4 DEF A!Deliver
  <2>2. A!FreeSlot \in Requests /\ A!FreeSlot.at = "free"
    BY DEF A!FreeSlot, Requests, Progress, Outs
  <2>3. Tame(i)
    BY <2>1, <2>2 DEF Tame, Carries
  <2>4. cookie' \in 0..Len(rows)
    <3>1. CASE UNCHANGED cookie
      BY <3>1
    <3>2. CASE cookie' = CASE req[i].out = "session" -> req[i].tok
                           [] req[i].out \in {"denied", "done"} -> 0
                           [] req[i].out = "error" -> cookie
      <4>1. CASE req[i].out = "session"
        BY <2>1, <3>2, <4>1 DEF TokensExist, Carries
      <4>2. CASE req[i].out \in {"denied", "done", "error"}
        BY <3>2, <4>2
      <4> QED
        BY <2>1, <4>1, <4>2 DEF Outs
    <3> QED
      BY <1>4, <3>1, <3>2 DEF A!Deliver
  <2> QED
    BY <2>1, <2>2, <2>3, <2>4, OthersAreTame, TameStep
<1>5. CASE A!Drop(i)
  <2>1. PICK q : q = [req[i] EXCEPT !.tab = None]
    OBVIOUS
  <2>2. req[i] \in Requests
    OBVIOUS
  <2>3. q \in Requests /\ SameWork(q, i)
    BY <2>1, <2>2 DEF Requests, SameWork
  <2>4. req' = [req EXCEPT ![i] = q] /\ UNCHANGED <<rows, ended, crossed, cookie>>
    BY <1>5, <2>1 DEF A!Drop
  <2>5. Tame(i)
    BY <2>3, <2>4, SameWorkIsTame
  <2> QED
    BY <2>3, <2>4, <2>5, OthersAreTame, TameStep
<1>6. CASE t \in Tabs /\ A!Load(i, t)
  <2>1. PICK rs : rs = [j \in Slots |-> IF req[j].tab = t THEN [req[j] EXCEPT !.tab = None] ELSE req[j]]
    OBVIOUS
  <2>2. /\ rs \in [Slots -> Requests]
        /\ \A j \in Slots : /\ rs[j].at = req[j].at /\ rs[j].tok = req[j].tok /\ rs[j].out = req[j].out
                            /\ rs[j].seen = req[j].seen /\ rs[j].kind = req[j].kind
    BY <2>1 DEF Requests
  <2>3. UNCHANGED <<rows, ended, crossed, cookie>>
    BY <1>6 DEF A!Load
  <2>4. CASE cookie = 0
    <3>1. req' = rs
      BY <1>6, <2>1, <2>4 DEF A!Load
    <3> QED
      BY <2>2, <2>3, <3>1, SameWorkIsTame, TameStep DEF SameWork
  <2>5. CASE cookie # 0
    <3>1. PICK q : q = [A!FreeSlot EXCEPT !.kind = "refresh", !.tab = t, !.tok = cookie, !.at = "sent"]
      OBVIOUS
    <3>2. req' = [rs EXCEPT ![i] = q]
      BY <1>6, <2>1, <2>5, <3>1 DEF A!Load
    <3>3. q \in Requests /\ q.at = "sent" /\ q.tok = cookie
      <4>1. q = [at |-> "sent", kind |-> "refresh", tab |-> t, tok |-> cookie, seen |-> {}, out |-> None]
        BY <3>1 DEF A!FreeSlot
      <4> QED
        BY <1>6, <4>1 DEF Requests, Progress, Outs, A!Kinds
    <3>4. req' \in [Slots -> Requests]
      BY <2>2, <3>2, <3>3
    <3>5. Tame(i)
      BY <2>2, <2>5, <3>2, <3>3 DEF Tame, Carries
    <3>6. ASSUME NEW j \in Slots, j # i PROVE Tame(j)
      <4>1. req'[j] = rs[j] /\ rs[j] \in Requests
        BY <2>2, <3>2, <3>6
      <4> QED
        BY <2>2, <4>1, SameWorkIsTame DEF SameWork
    <3> QED
      BY <2>3, <3>4, <3>5, <3>6, TameStep
  <2> QED
    BY <2>4, <2>5
<1> QED
  BY <1>1, <1>2, <1>3, <1>4, <1>5, <1>6

\* RevokesAll, with the family named.
LEMMA RevokesNamed ==
    ASSUME \A i \in Slots : \A f : req'[i].at = "revoking" /\ f = rows'[req'[i].tok].family /\ f \notin crossed'
                => /\ \A k \in DOMAIN rows' : rows'[k].family = f /\ rows'[k].live => k \in req'[i].seen
                   /\ \A j \in Slots : req'[j].at = "rotating" => rows'[req'[j].tok].family # f
    PROVE  RevokesAll'
  BY DEF RevokesAll, A!Live, A!Rotating, A!Family

LEMMA Tokens == SessionInv => DOMAIN rows = 1..Len(rows) /\ Len(rows) \in Nat
  BY DEF SessionInv, SessionTypes

LEMMA TokenMade ==
    ASSUME NEW s \in Seq([family : Nat, live : BOOLEAN]), NEW f \in Nat,
           rows' = Append(s, [family |-> f, live |-> TRUE])
    PROVE  /\ rows' \in Seq([family : Nat, live : BOOLEAN])
           /\ Len(rows') = Len(s) + 1 /\ DOMAIN rows' = 1..Len(s) + 1
           /\ \A k \in 1..Len(s) : rows'[k] = s[k]
           /\ rows'[Len(s) + 1].family = f /\ rows'[Len(s) + 1].live
<1>1. [family |-> f, live |-> TRUE] \in [family : Nat, live : BOOLEAN]
  OBVIOUS
<1> QED
  BY <1>1, AppendProperties

LEMMA StartStep ==
    ASSUME SessionInv, NEW i \in Slots, A!startSession(i)
    PROVE  SessionInv'
<1> USE DEF SessionInv, SessionTypes
<1>n. Len(rows) \in Nat /\ DOMAIN rows = 1..Len(rows)
  BY Tokens
<1>m. PICK n \in Nat : n = Len(rows) + 1
  BY <1>n
<1>1. PICK q : q = [req[i] EXCEPT !.at = "answered", !.out = "session", !.tok = n]
  OBVIOUS
<1>2. req' = [req EXCEPT ![i] = q]
  BY <1>m, <1>1 DEF A!startSession
<1>3. q \in Requests /\ q.at = "answered" /\ q.out = "session" /\ q.tok = n
  BY <1>1 DEF Requests, Progress, Outs
<1>4. rows' = Append(rows, [family |-> n, live |-> TRUE]) /\ UNCHANGED <<cookie, ended, crossed>>
  BY <1>m DEF A!startSession, A!client
<1>5. /\ rows' \in Seq([family : Nat, live : BOOLEAN])
      /\ Len(rows') = n /\ DOMAIN rows' = 1..n
      /\ \A k \in DOMAIN rows : k \in DOMAIN rows' /\ rows'[k] = rows[k]
      /\ rows'[n].family = n
      /\ \A k \in DOMAIN rows' : k \in DOMAIN rows \/ k = n
  BY <1>n, <1>m, <1>4, TokenMade
<1>6. SessionTypes'
  <2>1. req' \in [Slots -> Requests]
    BY <1>2, <1>3
  <2>2. \A j \in Slots : req'[j].at = "answered" => req'[j].out \in Outs
    BY <1>2, <1>3 DEF Outs
  <2>3. cookie' \in 0..Len(rows')
    BY <1>n, <1>m, <1>4, <1>5
  <2> QED
    BY <1>5, <2>1, <2>2, <2>3
<1>7. TokensExist'
  <2>1. Carries(i)' => req'[i].tok \in DOMAIN rows'
    BY <1>2, <1>3, <1>5, <1>m, <1>n
  <2>2. \A j \in Slots \ {i} : Carries(j)' => req'[j].tok \in DOMAIN rows'
    BY <1>2, <1>5 DEF TokensExist, Carries
  <2> QED
    BY <2>1, <2>2 DEF TokensExist
<1>8. FamiliesExist'
  BY <1>n, <1>m, <1>4, <1>5 DEF FamiliesExist
<1>9. \A j \in Slots : /\ req'[j].at \in {"rotating", "revoking"} =>
                             /\ req'[j] = req[j] /\ req[j].tok \in DOMAIN rows
                             /\ rows'[req[j].tok] = rows[req[j].tok]
                             /\ rows[req[j].tok].family # n
  <2>1. \A j \in Slots : req'[j].at \in {"rotating", "revoking"} => req'[j] = req[j]
    BY <1>2, <1>3
  <2>2. \A j \in Slots : req[j].at \in {"rotating", "revoking"} => req[j].tok \in DOMAIN rows
    BY DEF TokensExist, Carries
  <2>3. \A k \in DOMAIN rows : rows[k].family # n
    BY <1>n, <1>m DEF FamiliesExist
  <2> QED
    BY <1>5, <2>1, <2>2, <2>3
<1>10. RotatesLive'
  BY <1>9 DEF RotatesLive
<1>11. RevokesAll'
  <2>1. ASSUME NEW j \in Slots, NEW f, req'[j].at = "revoking", f = rows'[req'[j].tok].family,
               f \notin crossed'
        PROVE  /\ \A k \in DOMAIN rows' : rows'[k].family = f /\ rows'[k].live => k \in req'[j].seen
               /\ \A m \in Slots : req'[m].at = "rotating" => rows'[req'[m].tok].family # f
    <3>1. req'[j] = req[j] /\ f = rows[req[j].tok].family /\ f # n /\ f \notin crossed
      BY <1>4, <1>9, <2>1
    <3>2. A!Live(f) \subseteq req[j].seen /\ ~A!Rotating(f)
      BY <2>1, <3>1 DEF RevokesAll
    <3>3. \A k \in DOMAIN rows' : rows'[k].family = f /\ rows'[k].live => k \in A!Live(f)
      BY <1>5, <3>1 DEF A!Live
    <3>4. \A m \in Slots : req'[m].at = "rotating" => rows'[req'[m].tok].family # f
      BY <1>9, <3>2 DEF A!Rotating, A!Family
    <3> QED
      BY <3>1, <3>2, <3>3, <3>4
  <2> QED
    BY <2>1, RevokesNamed
<1>12. A!OneLiveToken'
  <2>1. \A k \in DOMAIN rows : rows[k].family # n
    BY <1>n, <1>m DEF FamiliesExist
  <2> QED
    BY <1>5, <2>1 DEF A!OneLiveToken
<1>13. A!SignedOutIsOver'
  <2>1. n \notin ended
    BY <1>n, <1>m DEF FamiliesExist
  <2>2. \A f : f # n => A!Live(f)' = A!Live(f)
    BY <1>5 DEF A!Live
  <2> QED
    BY <1>4, <2>1, <2>2 DEF A!SignedOutIsOver
<1> QED
  BY <1>6, <1>7, <1>8, <1>10, <1>11, <1>12, <1>13

\* A rotation takes the lock of a live token, or is outrun.
LEMMA RotateStep ==
    ASSUME SessionInv, NEW i \in Slots, A!Rotate(i)
    PROVE  SessionInv'
<1> USE DEF SessionInv, SessionTypes
<1>1. PICK f : f = rows[req[i].tok].family
  OBVIOUS
<1>2. PICK at \in {"rotating", "outrun"} : at = IF rows[req[i].tok].live THEN "rotating" ELSE "outrun"
  OBVIOUS
<1>3. PICK q : q = [req[i] EXCEPT !.at = at]
  OBVIOUS
<1>4. req' = [req EXCEPT ![i] = q] /\ UNCHANGED <<rows, cookie, ended>> /\ req[i].at = "loaded"
  BY <1>2, <1>3 DEF A!Rotate, A!client
<1>5. q \in Requests /\ q.at = at /\ q.tok = req[i].tok /\ req[i].tok \in DOMAIN rows
  BY <1>3, <1>4 DEF Requests, Progress, TokensExist, Carries
<1>6. /\ crossed' = crossed \/ crossed' = crossed \union {f}
      /\ A!Revoking(f) => f \in crossed'
  BY <1>1 DEF A!Rotate, A!Family
<1>7. \A j \in Slots : j # i => req'[j] = req[j]
  BY <1>4
<1>8. req'[i] = q
  BY <1>4
<1>9. SessionTypes'
  BY <1>4, <1>5, <1>7, <1>8
<1>10. TokensExist' /\ FamiliesExist'
  BY <1>4, <1>5, <1>7, <1>8 DEF TokensExist, FamiliesExist, Carries
<1>11. RotatesLive'
  <2>1. \A j \in Slots : req[j].at = "rotating" => req[j].tok # req[i].tok
    BY DEF A!Rotate, A!Locked
  <2>2. at = "rotating" => rows[req[i].tok].live
    BY <1>2
  <2> QED
    BY <1>4, <1>5, <1>7, <1>8, <2>1, <2>2 DEF RotatesLive
<1>12. RevokesAll'
  <2>1. ASSUME NEW j \in Slots, NEW g, req'[j].at = "revoking", g = rows'[req'[j].tok].family,
               g \notin crossed'
        PROVE  /\ \A k \in DOMAIN rows' : rows'[k].family = g /\ rows'[k].live => k \in req'[j].seen
               /\ \A m \in Slots : req'[m].at = "rotating" => rows'[req'[m].tok].family # g
    <3>1. j # i /\ req'[j] = req[j] /\ rows' = rows /\ g = rows[req[j].tok].family
      BY <1>4, <1>5, <1>7, <1>8, <2>1
    <3>2. g \notin crossed /\ req[j].at = "revoking"
      BY <1>6, <2>1, <3>1
    <3>3. A!Live(g) \subseteq req[j].seen /\ ~A!Rotating(g)
      BY <3>1, <3>2 DEF RevokesAll
    <3>4. g # f
      BY <1>6, <2>1, <3>1, <3>2 DEF A!Revoking, A!Family
    <3>5. ASSUME NEW m \in Slots, req'[m].at = "rotating" PROVE rows'[req'[m].tok].family # g
      <4>1. CASE m = i
        BY <1>1, <1>5, <1>8, <3>1, <3>4, <4>1
      <4>2. CASE m # i
        BY <1>7, <3>1, <3>3, <3>5, <4>2 DEF A!Rotating, A!Family
      <4> QED
        BY <4>1, <4>2
    <3> QED
      BY <3>1, <3>3, <3>5 DEF A!Live
  <2> QED
    BY <2>1, RevokesNamed
<1>13. A!OneLiveToken' /\ A!SignedOutIsOver'
  BY <1>4, <1>6 DEF A!OneLiveToken, A!SignedOutIsOver, A!Live
<1> QED
  BY <1>9, <1>10, <1>11, <1>12, <1>13

\* The commit of a rotation: the token taken dies, and its family has another.
CommitMade(i, n, t) ==
    /\ \E q \in Requests :
          /\ req' = [req EXCEPT ![i] = q]
          /\ q.at = "answered" /\ q.out \in {"session", "error"}
          /\ q.kind = req[i].kind /\ q.tab = req[i].tab
          /\ q.out = "session" => q.tok = n /\ excused' = excused
          /\ q.out = "error" => excused' = TRUE
    /\ rows' \in Seq([family : Nat, live : BOOLEAN])
    /\ Len(rows') = n /\ DOMAIN rows' = 1..n
    /\ \A k \in DOMAIN rows : k \in DOMAIN rows' /\ rows'[k].family = rows[k].family
    /\ \A k \in DOMAIN rows : k # t => rows'[k] = rows[k]
    /\ ~rows'[t].live /\ rows'[n].family = rows[t].family /\ rows'[n].live
    /\ \A k \in DOMAIN rows' : k \in DOMAIN rows \/ k = n

LEMMA CommitMakes ==
    ASSUME SessionInv, NEW i \in Slots, A!CommitRotation(i),
           NEW n \in Nat, n = Len(rows) + 1, NEW t \in DOMAIN rows, t = req[i].tok
    PROVE  CommitMade(i, n, t)
<1> USE DEF SessionInv, SessionTypes
<1>n. Len(rows) \in Nat /\ DOMAIN rows = 1..Len(rows)
  BY Tokens
<1>e. rows[t] \in [family : Nat, live : BOOLEAN]
  BY <1>n, ElementOfSeq
<1>f. PICK f \in Nat : f = rows[t].family
  BY <1>e
<1>g. PICK mid : mid = [rows EXCEPT ![t].live = FALSE]
  OBVIOUS
<1>h. /\ mid \in Seq([family : Nat, live : BOOLEAN]) /\ Len(mid) = Len(rows)
      /\ \A k \in DOMAIN rows : mid[k].family = rows[k].family
      /\ \A k \in DOMAIN rows : k # t => mid[k] = rows[k]
      /\ ~mid[t].live
  <2>1. PICK x : x = [rows[t] EXCEPT !.live = FALSE]
    OBVIOUS
  <2>2. mid = [rows EXCEPT ![t] = x]
    BY <1>g, <2>1
  <2>3. x \in [family : Nat, live : BOOLEAN] /\ x.family = rows[t].family /\ ~x.live
    BY <1>e, <2>1
  <2> QED
    BY <1>n, <2>2, <2>3
<1>1. \E q \in Requests :
         /\ req' = [req EXCEPT ![i] = q]
         /\ q.at = "answered" /\ q.out \in {"session", "error"}
         /\ q.kind = req[i].kind /\ q.tab = req[i].tab
         /\ q.out = "session" => q.tok = n /\ excused' = excused
         /\ q.out = "error" => excused' = TRUE
  <2>0. req[i] \in Requests
    OBVIOUS
  <2>1. CASE /\ req' = [req EXCEPT ![i].at = "answered", ![i].out = "session", ![i].tok = Len(rows) + 1]
             /\ UNCHANGED excused
    <3>1. PICK q : q = [req[i] EXCEPT !.at = "answered", !.out = "session", !.tok = n]
      OBVIOUS
    <3>2. /\ q \in Requests /\ q.at = "answered" /\ q.out = "session" /\ q.tok = n
          /\ q.kind = req[i].kind /\ q.tab = req[i].tab
      BY <2>0, <3>1 DEF Requests, Progress, Outs
    <3>3. req' = [req EXCEPT ![i] = q]
      BY <2>1, <3>1
    <3> QED
      BY <2>1, <3>2, <3>3
  <2>2. CASE A!Answer(i, "error") /\ excused' = TRUE
    <3>1. PICK q : q = [req[i] EXCEPT !.at = "answered", !.out = "error"]
      OBVIOUS
    <3>2. /\ q \in Requests /\ q.at = "answered" /\ q.out = "error"
          /\ q.kind = req[i].kind /\ q.tab = req[i].tab
      BY <2>0, <3>1 DEF Requests, Progress, Outs
    <3>3. req' = [req EXCEPT ![i] = q]
      BY <2>2, <3>1 DEF A!Answer
    <3> QED
      BY <2>2, <3>2, <3>3
  <2> QED
    BY <2>1, <2>2 DEF A!CommitRotation
<1>2. rows' = Append(mid, [family |-> f, live |-> TRUE])
  BY <1>f, <1>g DEF A!CommitRotation, A!Family
<1>3. /\ rows' \in Seq([family : Nat, live : BOOLEAN])
      /\ Len(rows') = Len(mid) + 1 /\ DOMAIN rows' = 1..Len(mid) + 1
      /\ \A k \in 1..Len(mid) : rows'[k] = mid[k]
      /\ rows'[Len(mid) + 1].family = f /\ rows'[Len(mid) + 1].live
  BY <1>h, <1>2, TokenMade
<1>4. n = Len(mid) + 1 /\ 1..Len(mid) = DOMAIN rows
  BY <1>n, <1>h
<1>5. Len(rows') = n /\ DOMAIN rows' = 1..n /\ rows'[n].family = f /\ rows'[n].live
  BY <1>3, <1>4
<1>6. \A k \in 1..Len(rows) : k \in 1..n
  BY <1>n
<1>7. \A k \in DOMAIN rows : k \in DOMAIN rows' /\ rows'[k] = mid[k]
  BY <1>n, <1>3, <1>4, <1>5, <1>6
<1>8. \A k \in 1..n : k \in 1..Len(rows) \/ k = n
  BY <1>n
<1>9. \A k \in DOMAIN rows' : k \in DOMAIN rows \/ k = n
  BY <1>n, <1>5, <1>8
<1> QED
  BY <1>f, <1>h, <1>1, <1>3, <1>5, <1>7, <1>9 DEF CommitMade

LEMMA CommitStep ==
    ASSUME SessionInv, NEW i \in Slots, A!CommitRotation(i)
    PROVE  SessionInv'
<1>n. Len(rows) \in Nat /\ DOMAIN rows = 1..Len(rows)
  BY Tokens
<1>m. PICK n \in Nat : n = Len(rows) + 1
  BY <1>n
<1>r. req[i].at = "rotating" /\ UNCHANGED <<cookie, ended, crossed>>
  BY DEF A!CommitRotation, A!client
<1>t. PICK t \in DOMAIN rows : t = req[i].tok
  BY <1>r DEF SessionInv, TokensExist, Carries
<1>0. CommitMade(i, n, t)
  BY <1>m, <1>t, CommitMakes
<1>1. PICK q : /\ req' = [req EXCEPT ![i] = q]
               /\ q \in Requests /\ q.at = "answered" /\ q.out \in {"session", "error"}
               /\ q.out = "session" => q.tok = n
  BY <1>0 DEF CommitMade
<1> USE DEF SessionInv, SessionTypes
<1>e. rows[t] \in [family : Nat, live : BOOLEAN]
  BY <1>n, ElementOfSeq
<1>f. PICK f \in Nat : f = rows[t].family
  BY <1>e
<1>l. /\ rows[t].live
      /\ \A j \in Slots \ {i} : req[j].at = "rotating" => req[j].tok # t
  BY <1>r, <1>t DEF RotatesLive
<1>3. /\ rows' \in Seq([family : Nat, live : BOOLEAN])
      /\ Len(rows') = n /\ DOMAIN rows' = 1..n
      /\ \A k \in DOMAIN rows : k \in DOMAIN rows' /\ rows'[k].family = rows[k].family
      /\ \A k \in DOMAIN rows : k # t => rows'[k] = rows[k]
      /\ ~rows'[t].live /\ rows'[n].family = f
      /\ \A k \in DOMAIN rows' : k \in DOMAIN rows \/ k = n
  BY <1>0, <1>f DEF CommitMade
<1>4. SessionTypes'
  <2>1. req' \in [Slots -> Requests]
    BY <1>1
  <2>2. \A j \in Slots : req'[j].at = "answered" => req'[j].out \in Outs
    BY <1>1 DEF Outs
  <2>3. cookie' \in 0..Len(rows')
    BY <1>n, <1>m, <1>r, <1>3
  <2> QED
    BY <1>3, <2>1, <2>2, <2>3
<1>5. TokensExist'
  <2>1. Carries(i)' => req'[i].tok \in DOMAIN rows'
    BY <1>1, <1>3, <1>m, <1>n DEF Carries
  <2>2. \A j \in Slots \ {i} : Carries(j)' => req'[j].tok \in DOMAIN rows'
    BY <1>1, <1>3 DEF TokensExist, Carries
  <2> QED
    BY <2>1, <2>2 DEF TokensExist
<1>6. FamiliesExist'
  <2>1. f \in 1..Len(rows)
    BY <1>f, <1>t DEF FamiliesExist
  <2> QED
    BY <1>n, <1>m, <1>r, <1>3, <2>1 DEF FamiliesExist
<1>7. \A j \in Slots : req'[j].at \in {"rotating", "revoking"} =>
          /\ j # i /\ req'[j] = req[j] /\ req[j].tok \in DOMAIN rows
          /\ rows'[req[j].tok].family = rows[req[j].tok].family
  <2>1. \A j \in Slots : req'[j].at \in {"rotating", "revoking"} => j # i /\ req'[j] = req[j]
    BY <1>1
  <2>2. \A j \in Slots : req[j].at \in {"rotating", "revoking"} => req[j].tok \in DOMAIN rows
    BY DEF TokensExist, Carries
  <2> QED
    BY <1>3, <2>1, <2>2
<1>8. RotatesLive'
  <2>1. ASSUME NEW j \in Slots, req'[j].at = "rotating"
        PROVE  rows'[req'[j].tok].live
    <3>1. req[j].at = "rotating" /\ req[j].tok # t /\ req[j].tok \in DOMAIN rows /\ req'[j] = req[j]
      BY <1>7, <1>l, <2>1
    <3>2. rows[req[j].tok].live
      BY <3>1 DEF RotatesLive
    <3> QED
      BY <1>3, <3>1, <3>2
  <2>2. ASSUME NEW j \in Slots, NEW m \in Slots, req'[j].at = "rotating", req'[m].at = "rotating",
               req'[m].tok = req'[j].tok
        PROVE  j = m
    BY <1>7, <2>2 DEF RotatesLive
  <2> QED
    BY <2>1, <2>2 DEF RotatesLive
<1>9. \A g : g # f => \A k \in DOMAIN rows' : rows'[k].family = g /\ rows'[k].live => k \in A!Live(g)
  BY <1>f, <1>3 DEF A!Live
<1>10. RevokesAll'
  <2>1. ASSUME NEW j \in Slots, NEW g, req'[j].at = "revoking", g = rows'[req'[j].tok].family,
               g \notin crossed'
        PROVE  /\ \A k \in DOMAIN rows' : rows'[k].family = g /\ rows'[k].live => k \in req'[j].seen
               /\ \A m \in Slots : req'[m].at = "rotating" => rows'[req'[m].tok].family # g
    <3>1. req[j].at = "revoking" /\ req'[j] = req[j] /\ g = rows[req[j].tok].family /\ g \notin crossed
      BY <1>r, <1>7, <2>1
    <3>2. A!Live(g) \subseteq req[j].seen /\ ~A!Rotating(g)
      BY <3>1 DEF RevokesAll
    <3>3. g # f
      BY <1>r, <1>t, <1>f, <3>2 DEF A!Rotating, A!Family
    <3>4. \A m \in Slots : req'[m].at = "rotating" => rows'[req'[m].tok].family # g
      BY <1>7, <3>2 DEF A!Rotating, A!Family
    <3> QED
      BY <1>9, <3>1, <3>2, <3>3, <3>4
  <2> QED
    BY <2>1, RevokesNamed
<1>11. A!OneLiveToken'
  <2>1. \A k \in DOMAIN rows : rows[k].live /\ rows[k].family = f => k = t
    BY <1>f, <1>l DEF A!OneLiveToken
  <2>2. \A k \in DOMAIN rows' : rows'[k].live /\ rows'[k].family = f => k = n
    BY <1>3, <2>1
  <2>3. \A k \in DOMAIN rows' : rows'[k].live /\ rows'[k].family # f
           => k \in DOMAIN rows /\ rows[k].live /\ rows'[k].family = rows[k].family
    BY <1>3
  <2> QED
    BY <2>2, <2>3 DEF A!OneLiveToken
<1>12. A!SignedOutIsOver'
  <2>1. f \notin ended \ crossed
    BY <1>f, <1>l DEF A!SignedOutIsOver, A!Live
  <2>2. ASSUME NEW g \in ended \ crossed PROVE A!Live(g)' = {}
    <3>1. A!Live(g) = {} /\ g # f
      BY <2>1 DEF A!SignedOutIsOver
    <3> QED
      BY <1>9, <3>1 DEF A!Live
  <2> QED
    BY <1>r, <2>2 DEF A!SignedOutIsOver
<1> QED
  BY <1>4, <1>5, <1>6, <1>8, <1>10, <1>11, <1>12

\* A revocation begins with the live tokens of the family.
LEMMA RevokeStep ==
    ASSUME SessionInv, NEW i \in Slots, A!RevokeFamily(i)
    PROVE  SessionInv'
<1> USE DEF SessionInv, SessionTypes
<1>1. PICK f : f = rows[req[i].tok].family
  OBVIOUS
<1>2. PICK q : q = [req[i] EXCEPT !.at = "revoking", !.seen = A!Live(f)]
  OBVIOUS
<1>3. req' = [req EXCEPT ![i] = q] /\ UNCHANGED <<rows, cookie, ended>> /\ req[i].at \in {"revoke", "outrun"}
  BY <1>1, <1>2 DEF A!RevokeFamily, A!client, A!Family
<1>4. A!Live(f) \in SUBSET Nat
  BY Tokens DEF A!Live
<1>5. /\ q \in Requests /\ q.at = "revoking" /\ q.tok = req[i].tok /\ q.seen = A!Live(f)
      /\ req[i].tok \in DOMAIN rows
  BY <1>2, <1>3, <1>4 DEF Requests, Progress, TokensExist, Carries
<1>6. /\ crossed' = crossed \/ crossed' = crossed \union {f}
      /\ A!Rotating(f) => f \in crossed'
  BY <1>1 DEF A!RevokeFamily, A!Family
<1>7. req'[i] = q /\ \A j \in Slots : j # i => req'[j] = req[j]
  BY <1>3
<1>8. SessionTypes'
  BY <1>3, <1>5, <1>7
<1>9. TokensExist' /\ FamiliesExist'
  BY <1>3, <1>5, <1>7 DEF TokensExist, FamiliesExist, Carries
<1>10. \A j \in Slots : req'[j].at = "rotating" => j # i /\ req'[j] = req[j]
  BY <1>5, <1>7
<1>11. RotatesLive'
  BY <1>3, <1>10 DEF RotatesLive
<1>12. RevokesAll'
  <2>1. ASSUME NEW j \in Slots, NEW g, req'[j].at = "revoking", g = rows'[req'[j].tok].family,
               g \notin crossed'
        PROVE  /\ \A k \in DOMAIN rows' : rows'[k].family = g /\ rows'[k].live => k \in req'[j].seen
               /\ \A m \in Slots : req'[m].at = "rotating" => rows'[req'[m].tok].family # g
    <3>1. A!Live(g) \subseteq req'[j].seen /\ ~A!Rotating(g)
      <4>1. CASE j = i
        BY <1>1, <1>3, <1>5, <1>6, <1>7, <2>1, <4>1
      <4>2. CASE j # i
        BY <1>3, <1>6, <1>7, <2>1, <4>2 DEF RevokesAll
      <4> QED
        BY <4>1, <4>2
    <3>2. \A m \in Slots : req'[m].at = "rotating" => rows'[req'[m].tok].family # g
      BY <1>3, <1>10, <3>1 DEF A!Rotating, A!Family
    <3> QED
      BY <1>3, <3>1, <3>2 DEF A!Live
  <2> QED
    BY <2>1, RevokesNamed
<1>13. A!OneLiveToken' /\ A!SignedOutIsOver'
  BY <1>3, <1>6 DEF A!OneLiveToken, A!SignedOutIsOver, A!Live
<1> QED
  BY <1>8, <1>9, <1>11, <1>12, <1>13

\* A revocation ends the tokens it has seen, and no row is locked meanwhile.
RevokedMade(i) ==
    /\ \E q \in Requests :
          /\ req' = [req EXCEPT ![i] = q]
          /\ q.at = "answered" /\ q.out \in {"done", "denied"}
          /\ q.kind = req[i].kind /\ q.tab = req[i].tab
    /\ rows' \in Seq([family : Nat, live : BOOLEAN])
    /\ DOMAIN rows' = DOMAIN rows /\ Len(rows') = Len(rows)
    /\ \A k \in DOMAIN rows : /\ rows'[k].family = rows[k].family
                              /\ rows'[k].live <=> rows[k].live /\ k \notin req[i].seen

LEMMA RevokedMakes ==
    ASSUME SessionInv, NEW i \in Slots, A!Revoked(i)
    PROVE  RevokedMade(i)
<1> USE DEF SessionInv, SessionTypes
<1>n. Len(rows) \in Nat /\ DOMAIN rows = 1..Len(rows)
  BY Tokens
<1>1. PICK o \in {"done", "denied"} :
         o = IF req[i].kind = "logout" THEN "done" ELSE "denied"
  OBVIOUS
<1>2. PICK q : q = [req[i] EXCEPT !.at = "answered", !.seen = {}, !.out = o]
  OBVIOUS
<1>3. req' = [req EXCEPT ![i] = q]
  BY <1>1, <1>2 DEF A!Revoked
<1>4. /\ q \in Requests /\ q.at = "answered" /\ q.out \in {"done", "denied"}
      /\ q.kind = req[i].kind /\ q.tab = req[i].tab
  BY <1>2 DEF Requests, Progress, Outs
<1>5. rows' = [k \in DOMAIN rows |-> [rows[k] EXCEPT !.live = @ /\ k \notin req[i].seen]]
  BY DEF A!Revoked
<1>6. ASSUME NEW k \in DOMAIN rows
      PROVE  /\ rows'[k] \in [family : Nat, live : BOOLEAN]
             /\ rows'[k].family = rows[k].family
             /\ rows'[k].live <=> rows[k].live /\ k \notin req[i].seen
  <2>1. rows[k] \in [family : Nat, live : BOOLEAN]
    BY <1>n, <1>6, ElementOfSeq
  <2>2. PICK b \in BOOLEAN : b = (rows[k].live /\ k \notin req[i].seen)
    OBVIOUS
  <2>3. rows'[k] = [rows[k] EXCEPT !.live = b]
    BY <1>5, <2>2
  <2>4. rows'[k] = [family |-> rows[k].family, live |-> b]
    BY <2>1, <2>3
  <2>5. rows'[k].family = rows[k].family /\ rows'[k].live = b
    BY <2>4
  <2>6. rows'[k] \in [family : Nat, live : BOOLEAN]
    BY <2>1, <2>4
  <2> QED
    BY <2>2, <2>5, <2>6
<1>7. rows' \in Seq([family : Nat, live : BOOLEAN]) /\ DOMAIN rows' = DOMAIN rows /\ Len(rows') = Len(rows)
  <2>1. rows' \in [1..Len(rows) -> [family : Nat, live : BOOLEAN]]
    BY <1>n, <1>5, <1>6
  <2>2. rows' \in Seq([family : Nat, live : BOOLEAN])
    <3>1. PICK Row : Row = [family : Nat, live : BOOLEAN]
      OBVIOUS
    <3>2. \A n \in Nat : \A f \in [1..n -> Row] : f \in Seq(Row)
      BY SeqDef
    <3> QED
      BY <1>n, <2>1, <3>1, <3>2
  <2>3. DOMAIN rows' = 1..Len(rows)
    BY <2>1
  <2> QED
    BY <1>n, <2>2, <2>3, LenProperties
<1> QED
  BY <1>3, <1>4, <1>6, <1>7 DEF RevokedMade

LEMMA RevokedStep ==
    ASSUME SessionInv, NEW i \in Slots, A!Revoked(i)
    PROVE  SessionInv'
<1>0. RevokedMade(i)
  BY RevokedMakes
<1>1. PICK q \in Requests :
         /\ req' = [req EXCEPT ![i] = q]
         /\ q.at = "answered" /\ q.out \in {"done", "denied"}
  BY <1>0 DEF RevokedMade
<1>3. req' = [req EXCEPT ![i] = q]
  BY <1>1
<1>4. q \in Requests /\ q.at = "answered" /\ q.out \in {"done", "denied"}
  BY <1>1
<1> USE DEF SessionInv, SessionTypes
<1>n. Len(rows) \in Nat /\ DOMAIN rows = 1..Len(rows)
  BY Tokens
<1>g. /\ req[i].at = "revoking" /\ UNCHANGED <<cookie, crossed>>
      /\ \A k \in req[i].seen : ~A!Locked(k)
  BY DEF A!Revoked, A!client
<1>t. PICK t \in DOMAIN rows : t = req[i].tok
  BY <1>g DEF TokensExist, Carries
<1>6. \A k \in DOMAIN rows : /\ rows'[k].family = rows[k].family
                             /\ rows'[k].live <=> rows[k].live /\ k \notin req[i].seen
  BY <1>0 DEF RevokedMade
<1>7. rows' \in Seq([family : Nat, live : BOOLEAN]) /\ DOMAIN rows' = DOMAIN rows /\ Len(rows') = Len(rows)
  BY <1>0 DEF RevokedMade
<1>8. SessionTypes'
  <2>1. req' \in [Slots -> Requests]
    BY <1>3, <1>4
  <2>2. \A j \in Slots : req'[j].at = "answered" => req'[j].out \in Outs
    BY <1>3, <1>4 DEF Outs
  <2>3. cookie' \in 0..Len(rows')
    BY <1>g, <1>7
  <2> QED
    BY <1>7, <2>1, <2>2, <2>3
<1>9. TokensExist'
  <2>1. ~Carries(i)'
    BY <1>3, <1>4 DEF Carries
  <2>2. \A j \in Slots \ {i} : Carries(j)' => req'[j].tok \in DOMAIN rows'
    BY <1>3, <1>7 DEF TokensExist, Carries
  <2> QED
    BY <2>1, <2>2 DEF TokensExist
<1>10. FamiliesExist'
  <2>1. ended' \subseteq ended \union {rows[t].family}
    BY <1>t DEF A!Revoked, A!Family
  <2> QED
    BY <1>t, <1>6, <1>7, <2>1 DEF FamiliesExist
<1>11. \A j \in Slots : req'[j].at \in {"rotating", "revoking"} =>
           j # i /\ req'[j] = req[j] /\ req[j].tok \in DOMAIN rows
  BY <1>3, <1>4 DEF TokensExist, Carries
<1>12. RotatesLive'
  <2>1. ASSUME NEW j \in Slots, req'[j].at = "rotating"
        PROVE  rows'[req'[j].tok].live
    <3>1. req[j].at = "rotating" /\ req'[j] = req[j] /\ req[j].tok \in DOMAIN rows
      BY <1>11, <2>1
    <3>2. rows[req[j].tok].live /\ req[j].tok \notin req[i].seen
      BY <1>g, <3>1 DEF RotatesLive, A!Locked
    <3> QED
      BY <1>6, <3>1, <3>2
  <2>2. ASSUME NEW j \in Slots, NEW m \in Slots, req'[j].at = "rotating", req'[m].at = "rotating",
               req'[m].tok = req'[j].tok
        PROVE  j = m
    BY <1>11, <2>2 DEF RotatesLive
  <2> QED
    BY <2>1, <2>2 DEF RotatesLive
<1>13. \A g : \A k \in DOMAIN rows' :
           rows'[k].family = g /\ rows'[k].live => k \in A!Live(g) \ req[i].seen
  BY <1>6, <1>7 DEF A!Live
<1>14. RevokesAll'
  <2>1. ASSUME NEW j \in Slots, NEW g, req'[j].at = "revoking", g = rows'[req'[j].tok].family,
               g \notin crossed'
        PROVE  /\ \A k \in DOMAIN rows' : rows'[k].family = g /\ rows'[k].live => k \in req'[j].seen
               /\ \A m \in Slots : req'[m].at = "rotating" => rows'[req'[m].tok].family # g
    <3>1. req[j].at = "revoking" /\ req'[j] = req[j] /\ g = rows[req[j].tok].family /\ g \notin crossed
      BY <1>g, <1>6, <1>11, <2>1
    <3>2. A!Live(g) \subseteq req[j].seen /\ ~A!Rotating(g)
      BY <3>1 DEF RevokesAll
    <3>3. \A m \in Slots : req'[m].at = "rotating" => rows'[req'[m].tok].family # g
      BY <1>6, <1>11, <3>2 DEF A!Rotating, A!Family
    <3> QED
      BY <1>13, <3>1, <3>2, <3>3
  <2> QED
    BY <2>1, RevokesNamed
<1>15. A!OneLiveToken'
  BY <1>6, <1>7 DEF A!OneLiveToken
<1>16. A!SignedOutIsOver'
  <2>1. ASSUME NEW g \in ended' \ crossed' PROVE A!Live(g)' = {}
    <3>1. A!Live(g) \subseteq req[i].seen
      <4>1. CASE g \in ended
        BY <1>g, <2>1, <4>1 DEF A!SignedOutIsOver
      <4>2. CASE g \notin ended
        <5>1. g = rows[t].family /\ g \notin crossed
          BY <1>g, <1>t, <2>1, <4>2 DEF A!Revoked, A!Family
        <5> QED
          BY <1>g, <1>t, <5>1 DEF RevokesAll
      <4> QED
        BY <4>1, <4>2
    <3> QED
      BY <1>13, <3>1 DEF A!Live
  <2> QED
    BY <2>1 DEF A!SignedOutIsOver
<1> QED
  BY <1>8, <1>9, <1>10, <1>12, <1>14, <1>15, <1>16

LEMMA SessionStep ==
    ASSUME SessionInv, [Next]_pageVars
    PROVE  SessionInv'
<1>1. A!Next \/ UNCHANGED session
  BY PageSteps
<1>2. CASE UNCHANGED session
  BY <1>2 DEF session, SessionInv, SessionTypes, TokensExist, Carries, FamiliesExist, RotatesLive,
     RevokesAll, A!Rotating, A!Family, A!Live, A!OneLiveToken, A!SignedOutIsOver
<1>3. CASE A!Next
  <2>1. PICK i \in Slots :
           \/ \E t \in Tabs : A!Renew(i, t) \/ A!Login(i, t) \/ A!Logout(i, t) \/ A!Load(i, t)
           \/ A!Serve(i) \/ A!Fail(i) \/ A!Drop(i)
    BY <1>3 DEF A!Next
  <2>2. CASE \E t \in Tabs : A!Renew(i, t) \/ A!Login(i, t) \/ A!Logout(i, t) \/ A!Load(i, t)
    BY <2>2, TameActions
  <2>3. CASE A!GetByHash(i) \/ A!Deliver(i) \/ A!Fail(i) \/ A!Drop(i)
    BY <2>3, TameActions
  <2>4. CASE A!startSession(i)
    BY <2>4, StartStep
  <2>5. CASE A!Rotate(i)
    BY <2>5, RotateStep
  <2>6. CASE A!CommitRotation(i)
    BY <2>6, CommitStep
  <2>7. CASE A!RevokeFamily(i)
    BY <2>7, RevokeStep
  <2>8. CASE A!Revoked(i)
    BY <2>8, RevokedStep
  <2> QED
    BY <2>1, <2>2, <2>3, <2>4, <2>5, <2>6, <2>7, <2>8 DEF A!Serve
<1> QED
  BY <1>1, <1>2, <1>3

(* Whatever refreshes, sign-outs and lost answers meet, a session has at   *)
(* most one refresh token that would be taken (Rotate in repository.go),   *)
(* and what a sign-out has revoked stays revoked, unless a rotation and a  *)
(* revocation of that session ran at the same time (RevokeFamily sees only *)
(* the tokens that were there when its statement began).                   *)
THEOREM TokensAreSpent == Spec => []TokensEnd
<1>1. SessionInv /\ [Next]_pageVars => SessionInv'
  BY SessionStep
<1>2. SessionInv => TokensEnd
  BY DEF SessionInv, TokensEnd
<1> QED
  BY <1>1, <1>2, SessionInit, PTL DEF Spec

\* Why a session ends: what the requests under way still hold of it.
Refreshes(i) == req[i].kind = "refresh" /\ req[i].at # "free"
Renewed(i) == req[i].at = "answered" /\ req[i].out = "session"

\* The token would be taken, or a sign-out has ended its session.
Sound(k) == rows[k].live \/ rows[k].family \in ended

KindsOk ==
    \A i \in Slots :
        /\ req[i].at = "sent" => req[i].kind \in {"login", "refresh", "logout"}
        /\ req[i].at \in {"loaded", "rotating", "outrun"} => req[i].kind = "refresh"
        /\ req[i].at \in {"revoke", "revoking"} => req[i].kind \in {"refresh", "logout"}
        /\ Renewed(i) => req[i].kind \in {"login", "refresh"}

RevokesOwn ==
    \A i \in Slots : req[i].at = "revoking" =>
        \A k \in req[i].seen : k \in DOMAIN rows /\ rows[k].family = rows[req[i].tok].family

\* The token of a sign-in is nobody else's until its answer is taken.
NobodyElses ==
    \A i \in Slots : Renewed(i) /\ req[i].kind = "login" =>
        cookie # req[i].tok /\ \A j \in Slots : Carries(j) /\ j # i => req[j].tok # req[i].tok

\* One refresh at a time, that somebody waits for.
OneRefresh ==
    \A i \in Slots : Refreshes(i) =>
        req[i].tab # None /\ \A j \in Slots : Refreshes(j) => i = j

HoldsSound ==
    \A i \in Slots :
        /\ Refreshes(i) /\ req[i].at \in {"sent", "loaded"} => Sound(req[i].tok)
        /\ Renewed(i) => Sound(req[i].tok)
        /\ Refreshes(i) /\ req[i].at \in {"revoke", "outrun", "revoking"} => rows[req[i].tok].family \in ended

\* The cookie is spent only while the answer that replaces it is on its way.
CookieSound == cookie # 0 => Sound(cookie) \/ \E i \in Slots : Refreshes(i) /\ Renewed(i)

Calm == OneRefresh /\ HoldsSound /\ CookieSound

SessionsLast ==
    \A k \in DOMAIN rows :
        \/ excused \/ rows[k].family \in ended
        \/ \E m \in DOMAIN rows : rows[m].family = rows[k].family /\ rows[m].live

CauseInv == /\ excused \in BOOLEAN
            /\ KindsOk /\ RevokesOwn /\ NobodyElses
            /\ (~excused => Calm)
            /\ SessionsLast

LEMMA CauseInit == Init => CauseInv
<1> SUFFICES ASSUME A!Init PROVE CauseInv
  BY DEF Init
<1>1. rows = <<>> /\ DOMAIN rows = {} /\ cookie = 0 /\ excused = FALSE
  BY DEF A!Init
<1>2. \A i \in Slots : req[i].at = "free"
  BY DEF A!Init, A!FreeSlot
<1>3. KindsOk /\ RevokesOwn /\ NobodyElses
  BY <1>2 DEF KindsOk, RevokesOwn, NobodyElses, Renewed
<1>4. Calm /\ SessionsLast
  BY <1>1, <1>2 DEF Calm, OneRefresh, HoldsSound, CookieSound, Refreshes, Renewed, SessionsLast
<1> QED
  BY <1>1, <1>3, <1>4 DEF CauseInv

\* Where the rows stay, a session ends for no other reason than before.
LEMMA LastsOn ==
    ASSUME CauseInv, UNCHANGED <<rows, ended>>, excused => excused'
    PROVE  SessionsLast' /\ \A k : Sound(k)' <=> Sound(k)
  BY DEF CauseInv, SessionsLast, Sound

\* One request is another than before; the rest of them go on, and a tab that
\* no longer waits for one of them excuses what follows.
Becomes(i, q) ==
    /\ req'[i] = q
    /\ \A j \in Slots : j # i =>
          /\ SameWork(req'[j], j)
          /\ Refreshes(j) /\ ~excused' => req'[j].tab = req[j].tab

LEMMA OneBecomes ==
    ASSUME req \in [Slots -> Requests], NEW i \in Slots, NEW q, req' = [req EXCEPT ![i] = q]
    PROVE  Becomes(i, q)
<1>1. \A j \in Slots : j # i => req'[j] = req[j]
  OBVIOUS
<1> QED
  BY <1>1 DEF Becomes, SameWork

\* A request leaves a tab; a refresh only while no other one is under way.
LEMMA CauseOfSend ==
    ASSUME SessionInv, CauseInv, UNCHANGED <<rows, ended, cookie>>,
           excused' \in BOOLEAN, excused => excused',
           NEW i \in Slots, NEW q, Becomes(i, q), req[i].at = "free",
           q.kind \in A!Kinds, q.at \in {"sent", "answered"},
           q.at = "answered" => q.out # "session",
           q.at = "sent" /\ q.kind # "login" => q.tok = cookie /\ cookie # 0,
           q.kind = "refresh" =>
               q.tab # None /\ (~excused' => \A j \in Slots : ~Refreshes(j))
    PROVE  CauseInv'
<1> USE DEF CauseInv, Becomes, SameWork
<1>1. SessionsLast' /\ \A k : Sound(k)' <=> Sound(k)
  BY LastsOn
<1>2. KindsOk'
  BY DEF KindsOk, Renewed, A!Kinds
<1>3. RevokesOwn'
  BY DEF RevokesOwn
<1>4. NobodyElses'
  <2>1. ASSUME NEW j \in Slots, Renewed(j)', req'[j].kind = "login"
        PROVE  /\ cookie' # req'[j].tok
               /\ \A m \in Slots : Carries(m)' /\ m # j => req'[m].tok # req'[j].tok
    <3>1. j # i /\ req'[j].tok = req[j].tok /\ Renewed(j) /\ req[j].kind = "login"
      BY <2>1 DEF Renewed
    <3>2. cookie # req[j].tok /\ \A m \in Slots : Carries(m) /\ m # j => req[m].tok # req[j].tok
      BY <3>1 DEF NobodyElses
    <3>3. Carries(i)' => q.tok = cookie
      BY DEF Carries
    <3>4. \A m \in Slots : m # i /\ Carries(m)' => Carries(m) /\ req'[m].tok = req[m].tok
      BY DEF Carries
    <3> QED
      BY <3>1, <3>2, <3>3, <3>4
  <2> QED
    BY <2>1 DEF NobodyElses
<1>5. ASSUME ~excused' PROVE Calm'
  <2>1. Calm
    BY <1>5
  <2>2. OneRefresh'
    BY <1>5, <2>1 DEF Calm, OneRefresh, Refreshes
  <2>3. q.kind = "refresh" /\ q.at = "sent" => Sound(q.tok)
    BY <1>5, <2>1 DEF Calm, CookieSound
  <2>4. HoldsSound'
    BY <1>1, <2>1, <2>3 DEF Calm, HoldsSound, Refreshes, Renewed
  <2>5. CookieSound'
    BY <1>1, <2>1 DEF Calm, CookieSound, Refreshes, Renewed
  <2> QED
    BY <2>2, <2>4, <2>5 DEF Calm
<1> QED
  BY <1>1, <1>2, <1>3, <1>4, <1>5

LEMMA CauseOfCall ==
    ASSUME SessionInv, CauseInv, NEW i \in Slots, NEW t \in Tabs,
           A!Renew(i, t) \/ A!Login(i, t) \/ A!Logout(i, t)
    PROVE  CauseInv'
<1>0. t # None /\ req \in [Slots -> Requests]
  BY PagesAssumption DEF SessionInv, SessionTypes
<1>1. ASSUME NEW k \in A!Kinds, A!callSessionRoute(i, t, k)
      PROVE  \E q : /\ Becomes(i, q) /\ req[i].at = "free" /\ q.at \in {"sent", "answered"}
                    /\ q.out # "session" /\ q.kind = k /\ q.tab = t
                    /\ q.at = "sent" /\ k # "login" => q.tok = cookie /\ cookie # 0
  <2>1. PICK tok : tok = IF k = "login" THEN 0 ELSE cookie
    OBVIOUS
  <2>2. PICK at : at = IF k # "login" /\ cookie = 0 THEN "answered" ELSE "sent"
    OBVIOUS
  <2>3. PICK o : o = IF k = "refresh" THEN "denied" ELSE "done"
    OBVIOUS
  <2>0. PICK q : q = [A!FreeSlot EXCEPT !.kind = k, !.tab = t,
                         !.tok = IF k = "login" THEN 0 ELSE cookie,
                         !.at  = IF k # "login" /\ cookie = 0 THEN "answered" ELSE "sent",
                         !.out = IF k = "refresh" THEN "denied" ELSE "done"]
    OBVIOUS
  <2>5. req' = [req EXCEPT ![i] = q] /\ req[i].at = "free"
    BY <1>1, <2>0 DEF A!callSessionRoute, A!Vacant
  <2>4. q = [at |-> at, kind |-> k, tab |-> t, tok |-> tok, seen |-> {}, out |-> o]
    BY <2>0, <2>1, <2>2, <2>3 DEF A!FreeSlot
  <2>6. Becomes(i, q)
    BY <1>0, <2>5, OneBecomes
  <2>7. q.at \in {"sent", "answered"} /\ q.out # "session" /\ q.kind = k /\ q.tab = t
    BY <2>2, <2>3, <2>4
  <2>8. q.at = "sent" /\ k # "login" => q.tok = cookie /\ cookie # 0
    BY <2>1, <2>2, <2>4
  <2>9. req[i].at = "free"
    BY <2>5
  <2> WITNESS q
  <2> QED
    BY <2>6, <2>7, <2>8, <2>9
<1>2. CASE A!Login(i, t) \/ A!Logout(i, t)
  <2>1. PICK k \in {"login", "logout"} : A!callSessionRoute(i, t, k)
    BY <1>2 DEF A!Login, A!Logout
  <2>2. UNCHANGED <<rows, ended, cookie>> /\ excused' = excused
    BY <1>2 DEF A!Login, A!Logout, A!client, A!server
  <2>3. excused' \in BOOLEAN /\ (excused => excused')
    BY <2>2 DEF CauseInv
  <2>4. PICK q : /\ Becomes(i, q) /\ req[i].at = "free" /\ q.at \in {"sent", "answered"}
                 /\ q.out # "session" /\ q.kind = k /\ q.tab = t
                 /\ q.at = "sent" /\ k # "login" => q.tok = cookie /\ cookie # 0
    BY <1>1, <2>1 DEF A!Kinds
  <2>5. q.kind # "refresh" /\ q.kind \in A!Kinds
    BY <2>1, <2>4 DEF A!Kinds
  <2> QED
    BY <2>2, <2>3, <2>4, <2>5, CauseOfSend
<1>3. CASE A!Renew(i, t)
  <2>1. A!callSessionRoute(i, t, "refresh") /\ A!Pending(t, "refresh") = {}
    BY <1>3 DEF A!Renew, A!refreshSession
  <2>2. UNCHANGED <<rows, ended, cookie>> /\ excused' = (excused \/ A!Overlaps(t))
    BY <1>3 DEF A!Renew, A!refreshSession, A!client, A!server
  <2>3. excused' \in BOOLEAN /\ (excused => excused') /\ (~excused' => ~A!Overlaps(t))
    BY <2>2 DEF CauseInv
  <2>4. PICK q : /\ Becomes(i, q) /\ req[i].at = "free" /\ q.at \in {"sent", "answered"}
                 /\ q.out # "session" /\ q.kind = "refresh" /\ q.tab = t
                 /\ q.at = "sent" => q.tok = cookie /\ cookie # 0
    BY <1>1, <2>1 DEF A!Kinds
  <2>5. ~excused' => \A j \in Slots : ~Refreshes(j)
    BY <2>1, <2>3 DEF A!Pending, A!Overlaps, A!UnderWay, Refreshes
  <2>6. q.kind \in A!Kinds
    BY <2>4 DEF A!Kinds
  <2> QED
    BY <1>0, <2>2, <2>3, <2>4, <2>5, <2>6, CauseOfSend
<1> QED
  BY <1>2, <1>3

\* A request goes on, or is given up by its tab, with nothing of it renewed.
LEMMA CauseOfWork ==
    ASSUME SessionInv, CauseInv, UNCHANGED <<rows, ended, cookie>>,
           excused' \in BOOLEAN, excused => excused',
           NEW i \in Slots, NEW q, Becomes(i, q), q.at # "free" => req[i].at # "free",
           q.kind = req[i].kind, q.tok = req[i].tok,
           q.tab = req[i].tab \/ (Refreshes(i) => excused'),
           \/ q.at = req[i].at /\ q.seen = req[i].seen /\ q.out = req[i].out
           \/ /\ ~Renewed(i)
              /\ q.at # "sent" /\ (q.at = "answered" => q.out # "session")
              /\ Carries(i) \/ q.at = "answered"
              /\ q.at \in {"loaded", "rotating", "outrun"} => q.kind = "refresh"
              /\ q.at \in {"revoke", "revoking"} => q.kind \in {"refresh", "logout"}
              /\ q.at = "revoking" =>
                    \A k \in q.seen : k \in DOMAIN rows /\ rows[k].family = rows[q.tok].family
              /\ ~excused' /\ q.kind = "refresh" =>
                    /\ q.at = "loaded" => Sound(q.tok)
                    /\ q.at \in {"revoke", "outrun", "revoking"} => rows[q.tok].family \in ended
           \/ q.at = "free" /\ ~Renewed(i)
    PROVE  CauseInv'
<1> USE DEF CauseInv, Becomes, SameWork
<1>1. SessionsLast' /\ \A k : Sound(k)' <=> Sound(k)
  BY LastsOn
<1>2. KindsOk'
  BY DEF KindsOk, Renewed, A!Kinds
<1>3. RevokesOwn'
  BY DEF RevokesOwn
<1>4. NobodyElses'
  <2>1. ASSUME NEW j \in Slots, Renewed(j)', req'[j].kind = "login"
        PROVE  /\ cookie' # req'[j].tok
               /\ \A m \in Slots : Carries(m)' /\ m # j => req'[m].tok # req'[j].tok
    <3>1. Renewed(j) /\ req[j].kind = "login" /\ req'[j].tok = req[j].tok
      BY <2>1 DEF Renewed
    <3>2. cookie # req[j].tok /\ \A m \in Slots : Carries(m) /\ m # j => req[m].tok # req[j].tok
      BY <3>1 DEF NobodyElses
    <3>4. \A m \in Slots : Carries(m)' => Carries(m) /\ req'[m].tok = req[m].tok
      BY DEF Carries, Renewed
    <3> QED
      BY <3>1, <3>2, <3>4
  <2> QED
    BY <2>1 DEF NobodyElses
<1>5. ASSUME ~excused' PROVE Calm'
  <2>1. Calm
    BY <1>5
  <2>2. OneRefresh'
    BY <1>5, <2>1 DEF Calm, OneRefresh, Refreshes
  <2>4. HoldsSound'
    BY <1>1, <1>5, <2>1 DEF Calm, HoldsSound, Refreshes, Renewed
  <2>5. CookieSound'
    BY <1>1, <2>1 DEF Calm, CookieSound, Refreshes, Renewed
  <2> QED
    BY <2>2, <2>4, <2>5 DEF Calm
<1> QED
  BY <1>1, <1>2, <1>3, <1>4, <1>5

LEMMA CauseOfWorks ==
    ASSUME SessionInv, CauseInv, NEW i \in Slots,
           A!GetByHash(i) \/ A!Fail(i) \/ A!Rotate(i) \/ A!RevokeFamily(i) \/ A!Drop(i)
    PROVE  CauseInv'
<1>0. req \in [Slots -> Requests] /\ excused \in BOOLEAN /\ req[i] \in Requests
  BY DEF SessionInv, SessionTypes, CauseInv
<1>c. ~excused => Calm
  BY DEF CauseInv
<1>1. CASE A!GetByHash(i)
  <2>1. PICK at : at = IF req[i].kind = "refresh" /\ rows[req[i].tok].live THEN "loaded" ELSE "revoke"
    OBVIOUS
  <2>2. PICK q : q = [req[i] EXCEPT !.at = at]
    OBVIOUS
  <2>3. /\ req' = [req EXCEPT ![i] = q] /\ UNCHANGED <<rows, ended, cookie, excused>>
        /\ req[i].at = "sent" /\ req[i].kind # "login"
    BY <1>1, <2>1, <2>2 DEF A!GetByHash, A!client, A!server
  <2>0. req[i].kind \in {"refresh", "logout"}
    BY <2>3 DEF CauseInv, KindsOk
  <2>4. /\ q.at = at /\ q.kind = req[i].kind /\ q.tok = req[i].tok /\ q.tab = req[i].tab
        /\ q.out = req[i].out /\ q.seen = req[i].seen
    BY <1>0, <2>2 DEF Requests
  <2>5. Becomes(i, q)
    BY <1>0, <2>3, OneBecomes
  <2>6. ~Renewed(i) /\ Carries(i)
    BY <2>3 DEF Renewed, Carries
  <2> QED
    BY <1>0, <1>c, <2>0, <2>1, <2>3, <2>4, <2>5, <2>6, CauseOfWork
       DEF Calm, HoldsSound, Refreshes, Sound
<1>2. CASE A!Fail(i)
  <2>1. PICK o \in {"error", "done", "denied"} :
           req' = [req EXCEPT ![i].at = "answered", ![i].out = o]
    BY <1>2 DEF A!Fail, A!Answer
  <2>2. PICK q : q = [req[i] EXCEPT !.at = "answered", !.out = o]
    OBVIOUS
  <2>3. /\ req' = [req EXCEPT ![i] = q] /\ UNCHANGED <<rows, ended, cookie, excused>>
        /\ req[i].at \in {"sent", "loaded", "revoke", "outrun"}
    BY <1>2, <2>1, <2>2 DEF A!Fail, A!client, A!server
  <2>4. q.at = "answered" /\ q.out = o /\ q.kind = req[i].kind /\ q.tok = req[i].tok /\ q.tab = req[i].tab
    BY <1>0, <2>2 DEF Requests
  <2>5. Becomes(i, q)
    BY <1>0, <2>3, OneBecomes
  <2>6. ~Renewed(i)
    BY <2>3 DEF Renewed
  <2> QED
    BY <1>0, <2>1, <2>3, <2>4, <2>5, <2>6, CauseOfWork
<1>3. CASE A!Rotate(i)
  <2>1. PICK at : at = IF rows[req[i].tok].live THEN "rotating" ELSE "outrun"
    OBVIOUS
  <2>2. PICK q : q = [req[i] EXCEPT !.at = at]
    OBVIOUS
  <2>3. /\ req' = [req EXCEPT ![i] = q] /\ UNCHANGED <<rows, ended, cookie, excused>>
        /\ req[i].at = "loaded"
    BY <1>3, <2>1, <2>2 DEF A!Rotate, A!client
  <2>4. /\ q.at = at /\ q.kind = req[i].kind /\ q.tok = req[i].tok /\ q.tab = req[i].tab
        /\ q.out = req[i].out
    BY <1>0, <2>2 DEF Requests
  <2>5. Becomes(i, q)
    BY <1>0, <2>3, OneBecomes
  <2>6. ~Renewed(i) /\ Carries(i) /\ req[i].kind = "refresh"
    BY <2>3 DEF Renewed, Carries, CauseInv, KindsOk
  <2> QED
    BY <1>0, <1>c, <2>1, <2>3, <2>4, <2>5, <2>6, CauseOfWork
       DEF Calm, HoldsSound, Refreshes, Sound
<1>4. CASE A!RevokeFamily(i)
  <2>2. PICK q : q = [req[i] EXCEPT !.at = "revoking", !.seen = A!Live(A!Family(req[i].tok))]
    OBVIOUS
  <2>3. /\ req' = [req EXCEPT ![i] = q] /\ UNCHANGED <<rows, ended, cookie, excused>>
        /\ req[i].at \in {"revoke", "outrun"}
    BY <1>4, <2>2 DEF A!RevokeFamily, A!client
  <2>4. /\ q.at = "revoking" /\ q.kind = req[i].kind /\ q.tok = req[i].tok /\ q.tab = req[i].tab
        /\ q.seen = A!Live(A!Family(req[i].tok))
    BY <1>0, <2>2 DEF Requests
  <2>5. Becomes(i, q)
    BY <1>0, <2>3, OneBecomes
  <2>6. ~Renewed(i) /\ Carries(i) /\ req[i].kind \in {"refresh", "logout"}
    BY <2>3 DEF Renewed, Carries, CauseInv, KindsOk
  <2>7. \A k \in q.seen : k \in DOMAIN rows /\ rows[k].family = rows[q.tok].family
    BY <2>4 DEF A!Live, A!Family
  <2> QED
    BY <1>0, <1>c, <2>3, <2>4, <2>5, <2>6, <2>7, CauseOfWork
       DEF Calm, HoldsSound, Refreshes
<1>5. CASE A!Drop(i)
  <2>2. PICK q : q = [req[i] EXCEPT !.tab = None]
    OBVIOUS
  <2>3. /\ req' = [req EXCEPT ![i] = q] /\ UNCHANGED <<rows, ended, cookie>>
        /\ req[i].at # "free" /\ excused' = (excused \/ req[i].kind = "refresh")
    BY <1>5, <2>2 DEF A!Drop, A!server
  <2>4. /\ q.at = req[i].at /\ q.kind = req[i].kind /\ q.tok = req[i].tok
        /\ q.seen = req[i].seen /\ q.out = req[i].out
    BY <1>0, <2>2 DEF Requests
  <2>5. Becomes(i, q)
    BY <1>0, <2>3, OneBecomes
  <2>6. excused' \in BOOLEAN /\ (excused => excused') /\ (Refreshes(i) => excused')
    BY <1>0, <2>3, <2>4 DEF Refreshes
  <2> QED
    BY <2>3, <2>4, <2>5, <2>6, CauseOfWork
<1> QED
  BY <1>1, <1>2, <1>3, <1>4, <1>5

LEMMA CauseOfLoad ==
    ASSUME SessionInv, CauseInv, NEW i \in Slots, NEW t \in Tabs, A!Load(i, t)
    PROVE  CauseInv'
<1>0. req \in [Slots -> Requests] /\ t # None
  BY PagesAssumption DEF SessionInv, SessionTypes
<1>1. PICK rs : rs = [j \in Slots |-> IF req[j].tab = t THEN [req[j] EXCEPT !.tab = None] ELSE req[j]]
  OBVIOUS
<1>2. \A j \in Slots : SameWork(rs[j], j) /\ (req[j].tab # t => rs[j].tab = req[j].tab)
  BY <1>0, <1>1 DEF SameWork, Requests
<1>3. UNCHANGED <<rows, ended, cookie>> /\ req[i].at = "free"
  BY DEF A!Load, A!server, A!Vacant
<1>4. /\ excused' \in BOOLEAN /\ (excused => excused')
      /\ ~excused' => A!Pending(t, "refresh") = {} /\ (cookie # 0 => ~A!Overlaps(t))
  <2>1. excused' = (excused \/ A!Pending(t, "refresh") # {} \/ (cookie # 0 /\ A!Overlaps(t)))
    BY DEF A!Load
  <2> QED
    BY <2>1 DEF CauseInv
<1>5. \A j \in Slots : Refreshes(j) /\ ~excused' => rs[j].tab = req[j].tab
  BY <1>2, <1>4 DEF A!Pending, A!UnderWay, Refreshes
<1>6. CASE cookie = 0
  <2>1. req' = rs
    BY <1>1, <1>6 DEF A!Load
  <2>2. Becomes(i, rs[i])
    BY <1>2, <1>5, <2>1 DEF Becomes
  <2>3. /\ rs[i].kind = req[i].kind /\ rs[i].tok = req[i].tok /\ rs[i].at = req[i].at
        /\ rs[i].seen = req[i].seen /\ rs[i].out = req[i].out
    BY <1>2 DEF SameWork
  <2>5. rs[i].tab = req[i].tab \/ (Refreshes(i) => excused')
    BY <1>4, <1>5
  <2> QED
    BY <1>3, <1>4, <2>2, <2>3, <2>5, CauseOfWork
<1>7. CASE cookie # 0
  <2>1. PICK q : q = [A!FreeSlot EXCEPT !.kind = "refresh", !.tab = t, !.tok = cookie, !.at = "sent"]
    OBVIOUS
  <2>2. req' = [rs EXCEPT ![i] = q]
    BY <1>1, <1>7, <2>1 DEF A!Load
  <2>3. q = [at |-> "sent", kind |-> "refresh", tab |-> t, tok |-> cookie, seen |-> {}, out |-> None]
    BY <2>1 DEF A!FreeSlot
  <2>4. req'[i] = q /\ \A j \in Slots : j # i => req'[j] = rs[j]
    BY <1>1, <2>2
  <2>5. Becomes(i, q)
    BY <1>2, <1>5, <2>4 DEF Becomes
  <2>6. ~excused' => \A j \in Slots : ~Refreshes(j)
    BY <1>4, <1>7 DEF A!Pending, A!Overlaps, A!UnderWay, Refreshes
  <2>7. q.kind = "refresh" /\ q.kind \in A!Kinds /\ q.at = "sent" /\ q.tab # None /\ q.tok = cookie
    BY <1>0, <2>3 DEF A!Kinds
  <2>8. q.at # "answered"
    BY <2>7
  <2> QED
    BY <1>3, <1>4, <1>7, <2>5, <2>6, <2>7, <2>8, CauseOfSend
<1> QED
  BY <1>6, <1>7

\* An answer is taken: the cookie is the token it brings, or what it was.
LEMMA CauseOfAnswer ==
    ASSUME SessionInv, CauseInv, NEW i \in Slots, A!Deliver(i)
    PROVE  CauseInv'
<1> USE DEF CauseInv
<1>0. req \in [Slots -> Requests] /\ req[i].at = "answered" /\ req[i].out \in Outs
  BY DEF SessionInv, SessionTypes, A!Deliver
<1>1. /\ req' = [req EXCEPT ![i] = A!FreeSlot] /\ A!FreeSlot.at = "free"
      /\ UNCHANGED <<rows, ended, excused>>
  BY DEF A!Deliver, A!server, A!FreeSlot
<1>2. req'[i].at = "free" /\ \A j \in Slots : j # i => req'[j] = req[j]
  BY <1>0, <1>1
<1>3. \/ cookie' = cookie /\ (req[i].tab = None \/ ~Renewed(i))
      \/ cookie' = 0
      \/ cookie' = req[i].tok /\ Renewed(i)
  <2>1. CASE req[i].tab = None
    BY <2>1 DEF A!Deliver, A!client
  <2>2. CASE req[i].tab # None
    <3>1. cookie' = CASE req[i].out = "session" -> req[i].tok
                      [] req[i].out \in {"denied", "done"} -> 0
                      [] req[i].out = "error" -> cookie
      BY <2>2 DEF A!Deliver
    <3>2. CASE req[i].out = "session"
      BY <1>0, <3>1, <3>2 DEF Renewed
    <3>3. CASE req[i].out \in {"denied", "done"}
      BY <3>1, <3>3
    <3>4. CASE req[i].out = "error"
      BY <3>1, <3>4 DEF Renewed
    <3> QED
      BY <1>0, <3>2, <3>3, <3>4 DEF Outs
  <2> QED
    BY <2>1, <2>2
<1>4. SessionsLast' /\ \A k : Sound(k)' <=> Sound(k)
  BY <1>1, LastsOn
<1>5. KindsOk' /\ RevokesOwn'
  BY <1>1, <1>2 DEF KindsOk, RevokesOwn, Renewed
<1>6. NobodyElses'
  <2>1. ASSUME NEW j \in Slots, Renewed(j)', req'[j].kind = "login"
        PROVE  /\ cookie' # req'[j].tok
               /\ \A m \in Slots : Carries(m)' /\ m # j => req'[m].tok # req'[j].tok
    <3>1. j # i /\ req'[j] = req[j] /\ Renewed(j) /\ req[j].kind = "login"
      BY <1>2, <2>1 DEF Renewed
    <3>2. cookie # req[j].tok /\ \A m \in Slots : Carries(m) /\ m # j => req[m].tok # req[j].tok
      BY <3>1 DEF NobodyElses
    <3>3. req[j].tok \in DOMAIN rows
      BY <3>1 DEF SessionInv, TokensExist, Carries, Renewed
    <3>4. req[j].tok # 0
      BY <3>3, Tokens
    <3>5. Renewed(i) => req[i].tok # req[j].tok
      BY <3>1, <3>2 DEF Carries, Renewed
    <3>6. \A m \in Slots : Carries(m)' => Carries(m) /\ req'[m] = req[m]
      BY <1>2 DEF Carries
    <3> QED
      BY <1>3, <3>1, <3>2, <3>4, <3>5, <3>6
  <2> QED
    BY <2>1 DEF NobodyElses
<1>7. ASSUME ~excused' PROVE Calm'
  <2>1. Calm
    BY <1>1, <1>7
  <2>2. OneRefresh' /\ HoldsSound'
    BY <1>1, <1>2, <1>4, <2>1 DEF Calm, OneRefresh, HoldsSound, Refreshes, Renewed
  <2>3. ASSUME cookie' # 0 PROVE Sound(cookie') \/ \E j \in Slots : Refreshes(j)' /\ Renewed(j)'
    <3>1. CASE cookie' = req[i].tok /\ Renewed(i)
      BY <2>1, <3>1 DEF Calm, HoldsSound
    <3>2. CASE cookie' = cookie /\ (req[i].tab = None \/ ~Renewed(i))
      <4>1. Sound(cookie) \/ \E j \in Slots : Refreshes(j) /\ Renewed(j)
        BY <2>1, <2>3, <3>2 DEF Calm, CookieSound
      <4>2. ~(Refreshes(i) /\ Renewed(i))
        BY <2>1, <3>2 DEF Calm, OneRefresh
      <4>3. \A j \in Slots : Refreshes(j) /\ Renewed(j) => Refreshes(j)' /\ Renewed(j)'
        BY <1>2, <4>2 DEF Refreshes, Renewed
      <4> QED
        BY <3>2, <4>1, <4>3
    <3> QED
      BY <1>3, <2>3, <3>1, <3>2
  <2>4. CookieSound'
    BY <1>1, <2>3 DEF CookieSound, Sound
  <2> QED
    BY <2>2, <2>4 DEF Calm
<1>8. excused' \in BOOLEAN
  BY <1>1
<1> QED
  BY <1>4, <1>5, <1>6, <1>7, <1>8

\* A new token: the families there were keep what they had, or have the new one.
LEMMA TokenLasts ==
    ASSUME SessionInv, CauseInv, UNCHANGED ended, excused => excused', NEW n, n \in DOMAIN rows', rows'[n].live,
           \A k \in DOMAIN rows' : k \in DOMAIN rows \/ k = n,
           \A k \in DOMAIN rows : k \in DOMAIN rows' /\ rows'[k].family = rows[k].family,
           \A k \in DOMAIN rows : rows'[k] = rows[k] \/ rows'[k].family = rows'[n].family
    PROVE  SessionsLast'
<1>1. ASSUME NEW k \in DOMAIN rows'
      PROVE  \/ excused' \/ rows'[k].family \in ended
             \/ \E m \in DOMAIN rows' : rows'[m].family = rows'[k].family /\ rows'[m].live
  <2>1. CASE rows'[k].family = rows'[n].family
    BY <2>1
  <2>2. CASE rows'[k].family # rows'[n].family
    <3>1. k \in DOMAIN rows /\ rows'[k] = rows[k]
      BY <2>2
    <3>2. CASE \E m \in DOMAIN rows : rows[m].family = rows[k].family /\ rows[m].live
      <4>1. PICK m \in DOMAIN rows : rows[m].family = rows[k].family /\ rows[m].live
        BY <3>2
      <4>2. rows'[m] = rows[m] /\ m \in DOMAIN rows'
        BY <2>2, <3>1, <4>1
      <4> QED
        BY <3>1, <4>1, <4>2
    <3> QED
      BY <3>1, <3>2 DEF CauseInv, SessionsLast
  <2> QED
    BY <2>1, <2>2
<1> QED
  BY <1>1 DEF SessionsLast

LEMMA CauseOfSignIn ==
    ASSUME SessionInv, CauseInv, NEW i \in Slots, A!startSession(i)
    PROVE  CauseInv'
<1> USE DEF CauseInv
<1>0. req \in [Slots -> Requests] /\ req[i] \in Requests /\ rows \in Seq([family : Nat, live : BOOLEAN])
  BY DEF SessionInv, SessionTypes
<1>n. Len(rows) \in Nat /\ DOMAIN rows = 1..Len(rows) /\ cookie \in 0..Len(rows)
  BY Tokens DEF SessionInv, SessionTypes
<1>m. PICK n \in Nat : n = Len(rows) + 1
  BY <1>n
<1>1. PICK q : q = [req[i] EXCEPT !.at = "answered", !.out = "session", !.tok = n]
  OBVIOUS
<1>2. /\ req' = [req EXCEPT ![i] = q] /\ UNCHANGED <<cookie, ended, excused>>
      /\ req[i].at = "sent" /\ req[i].kind = "login"
  BY <1>m, <1>1 DEF A!startSession, A!client
<1>3. q.at = "answered" /\ q.out = "session" /\ q.tok = n /\ q.kind = "login" /\ q.tab = req[i].tab
  BY <1>0, <1>1, <1>2 DEF Requests
<1>4. rows' = Append(rows, [family |-> n, live |-> TRUE])
  BY <1>m DEF A!startSession
<1>5. /\ DOMAIN rows' = 1..n /\ n \in DOMAIN rows' /\ n \notin DOMAIN rows
      /\ \A k \in DOMAIN rows : k \in DOMAIN rows' /\ rows'[k] = rows[k]
      /\ rows'[n].live
      /\ \A k \in DOMAIN rows' : k \in DOMAIN rows \/ k = n
  BY <1>0, <1>n, <1>m, <1>4, TokenMade
<1>6. req'[i] = q /\ \A j \in Slots : j # i => req'[j] = req[j]
  BY <1>0, <1>2
<1>7. SessionsLast'
  BY <1>2, <1>5, TokenLasts
<1>8. \A k \in DOMAIN rows : Sound(k) => Sound(k)'
  BY <1>2, <1>5 DEF Sound
<1>t. \A j \in Slots : Carries(j) => req[j].tok \in DOMAIN rows
  BY DEF SessionInv, TokensExist
<1>9. KindsOk'
  BY <1>3, <1>6 DEF KindsOk, Renewed
<1>10. RevokesOwn'
  <2>1. ASSUME NEW j \in Slots, req'[j].at = "revoking", NEW k \in req'[j].seen
        PROVE  k \in DOMAIN rows' /\ rows'[k].family = rows'[req'[j].tok].family
    <3>1. req[j].at = "revoking" /\ req'[j] = req[j] /\ Carries(j)
      BY <1>3, <1>6, <2>1 DEF Carries
    <3>2. k \in DOMAIN rows /\ rows[k].family = rows[req[j].tok].family
      BY <2>1, <3>1 DEF RevokesOwn
    <3> QED
      BY <1>5, <1>t, <3>1, <3>2
  <2> QED
    BY <2>1 DEF RevokesOwn
<1>11. NobodyElses'
  <2>1. ASSUME NEW j \in Slots, Renewed(j)', req'[j].kind = "login"
        PROVE  /\ cookie' # req'[j].tok
               /\ \A m \in Slots : Carries(m)' /\ m # j => req'[m].tok # req'[j].tok
    <3>1. CASE j = i
      <4>1. req'[j].tok = n /\ cookie' # n
        BY <1>n, <1>m, <1>2, <1>3, <1>6, <3>1
      <4>2. \A m \in Slots : Carries(m)' /\ m # j => Carries(m) /\ req'[m] = req[m]
        BY <1>6, <3>1 DEF Carries
      <4> QED
        BY <1>5, <1>t, <4>1, <4>2
    <3>2. CASE j # i
      <4>1. req'[j] = req[j] /\ Renewed(j) /\ req[j].kind = "login" /\ Carries(j)
        BY <1>6, <2>1, <3>2 DEF Renewed, Carries
      <4>2. cookie # req[j].tok /\ \A m \in Slots : Carries(m) /\ m # j => req[m].tok # req[j].tok
        BY <4>1 DEF NobodyElses
      <4>3. \A m \in Slots : Carries(m)' /\ m # i => Carries(m) /\ req'[m] = req[m]
        BY <1>6 DEF Carries
      <4> QED
        BY <1>2, <1>3, <1>5, <1>6, <1>t, <4>1, <4>2, <4>3
    <3> QED
      BY <3>1, <3>2
  <2> QED
    BY <2>1 DEF NobodyElses
<1>12. ASSUME ~excused' PROVE Calm'
  <2>1. Calm
    BY <1>2, <1>12
  <2>2. OneRefresh'
    BY <1>3, <1>6, <2>1 DEF Calm, OneRefresh, Refreshes
  <2>3. Sound(n)'
    BY <1>5 DEF Sound
  <2>4. \A j \in Slots : Refreshes(j) /\ req[j].at \in {"sent", "loaded", "revoke", "outrun", "revoking"} => Carries(j)
    BY DEF Refreshes, Carries
  <2>5. \A j \in Slots : Renewed(j) => Carries(j)
    BY DEF Renewed, Carries
  <2>6. HoldsSound'
    <3>1. ASSUME NEW j \in Slots, j # i
          PROVE  /\ Refreshes(j)' /\ req'[j].at \in {"sent", "loaded"} => Sound(req[j].tok)'
                 /\ Renewed(j)' => Sound(req[j].tok)'
                 /\ Refreshes(j)' /\ req'[j].at \in {"revoke", "outrun", "revoking"}
                        => rows'[req'[j].tok].family \in ended'
      <4>1. req'[j] = req[j] /\ (Refreshes(j)' <=> Refreshes(j)) /\ (Renewed(j)' <=> Renewed(j))
        BY <1>6, <3>1 DEF Refreshes, Renewed
      <4>2. Carries(j) => rows'[req[j].tok] = rows[req[j].tok]
        BY <1>5, <1>t
      <4>3. Sound(req[j].tok)' <=> rows'[req'[j].tok].live \/ rows'[req'[j].tok].family \in ended'
        BY DEF Sound
      <4> QED
        BY <1>2, <2>1, <2>4, <2>5, <4>1, <4>2, <4>3 DEF Calm, HoldsSound, Sound
    <3>2. ~Refreshes(i)' /\ req'[i].tok = n
      BY <1>3, <1>6 DEF Refreshes
    <3>3. Sound(req[i].tok)' <=> rows'[n].live \/ rows'[n].family \in ended'
      BY <3>2 DEF Sound
    <3> QED
      BY <1>5, <3>1, <3>2, <3>3 DEF HoldsSound
  <2>7. CookieSound'
    <3>1. cookie # 0 => cookie \in DOMAIN rows
      BY <1>n
    <3>2. \A j \in Slots : Refreshes(j) /\ Renewed(j) => Refreshes(j)' /\ Renewed(j)'
      BY <1>2, <1>6 DEF Refreshes, Renewed
    <3>3. cookie # 0 => Sound(cookie)' \/ \E j \in Slots : Refreshes(j)' /\ Renewed(j)'
      BY <1>2, <1>8, <2>1, <3>1, <3>2 DEF Calm, CookieSound
    <3> QED
      BY <1>2, <3>3 DEF CookieSound
  <2> QED
    BY <2>2, <2>6, <2>7 DEF Calm
<1>13. excused' \in BOOLEAN
  BY <1>2
<1> QED
  BY <1>7, <1>9, <1>10, <1>11, <1>12, <1>13

LEMMA CauseOfCommit ==
    ASSUME SessionInv, CauseInv, NEW i \in Slots, A!CommitRotation(i)
    PROVE  CauseInv'
<1>n. Len(rows) \in Nat /\ DOMAIN rows = 1..Len(rows) /\ cookie \in 0..Len(rows)
  BY Tokens DEF SessionInv, SessionTypes
<1>m. PICK n \in Nat : n = Len(rows) + 1
  BY <1>n
<1>r. req[i].at = "rotating" /\ UNCHANGED <<cookie, ended>>
  BY DEF A!CommitRotation, A!client
<1>k. req[i].kind = "refresh"
  BY <1>r DEF CauseInv, KindsOk
<1>t. PICK t \in DOMAIN rows : t = req[i].tok
  BY <1>r DEF SessionInv, TokensExist, Carries
<1>0. CommitMade(i, n, t)
  BY <1>m, <1>t, CommitMakes
<1>1. PICK q \in Requests :
         /\ req' = [req EXCEPT ![i] = q]
         /\ q.at = "answered" /\ q.out \in {"session", "error"}
         /\ q.kind = req[i].kind /\ q.tab = req[i].tab
         /\ q.out = "session" => q.tok = n /\ excused' = excused
         /\ q.out = "error" => excused' = TRUE
  BY <1>0 DEF CommitMade
<1>2. /\ DOMAIN rows' = 1..n /\ n \in DOMAIN rows' /\ n \notin DOMAIN rows
      /\ \A k \in DOMAIN rows : k \in DOMAIN rows' /\ rows'[k].family = rows[k].family
      /\ \A k \in DOMAIN rows : k # t => rows'[k] = rows[k]
      /\ rows'[t].family = rows'[n].family /\ rows'[n].live
      /\ \A k \in DOMAIN rows' : k \in DOMAIN rows \/ k = n
  BY <1>n, <1>m, <1>t, <1>0 DEF CommitMade
<1>3. req'[i] = q /\ \A j \in Slots : j # i => req'[j] = req[j]
  BY <1>1 DEF SessionInv, SessionTypes
<1>t1. \A j \in Slots : Carries(j) => req[j].tok \in DOMAIN rows
  BY DEF SessionInv, TokensExist
<1> USE DEF CauseInv
<1>4. excused' \in BOOLEAN /\ (excused => excused')
  <2>1. excused \in BOOLEAN
    OBVIOUS
  <2>2. excused' = excused \/ excused' = TRUE
    BY <1>1
  <2>3. CASE excused' = excused
    BY ONLY <2>1, <2>3
  <2>4. CASE excused' = TRUE
    BY ONLY <2>4
  <2> QED
    BY <2>2, <2>3, <2>4
<1>5. SessionsLast'
  BY <1>r, <1>2, <1>4, TokenLasts
<1>6. KindsOk'
  BY <1>1, <1>3, <1>k DEF KindsOk, Renewed
<1>7. RevokesOwn'
  <2>1. ASSUME NEW j \in Slots, req'[j].at = "revoking", NEW k \in req'[j].seen
        PROVE  k \in DOMAIN rows' /\ rows'[k].family = rows'[req'[j].tok].family
    <3>1. req[j].at = "revoking" /\ req'[j] = req[j] /\ Carries(j)
      BY <1>1, <1>3, <2>1 DEF Carries
    <3>2. k \in DOMAIN rows /\ rows[k].family = rows[req[j].tok].family
      BY <2>1, <3>1 DEF RevokesOwn
    <3> QED
      BY <1>2, <1>t1, <3>1, <3>2
  <2> QED
    BY <2>1 DEF RevokesOwn
<1>8. NobodyElses'
  <2>1. ASSUME NEW j \in Slots, Renewed(j)', req'[j].kind = "login"
        PROVE  /\ cookie' # req'[j].tok
               /\ \A m \in Slots : Carries(m)' /\ m # j => req'[m].tok # req'[j].tok
    <3>1. j # i /\ req'[j] = req[j] /\ Renewed(j) /\ req[j].kind = "login" /\ Carries(j)
      BY <1>1, <1>3, <1>k, <2>1 DEF Renewed, Carries
    <3>2. cookie # req[j].tok /\ \A m \in Slots : Carries(m) /\ m # j => req[m].tok # req[j].tok
      BY <3>1 DEF NobodyElses
    <3>3. \A m \in Slots : Carries(m)' /\ m # i => Carries(m) /\ req'[m] = req[m]
      BY <1>3 DEF Carries
    <3>4. Carries(i)' => req'[i].tok = n
      BY <1>1, <1>3 DEF Carries
    <3> QED
      BY <1>r, <1>2, <1>t1, <3>1, <3>2, <3>3, <3>4
  <2> QED
    BY <2>1 DEF NobodyElses
<1>9. ASSUME ~excused' PROVE Calm'
  <2>1. Calm /\ q.out = "session" /\ q.tok = n
    BY <1>1, <1>4, <1>9
  <2>2. Refreshes(i) /\ Refreshes(i)' /\ Renewed(i)'
    BY <1>1, <1>3, <1>k, <1>r, <2>1 DEF Refreshes, Renewed
  <2>3. \A j \in Slots : j # i => ~Refreshes(j) /\ ~Refreshes(j)'
    BY <1>3, <2>1, <2>2 DEF Calm, OneRefresh, Refreshes
  <2>4. OneRefresh'
    BY <1>1, <1>3, <2>1, <2>2, <2>3 DEF Calm, OneRefresh
  <2>5. HoldsSound'
    <3>1. ASSUME NEW j \in Slots, j # i, Renewed(j)'
          PROVE  Sound(req[j].tok)'
      <4>1. Renewed(j) /\ Carries(j) /\ req'[j] = req[j] /\ req[j].at # "free"
        BY <1>3, <3>1 DEF Renewed, Carries
      <4>2. req[j].kind = "login"
        BY <2>3, <3>1, <4>1 DEF KindsOk, Refreshes
      <4>3. req[j].tok # t /\ req[j].tok \in DOMAIN rows
        BY <1>r, <1>t, <1>t1, <3>1, <4>1, <4>2 DEF NobodyElses, Carries
      <4>4. rows'[req[j].tok] = rows[req[j].tok]
        BY <1>2, <4>3
      <4>5. Sound(req[j].tok)
        BY <2>1, <4>1 DEF Calm, HoldsSound
      <4> QED
        BY <1>r, <4>1, <4>4, <4>5 DEF Sound
    <3>2. rows'[req'[i].tok].live
      BY <1>2, <1>3, <2>1
    <3>3. req'[i].at = "answered"
      BY <1>1, <1>3
    <3>4. ASSUME NEW j \in Slots
          PROVE  /\ ~(Refreshes(j)' /\ req'[j].at \in {"sent", "loaded"})
                 /\ Renewed(j)' => rows'[req'[j].tok].live \/ rows'[req'[j].tok].family \in ended'
                 /\ ~(Refreshes(j)' /\ req'[j].at \in {"revoke", "outrun", "revoking"})
      <4>1. CASE j = i
        BY <3>2, <3>3, <4>1
      <4>2. CASE j # i
        BY <2>3, <3>1, <4>2 DEF Sound
      <4> QED
        BY <4>1, <4>2
    <3> QED
      BY <3>4 DEF HoldsSound, Sound
  <2>6. CookieSound'
    BY <2>2 DEF CookieSound
  <2> QED
    BY <2>4, <2>5, <2>6 DEF Calm
<1> QED
  BY <1>4, <1>5, <1>6, <1>7, <1>8, <1>9

\* What a revocation ends, a sign-out had ended or now does.
LEMMA CauseOfRevoked ==
    ASSUME SessionInv, CauseInv, NEW i \in Slots, A!Revoked(i)
    PROVE  CauseInv'
<1>n. Len(rows) \in Nat /\ DOMAIN rows = 1..Len(rows) /\ cookie \in 0..Len(rows)
  BY Tokens DEF SessionInv, SessionTypes
<1>r. req[i].at = "revoking" /\ UNCHANGED <<cookie, excused>>
  BY DEF A!Revoked, A!client
<1>t. PICK t \in DOMAIN rows : t = req[i].tok
  BY <1>r DEF SessionInv, TokensExist, Carries
<1>0. RevokedMade(i)
  BY RevokedMakes
<1>1. PICK q \in Requests :
         /\ req' = [req EXCEPT ![i] = q]
         /\ q.at = "answered" /\ q.out \in {"done", "denied"}
         /\ q.kind = req[i].kind /\ q.tab = req[i].tab
  BY <1>0 DEF RevokedMade
<1>2. /\ DOMAIN rows' = DOMAIN rows
      /\ \A k \in DOMAIN rows : /\ rows'[k].family = rows[k].family
                                /\ rows'[k].live <=> rows[k].live /\ k \notin req[i].seen
  BY <1>0 DEF RevokedMade
<1>3. req'[i] = q /\ \A j \in Slots : j # i => req'[j] = req[j]
  BY <1>1 DEF SessionInv, SessionTypes
<1>t1. \A j \in Slots : Carries(j) => req[j].tok \in DOMAIN rows
  BY DEF SessionInv, TokensExist
<1> USE DEF CauseInv
<1>4. ended \subseteq ended' /\ (req[i].kind = "logout" => rows[t].family \in ended')
  BY <1>t DEF A!Revoked, A!Family
<1>5. \A k \in req[i].seen : k \in DOMAIN rows => rows[k].family = rows[t].family
  BY <1>r, <1>t DEF RevokesOwn
<1>6. excused \/ rows[t].family \in ended'
  <2>1. req[i].kind \in {"refresh", "logout"}
    BY <1>r DEF KindsOk
  <2>2. CASE req[i].kind = "refresh" /\ ~excused
    BY <1>r, <1>t, <1>4, <2>2 DEF Calm, HoldsSound, Refreshes
  <2> QED
    BY <1>4, <2>1, <2>2
<1>7. SessionsLast'
  <2>1. ASSUME NEW k \in DOMAIN rows
        PROVE  \/ excused \/ rows[k].family \in ended'
               \/ \E m \in DOMAIN rows : rows'[m].family = rows[k].family /\ rows'[m].live
    <3>1. CASE rows[k].family = rows[t].family
      BY <1>6, <3>1
    <3>2. CASE rows[k].family # rows[t].family
      <4>1. \A m \in DOMAIN rows : rows[m].family = rows[k].family /\ rows[m].live =>
                rows'[m].family = rows[k].family /\ rows'[m].live
        BY <1>2, <1>5, <3>2
      <4> QED
        BY <1>4, <4>1 DEF SessionsLast
    <3> QED
      BY <3>1, <3>2
  <2> QED
    BY <1>r, <1>2, <2>1 DEF SessionsLast
<1>8. KindsOk'
  BY <1>1, <1>3 DEF KindsOk, Renewed
<1>9. RevokesOwn'
  <2>1. ASSUME NEW j \in Slots, req'[j].at = "revoking", NEW k \in req'[j].seen
        PROVE  k \in DOMAIN rows' /\ rows'[k].family = rows'[req'[j].tok].family
    <3>1. req[j].at = "revoking" /\ req'[j] = req[j] /\ Carries(j)
      BY <1>1, <1>3, <2>1 DEF Carries
    <3>2. k \in DOMAIN rows /\ rows[k].family = rows[req[j].tok].family
      BY <2>1, <3>1 DEF RevokesOwn
    <3> QED
      BY <1>2, <1>t1, <3>1, <3>2
  <2> QED
    BY <2>1 DEF RevokesOwn
<1>10. \A j \in Slots : /\ Renewed(j)' => Renewed(j) /\ j # i
                        /\ Carries(j)' => Carries(j) /\ j # i
                        /\ Refreshes(j)' => Refreshes(j)
                        /\ Refreshes(j) /\ Renewed(j) => Refreshes(j)' /\ Renewed(j)'
  BY <1>1, <1>3, <1>r DEF Renewed, Carries, Refreshes
<1>11. NobodyElses'
  <2>1. ASSUME NEW j \in Slots, Renewed(j)', req'[j].kind = "login"
        PROVE  /\ cookie' # req'[j].tok
               /\ \A m \in Slots : Carries(m)' /\ m # j => req'[m].tok # req'[j].tok
    BY <1>3, <1>r, <1>10, <2>1 DEF NobodyElses
  <2> QED
    BY <2>1 DEF NobodyElses
<1>12. ASSUME ~excused' PROVE Calm'
  <2>1. Calm /\ rows[t].family \in ended'
    BY <1>r, <1>6, <1>12
  <2>2. ASSUME NEW k \in DOMAIN rows, Sound(k) PROVE rows'[k].live \/ rows'[k].family \in ended'
    BY <1>2, <1>4, <1>5, <2>1, <2>2 DEF Sound
  <2>3. OneRefresh'
    BY <1>1, <1>3, <1>10, <2>1 DEF Calm, OneRefresh
  <2>4. HoldsSound'
    <3>1. ASSUME NEW j \in Slots, j # i
          PROVE  /\ Refreshes(j)' /\ req'[j].at \in {"sent", "loaded"} =>
                        rows'[req'[j].tok].live \/ rows'[req'[j].tok].family \in ended'
                 /\ Renewed(j)' => rows'[req'[j].tok].live \/ rows'[req'[j].tok].family \in ended'
                 /\ Refreshes(j)' /\ req'[j].at \in {"revoke", "outrun", "revoking"}
                        => rows'[req'[j].tok].family \in ended'
      <4>1. req'[j] = req[j] /\ (Refreshes(j)' <=> Refreshes(j)) /\ (Renewed(j)' <=> Renewed(j))
        BY <1>3, <3>1 DEF Refreshes, Renewed
      <4>2. Refreshes(j) /\ req[j].at \in {"sent", "loaded", "revoke", "outrun", "revoking"} => Carries(j)
        BY DEF Refreshes, Carries
      <4>3. Renewed(j) => Carries(j)
        BY DEF Renewed, Carries
      <4> QED
        BY <1>2, <1>4, <1>t1, <2>1, <2>2, <4>1, <4>2, <4>3 DEF Calm, HoldsSound
    <3>2. ~Renewed(i)' /\ req'[i].at = "answered"
      BY <1>1, <1>3, <1>10
    <3> QED
      BY <3>1, <3>2 DEF HoldsSound, Sound
  <2>5. CookieSound'
    <3>1. cookie # 0 => cookie \in DOMAIN rows
      BY <1>n
    <3>2. cookie # 0 => \/ rows'[cookie].live \/ rows'[cookie].family \in ended'
                        \/ \E j \in Slots : Refreshes(j)' /\ Renewed(j)'
      BY <1>10, <2>1, <2>2, <3>1 DEF Calm, CookieSound
    <3> QED
      BY <1>r, <3>2 DEF CookieSound, Sound
  <2> QED
    BY <2>3, <2>4, <2>5 DEF Calm
<1>13. excused' \in BOOLEAN
  BY <1>r
<1> QED
  BY <1>7, <1>8, <1>9, <1>11, <1>12, <1>13

LEMMA CauseStep ==
    ASSUME SessionInv, CauseInv, [Next]_pageVars
    PROVE  CauseInv'
<1>1. A!Next \/ UNCHANGED session
  BY PageSteps
<1>2. CASE UNCHANGED session
  <2>1. UNCHANGED <<cookie, rows, req, ended, excused>>
    BY <1>2 DEF session
  <2>2. KindsOk' /\ RevokesOwn' /\ NobodyElses'
    BY <2>1 DEF CauseInv, KindsOk, RevokesOwn, NobodyElses, Renewed, Carries
  <2>3. Calm' <=> Calm
    BY <2>1 DEF Calm, OneRefresh, HoldsSound, CookieSound, Refreshes, Renewed, Sound
  <2>4. SessionsLast'
    BY <2>1 DEF CauseInv, SessionsLast
  <2> QED
    BY <2>1, <2>2, <2>3, <2>4 DEF CauseInv
<1>3. CASE A!Next
  <2>1. PICK i \in Slots :
           \/ \E t \in Tabs : A!Renew(i, t) \/ A!Login(i, t) \/ A!Logout(i, t) \/ A!Load(i, t)
           \/ A!Serve(i) \/ A!Fail(i) \/ A!Drop(i)
    BY <1>3 DEF A!Next
  <2>2. CASE \E t \in Tabs : A!Renew(i, t) \/ A!Login(i, t) \/ A!Logout(i, t) \/ A!Load(i, t)
    BY <2>2, CauseOfCall, CauseOfLoad
  <2>3. CASE A!GetByHash(i) \/ A!Fail(i) \/ A!Rotate(i) \/ A!RevokeFamily(i) \/ A!Drop(i)
    BY <2>3, CauseOfWorks
  <2>4. CASE A!Deliver(i)
    BY <2>4, CauseOfAnswer
  <2>5. CASE A!startSession(i)
    BY <2>5, CauseOfSignIn
  <2>6. CASE A!CommitRotation(i)
    BY <2>6, CauseOfCommit
  <2>7. CASE A!Revoked(i)
    BY <2>7, CauseOfRevoked
  <2> QED
    BY <2>1, <2>2, <2>3, <2>4, <2>5, <2>6, <2>7 DEF A!Serve
<1> QED
  BY <1>1, <1>2, <1>3

(* Whatever callers share a refresh, and whatever fails, a session nobody  *)
(* signed out of is over only if two tabs refreshed at once or the answer  *)
(* of a refresh was lost: refreshSession (session.ts) never makes the API  *)
(* take a learner for a thief (Refresh in service.go).                     *)
THEOREM SessionsStay == Spec => []SessionsEndForACause
<1>1. SessionInv /\ CauseInv /\ [Next]_pageVars => (SessionInv /\ CauseInv)'
  BY SessionStep, CauseStep
<1>2. CauseInv => SessionsEndForACause
  BY DEF CauseInv, SessionsLast, SessionsEndForACause, A!SessionsEndForACause, A!Live, A!Family
<1> QED
  BY <1>1, <1>2, SessionInit, CauseInit, PTL DEF Spec

-----------------------------------------------------------------------------
(* The e-mail codes.                                                       *)

LEMMA SameSize == \A U : E!Cardinality(U) = Cardinality(U)
  BY DEF E!Cardinality, Cardinality

\* A set in which one member has taken the place of another, or has not.
LEMMA Swapped ==
    ASSUME NEW Old, IsFiniteSet(Old), NEW r, NEW w, NEW New, New \subseteq (Old \ {r}) \union {w}
    PROVE  /\ Cardinality(Old) \in Nat /\ Cardinality(New) \in Nat
           /\ Cardinality(New) <= Cardinality(Old) + 1
           /\ r \in Old => Cardinality(New) <= Cardinality(Old)
           /\ w \notin New => Cardinality(New) <= Cardinality(Old)
           /\ r \in Old /\ w \notin New => Cardinality(New) + 1 <= Cardinality(Old)
<1>1. PICK U : U = Old \ {r}
  OBVIOUS
<1>2. IsFiniteSet(U) /\ Cardinality(U) \in Nat /\ Cardinality(Old) \in Nat
  BY <1>1, FS_RemoveElement, FS_CardinalityType
<1>3. r \in Old => Cardinality(U) = Cardinality(Old) - 1
  BY <1>1, FS_RemoveElement
<1>4. Cardinality(U) <= Cardinality(Old)
  BY <1>1, FS_Subset
<1>5. IsFiniteSet(U \union {w}) /\ Cardinality(U \union {w}) \in Nat
  BY <1>2, FS_AddElement, FS_CardinalityType
<1>6. Cardinality(U \union {w}) <= Cardinality(U) + 1
  <2>1. w \in U => Cardinality(U \union {w}) = Cardinality(U)
    BY <1>2, FS_AddElement
  <2>2. w \notin U => Cardinality(U \union {w}) = Cardinality(U) + 1
    BY <1>2, FS_AddElement
  <2> QED
    BY <1>2, <2>1, <2>2
<1>7. Cardinality(New) \in Nat /\ Cardinality(New) <= Cardinality(U \union {w})
  BY <1>1, <1>5, FS_Subset, FS_CardinalityType
<1>8. w \notin New => Cardinality(New) <= Cardinality(U)
  <2>1. w \notin New => New \subseteq U
    BY <1>1
  <2> QED
    BY <1>2, <2>1, FS_Subset
<1> QED
  BY <1>2, <1>3, <1>4, <1>5, <1>6, <1>7, <1>8

Rows == [id : Nat, open : BOOLEAN, code : Nat, age : Nat, tries : Nat, sends : Nat]

\* A request has these fields, whoever made it.
Shaped(r) == r = [by |-> r.by, what |-> r.what, at |-> r.at, code |-> r.code, id |-> r.id,
                  crossed |-> r.crossed]

CodeTypes ==
    /\ {issued, acted} \subseteq Nat /\ row \in Rows
    /\ uses \in [1..MaxCodes -> Nat] /\ sent \in [asked : Nat, tried : Nat]
    /\ IsFiniteSet(posted) /\ \A r \in posted : Shaped(r)

\* Requests that may still issue a code, and those that may still act on one.
Asking == {r \in posted : r.at = "issue" \/ (r.at = "sent" /\ r.what # "verify")}
Spent  == {r \in posted : r.at = "spent"}
Used   == {c \in DOMAIN uses : uses[c] > 0}

CodesAreAsked == issued + Cardinality(Asking) <= sent.asked /\ sent.asked <= MaxCodes

OpenIsUnused == row.open => issued > 0 /\ row.code = issued /\ uses[issued] = 0

UsedOnce == \A c \in DOMAIN uses : uses[c] <= 1 /\ (uses[c] > 0 => c <= issued)

\* A code that was checked was the last, and may be used while its row is open.
IsChecked(r) ==
    /\ r.code \in 1..issued /\ r.id \in Nat /\ r.id <= row.id
    /\ r.crossed \/ r.code = issued
    /\ row.open /\ row.id = r.id => uses[r.code] = 0

ChecksAreTrue == \A r \in posted : r.at = "checked" => IsChecked(r)

ActedOnce == acted + Cardinality(Spent) <= Cardinality(Used)

CodeInv == /\ CodeTypes /\ CodesAreAsked /\ OpenIsUnused /\ UsedOnce /\ ChecksAreTrue /\ ActedOnce
           /\ strays = {}

LEMMA CodeInit == Init => CodeInv
<1> SUFFICES ASSUME E!CodesInit PROVE CodeInv
  BY DEF Init
<1>1. /\ issued = 0 /\ acted = 0 /\ posted = {} /\ strays = {} /\ uses = [c \in 1..MaxCodes |-> 0]
      /\ row = [id |-> 0, open |-> FALSE, code |-> 0, age |-> 0, tries |-> 0, sends |-> 0]
      /\ sent = [asked |-> 0, tried |-> 0]
  BY DEF E!CodesInit, E!NoCode
<1>2. Asking = {} /\ Spent = {} /\ Used = {}
  BY <1>1 DEF Asking, Spent, Used
<1>3. MaxCodes \in Nat
  BY PagesAssumption
<1>4. CodeTypes
  BY <1>1, FS_EmptySet DEF CodeTypes, Rows
<1>5. CodesAreAsked /\ ActedOnce
  BY <1>1, <1>2, <1>3, FS_EmptySet DEF CodesAreAsked, ActedOnce
<1>6. OpenIsUnused /\ UsedOnce /\ ChecksAreTrue
  BY <1>1 DEF OpenIsUnused, UsedOnce, ChecksAreTrue
<1> QED
  BY <1>1, <1>4, <1>5, <1>6 DEF CodeInv

LEMMA CodeSizes ==
    CodeInv => /\ IsFiniteSet(Asking) /\ Cardinality(Asking) \in Nat
               /\ IsFiniteSet(Spent) /\ Cardinality(Spent) \in Nat
               /\ IsFiniteSet(Used) /\ Cardinality(Used) \in Nat
<1> SUFFICES ASSUME CodeInv PROVE /\ IsFiniteSet(Asking) /\ IsFiniteSet(Spent) /\ IsFiniteSet(Used)
  BY FS_CardinalityType
<1>1. IsFiniteSet(posted) /\ DOMAIN uses = 1..MaxCodes
  <2>1. CodeTypes
    BY DEF CodeInv
  <2>2. IsFiniteSet(posted)
    BY <2>1, Zenon DEF CodeTypes
  <2>3. uses \in [1..MaxCodes -> Nat]
    BY <2>1 DEF CodeTypes
  <2> QED
    BY <2>2, <2>3
<1>2. MaxCodes \in Nat
  BY PagesAssumption
<1>3. IsFiniteSet(1..MaxCodes)
  BY <1>2, FS_Interval
<1> QED
  BY <1>1, <1>3, FS_Subset DEF Asking, Spent, Used

\* Steps that neither issue a code nor accept one.
LEMMA QuietStep ==
    ASSUME CodeInv, UNCHANGED <<issued, uses, strays>>,
           row' \in Rows, row'.id = row.id, row'.open = row.open, row'.code = row.code,
           IsFiniteSet(posted'), \A r \in posted' : Shaped(r),
           \A r \in posted' : r.at = "checked" =>
               r \in posted \/ (row.open /\ r.code = row.code /\ r.id = row.id),
           sent' \in [asked : Nat, tried : Nat], sent'.asked <= MaxCodes,
           issued + Cardinality(Asking') <= sent'.asked,
           acted' \in Nat, acted' + Cardinality(Spent') <= Cardinality(Used)
    PROVE  CodeInv'
<1> USE DEF CodeInv
<1>1. CodeTypes'
  BY DEF CodeTypes
<1>2. CodesAreAsked' /\ ActedOnce'
  BY DEF CodesAreAsked, ActedOnce, Used
<1>3. OpenIsUnused' /\ UsedOnce'
  BY DEF OpenIsUnused, UsedOnce
<1>4. ASSUME NEW r \in posted', r.at = "checked" PROVE IsChecked(r)'
  <2>1. CASE r \in posted
    BY <1>4, <2>1 DEF ChecksAreTrue, IsChecked
  <2>2. CASE row.open /\ r.code = row.code /\ r.id = row.id
    BY <2>2 DEF IsChecked, OpenIsUnused, CodeTypes, Rows
  <2> QED
    BY <1>4, <2>1, <2>2
<1>5. ChecksAreTrue'
  BY <1>4 DEF ChecksAreTrue
<1> QED
  BY <1>1, <1>2, <1>3, <1>5

\* A request is answered, or goes on: what it may still issue or act on.
LEMMA RequestReplaced ==
    ASSUME CodeInv, NEW r \in posted, NEW w, Shaped(w), posted' = (posted \ {r}) \union {w}
    PROVE  /\ IsFiniteSet(posted') /\ \A q \in posted' : Shaped(q)
           /\ Cardinality(Asking') \in Nat /\ Cardinality(Spent') \in Nat
           /\ r \in Asking \/ w \notin Asking' => Cardinality(Asking') <= Cardinality(Asking)
           /\ r \in Asking /\ w \notin Asking' => Cardinality(Asking') + 1 <= Cardinality(Asking)
           /\ Cardinality(Spent') <= Cardinality(Spent) + 1
           /\ w \notin Spent' => Cardinality(Spent') <= Cardinality(Spent)
           /\ r \in Spent /\ w \notin Spent' => Cardinality(Spent') + 1 <= Cardinality(Spent)
<1>1. IsFiniteSet(posted') /\ \A q \in posted' : Shaped(q)
  BY FS_RemoveElement, FS_AddElement DEF CodeInv, CodeTypes
<1>2. IsFiniteSet(Asking) /\ IsFiniteSet(Spent)
  BY CodeSizes
<1>3. Asking' \subseteq (Asking \ {r}) \union {w}
  BY DEF Asking
<1>4. Spent' \subseteq (Spent \ {r}) \union {w}
  BY DEF Spent
<1>5. /\ Cardinality(Asking') \in Nat
      /\ r \in Asking \/ w \notin Asking' => Cardinality(Asking') <= Cardinality(Asking)
      /\ r \in Asking /\ w \notin Asking' => Cardinality(Asking') + 1 <= Cardinality(Asking)
  BY <1>2, <1>3, Swapped
<1>6. /\ Cardinality(Spent') \in Nat /\ Cardinality(Spent') <= Cardinality(Spent) + 1
      /\ w \notin Spent' => Cardinality(Spent') <= Cardinality(Spent)
      /\ r \in Spent /\ w \notin Spent' => Cardinality(Spent') + 1 <= Cardinality(Spent)
  BY <1>2, <1>4, Swapped
<1> QED
  BY <1>1, <1>5, <1>6

LEMMA RequestGone ==
    ASSUME CodeInv, NEW r \in posted, posted' = posted \ {r}
    PROVE  /\ IsFiniteSet(posted') /\ \A q \in posted' : Shaped(q)
           /\ Cardinality(Asking') \in Nat /\ Cardinality(Asking') <= Cardinality(Asking)
           /\ Cardinality(Spent') \in Nat /\ Cardinality(Spent') <= Cardinality(Spent)
<1>1. IsFiniteSet(posted') /\ \A q \in posted' : Shaped(q)
  BY FS_RemoveElement DEF CodeInv, CodeTypes
<1>2. Asking' \subseteq Asking /\ Spent' \subseteq Spent
  BY DEF Asking, Spent
<1> QED
  BY <1>1, <1>2, CodeSizes, FS_Subset, FS_CardinalityType

\* The windows: a request is posted, an answer heard or lost.
LEMMA PostStep ==
    ASSUME CodeInv, NEW v, NEW what, NEW c, E!Post(v, what, c),
           UNCHANGED <<issued, row, uses, strays, acted>>
    PROVE  CodeInv'
<1> USE DEF CodeInv
<1>1. PICK w : w = [by |-> v, what |-> what, at |-> "sent", code |-> c, id |-> 0, crossed |-> FALSE]
  OBVIOUS
<1>2. Shaped(w) /\ w.at = "sent" /\ w.what = what
  BY <1>1 DEF Shaped
<1>3. posted' = posted \union {w}
  BY <1>1 DEF E!Post
<1>4. IsFiniteSet(posted') /\ \A r \in posted' : Shaped(r)
  BY <1>2, <1>3, FS_AddElement DEF CodeTypes
<1>5. Asking' \subseteq (Asking \ {w}) \union {w} /\ (what = "verify" => w \notin Asking')
  BY <1>2, <1>3 DEF Asking
<1>6. /\ Cardinality(Asking') \in Nat /\ Cardinality(Asking) \in Nat
      /\ Cardinality(Asking') <= Cardinality(Asking) + 1
      /\ what = "verify" => Cardinality(Asking') <= Cardinality(Asking)
  BY <1>5, CodeSizes, Swapped
<1>7. Spent' = Spent
  BY <1>2, <1>3 DEF Spent
<1>8. sent' \in [asked : Nat, tried : Nat] /\ sent'.asked <= MaxCodes
      /\ issued + Cardinality(Asking') <= sent'.asked
  <2>1. sent.asked \in Nat /\ sent.tried \in Nat /\ issued \in Nat /\ MaxCodes \in Nat
    BY PagesAssumption DEF CodeTypes
  <2>2. CASE what = "verify"
    <3>1. sent' = [asked |-> sent.asked, tried |-> sent.tried + 1]
      BY <2>2 DEF E!Post, CodeTypes
    <3> QED
      BY <1>6, <2>1, <2>2, <3>1 DEF CodesAreAsked
  <2>3. CASE what # "verify"
    <3>1. sent' = [asked |-> sent.asked + 1, tried |-> sent.tried] /\ sent.asked < MaxCodes
      BY <2>3 DEF E!Post, CodeTypes
    <3> QED
      BY <1>6, <2>1, <3>1 DEF CodesAreAsked
  <2> QED
    BY <2>2, <2>3
<1>9. \A r \in posted' : r.at = "checked" => r \in posted
  BY <1>2, <1>3
<1>10. acted' \in Nat /\ acted' + Cardinality(Spent') <= Cardinality(Used) /\ row' \in Rows
  BY <1>7 DEF ActedOnce, CodeTypes
<1> QED
  BY <1>4, <1>8, <1>9, <1>10, QuietStep

LEMMA WindowSteps ==
    ASSUME CodeInv,
           \/ \E w \in Windows : \/ E!sendCode(w) \/ E!onResend(w) \/ E!deleteNow(w) \/ E!Back(w)
                                 \/ \E c \in inbox \union {E!NoCode} : E!OtpInput(w, c)
           \/ \E r \in posted : E!HearSent(r) \/ E!HearVerified(r)
    PROVE  CodeInv'
<1> USE DEF CodeInv, E!Client
<1>q. ASSUME UNCHANGED <<issued, row, uses, strays, acted, posted, sent>> PROVE CodeInv'
  BY <1>q DEF CodeTypes, CodesAreAsked, Asking, OpenIsUnused, UsedOnce, ChecksAreTrue, IsChecked,
     ActedOnce, Spent, Used
<1>1. ASSUME NEW w \in Windows, E!sendCode(w) \/ E!onResend(w) \/ E!deleteNow(w) PROVE CodeInv'
  <2>1. PICK what, c : E!Post(w, what, c)
    BY <1>1 DEF E!sendCode, E!onResend, E!deleteNow
  <2>2. UNCHANGED <<issued, row, uses, strays, acted>>
    BY <1>1 DEF E!sendCode, E!onResend, E!deleteNow
  <2> QED
    BY <2>1, <2>2, PostStep
<1>2. ASSUME NEW w \in Windows, E!Back(w) PROVE CodeInv'
  BY <1>2, <1>q DEF E!Back
<1>3. ASSUME NEW w \in Windows, NEW c, E!OtpInput(w, c) PROVE CodeInv'
  <2>1. UNCHANGED <<issued, row, uses, strays, acted>>
    BY <1>3 DEF E!OtpInput
  <2>2. CASE purpose.auto
    <3>1. E!Post(w, "verify", c)
      BY <1>3, <2>2 DEF E!OtpInput
    <3> QED
      BY <2>1, <3>1, PostStep
  <2>3. CASE ~purpose.auto
    BY <1>3, <1>q, <2>1, <2>3 DEF E!OtpInput
  <2> QED
    BY <2>2, <2>3
<1>4. ASSUME NEW r \in posted, E!HearSent(r) \/ E!HearVerified(r) PROVE CodeInv'
  <2>1. posted' = posted \ {r} /\ UNCHANGED <<issued, row, uses, strays, acted, sent>>
    BY <1>4 DEF E!HearSent, E!HearVerified
  <2>2. /\ IsFiniteSet(posted') /\ \A q \in posted' : Shaped(q)
        /\ Cardinality(Asking') \in Nat /\ Cardinality(Asking') <= Cardinality(Asking)
        /\ Cardinality(Spent') \in Nat /\ Cardinality(Spent') <= Cardinality(Spent)
    BY <2>1, RequestGone
  <2>3. {issued, acted, sent.asked, Cardinality(Asking), Cardinality(Spent), Cardinality(Used)} \subseteq Nat
    BY CodeSizes DEF CodeTypes
  <2>4. issued + Cardinality(Asking') <= sent.asked /\ acted + Cardinality(Spent') <= Cardinality(Used)
    BY <2>2, <2>3 DEF CodesAreAsked, ActedOnce
  <2> QED
    BY <2>1, <2>2, <2>4, QuietStep DEF CodeTypes, CodesAreAsked
<1> QED
  BY <1>1, <1>2, <1>3, <1>4

\* A statement of the server that neither issues a code nor accepts one.
LEMMA ServeStep ==
    ASSUME CodeInv, NEW r \in posted, NEW w, Shaped(w), E!Becomes(r, w),
           UNCHANGED <<issued, uses, strays, acted, sent>>,
           row' \in Rows, row'.id = row.id, row'.open = row.open, row'.code = row.code,
           w.at # "spent", w.at \notin {"issue", "sent"} \/ r \in Asking,
           w.at = "checked" => row.open /\ w.code = row.code /\ w.id = row.id
    PROVE  CodeInv'
<1> USE DEF CodeInv
<1>1. posted' = (posted \ {r}) \union {w}
  BY DEF E!Becomes
<1>2. w \notin Spent' /\ (r \in Asking \/ w \notin Asking')
  BY DEF Asking, Spent
<1>3. /\ IsFiniteSet(posted') /\ \A q \in posted' : Shaped(q)
      /\ Cardinality(Asking') \in Nat /\ Cardinality(Spent') \in Nat
      /\ Cardinality(Asking') <= Cardinality(Asking)
      /\ Cardinality(Spent') <= Cardinality(Spent)
  BY <1>1, <1>2, RequestReplaced
<1>4. {issued, acted, sent.asked, Cardinality(Asking), Cardinality(Spent), Cardinality(Used)} \subseteq Nat
  BY CodeSizes DEF CodeTypes
<1>5. issued + Cardinality(Asking') <= sent.asked /\ acted + Cardinality(Spent') <= Cardinality(Used)
  BY <1>3, <1>4 DEF CodesAreAsked, ActedOnce
<1>6. \A q \in posted' : q.at = "checked" =>
          q \in posted \/ (row.open /\ q.code = row.code /\ q.id = row.id)
  BY <1>1
<1> QED
  BY <1>3, <1>5, <1>6, QuietStep DEF CodeTypes, CodesAreAsked

LEMMA FailedShape ==
    ASSUME NEW r, Shaped(r), NEW at, NEW w, w = [r EXCEPT !.at = at]
    PROVE  Shaped(w) /\ w.at = at /\ w.code = r.code /\ w.id = r.id /\ w.crossed = r.crossed /\ w.what = r.what
<1>1. w = [by |-> r.by, what |-> r.what, at |-> at, code |-> r.code, id |-> r.id, crossed |-> r.crossed]
  BY DEF Shaped
<1> QED
  BY <1>1 DEF Shaped

LEMMA FailStep ==
    ASSUME CodeInv, NEW r \in posted, E!Fail(r), UNCHANGED <<issued, uses, strays, acted, sent>>,
           row' \in Rows, row'.id = row.id, row'.open = row.open, row'.code = row.code
    PROVE  CodeInv'
<1>1. Shaped(r)
  BY DEF CodeInv, CodeTypes
<1>2. PICK w : w = [r EXCEPT !.at = "failed"]
  OBVIOUS
<1>3. Shaped(w) /\ w.at = "failed" /\ E!Becomes(r, w)
  BY <1>1, <1>2, FailedShape DEF E!Fail
<1> QED
  BY <1>3, ServeStep

LEMMA ServerSteps ==
    ASSUME CodeInv, NEW r \in posted,
           \/ E!LoseAnswer(r) \/ E!StartEmailChallenge(r) \/ E!ResendEmailChallenge(r)
           \/ E!ConsumeEmailCode(r) \/ E!IncrementAttempts(r) \/ E!ActFails(r)
    PROVE  CodeInv'
<1> USE DEF E!Client, E!Server
<1>r. row \in Rows /\ Shaped(r)
  BY DEF CodeInv, CodeTypes
<1>1. CASE E!LoseAnswer(r)
  BY <1>1, <1>r, FailStep DEF E!LoseAnswer
<1>2. CASE E!ActFails(r)
  BY <1>2, <1>r, FailStep DEF E!ActFails
<1>3. CASE E!StartEmailChallenge(r)
  <2>1. UNCHANGED <<issued, uses, strays, acted, sent, row>> /\ r \in Asking
    BY <1>3 DEF E!StartEmailChallenge, Asking
  <2>2. CASE E!Fail(r)
    BY <1>r, <2>1, <2>2, FailStep
  <2>3. CASE E!Becomes(r, [r EXCEPT !.at = "answered", !.code = row.code])
    <3>1. PICK w : w = [r EXCEPT !.at = "answered", !.code = row.code]
      OBVIOUS
    <3>2. w = [by |-> r.by, what |-> r.what, at |-> "answered", code |-> row.code, id |-> r.id,
               crossed |-> r.crossed]
      BY <1>r, <3>1 DEF Shaped
    <3>3. Shaped(w) /\ w.at = "answered" /\ E!Becomes(r, w)
      BY <2>3, <3>1, <3>2 DEF Shaped
    <3> QED
      BY <1>r, <2>1, <3>3, ServeStep
  <2>4. CASE E!Becomes(r, [r EXCEPT !.at = "issue"])
    <3>1. PICK w : w = [r EXCEPT !.at = "issue"]
      OBVIOUS
    <3>2. Shaped(w) /\ w.at = "issue" /\ E!Becomes(r, w)
      BY <1>r, <2>4, <3>1, FailedShape
    <3> QED
      BY <1>r, <2>1, <3>2, ServeStep
  <2> QED
    BY <1>3, <2>2, <2>3, <2>4 DEF E!StartEmailChallenge
<1>4. CASE E!ResendEmailChallenge(r)
  <2>1. UNCHANGED <<issued, uses, strays, acted, sent, row>> /\ r \in Asking
    BY <1>4 DEF E!ResendEmailChallenge, Asking
  <2>2. CASE E!Fail(r)
    BY <1>r, <2>1, <2>2, FailStep
  <2>3. CASE E!Becomes(r, [r EXCEPT !.at = "issue"])
    <3>1. PICK w : w = [r EXCEPT !.at = "issue"]
      OBVIOUS
    <3>2. Shaped(w) /\ w.at = "issue" /\ E!Becomes(r, w)
      BY <1>r, <2>3, <3>1, FailedShape
    <3> QED
      BY <1>r, <2>1, <3>2, ServeStep
  <2> QED
    BY <1>4, <2>2, <2>3 DEF E!ResendEmailChallenge
<1>5. CASE E!ConsumeEmailCode(r)
  <2>1. UNCHANGED <<issued, uses, strays, acted, sent, row>>
    BY <1>5 DEF E!ConsumeEmailCode
  <2>2. CASE E!Fail(r)
    BY <1>r, <2>1, <2>2, FailStep
  <2>3. CASE ~E!Fail(r)
    <3>1. PICK at \in {"checked", "wrong"} :
             /\ row.open /\ (at = "checked" => r.code = row.code)
             /\ E!Becomes(r, [r EXCEPT !.at = at, !.id = row.id])
      BY <1>5, <2>3 DEF E!ConsumeEmailCode
    <3>2. PICK w : w = [r EXCEPT !.at = at, !.id = row.id]
      OBVIOUS
    <3>3. w = [by |-> r.by, what |-> r.what, at |-> at, code |-> r.code, id |-> row.id, crossed |-> r.crossed]
      BY <1>r, <3>2 DEF Shaped
    <3>4. /\ Shaped(w) /\ w.at = at /\ w.code = r.code /\ w.id = row.id
          /\ E!Becomes(r, w)
      BY <3>1, <3>2, <3>3 DEF Shaped
    <3> QED
      BY <1>r, <2>1, <3>1, <3>4, ServeStep
  <2> QED
    BY <2>2, <2>3
<1>6. CASE E!IncrementAttempts(r)
  <2>1. E!Fail(r) /\ UNCHANGED <<issued, uses, strays, acted, sent>>
    BY <1>6 DEF E!IncrementAttempts
  <2>2. row' \in Rows /\ row'.id = row.id /\ row'.open = row.open /\ row'.code = row.code
    <3>1. CASE row' = row
      BY <1>r, <3>1
    <3>2. CASE row' = [row EXCEPT !.tries = @ + 1]
      <4>1. row' = [id |-> row.id, open |-> row.open, code |-> row.code, age |-> row.age,
                    tries |-> row.tries + 1, sends |-> row.sends]
        BY <1>r, <3>2 DEF Rows
      <4>2. row.tries + 1 \in Nat
        BY <1>r DEF Rows
      <4> QED
        BY <1>r, <4>1, <4>2 DEF Rows
    <3> QED
      BY <1>6, <3>1, <3>2 DEF E!IncrementAttempts
  <2> QED
    BY <2>1, <2>2, FailStep
<1> QED
  BY <1>1, <1>2, <1>3, <1>4, <1>5, <1>6

LEMMA PassStep ==
    ASSUME CodeInv, E!Pass
    PROVE  CodeInv'
<1>1. row \in Rows
  BY DEF CodeInv, CodeTypes
<1>2. row' = [id |-> row.id, open |-> row.open, code |-> row.code, age |-> row.age + 1,
              tries |-> row.tries, sends |-> row.sends]
  BY <1>1 DEF E!Pass, Rows
<1>3. row' \in Rows /\ row'.id = row.id /\ row'.open = row.open /\ row'.code = row.code
  <2>1. row.age + 1 \in Nat
    BY <1>1 DEF Rows
  <2> QED
    BY <1>1, <1>2, <2>1 DEF Rows
<1>4. UNCHANGED <<issued, uses, strays, acted, sent, posted>>
  BY DEF E!Pass
<1>5. Asking' = Asking /\ Spent' = Spent
  BY <1>4 DEF Asking, Spent
<1> QED
  BY <1>3, <1>4, <1>5, QuietStep DEF CodeInv, CodeTypes, CodesAreAsked, ActedOnce

\* Another code was issued while these were between their check and their use.
Crossing(q) == IF q.at = "checked" THEN [q EXCEPT !.crossed = TRUE] ELSE q

LEMMA CrossingKeeps ==
    ASSUME NEW q, Shaped(q)
    PROVE  /\ Shaped(Crossing(q)) /\ Crossing(q).at = q.at /\ Crossing(q).what = q.what
           /\ Crossing(q).code = q.code /\ Crossing(q).id = q.id
           /\ q.at = "checked" => Crossing(q).crossed
           /\ q.at # "checked" => Crossing(q) = q
<1>1. CASE q.at = "checked"
  <2>1. Crossing(q) = [by |-> q.by, what |-> q.what, at |-> q.at, code |-> q.code, id |-> q.id, crossed |-> TRUE]
    BY <1>1 DEF Crossing, Shaped
  <2> QED
    BY <1>1, <2>1 DEF Shaped
<1>2. CASE q.at # "checked"
  BY <1>2 DEF Crossing
<1> QED
  BY <1>1, <1>2

LEMMA IssueStep ==
    ASSUME CodeInv, NEW r \in posted, E!issueEmailCode(r)
    PROVE  CodeInv'
<1> USE DEF CodeInv, E!Server
<1>1. /\ row \in Rows /\ Shaped(r) /\ issued \in Nat /\ MaxCodes \in Nat /\ IsFiniteSet(posted)
      /\ \A q \in posted : Shaped(q)
  BY PagesAssumption DEF CodeTypes
<1>2. PICK n \in Nat : n = issued + 1
  BY <1>1
<1>3. /\ r.at = "issue" /\ issued' = n /\ r \in Asking
      /\ UNCHANGED <<uses, strays, acted, sent>>
  BY <1>2 DEF E!issueEmailCode, Asking
<1>4. PICK at \in {"answered", "failed"} :
         posted' = {Crossing(q) : q \in posted \ {r}} \union {[r EXCEPT !.at = at, !.code = n]}
  BY <1>2 DEF E!issueEmailCode, Crossing
<1>5. PICK w : w = [r EXCEPT !.at = at, !.code = n]
  OBVIOUS
<1>6. Shaped(w) /\ w.at = at
  <2>1. w = [by |-> r.by, what |-> r.what, at |-> at, code |-> n, id |-> r.id, crossed |-> r.crossed]
    BY <1>1, <1>5 DEF Shaped
  <2> QED
    BY <2>1 DEF Shaped
<1>7. PICK Rest, C : Rest = posted \ {r} /\ C = {Crossing(q) : q \in Rest}
  OBVIOUS
<1>8. posted' = C \union {w}
  BY <1>4, <1>5, <1>7
<1>9. IsFiniteSet(posted')
  <2>1. IsFiniteSet(Rest)
    BY <1>1, <1>7, FS_RemoveElement
  <2>2. PICK f : f = [q \in Rest |-> Crossing(q)]
    OBVIOUS
  <2>3. f \in Surjection(Rest, C)
    BY <1>7, <2>2 DEF Surjection
  <2> QED
    BY <1>8, <2>1, <2>3, FS_Surjection, FS_AddElement
<1>10. ASSUME NEW x \in posted', x # w
       PROVE  \E q \in posted \ {r} : /\ x = Crossing(q) /\ Shaped(x) /\ x.at = q.at /\ x.what = q.what
                                      /\ x.code = q.code /\ x.id = q.id
                                      /\ q.at = "checked" => x.crossed
                                      /\ q.at # "checked" => x = q
  <2>1. PICK q \in posted \ {r} : x = Crossing(q)
    BY <1>7, <1>8, <1>10
  <2> QED
    BY <1>1, <2>1, CrossingKeeps
<1>11. \A x \in posted' : Shaped(x)
  BY <1>6, <1>10
<1>12. Asking' \subseteq (Asking \ {r}) \union {w} /\ w \notin Asking'
  BY <1>6, <1>10 DEF Asking
<1>13. Spent' \subseteq Spent
  BY <1>6, <1>10 DEF Spent
<1>14. /\ {Cardinality(Asking), Cardinality(Asking'), Cardinality(Spent), Cardinality(Spent')} \subseteq Nat
       /\ Cardinality(Asking') + 1 <= Cardinality(Asking)
       /\ Cardinality(Spent') <= Cardinality(Spent)
  BY <1>3, <1>12, <1>13, CodeSizes, Swapped, FS_Subset, FS_CardinalityType
<1>15. n \in 1..MaxCodes /\ n + Cardinality(Asking') <= sent.asked
  <2>1. sent.asked \in Nat
    BY DEF CodeTypes
  <2> QED
    BY <1>1, <1>2, <1>14, <2>1 DEF CodesAreAsked
<1>16. /\ row' \in Rows /\ row'.open /\ row'.code = n
       /\ row'.id = IF row.open THEN row.id ELSE row.id + 1
  <2>1. PICK id \in Nat : id = IF row.open THEN row.id ELSE row.id + 1
    BY <1>1 DEF Rows
  <2>2. PICK s \in Nat : s = IF row.open THEN row.sends + 1 ELSE 1
    BY <1>1 DEF Rows
  <2>3. row' = [id |-> id, open |-> TRUE, code |-> n, age |-> 0, tries |-> 0, sends |-> s]
    BY <1>2, <2>1, <2>2 DEF E!issueEmailCode
  <2> QED
    BY <2>1, <2>3 DEF Rows
<1>17. CodeTypes'
  BY <1>2, <1>3, <1>9, <1>11, <1>16 DEF CodeTypes
<1>18. CodesAreAsked' /\ ActedOnce'
  <2>1. {acted, Cardinality(Used)} \subseteq Nat
    BY CodeSizes DEF CodeTypes
  <2>2. Used' = Used
    BY <1>3 DEF Used
  <2> QED
    BY <1>3, <1>14, <1>15, <2>1, <2>2 DEF CodesAreAsked, ActedOnce
<1>19. uses[n] = 0
  <2>1. n \in DOMAIN uses /\ uses[n] \in Nat
    BY <1>15 DEF CodeTypes
  <2> QED
    BY <1>1, <1>2, <2>1 DEF UsedOnce
<1>20. OpenIsUnused'
  BY <1>2, <1>1, <1>3, <1>16, <1>19 DEF OpenIsUnused
<1>21. UsedOnce'
  BY <1>1, <1>2, <1>3 DEF UsedOnce, CodeTypes
<1>22. ChecksAreTrue'
  <2>1. ASSUME NEW x \in posted', x.at = "checked" PROVE IsChecked(x)'
    <3>1. x # w
      BY <1>6, <2>1
    <3>2. PICK q \in posted : /\ q.at = "checked" /\ x.code = q.code /\ x.id = q.id /\ x.crossed
      BY <1>10, <2>1, <3>1
    <3>3. /\ q.code \in 1..issued /\ q.id \in Nat /\ q.id <= row.id
          /\ row.open /\ row.id = q.id => uses[q.code] = 0
      BY <3>2 DEF ChecksAreTrue, IsChecked
    <3>4. row.id \in Nat
      BY <1>1 DEF Rows
    <3>5. x.code \in 1..issued' /\ x.id \in Nat
      BY <1>1, <1>2, <1>3, <3>2, <3>3
    <3>6. x.id <= row'.id /\ (row'.id = x.id => row.open /\ row.id = x.id)
      BY <1>16, <3>2, <3>3, <3>4
    <3>7. row'.id = x.id => uses'[x.code] = 0
      BY <1>3, <3>2, <3>3, <3>6
    <3> QED
      BY <3>2, <3>5, <3>6, <3>7 DEF IsChecked
  <2> QED
    BY <2>1 DEF ChecksAreTrue
<1> QED
  BY <1>3, <1>17, <1>18, <1>20, <1>21, <1>22

\* A code that was checked is used, if its row is still open.
LEMMA AcceptStep ==
    ASSUME CodeInv, NEW r \in posted, r.at = "checked", row.open, row.id = r.id, E!Accept(r),
           UNCHANGED <<issued, acted, sent>>
    PROVE  CodeInv'
<1> USE DEF CodeInv
<1>1. /\ row \in Rows /\ Shaped(r) /\ issued \in Nat /\ uses \in [1..MaxCodes -> Nat] /\ MaxCodes \in Nat
  BY PagesAssumption DEF CodeTypes
<1>2. PICK c \in 1..issued : c = r.code /\ uses[c] = 0 /\ (r.crossed \/ c = issued)
  BY DEF ChecksAreTrue, IsChecked
<1>3. c \in 1..MaxCodes
  <2>1. issued <= MaxCodes
    BY <1>1, CodeSizes DEF CodesAreAsked, CodeTypes
  <2> QED
    BY <1>1, <1>2, <2>1
<1>4. PICK w : w = [r EXCEPT !.at = "spent"]
  OBVIOUS
<1>5. Shaped(w) /\ w.at = "spent" /\ posted' = (posted \ {r}) \union {w}
  <2>1. Shaped(w) /\ w.at = "spent"
    BY <1>1, <1>4, FailedShape, Zenon
  <2>2. posted' = (posted \ {r}) \union {w}
    <3>1. E!Becomes(r, [r EXCEPT !.at = "spent"])
      BY DEF E!Accept
    <3> QED
      BY <1>4, <3>1 DEF E!Becomes
  <2> QED
    BY <2>1, <2>2
<1>6. w \notin Asking' /\ r \notin Spent
  BY <1>5 DEF Asking, Spent
<1>7. /\ IsFiniteSet(posted') /\ \A q \in posted' : Shaped(q)
      /\ Cardinality(Asking') \in Nat /\ Cardinality(Asking') <= Cardinality(Asking)
      /\ Cardinality(Spent') \in Nat /\ Cardinality(Spent') <= Cardinality(Spent) + 1
  BY <1>5, <1>6, RequestReplaced
<1>8. uses' = [uses EXCEPT ![c] = 1]
  BY <1>1, <1>2, <1>3 DEF E!Accept
<1>9. /\ uses' \in [1..MaxCodes -> Nat] /\ uses'[c] = 1
      /\ \A d \in 1..MaxCodes : d # c => uses'[d] = uses[d]
  BY <1>1, <1>3, <1>8
<1>10. row' = [id |-> row.id, open |-> FALSE, code |-> row.code, age |-> row.age, tries |-> row.tries,
               sends |-> row.sends]
  BY <1>1 DEF E!Accept, Rows
<1>11. row' \in Rows /\ row'.id = row.id /\ ~row'.open
  BY <1>1, <1>10 DEF Rows
<1>12. CodeTypes'
  BY <1>1, <1>7, <1>9, <1>11 DEF CodeTypes
<1>13. CodesAreAsked'
  <2>1. sent.asked \in Nat /\ Cardinality(Asking) \in Nat
    BY CodeSizes DEF CodeTypes
  <2> QED
    BY <1>1, <1>7, <2>1 DEF CodesAreAsked
<1>14. OpenIsUnused'
  BY <1>11 DEF OpenIsUnused
<1>15. UsedOnce'
  BY <1>1, <1>2, <1>9 DEF UsedOnce
<1>16. ChecksAreTrue'
  BY <1>5, <1>11 DEF ChecksAreTrue, IsChecked
<1>17. ActedOnce'
  <2>1. Used' = Used \union {c} /\ c \notin Used
    BY <1>1, <1>2, <1>3, <1>9 DEF Used
  <2>2. Cardinality(Used') = Cardinality(Used) + 1
    BY <2>1, CodeSizes, FS_AddElement
  <2>3. {acted, Cardinality(Spent), Cardinality(Used)} \subseteq Nat
    BY CodeSizes DEF CodeTypes
  <2> QED
    BY <1>7, <2>2, <2>3 DEF ActedOnce
<1>18. strays' = {}
  BY <1>2 DEF E!Accept
<1> QED
  BY <1>12, <1>13, <1>14, <1>15, <1>16, <1>17, <1>18

LEMMA ConsumeStep ==
    ASSUME CodeInv, NEW r \in posted, E!Consume(r)
    PROVE  CodeInv'
<1> USE DEF E!Server
<1>1. CASE row.open /\ row.id = r.id
  BY <1>1, AcceptStep DEF E!Consume
<1>2. CASE ~(row.open /\ row.id = r.id)
  <2>1. row \in Rows
    BY DEF CodeInv, CodeTypes
  <2> QED
    BY <1>2, <2>1, FailStep DEF E!Consume
<1> QED
  BY <1>1, <1>2

LEMMA ActStep ==
    ASSUME CodeInv, NEW r \in posted, E!VerifyEmailSignup(r)
    PROVE  CodeInv'
<1> USE DEF E!Server
<1>1. row \in Rows /\ Shaped(r) /\ r \in Spent
  BY DEF CodeInv, CodeTypes, E!VerifyEmailSignup, Spent
<1>2. UNCHANGED <<issued, row, uses, strays, sent>>
  BY DEF E!VerifyEmailSignup
<1>3. CASE E!Taken
  BY <1>1, <1>2, <1>3, FailStep DEF E!VerifyEmailSignup
<1>4. CASE ~E!Taken
  <2>1. PICK w : w = [r EXCEPT !.at = "answered"]
    OBVIOUS
  <2>2. Shaped(w) /\ w.at = "answered" /\ acted' = acted + 1 /\ posted' = (posted \ {r}) \union {w}
    BY <1>1, <1>4, <2>1, FailedShape DEF E!VerifyEmailSignup, E!Becomes
  <2>3. w \notin Asking' /\ w \notin Spent'
    BY <2>2 DEF Asking, Spent
  <2>4. /\ IsFiniteSet(posted') /\ \A q \in posted' : Shaped(q)
        /\ Cardinality(Asking') \in Nat /\ Cardinality(Asking') <= Cardinality(Asking)
        /\ Cardinality(Spent') \in Nat /\ Cardinality(Spent') + 1 <= Cardinality(Spent)
    BY <1>1, <2>2, <2>3, RequestReplaced
  <2>5. {issued, acted, sent.asked, Cardinality(Asking), Cardinality(Spent), Cardinality(Used)} \subseteq Nat
    BY CodeSizes DEF CodeInv, CodeTypes
  <2>6. /\ issued + Cardinality(Asking') <= sent.asked
        /\ acted' \in Nat /\ acted' + Cardinality(Spent') <= Cardinality(Used)
    BY <2>2, <2>4, <2>5 DEF CodeInv, CodesAreAsked, ActedOnce
  <2>7. \A q \in posted' : q.at = "checked" => q \in posted
    BY <2>2
  <2> QED
    BY <1>1, <1>2, <2>4, <2>6, <2>7, QuietStep DEF CodeInv, CodeTypes, CodesAreAsked
<1> QED
  BY <1>3, <1>4

(* A code sent by e-mail counts once, however many windows try it at once, *)
(* and while it is the last that was issued, or until another is issued    *)
(* between its check and its use; and what it was for is done once at most *)
(* for each code (ConsumeEmailCode and Consume in auth/email_signup.go).   *)
THEOREM CodesAreSpent == Spec => []CodesCountOnce
<1>1. CodeInv /\ [Next]_pageVars => CodeInv'
  <2> SUFFICES ASSUME CodeInv, [Next]_pageVars PROVE CodeInv'
    OBVIOUS
  <2>1. CASE UNCHANGED codes
    BY <2>1 DEF codes, CodeInv, CodeTypes, CodesAreAsked, Asking, OpenIsUnused, UsedOnce, ChecksAreTrue,
       IsChecked, ActedOnce, Spent, Used
  <2>2. CASE E!CodesNext
    <3>1. CASE \/ \E w \in Windows : \/ E!sendCode(w) \/ E!onResend(w) \/ E!deleteNow(w) \/ E!Back(w)
                                     \/ \E c \in inbox \union {E!NoCode} : E!OtpInput(w, c)
               \/ \E r \in posted : E!HearSent(r) \/ E!HearVerified(r)
      BY <3>1, WindowSteps
    <3>2. CASE \E r \in posted : \/ E!LoseAnswer(r) \/ E!StartEmailChallenge(r) \/ E!ResendEmailChallenge(r)
                                 \/ E!ConsumeEmailCode(r) \/ E!IncrementAttempts(r) \/ E!ActFails(r)
      BY <3>2, ServerSteps
    <3>3. CASE \E r \in posted : E!issueEmailCode(r)
      BY <3>3, IssueStep
    <3>4. CASE \E r \in posted : E!Consume(r)
      BY <3>4, ConsumeStep
    <3>5. CASE \E r \in posted : E!VerifyEmailSignup(r)
      BY <3>5, ActStep
    <3>6. CASE E!Pass
      BY <3>6, PassStep
    <3> QED
      BY <2>2, <3>1, <3>2, <3>3, <3>4, <3>5, <3>6 DEF E!CodesNext
  <2> QED
    BY <2>1, <2>2, PageSteps
<1>2. CodeInv => CodesCountOnce
  <2> SUFFICES ASSUME CodeInv PROVE E!CodesCountOnce
    BY DEF CodesCountOnce
  <2>1. acted <= Cardinality(Used)
    BY CodeSizes DEF CodeInv, CodeTypes, ActedOnce
  <2>2. (\A c \in DOMAIN uses : uses[c] <= 1) /\ strays = {}
    BY DEF CodeInv, UsedOnce
  <2> QED
    BY <2>1, <2>2, SameSize DEF E!CodesCountOnce, Used
<1> QED
  BY <1>1, <1>2, CodeInit, PTL DEF Spec

-----------------------------------------------------------------------------
(* A run of grammar practice.                                              *)

Responses == [G!Questions -> Nat]
CallsMade == [at : {"free", "sent", "loaded", "built", "updated", "done", "refused"},
              on : G!Questions \union {G!Run, Nothing}, response : Nat, seen : Responses,
              first : BOOLEAN, heard : BOOLEAN]

RunTypes ==
    /\ index \in G!Questions /\ checks \in Nat
    /\ feedbacks \in Responses /\ answers \in Responses
    /\ calls \in [Calls -> CallsMade]
    /\ \A c \in Calls : calls[c].at \in {"built", "updated"} => calls[c].on = G!Run

Busy(c) == calls[c].at # "free"
Checks(c) == calls[c].heard /\ calls[c].on \in G!Questions

\* What is heard of is under way, one check at a time; a check given up is known.
OneCheck ==
    /\ \A c \in Calls : calls[c].heard => Busy(c) /\ view # "left"
    /\ \A c, d \in Calls : Checks(c) /\ Checks(d) => c = d
    /\ \A c \in Calls : Busy(c) /\ ~calls[c].heard /\ calls[c].on \in G!Questions =>
           calls[c].on \in overtaken \/ view = "left"

\* A question that was marked is not checked again.
MarkedIsOver ==
    \A q \in G!Questions, c \in Calls :
        G!marked(q) /\ Busy(c) /\ calls[c].on = q => q \in overtaken /\ ~calls[c].heard

\* What the page is told is stored, and what it shows.
ToldIsStored ==
    /\ \A c \in Calls : Checks(c) /\ calls[c].at = "done" /\ calls[c].on \notin overtaken =>
           answers[calls[c].on] = calls[c].response
    /\ \A q \in G!Questions \ overtaken : G!marked(q) => answers[q] = feedbacks[q]

Agrees(counts) ==
    \A q \in G!Questions \ (overtaken \union crossing) : G!marked(q) => counts[q] = feedbacks[q]

\* A run is completed by what is marked, and by what crosses it.
RunIsWhole ==
    /\ G!Completing \/ view = "result" => \A c \in Calls : Checks(c) => calls[c].on \in crossing
    /\ \A c \in Calls : calls[c].heard /\ calls[c].on = G!Run /\ calls[c].at \in {"built", "updated", "done"}
           => Agrees(calls[c].seen)
    /\ view = "result" => Agrees(result)

RunInv == RunTypes /\ OneCheck /\ MarkedIsOver /\ ToldIsStored /\ RunIsWhole

LEMMA RunConstants ==
    /\ Length \in Nat \ {0} /\ Nothing \notin 1..Length /\ Calls \subseteq Nat
    /\ G!Questions = 1..Length /\ G!Run = 0 /\ G!Run \notin G!Questions
    /\ G!FreeCall \in CallsMade /\ G!NoAnswers \in Responses
<1>1. Length \in Nat \ {0} /\ Nothing \notin 1..Length /\ Calls \subseteq Nat
  BY PagesAssumption
<1>2. G!Questions = 1..Length /\ G!Run = 0 /\ G!Run \notin G!Questions
  BY <1>1 DEF G!Questions, G!Run
<1>3. G!NoAnswers \in Responses
  BY DEF G!NoAnswers, Responses
<1>4. G!FreeCall \in CallsMade
  BY <1>3 DEF G!FreeCall, CallsMade
<1> QED
  BY <1>1, <1>2, <1>3, <1>4

LEMMA RunStart == Init => RunInv
<1> SUFFICES ASSUME G!PracticeInit PROVE RunInv
  BY DEF Init
<1>1. /\ view = "asking" /\ index = 1 /\ feedbacks = G!NoAnswers /\ answers = G!NoAnswers
      /\ calls = [c \in Calls |-> G!FreeCall] /\ checks = 0
  BY DEF G!PracticeInit
<1>2. RunTypes
  <2>1. \A c \in Calls : calls[c].at = "free"
    BY <1>1 DEF G!FreeCall
  <2> QED
    BY <1>1, <2>1, RunConstants DEF RunTypes
<1>3. \A c \in Calls : ~Busy(c) /\ ~calls[c].heard
  BY <1>1 DEF G!FreeCall, Busy
<1>4. \A q \in G!Questions : ~G!marked(q)
  BY <1>1 DEF G!marked, G!NoAnswers
<1>5. OneCheck
  BY <1>3 DEF OneCheck, Checks
<1>6. MarkedIsOver /\ ToldIsStored
  BY <1>3, <1>4 DEF MarkedIsOver, ToldIsStored, Checks
<1>7. RunIsWhole
  BY <1>1, <1>3 DEF RunIsWhole, Checks, Agrees
<1> QED
  BY <1>2, <1>5, <1>6, <1>7 DEF RunInv

\* Among numbers there is a least one.
LEMMA Least ==
    ASSUME NEW U \in SUBSET Nat, U # {}
    PROVE  \E n \in U : \A m \in U : n <= m
<1> DEFINE Less == {ss \in Nat \X Nat : ss[1] < ss[2]}
<1>1. \E n \in U : \A m \in U : ~(<<m, n>> \in Less)
  <2>1. IsWellFoundedOn(Less, Nat)
    BY NatLessThanWellFounded DEF OpToRel
  <2> HIDE DEF Less
  <2> QED
    BY <2>1, WFMin
<1>2. PICK n \in U : \A m \in U : ~(<<m, n>> \in Less)
  BY <1>1
<1>3. ASSUME NEW m \in U PROVE n <= m
  <2>1. m \in Nat /\ n \in Nat /\ <<m, n>> \in Nat \X Nat
    OBVIOUS
  <2>2. ~(<<m, n>>[1] < <<m, n>>[2])
    BY <1>2, <2>1
  <2> QED
    BY <2>1, <2>2
<1> QED
  BY <1>3

\* The server goes on with a call, or fails it.
LEMMA ServedStep ==
    ASSUME RunInv, NEW c \in Calls, NEW k \in CallsMade, calls' = [calls EXCEPT ![c] = k], Busy(c),
           k.at # "free" /\ k.on = calls[c].on /\ k.response = calls[c].response /\ k.heard = calls[c].heard,
           UNCHANGED <<view, index, feedbacks, result, checks, crossing, overtaken>>,
           \/ answers' = answers /\ (k.at = "done" => k.on \notin G!Questions)
           \/ k.on \in G!Questions /\ answers' = [answers EXCEPT ![k.on] = k.response],
           k.at \in {"built", "updated"} => k.on = G!Run,
           k.on = G!Run /\ k.at \in {"built", "updated", "done"} =>
               k.seen = answers \/ (k.seen = calls[c].seen /\ calls[c].at \in {"built", "updated"})
    PROVE  RunInv'
<1> USE DEF RunInv
<1>1. calls'[c] = k /\ \A d \in Calls : d # c => calls'[d] = calls[d]
  BY DEF RunTypes
<1>2. \A d \in Calls : /\ calls'[d].on = calls[d].on /\ calls'[d].heard = calls[d].heard
                       /\ calls'[d].response = calls[d].response
                       /\ Busy(d)' = Busy(d) /\ Checks(d)' = Checks(d)
  BY <1>1 DEF Busy, Checks
<1>3. RunTypes'
  <2>1. answers' \in Responses
    BY DEF RunTypes, Responses, CallsMade
  <2> QED
    BY <2>1 DEF RunTypes
<1>4. OneCheck'
  BY <1>2 DEF OneCheck
<1>5. \A q \in G!Questions : G!marked(q)' = G!marked(q)
  BY DEF G!marked
<1>6. MarkedIsOver'
  BY <1>2, <1>5 DEF MarkedIsOver
<1>7. ToldIsStored'
  <2>1. ASSUME NEW d \in Calls, Checks(d), calls'[d].at = "done", calls[d].on \notin overtaken
        PROVE  answers'[calls[d].on] = calls[d].response
    <3>1. CASE d = c
      BY <1>1, <2>1, <3>1 DEF Checks, RunTypes, Responses
    <3>2. CASE d # c
      <4>1. answers[calls[d].on] = calls[d].response
        BY <1>1, <2>1, <3>2 DEF ToldIsStored
      <4>2. k.on # calls[d].on
        BY <2>1, <3>2 DEF OneCheck, Checks
      <4> QED
        BY <4>1, <4>2, <2>1 DEF Checks, RunTypes, Responses
    <3> QED
      BY <3>1, <3>2
  <2>2. ASSUME NEW q \in G!Questions \ overtaken, G!marked(q) PROVE answers'[q] = feedbacks[q]
    <3>1. answers[q] = feedbacks[q] /\ k.on # q
      BY <2>2 DEF ToldIsStored, MarkedIsOver
    <3> QED
      BY <3>1, <2>2 DEF RunTypes, Responses
  <2> QED
    BY <1>2, <1>5, <2>1, <2>2 DEF ToldIsStored
<1>8. RunIsWhole'
  <2>1. G!Completing' = G!Completing
    BY <1>2 DEF G!Completing
  <2>3. Agrees(answers)
    BY DEF Agrees, ToldIsStored
  <2>4. ASSUME NEW d \in Calls, calls'[d].heard, calls'[d].on = G!Run, calls'[d].at \in {"built", "updated", "done"}
        PROVE  Agrees(calls'[d].seen)
    BY <1>1, <2>3, <2>4 DEF RunIsWhole
  <2>5. view = "result" => Agrees(result)
    BY DEF RunIsWhole
  <2>6. G!Completing \/ view = "result" => \A d \in Calls : Checks(d) => calls[d].on \in crossing
    BY DEF RunIsWhole
  <2>7. ASSUME NEW d \in Calls, calls'[d].heard, calls'[d].on = G!Run, calls'[d].at \in {"built", "updated", "done"},
               NEW q \in G!Questions \ (overtaken \union crossing), G!marked(q)'
        PROVE  calls'[d].seen[q] = feedbacks'[q]
    BY <1>5, <2>4, <2>7 DEF Agrees
  <2>8. view = "result" => Agrees(result)'
    BY <1>5, <2>5 DEF Agrees
  <2> QED
    BY <1>2, <2>1, <2>6, <2>7, <2>8 DEF RunIsWhole, Agrees
<1> QED
  BY <1>3, <1>4, <1>6, <1>7, <1>8

LEMMA PracticeServes ==
    ASSUME RunInv, NEW c \in Calls,
           \/ G!loadAttempt(c) \/ G!submitAnswer(c) \/ G!buildResult(c) \/ G!completeAttempt(c)
           \/ G!CountRun(c) \/ G!StatementFails(c)
    PROVE  RunInv'
<1> DEFINE r == calls[c]
<1> USE DEF G!screenVars, G!recordVars
<1>1. r \in CallsMade /\ calls \in [Calls -> CallsMade] /\ answers \in Responses
  BY DEF RunInv, RunTypes
<1>2. Busy(c) /\ view' = view /\ index' = index /\ feedbacks' = feedbacks /\ result' = result
      /\ checks' = checks /\ crossing' = crossing /\ overtaken' = overtaken
  BY DEF Busy, G!loadAttempt, G!submitAnswer, G!buildResult, G!completeAttempt, G!CountRun, G!StatementFails
<1>3. G!Run \notin G!Questions
  BY RunConstants
<1>9. r.at \in {"built", "updated"} => r.on = G!Run
  BY DEF RunInv, RunTypes
<1>4. CASE G!loadAttempt(c) /\ r.on = G!Run
  <2> DEFINE k == [r EXCEPT !.at = "loaded", !.first = (attempt = "in_progress")]
  <2>1. calls' = [calls EXCEPT ![c] = k] /\ answers' = answers
    BY <1>4 DEF G!loadAttempt
  <2>2. k \in CallsMade /\ k.at = "loaded" /\ k.on = r.on /\ k.response = r.response /\ k.heard = r.heard
    BY <1>1 DEF CallsMade
  <2> HIDE DEF k
  <2> QED
    BY <1>2, <2>1, <2>2, ServedStep
<1>5. ASSUME NEW word \in {"loaded", "refused", "updated", "done"}, G!Reply(c, word), answers' = answers,
             word = "done" => r.on \notin G!Questions, r.at # "updated" => word \notin {"updated", "done"} \/ r.at = "built"
      PROVE  RunInv'
  <2> DEFINE k == [r EXCEPT !.at = word]
  <2>1. calls' = [calls EXCEPT ![c] = k]
    BY <1>5 DEF G!Reply
  <2>2. /\ k \in CallsMade /\ k.at = word /\ k.on = r.on /\ k.response = r.response /\ k.heard = r.heard
        /\ k.seen = r.seen
    BY <1>1 DEF CallsMade
  <2>3. k.on = G!Run /\ k.at \in {"built", "updated", "done"} => k.seen = r.seen /\ r.at \in {"built", "updated"}
    BY <1>5, <2>2
  <2> HIDE DEF k
  <2> QED
    BY <1>2, <1>5, <1>9, <2>1, <2>2, <2>3, ServedStep
<1>6. CASE G!loadAttempt(c) /\ r.on # G!Run
  BY <1>5, <1>6 DEF G!loadAttempt
<1>7. CASE G!submitAnswer(c)
  <2> DEFINE k == [r EXCEPT !.at = "done"]
  <2>1. calls' = [calls EXCEPT ![c] = k]
    BY <1>7 DEF G!submitAnswer, G!Reply
  <2>2. k \in CallsMade /\ k.at = "done" /\ k.on = r.on /\ k.response = r.response /\ k.heard = r.heard
    BY <1>1 DEF CallsMade
  <2>3. k.on \in G!Questions /\ answers' = [answers EXCEPT ![k.on] = k.response] /\ k.on # G!Run
    BY <1>3, <1>7, <2>2 DEF G!submitAnswer
  <2> HIDE DEF k
  <2> QED
    BY <1>2, <2>1, <2>2, <2>3, ServedStep
<1>8. CASE G!buildResult(c)
  <2> DEFINE k == [r EXCEPT !.at = IF r.first THEN "built" ELSE "done", !.seen = answers]
  <2>1. calls' = [calls EXCEPT ![c] = k] /\ answers' = answers /\ r.on = G!Run
    BY <1>8 DEF G!buildResult
  <2>2. /\ k \in CallsMade /\ k.at # "free" /\ k.on = r.on /\ k.response = r.response /\ k.heard = r.heard
        /\ k.seen = answers
    BY <1>1 DEF CallsMade
  <2> HIDE DEF k
  <2> QED
    BY <1>2, <1>3, <2>1, <2>2, ServedStep
<1>10. CASE G!completeAttempt(c)
  BY <1>5, <1>10 DEF G!completeAttempt
<1>11. CASE G!CountRun(c)
  BY <1>3, <1>5, <1>9, <1>11 DEF G!CountRun
<1>12. CASE G!StatementFails(c)
  BY <1>5, <1>12 DEF G!StatementFails
<1> QED
  BY <1>4, <1>6, <1>7, <1>8, <1>10, <1>11, <1>12

\* A call is made: one check, or, while none is heard, the completion of the run.
LEMMA CallStep ==
    ASSUME RunInv, NEW c \in Calls, NEW on \in G!Questions \union {G!Run}, NEW response \in Nat, view = "asking",
           G!Call(c, on, response), ~G!Answering, on \in G!Questions => ~G!marked(on),
           UNCHANGED <<view, index, feedbacks, result, answers, overtaken>>, checks' \in Nat,
           crossing' = crossing \/ (G!Completing /\ crossing' = crossing \union {on}),
           G!Completing /\ on \in G!Questions => on \in crossing'
    PROVE  RunInv'
<1> USE DEF RunInv
<1> DEFINE k == [G!FreeCall EXCEPT !.at = "sent", !.on = on, !.response = response, !.heard = TRUE]
<1>1. calls' = [calls EXCEPT ![c] = k] /\ calls[c].at = "free"
  BY DEF G!Call, G!Vacancy
<1>2. k \in CallsMade /\ k.at = "sent" /\ k.on = on /\ k.response = response /\ k.heard = TRUE
  BY RunConstants DEF CallsMade, G!FreeCall
<1> HIDE DEF k
<1>3. calls'[c] = k /\ \A d \in Calls : d # c => calls'[d] = calls[d]
  BY <1>1 DEF RunTypes
<1>4. \A d \in Calls : d # c => Busy(d)' = Busy(d) /\ Checks(d)' = Checks(d)
  BY <1>3 DEF Busy, Checks
<1>5. \A d \in Calls : ~Checks(d)
  BY DEF Checks, G!Answering
<1>6. \A q \in G!Questions : G!marked(q)' = G!marked(q)
  BY DEF G!marked
<1>7. RunTypes'
  BY <1>1, <1>2 DEF RunTypes
<1>8. OneCheck'
  BY <1>2, <1>3, <1>4, <1>5 DEF OneCheck, Busy
<1>9. MarkedIsOver'
  BY <1>2, <1>3, <1>4, <1>6 DEF MarkedIsOver, Busy
<1>10. ToldIsStored'
  BY <1>2, <1>3, <1>4, <1>5, <1>6 DEF ToldIsStored
<1>11. RunIsWhole'
  <2>1. G!Completing' => G!Completing \/ on = G!Run
    BY <1>2, <1>3 DEF G!Completing
  <2>2. G!Completing' => \A d \in Calls : Checks(d)' => calls'[d].on \in crossing'
    <3> SUFFICES ASSUME G!Completing', NEW d \in Calls, Checks(d)' PROVE calls'[d].on \in crossing'
      OBVIOUS
    <3>1. d = c
      BY <1>4, <1>5
    <3> QED
      BY <1>2, <1>3, <2>1, <3>1, RunConstants DEF Checks
  <2>3. ASSUME NEW d \in Calls, calls'[d].heard, calls'[d].on = G!Run, calls'[d].at \in {"built", "updated", "done"},
               NEW q \in G!Questions \ (overtaken \union crossing'), G!marked(q)'
        PROVE  calls'[d].seen[q] = feedbacks'[q]
    <3>1. d # c
      BY <1>2, <1>3, <2>3
    <3>2. Agrees(calls[d].seen)
      BY <1>3, <2>3, <3>1 DEF RunIsWhole
    <3> QED
      BY <1>3, <1>6, <2>3, <3>1, <3>2 DEF Agrees
  <2> QED
    BY <2>2, <2>3 DEF RunIsWhole, Agrees
<1> QED
  BY <1>7, <1>8, <1>9, <1>10, <1>11

\* The next question to do is one, unless there is none.
LEMMA OpenIsOne ==
    ASSUME RunInv
    PROVE  /\ G!nextOpen(index) \in G!Questions \union {Nothing}
           /\ index = Length /\ G!marked(index) /\ G!unanswered # {} => G!nextOpen(index) \in G!Questions
<1> DEFINE at(step) == 1 + ((index - 1 + step) % Length)
           open == {step \in 1..Length : ~G!marked(at(step)) /\ at(step) # index}
<1>1. index \in 1..Length /\ Length \in Nat \ {0} /\ G!Questions = 1..Length
  BY RunConstants DEF RunInv, RunTypes
<1>2. open \in SUBSET Nat /\ open \subseteq 1..Length
  BY <1>1
<1>3. open = {} => G!nextOpen(index) = Nothing
  BY DEF G!nextOpen
<1>4. open # {} => G!nextOpen(index) \in G!Questions
  <2> SUFFICES ASSUME open # {} PROVE G!nextOpen(index) \in G!Questions
    OBVIOUS
  <2> DEFINE first == CHOOSE n \in open : \A m \in open : n <= m
  <2>1. G!nextOpen(index) = at(first)
    BY DEF G!nextOpen
  <2> HIDE DEF open
  <2>2. \E n \in open : \A m \in open : n <= m
    BY <1>2, Least
  <2>3. first \in 1..Length
    BY <1>2, <2>2
  <2>4. at(first) \in 1..Length
    <3> HIDE DEF first
    <3>1. index - 1 + first \in Nat
      BY <1>1, <2>3
    <3>2. (index - 1 + first) % Length \in 0..(Length - 1)
      BY <1>1, <3>1, Z3T(30)
    <3> QED
      BY <1>1, <3>2
  <2> QED
    BY <1>1, <2>1, <2>4
<1>5. ASSUME index = Length, G!marked(index), G!unanswered # {} PROVE open # {}
  <2>1. PICK q \in 1..Length : ~G!marked(q)
    BY <1>1, <1>5 DEF G!unanswered
  <2>2. q # Length /\ at(q) = q
    <3>1. q # Length
      BY <1>5, <2>1
    <3>2. q \in Nat /\ q >= 1 /\ q < Length
      BY <1>1, <2>1, <3>1
    <3>3. (Length - 1 + q) % Length = q - 1
      BY <1>1, <3>2, Z3T(30)
    <3> QED
      BY <1>5, <3>1, <3>2, <3>3
  <2> QED
    BY <1>5, <2>1, <2>2
<1> QED
  BY <1>3, <1>4, <1>5

LEMMA TargetIsOpen ==
    ASSUME RunInv, G!marked(index), G!unanswered # {}
    PROVE  G!target \in G!Questions
<1>1. index \in 1..Length /\ Length \in Nat \ {0} /\ G!Questions = 1..Length
  BY RunConstants DEF RunInv, RunTypes
<1>2. index < Length \/ index = Length
  BY <1>1
<1> QED
  BY <1>1, <1>2, OpenIsOne DEF G!target

\* Nothing that is kept changes but where the page is, or what it hears.
LEMMA ScreenStep ==
    ASSUME RunInv, index' \in G!Questions, view' = view \/ view' = "left",
           UNCHANGED <<feedbacks, result, answers, checks, crossing>>,
           calls' \in [Calls -> CallsMade],
           \A c \in Calls : /\ calls'[c].at = calls[c].at /\ calls'[c].on = calls[c].on
                            /\ calls'[c].response = calls[c].response /\ calls'[c].seen = calls[c].seen
                            /\ calls'[c].heard => calls[c].heard /\ view' # "left"
                            /\ ~calls'[c].heard => ~calls[c].heard \/ view' = "left" \/ calls[c].on \in overtaken'
                                                   \/ calls[c].on \notin G!Questions,
           overtaken \subseteq overtaken'
    PROVE  RunInv'
<1> USE DEF RunInv
<1>1. \A c \in Calls : Busy(c)' = Busy(c) /\ (Checks(c)' => Checks(c))
  BY DEF Busy, Checks
<1>2. \A q \in G!Questions : G!marked(q)' = G!marked(q)
  BY DEF G!marked
<1>3. RunTypes'
  BY DEF RunTypes
<1>4. OneCheck'
  BY <1>1 DEF OneCheck
<1>5. MarkedIsOver'
  BY <1>1, <1>2 DEF MarkedIsOver
<1>6. ToldIsStored'
  BY <1>1, <1>2 DEF ToldIsStored
<1>7. RunIsWhole'
  <2>1. G!Completing' => G!Completing
    BY DEF G!Completing
  <2>2. view' = "result" => view = "result"
    OBVIOUS
  <2>3. \A c \in Calls : calls'[c].heard /\ calls'[c].on = G!Run /\ calls'[c].at \in {"built", "updated", "done"}
           => Agrees(calls[c].seen)
    BY DEF RunIsWhole
  <2>4. (G!Completing \/ view = "result")' => \A c \in Calls : Checks(c)' => calls'[c].on \in crossing'
    BY <1>1, <2>1, <2>2 DEF RunIsWhole
  <2> QED
    BY <1>2, <2>2, <2>3, <2>4 DEF RunIsWhole, Agrees
<1> QED
  BY <1>3, <1>4, <1>5, <1>6, <1>7

LEMMA HearStep ==
    ASSUME RunInv, NEW c \in Calls, G!Hear(c)
    PROVE  RunInv'
<1> USE DEF RunInv
<1> DEFINE k == calls[c]
<1>1. /\ k.at \in {"done", "refused"} /\ calls' = [calls EXCEPT ![c] = G!FreeCall]
      /\ UNCHANGED <<index, answers, checks, crossing, overtaken>>
  BY DEF G!Hear, G!recordVars
<1>2. calls'[c] = G!FreeCall /\ \A d \in Calls : d # c => calls'[d] = calls[d]
  BY <1>1 DEF RunTypes
<1>3. ~Busy(c)' /\ ~calls'[c].heard /\ \A d \in Calls : d # c => Busy(d)' = Busy(d) /\ Checks(d)' = Checks(d)
  BY <1>2 DEF Busy, Checks, G!FreeCall
<1>4. k \in CallsMade
  BY DEF RunTypes
<1>5. CASE UNCHANGED <<view, feedbacks, result>>
  <2>1. \A q \in G!Questions : G!marked(q)' = G!marked(q)
    BY <1>5 DEF G!marked
  <2>2. RunTypes'
    BY <1>1, <1>3, <1>5, RunConstants DEF RunTypes, Busy
  <2>3. OneCheck' /\ MarkedIsOver' /\ ToldIsStored'
    BY <1>1, <1>2, <1>3, <1>5, <2>1 DEF OneCheck, MarkedIsOver, ToldIsStored, Checks
  <2>4. RunIsWhole'
    <3>1. G!Completing' => G!Completing
      BY <1>2, <1>3 DEF G!Completing
    <3> QED
      BY <1>1, <1>2, <1>3, <1>5, <2>1, <3>1 DEF RunIsWhole, Agrees, Checks
  <2> QED
    BY <2>2, <2>3, <2>4
<1>6. CASE k.heard /\ k.at = "done" /\ k.on = G!Run /\ view' = "result" /\ result' = k.seen /\ UNCHANGED feedbacks
  <2>1. \A q \in G!Questions : G!marked(q)' = G!marked(q)
    BY <1>6 DEF G!marked
  <2>2. RunTypes'
    BY <1>1, <1>3, <1>6, RunConstants DEF RunTypes, Busy
  <2>3. view # "left"
    BY <1>6 DEF OneCheck
  <2>4. OneCheck'
    BY <1>1, <1>2, <1>3, <1>6, <2>3 DEF OneCheck, Checks
  <2>5. MarkedIsOver' /\ ToldIsStored'
    BY <1>1, <1>2, <1>3, <1>6, <2>1 DEF MarkedIsOver, ToldIsStored, Checks
  <2>6. RunIsWhole'
    <3>1. G!Completing
      BY <1>6 DEF G!Completing
    <3>2. Agrees(k.seen)
      BY <1>6 DEF RunIsWhole
    <3> QED
      BY <1>1, <1>2, <1>3, <1>6, <2>1, <3>1, <3>2 DEF RunIsWhole, Agrees, Checks
  <2> QED
    BY <2>2, <2>4, <2>5, <2>6
<1>7. CASE /\ k.heard /\ k.at = "done" /\ k.on # G!Run /\ UNCHANGED <<view, result>>
           /\ feedbacks' = [feedbacks EXCEPT ![k.on] = k.response]
  <2>1. k.on \in G!Questions \/ k.on = Nothing
    BY <1>4, <1>7 DEF CallsMade
  <2>2. feedbacks' \in Responses
    BY <1>4, <1>7 DEF RunTypes, Responses, CallsMade
  <2>3. RunTypes'
    BY <1>1, <1>3, <2>2, RunConstants DEF RunTypes, Busy
  <2>4. OneCheck'
    BY <1>1, <1>2, <1>3, <1>7 DEF OneCheck, Checks
  <2>5. \A q \in G!Questions : q # k.on => feedbacks'[q] = feedbacks[q] /\ G!marked(q)' = G!marked(q)
    BY <1>7 DEF RunTypes, Responses, G!marked
  <2>6. k.on \in G!Questions => Checks(c) /\ feedbacks'[k.on] = k.response
    BY <1>7 DEF RunTypes, Responses, Checks
  <2>7. MarkedIsOver'
    <3>1. SUFFICES ASSUME NEW q \in G!Questions, NEW d \in Calls, G!marked(q)', Busy(d)', calls'[d].on = q
                   PROVE  q \in overtaken /\ ~calls'[d].heard
      BY <1>1 DEF MarkedIsOver
    <3>2. d # c /\ Busy(d) /\ calls'[d] = calls[d]
      BY <1>2, <1>3, <3>1
    <3>3. CASE q = k.on
      <4>1. ~Checks(d)
        BY <2>6, <3>2, <3>3 DEF OneCheck
      <4> QED
        BY <1>7, <3>1, <3>2, <4>1 DEF OneCheck, Checks
    <3>4. CASE q # k.on
      BY <2>5, <3>1, <3>2, <3>4 DEF MarkedIsOver
    <3> QED
      BY <3>3, <3>4
  <2>8. ToldIsStored'
    <3>1. \A q \in G!Questions \ overtaken' : G!marked(q)' => answers'[q] = feedbacks'[q]
      BY <1>1, <1>7, <2>5, <2>6 DEF ToldIsStored
    <3> QED
      BY <1>1, <1>2, <1>3, <3>1 DEF ToldIsStored, Checks
  <2>9. RunIsWhole'
    <3>1. G!Completing' => G!Completing
      BY <1>2, <1>3 DEF G!Completing
    <3>2. G!Completing \/ view = "result" => k.on \in crossing \/ k.on \notin G!Questions
      BY <2>6 DEF RunIsWhole
    <3>3. ASSUME NEW counts, Agrees(counts), G!Completing \/ view = "result",
                 NEW q \in G!Questions \ (overtaken \union crossing), G!marked(q)'
          PROVE  counts[q] = feedbacks'[q]
      BY <2>5, <3>2, <3>3 DEF Agrees
    <3>4. ASSUME NEW d \in Calls, calls'[d].heard, calls'[d].on = G!Run, calls'[d].at \in {"built", "updated", "done"},
                 NEW q \in G!Questions \ (overtaken' \union crossing'), G!marked(q)'
          PROVE  calls'[d].seen[q] = feedbacks'[q]
      <4>1. d # c /\ calls'[d] = calls[d]
        BY <1>2, <1>3, <3>4
      <4>2. Agrees(calls[d].seen) /\ G!Completing
        BY <3>4, <4>1 DEF RunIsWhole, G!Completing
      <4> QED
        BY <1>1, <3>3, <3>4, <4>1, <4>2
    <3>5. ASSUME view = "result", NEW q \in G!Questions \ (overtaken' \union crossing'), G!marked(q)'
          PROVE  result[q] = feedbacks'[q]
      BY <1>1, <3>3, <3>5 DEF RunIsWhole
    <3>6. (G!Completing \/ view = "result")' => \A d \in Calls : Checks(d)' => calls'[d].on \in crossing'
      BY <1>1, <1>2, <1>3, <1>7, <3>1 DEF RunIsWhole, Checks
    <3> QED
      BY <1>7, <3>4, <3>5, <3>6 DEF RunIsWhole, Agrees
  <2> QED
    BY <2>3, <2>4, <2>7, <2>8, <2>9
<1> QED
  BY <1>1, <1>5, <1>6, <1>7 DEF G!Hear

\* What the learner does on the page.
LEMMA PressStep ==
    ASSUME RunInv,
           \/ \E q \in G!Questions : G!Select(q)
           \/ G!Quit
           \/ \E c \in Calls : G!submit(c) \/ G!next(c) \/ G!FinishNow(c) \/ G!BreakOff(c)
    PROVE  RunInv'
<1> USE DEF RunInv, G!screenVars, G!recordVars
<1>1. CASE \E q \in G!Questions : G!Select(q)
  BY <1>1, ScreenStep DEF G!Select, RunTypes, OneCheck
<1>2. CASE G!Quit
  <2>1. calls' \in [Calls -> CallsMade] /\ \A c \in Calls :
            calls'[c].at = calls[c].at /\ calls'[c].on = calls[c].on /\ calls'[c].heard = FALSE
            /\ calls'[c].response = calls[c].response /\ calls'[c].seen = calls[c].seen
    <3>1. calls' = [c \in Calls |-> [calls[c] EXCEPT !.heard = FALSE]]
      BY <1>2 DEF G!Quit
    <3>2. \A c \in Calls : calls[c] \in CallsMade /\ calls'[c] = [calls[c] EXCEPT !.heard = FALSE]
      BY <3>1 DEF RunTypes
    <3>3. ASSUME NEW c \in Calls
          PROVE  /\ calls'[c] \in CallsMade
                 /\ calls'[c].at = calls[c].at /\ calls'[c].on = calls[c].on /\ calls'[c].heard = FALSE
                 /\ calls'[c].response = calls[c].response /\ calls'[c].seen = calls[c].seen
      BY <3>2 DEF CallsMade
    <3> QED
      BY <3>1, <3>3
  <2> QED
    BY <1>2, <2>1, ScreenStep DEF G!Quit, RunTypes
<1>3. ASSUME NEW c \in Calls, G!BreakOff(c) PROVE RunInv'
  <2>1. calls' = [calls EXCEPT ![c].heard = FALSE] /\ calls \in [Calls -> CallsMade]
    BY <1>3 DEF G!BreakOff, RunTypes
  <2>2. calls' \in [Calls -> CallsMade]
    BY <2>1 DEF CallsMade
  <2>3. \A d \in Calls : /\ calls'[d].at = calls[d].at /\ calls'[d].on = calls[d].on
                         /\ calls'[d].response = calls[d].response /\ calls'[d].seen = calls[d].seen
                         /\ calls'[d].heard = (d # c /\ calls[d].heard)
    BY <2>1 DEF CallsMade
  <2>4. /\ overtaken' = IF calls[c].on \in G!Questions THEN overtaken \union {calls[c].on} ELSE overtaken
        /\ UNCHANGED <<view, index, feedbacks, result, answers, checks, crossing>>
    BY <1>3 DEF G!BreakOff
  <2>5. overtaken \subseteq overtaken' /\ index' \in G!Questions
    BY <2>4 DEF RunTypes
  <2>6. ASSUME NEW d \in Calls
        PROVE  /\ calls'[d].heard => calls[d].heard /\ view' # "left"
               /\ ~calls'[d].heard => ~calls[d].heard \/ calls[d].on \in overtaken' \/ calls[d].on \notin G!Questions
    BY <2>3, <2>4 DEF OneCheck
  <2> QED
    BY <2>2, <2>3, <2>4, <2>5, <2>6, ScreenStep
<1>4. ASSUME NEW c \in Calls, G!submit(c) PROVE RunInv'
  <2>1. /\ view = "asking" /\ ~G!marked(index) /\ ~G!Answering /\ G!Call(c, index, checks + 1)
        /\ crossing' = IF G!Completing THEN crossing \union {index} ELSE crossing
        /\ UNCHANGED <<view, index, feedbacks, result, answers, overtaken>> /\ checks' = checks + 1
    BY <1>4 DEF G!submit
  <2>2. index \in G!Questions /\ checks + 1 \in Nat
    BY DEF RunTypes
  <2> QED
    BY <2>1, <2>2, CallStep
<1>5. ASSUME NEW c \in Calls, view = "asking", ~G!Answering, G!finish(c),
             UNCHANGED <<view, index, feedbacks, result, answers, overtaken, crossing, checks>>
      PROVE  RunInv'
  BY <1>5, CallStep, RunConstants DEF G!finish, RunTypes
<1>6. ASSUME NEW c \in Calls, G!FinishNow(c) PROVE RunInv'
  BY <1>5, <1>6 DEF G!FinishNow
<1>7. ASSUME NEW c \in Calls, G!next(c) PROVE RunInv'
  <2>1. /\ view = "asking" /\ (~G!marked(index) => ~G!Answering) /\ G!NextPress(c)
        /\ UNCHANGED <<view, feedbacks, result, answers, overtaken, crossing, checks>>
    BY <1>7 DEF G!next
  <2>2. G!marked(index) /\ G!unanswered # {} => G!target \in G!Questions
    BY TargetIsOpen
  <2>3. CASE G!unanswered = {} \/ G!target = Nothing
    <3>1. G!Answering => G!unanswered # {}
      BY DEF G!Answering, G!unanswered, MarkedIsOver, OneCheck
    <3>2. ~G!Answering
      BY <2>1, <2>2, <2>3, <3>1, RunConstants
    <3>3. G!finish(c) /\ index' = index
      BY <2>1, <2>3 DEF G!NextPress
    <3> QED
      BY <1>5, <2>1, <3>2, <3>3
  <2>4. CASE ~(G!unanswered = {} \/ G!target = Nothing)
    <3>1. index' = G!target /\ calls' = calls
      BY <2>1, <2>4 DEF G!NextPress
    <3>2. G!target \in G!Questions
      <4>1. CASE index < Length
        BY <4>1, RunConstants DEF G!target, RunTypes
      <4>2. CASE ~(index < Length) /\ ~G!marked(index)
        BY <2>4, <4>2, OpenIsOne DEF G!target
      <4> QED
        BY <2>2, <2>4, <4>1, <4>2
    <3> QED
      BY <2>1, <3>1, <3>2, ScreenStep DEF RunTypes, OneCheck
  <2> QED
    BY <2>3, <2>4
<1> QED
  BY <1>1, <1>2, <1>3, <1>4, <1>6, <1>7

(* An answer in a run of grammar practice that was marked and explained is *)
(* the one that is recorded, if its question was not checked before by a   *)
(* call that broke off, and the result counts it, unless it was checked    *)
(* while the run was completed: the page checks one question at a time,    *)
(* and completes a run only when none is being checked                     *)
(* (practice-view.tsx, submitAnswer and completeAttempt).                  *)
THEOREM FeedbackHolds == Spec => []G!FeedbackIsRecorded
<1>1. RunInv /\ [Next]_pageVars => RunInv'
  <2> SUFFICES ASSUME RunInv, [Next]_pageVars PROVE RunInv'
    OBVIOUS
  <2>1. CASE UNCHANGED practice
    <3>1. UNCHANGED <<view, index, feedbacks, result, answers, calls, checks, crossing, overtaken>>
      BY <2>1 DEF practice
    <3> QED
      BY <3>1, ScreenStep DEF RunInv, RunTypes, OneCheck
  <2>2. CASE G!PracticeNext
    BY <2>2, PressStep, HearStep, PracticeServes DEF G!PracticeNext
  <2> QED
    BY <2>1, <2>2, PageSteps
<1>2. RunInv => G!FeedbackIsRecorded
  BY DEF RunInv, ToldIsStored, RunIsWhole, Agrees, G!FeedbackIsRecorded
<1> QED
  BY <1>1, <1>2, RunStart, PTL DEF Spec

-----------------------------------------------------------------------------
(* The test of a level.                                                    *)

AnswerRows == [id : Nat, blank : BOOLEAN]
PromptTexts == {"", "text", "gap"}

\* A question, whose right answer is the one that was meant, if any was.
GoodQuestions ==
    {q \in [id : Nat, type : {"multiple_choice", "fill_blank"}, prompt : PromptTexts,
            options : Seq(AnswerRows), right : Nat, meant : Nat, source : {"ai", "curated"}] :
        q.meant # 0 => /\ q.type = "multiple_choice" /\ q.right \in 1..Len(q.options)
                       /\ q.options[q.right].id = q.meant}

\* A test: each of its questions has a name of its own.
Tests == {s \in Seq(GoodQuestions) : \A i, j \in 1..Len(s) : s[i].id = s[j].id => i = j}
StoredTests == {s \in Tests : \A i \in 1..Len(s) : K!Usable(s[i])}

\* As many numbers as there are places, and one more: one of them is free.
LEMMA OneIsFree ==
    ASSUME NEW m \in Nat, NEW n \in Nat, n < m, NEW g \in [1..n -> Nat]
    PROVE  \E k \in 1..m : \A i \in 1..n : g[i] # k
<1> SUFFICES ASSUME \A k \in 1..m : \E i \in 1..n : g[i] = k PROVE FALSE
  OBVIOUS
<1>1. PICK h : h = [k \in 1..m |-> CHOOSE i \in 1..n : g[i] = k]
  OBVIOUS
<1>2. \A k \in 1..m : h[k] \in 1..n /\ g[h[k]] = k
  BY <1>1
<1>3. h \in [1..m -> 1..n]
  BY <1>1, <1>2
<1>4. IsFiniteSet(1..m) /\ IsFiniteSet(1..n) /\ Cardinality(1..n) < Cardinality(1..m)
  <2>1. 1 \in Int /\ m \in Int /\ n \in Int
    OBVIOUS
  <2>2. IsFiniteSet(1..m) /\ Cardinality(1..m) = IF 1 > m THEN 0 ELSE m - 1 + 1
    BY <2>1, FS_Interval
  <2>3. IsFiniteSet(1..n) /\ Cardinality(1..n) = IF 1 > n THEN 0 ELSE n - 1 + 1
    BY <2>1, FS_Interval
  <2> QED
    BY <2>2, <2>3
<1>5. \E x, y \in 1..m : x # y /\ h[x] = h[y]
  <2>1. PICK Names, Places : Names = 1..m /\ Places = 1..n
    OBVIOUS
  <2>2. /\ IsFiniteSet(Names) /\ IsFiniteSet(Places) /\ Cardinality(Places) < Cardinality(Names)
        /\ h \in [Names -> Places]
    BY <1>3, <1>4, <2>1
  <2>3. \E x, y \in Names : x # y /\ h[x] = h[y]
    BY ONLY <2>2, FS_PigeonHole
  <2> QED
    BY <2>1, <2>3
<1> QED
  BY <1>2, <1>5

\* What there is at some place of a list is no more than the list is long.
LEMMA NoMoreThanPlaces ==
    ASSUME NEW n \in Nat, NEW g, NEW Few, \A x \in Few : \E i \in 1..n : x = g[i]
    PROVE  IsFiniteSet(Few) /\ Cardinality(Few) \in 0..n
<1>1. PICK All : All = {g[i] : i \in 1..n}
  OBVIOUS
<1>2. PICK h : h = [i \in 1..n |-> g[i]]
  OBVIOUS
<1>3. h \in Surjection(1..n, All)
  BY <1>1, <1>2 DEF Surjection
<1>4. IsFiniteSet(1..n) /\ Cardinality(1..n) = n
  <2>1. 1 \in Int /\ n \in Int
    OBVIOUS
  <2>2. IsFiniteSet(1..n) /\ Cardinality(1..n) = IF 1 > n THEN 0 ELSE n - 1 + 1
    BY <2>1, FS_Interval
  <2> QED
    BY <2>2
<1>5. IsFiniteSet(All) /\ Cardinality(All) <= n
  <2>1. IsFiniteSet(All) /\ Cardinality(All) <= Cardinality(1..n)
    BY <1>3, <1>4, FS_Surjection
  <2> QED
    BY <1>4, <2>1
<1>6. Few \subseteq All
  BY <1>1
<1>7. IsFiniteSet(Few) /\ Cardinality(Few) <= Cardinality(All)
  BY <1>5, <1>6, FS_Subset
<1> QED
  BY <1>5, <1>7, FS_CardinalityType

LEMMA PlaceTaken ==
    ASSUME NEW Elem, NEW s \in Seq(Elem), NEW o \in 1..Len(s), NEW t, t = K!RemoveAt(s, o)
    PROVE  /\ t \in Seq(Elem) /\ Len(t) = Len(s) - 1
           /\ \A k \in 1..Len(t) : t[k] = IF k < o THEN s[k] ELSE s[k + 1]
<1>0. Len(s) \in Nat /\ o \in Int /\ \A k \in 1..Len(s) : s[k] \in Elem
  BY LenProperties, ElementOfSeq
<1>1. PICK a : a = SubSeq(s, 1, o - 1)
  OBVIOUS
<1>2. PICK b : b = SubSeq(s, o + 1, Len(s))
  OBVIOUS
<1>3. t = a \o b
  BY <1>1, <1>2 DEF K!RemoveAt
<1>4. a \in Seq(Elem) /\ Len(a) = o - 1 /\ \A k \in 1..o - 1 : a[k] = s[k]
  <2>1. \A k \in 1..o - 1 : s[k] \in Elem
    BY <1>0
  <2> QED
    BY <1>0, <1>1, <2>1, SubSeqProperties
<1>5. b \in Seq(Elem) /\ Len(b) = Len(s) - o /\ \A k \in 1..Len(s) - o : b[k] = s[o + k]
  <2>1. \A k \in o + 1..Len(s) : s[k] \in Elem
    BY <1>0
  <2> QED
    BY <1>0, <1>2, <2>1, SubSeqProperties
<1>6. t \in Seq(Elem) /\ Len(t) = Len(s) - 1
  BY <1>0, <1>3, <1>4, <1>5, ConcatProperties
<1>7. ASSUME NEW k \in 1..Len(t) PROVE t[k] = IF k < o THEN s[k] ELSE s[k + 1]
  <2>1. k \in 1..Len(a) + Len(b)
    BY <1>0, <1>4, <1>5, <1>6
  <2>0. \A j \in 1..Len(a) + Len(b) : (a \o b)[j] = IF j <= Len(a) THEN a[j] ELSE b[j - Len(a)]
    BY <1>4, <1>5, ConcatProperties
  <2>2. t[k] = IF k <= Len(a) THEN a[k] ELSE b[k - Len(a)]
    BY <1>3, <2>0, <2>1
  <2>3. CASE k < o
    BY <1>0, <1>4, <2>1, <2>2, <2>3
  <2>4. CASE ~(k < o)
    <3>1. k - (o - 1) \in 1..Len(s) - o /\ o + (k - (o - 1)) = k + 1
      BY <1>0, <1>6, <2>4
    <3>2. t[k] = b[k - (o - 1)]
      BY <1>0, <1>4, <2>1, <2>2, <2>4
    <3> QED
      BY <1>5, <2>4, <3>1, <3>2
  <2> QED
    BY <2>3, <2>4
<1> QED
  BY <1>6, <1>7

\* The prompt that is empty, by a name.
LEMMA EmptyPrompt ==
    \E e \in PromptTexts :
        /\ "text" \in PromptTexts /\ "gap" \in PromptTexts /\ e # "text" /\ e # "gap"
        /\ \A q : K!questionProblem(q) <=>
             \/ q.prompt = e
             \/ q.type = "fill_blank" /\ (q.prompt # "gap" \/ \A o \in K!Range(q.options) : o.blank)
             \/ q.type = "multiple_choice" /\ (Len(q.options) < 2 \/ q.right \notin DOMAIN q.options)
        /\ \A id, t : K!blankQuestion(id, t) =
             [id |-> id, type |-> t, prompt |-> e, source |-> "curated", meant |-> 0,
              options |-> IF t = "fill_blank" THEN <<K!Option(1, TRUE)>>
                          ELSE <<K!Option(1, TRUE), K!Option(2, TRUE)>>,
              right |-> IF t = "fill_blank" THEN 0 ELSE 1]
<1>1. "" \in PromptTexts /\ "text" \in PromptTexts /\ "gap" \in PromptTexts
  BY DEF PromptTexts
<1>2. "" # "text" /\ "" # "gap"
  OBVIOUS
<1>3. \A q : K!questionProblem(q) <=>
         \/ q.prompt = ""
         \/ q.type = "fill_blank" /\ (q.prompt # "gap" \/ \A o \in K!Range(q.options) : o.blank)
         \/ q.type = "multiple_choice" /\ (Len(q.options) < 2 \/ q.right \notin DOMAIN q.options)
  BY Zenon DEF K!questionProblem
<1>4. \A id, t : K!blankQuestion(id, t) =
         [id |-> id, type |-> t, prompt |-> "", source |-> "curated", meant |-> 0,
          options |-> IF t = "fill_blank" THEN <<K!Option(1, TRUE)>>
                      ELSE <<K!Option(1, TRUE), K!Option(2, TRUE)>>,
          right |-> IF t = "fill_blank" THEN 0 ELSE 1]
  BY Zenon DEF K!blankQuestion
<1> QED
  BY <1>1, <1>2, <1>3, <1>4, Zenon

\* The members of a question.
LEMMA QuestionIs ==
    ASSUME NEW q, q.id \in Nat, q.type \in {"multiple_choice", "fill_blank"}, q.prompt \in PromptTexts,
           q.options \in Seq(AnswerRows), q.right \in Nat, q.meant \in Nat, q.source \in {"ai", "curated"},
           q = [id |-> q.id, type |-> q.type, prompt |-> q.prompt, options |-> q.options,
                right |-> q.right, meant |-> q.meant, source |-> q.source],
           q.meant # 0 => /\ q.type = "multiple_choice" /\ q.right \in 1..Len(q.options)
                          /\ q.options[q.right].id = q.meant
    PROVE  q \in GoodQuestions
  BY DEF GoodQuestions

LEMMA QuestionHas ==
    ASSUME NEW q \in GoodQuestions
    PROVE  /\ q.id \in Nat /\ q.type \in {"multiple_choice", "fill_blank"} /\ q.prompt \in PromptTexts
           /\ q.options \in Seq(AnswerRows) /\ q.right \in Nat /\ q.meant \in Nat
           /\ q.source \in {"ai", "curated"}
           /\ q = [id |-> q.id, type |-> q.type, prompt |-> q.prompt, options |-> q.options,
                   right |-> q.right, meant |-> q.meant, source |-> q.source]
           /\ q.meant # 0 => /\ q.type = "multiple_choice" /\ q.right \in 1..Len(q.options)
                             /\ q.options[q.right].id = q.meant
           /\ Len(q.options) \in Nat /\ DOMAIN q.options = 1..Len(q.options)
           /\ \A o \in 1..Len(q.options) : q.options[o] \in AnswerRows
<1>1. /\ q.id \in Nat /\ q.type \in {"multiple_choice", "fill_blank"} /\ q.prompt \in PromptTexts
      /\ q.options \in Seq(AnswerRows) /\ q.right \in Nat /\ q.meant \in Nat
      /\ q.source \in {"ai", "curated"}
      /\ q = [id |-> q.id, type |-> q.type, prompt |-> q.prompt, options |-> q.options,
              right |-> q.right, meant |-> q.meant, source |-> q.source]
  BY DEF GoodQuestions
<1>2. q.meant # 0 => /\ q.type = "multiple_choice" /\ q.right \in 1..Len(q.options)
                     /\ q.options[q.right].id = q.meant
  BY DEF GoodQuestions
<1>3. Len(q.options) \in Nat /\ DOMAIN q.options = 1..Len(q.options)
  BY <1>1, LenProperties
<1>4. \A o \in 1..Len(q.options) : q.options[o] \in AnswerRows
  BY <1>1, ElementOfSeq
<1> QED
  BY <1>1, <1>2, <1>3, <1>4

LEMMA BlankIsGood ==
    ASSUME NEW id \in Nat, NEW t \in {"multiple_choice", "fill_blank"}, NEW q, q = K!blankQuestion(id, t)
    PROVE  q \in GoodQuestions /\ q.id = id /\ q.meant = 0
<1>1. PICK e \in PromptTexts :
         q = [id |-> id, type |-> t, prompt |-> e, source |-> "curated", meant |-> 0,
              options |-> IF t = "fill_blank" THEN <<K!Option(1, TRUE)>>
                          ELSE <<K!Option(1, TRUE), K!Option(2, TRUE)>>,
              right |-> IF t = "fill_blank" THEN 0 ELSE 1]
  BY EmptyPrompt
<1>2. /\ q.id = id /\ q.type = t /\ q.prompt = e /\ q.source = "curated" /\ q.meant = 0
      /\ q.options = IF t = "fill_blank" THEN <<K!Option(1, TRUE)>> ELSE <<K!Option(1, TRUE), K!Option(2, TRUE)>>
      /\ q.right = IF t = "fill_blank" THEN 0 ELSE 1
  BY <1>1
<1>3. q.options \in Seq(AnswerRows)
  <2>1. PICK a, b \in AnswerRows : a = K!Option(1, TRUE) /\ b = K!Option(2, TRUE)
    BY DEF K!Option, AnswerRows
  <2>2. PICK Row : Row = AnswerRows
    OBVIOUS
  <2>3. a \in Row /\ b \in Row /\ (q.options = <<a>> \/ q.options = <<a, b>>)
    BY <1>2, <2>1, <2>2
  <2>4. <<a>> \in Seq(Row) /\ <<a, b>> \in Seq(Row)
    BY <2>3
  <2> QED
    BY <2>2, <2>3, <2>4
<1>4. q.right \in Nat
  <2>1. CASE t = "fill_blank"
    BY <1>2, <2>1
  <2>2. CASE t # "fill_blank"
    BY <1>2, <2>2
  <2> QED
    BY <2>1, <2>2
<1>5. q = [id |-> q.id, type |-> q.type, prompt |-> q.prompt, options |-> q.options,
           right |-> q.right, meant |-> q.meant, source |-> q.source]
  BY <1>1
<1>6. /\ q.id \in Nat /\ q.type \in {"multiple_choice", "fill_blank"} /\ q.prompt \in PromptTexts
      /\ q.meant = 0 /\ q.source \in {"ai", "curated"}
  BY <1>2
<1>7. q.meant \in Nat /\ ~(q.meant # 0)
  BY <1>6
<1>8. q \in GoodQuestions
  BY <1>3, <1>4, <1>5, <1>6, <1>7, QuestionIs
<1> QED
  BY <1>2, <1>6, <1>8

LEMMA MadeIsGood ==
    ASSUME NEW id \in Nat, NEW from \in {"ai", "curated"}, NEW q, q = K!Choice(id, from) \/ q = K!Gap(id, from)
    PROVE  q \in GoodQuestions /\ q.id = id /\ K!Usable(q)
<1>1. PICK e \in PromptTexts :
        /\ "text" \in PromptTexts /\ "gap" \in PromptTexts /\ e # "text" /\ e # "gap"
        /\ K!questionProblem(q) <=>
             \/ q.prompt = e
             \/ q.type = "fill_blank" /\ (q.prompt # "gap" \/ \A o \in K!Range(q.options) : o.blank)
             \/ q.type = "multiple_choice" /\ (Len(q.options) < 2 \/ q.right \notin DOMAIN q.options)
  BY EmptyPrompt
<1>2. ASSUME NEW n \in Nat
      PROVE  /\ K!Texts(n) \in Seq(AnswerRows) /\ Len(K!Texts(n)) = n /\ DOMAIN K!Texts(n) = 1..n
             /\ \A k \in 1..n : K!Texts(n)[k].id = k /\ ~K!Texts(n)[k].blank
  <2>1. \A k \in 1..n : K!Option(k, FALSE) \in AnswerRows /\ K!Option(k, FALSE).id = k /\ ~K!Option(k, FALSE).blank
    BY DEF K!Option, AnswerRows
  <2>2. PICK ts : ts = K!Texts(n)
    OBVIOUS
  <2>3. ts = [k \in 1..n |-> K!Option(k, FALSE)]
    BY <2>2 DEF K!Texts
  <2>4. ts \in [1..n -> AnswerRows] /\ DOMAIN ts = 1..n /\ \A k \in 1..n : ts[k].id = k /\ ~ts[k].blank
    BY <2>1, <2>3
  <2>5. ts \in Seq(AnswerRows)
    <3>1. PICK Row : Row = AnswerRows
      OBVIOUS
    <3>2. \A f \in [1..n -> Row] : f \in Seq(Row)
      BY SeqDef
    <3> QED
      BY <2>4, <3>1, <3>2
  <2>6. Len(ts) = n
    BY <2>4, <2>5, LenProperties
  <2> QED
    BY <2>2, <2>4, <2>5, <2>6
<1>3. CASE q = K!Choice(id, from)
  <2>1. q = [id |-> id, type |-> "multiple_choice", prompt |-> "text", options |-> K!Texts(3), right |-> 2,
             meant |-> 2, source |-> from]
    BY <1>3 DEF K!Choice
  <2>2. q.options \in Seq(AnswerRows) /\ Len(q.options) = 3 /\ q.options[2].id = 2 /\ DOMAIN q.options = 1..3
    <3>1. PICK ts : ts = K!Texts(3)
      OBVIOUS
    <3>2. /\ ts \in Seq(AnswerRows) /\ Len(ts) = 3 /\ DOMAIN ts = 1..3
          /\ \A k \in 1..3 : ts[k].id = k /\ ~ts[k].blank
      BY <1>2, <3>1
    <3>3. q.options = ts
      BY <2>1, <3>1
    <3> QED
      BY <3>2, <3>3
  <2>3. q \in GoodQuestions
    BY <1>1, <2>1, <2>2, QuestionIs
  <2>4. \A o \in K!Range(q.options) : ~o.blank
    BY <1>2, <2>1 DEF K!Range
  <2> QED
    BY <1>1, <2>1, <2>2, <2>3, <2>4 DEF K!Usable, K!distinctOptions
<1>4. CASE q = K!Gap(id, from)
  <2>1. q = [id |-> id, type |-> "fill_blank", prompt |-> "gap", options |-> K!Texts(1), right |-> 0,
             meant |-> 0, source |-> from]
    BY <1>4 DEF K!Gap
  <2>2. q.options \in Seq(AnswerRows) /\ DOMAIN q.options = 1..1
    BY <1>2, <2>1
  <2>3. q \in GoodQuestions
    BY <1>1, <2>1, <2>2, QuestionIs
  <2>4. q.options[1] \in K!Range(q.options) /\ ~q.options[1].blank
    BY <1>2, <2>1 DEF K!Range
  <2> QED
    BY <1>1, <2>1, <2>3, <2>4 DEF K!Usable
<1> QED
  BY <1>3, <1>4

\* A question, edited by hand, is a question of the same name.
LEMMA PromptChanged ==
    ASSUME NEW q \in GoodQuestions, NEW e \in PromptTexts, NEW p, p = [q EXCEPT !.prompt = e]
    PROVE  p \in GoodQuestions /\ p.id = q.id /\ p.type = q.type
<1>1. PICK id, t, x, os, r, m, from :
          q = [id |-> id, type |-> t, prompt |-> x, options |-> os, right |-> r, meant |-> m, source |-> from]
  BY QuestionHas
<1>2. /\ id \in Nat /\ t \in {"multiple_choice", "fill_blank"} /\ os \in Seq(AnswerRows) /\ r \in Nat
      /\ m \in Nat /\ from \in {"ai", "curated"}
      /\ m # 0 => t = "multiple_choice" /\ r \in 1..Len(os) /\ os[r].id = m
  BY <1>1, QuestionHas
<1>3. p = [id |-> id, type |-> t, prompt |-> e, options |-> os, right |-> r, meant |-> m, source |-> from]
  BY <1>1
<1>4. p \in GoodQuestions
  BY <1>2, <1>3, QuestionIs
<1> QED
  BY <1>1, <1>3, <1>4

ShapedAs(p, q, os, r, m) ==
    p = [id |-> q.id, type |-> q.type, prompt |-> q.prompt, options |-> os, right |-> r, meant |-> m,
         source |-> q.source]

Reshapes(p, q, os, r, m) ==
    \/ p = [q EXCEPT !.options = os, !.right = r, !.meant = m]
    \/ os = q.options /\ p = [q EXCEPT !.right = r, !.meant = m]
    \/ r = q.right /\ m = q.meant /\ p = [q EXCEPT !.options = os]

LEMMA OptionsChanged ==
    ASSUME NEW q \in GoodQuestions, NEW os \in Seq(AnswerRows), NEW r \in Nat, NEW m \in Nat,
           m # 0 => q.type = "multiple_choice" /\ r \in 1..Len(os) /\ os[r].id = m,
           NEW p, ShapedAs(p, q, os, r, m)
    PROVE  p \in GoodQuestions /\ p.id = q.id
<1>1. PICK id, t, x, from :
          /\ id = q.id /\ t = q.type /\ x = q.prompt /\ from = q.source
          /\ id \in Nat /\ t \in {"multiple_choice", "fill_blank"} /\ x \in PromptTexts
          /\ from \in {"ai", "curated"}
  BY QuestionHas
<1>2. p = [id |-> id, type |-> t, prompt |-> x, options |-> os, right |-> r, meant |-> m, source |-> from]
  BY <1>1 DEF ShapedAs
<1>3. p \in GoodQuestions
  BY <1>1, <1>2, QuestionIs
<1> QED
  BY <1>1, <1>2, <1>3

LEMMA Reshaped ==
    ASSUME NEW q \in GoodQuestions, NEW os, NEW r, NEW m, NEW p, Reshapes(p, q, os, r, m)
    PROVE  ShapedAs(p, q, os, r, m)
<1>1. PICK id, t, x, old, one, two, from :
          q = [id |-> id, type |-> t, prompt |-> x, options |-> old, right |-> one, meant |-> two,
               source |-> from]
  BY QuestionHas
<1>2. q.id = id /\ q.type = t /\ q.prompt = x /\ q.source = from /\ q.options = old /\ q.right = one /\ q.meant = two
  BY <1>1
<1>3. CASE p = [q EXCEPT !.options = os, !.right = r, !.meant = m]
  BY <1>1, <1>2, <1>3 DEF ShapedAs
<1>4. CASE os = q.options /\ p = [q EXCEPT !.right = r, !.meant = m]
  BY <1>1, <1>2, <1>4 DEF ShapedAs
<1>5. CASE r = q.right /\ m = q.meant /\ p = [q EXCEPT !.options = os]
  BY <1>1, <1>2, <1>5 DEF ShapedAs
<1> QED
  BY <1>3, <1>4, <1>5 DEF Reshapes

LEMMA FreeIsFound ==
    ASSUME NEW m \in Nat, NEW Few, \E k \in 1..m : \A o \in Few : o.id # k,
           NEW n, n = CHOOSE k \in 1..m : \A o \in Few : o.id # k
    PROVE  n \in Nat /\ \A o \in Few : o.id # n
<1>1. n \in 1..m /\ \A o \in Few : o.id # n
  BY Zenon
<1> QED
  BY <1>1

LEMMA TurnedIsGood ==
    ASSUME NEW q \in GoodQuestions, NEW p, p = K!Turned(q)
    PROVE  p \in GoodQuestions /\ p.id = q.id
<1>1. PICK t \in {"multiple_choice", "fill_blank"} : p = [K!blankQuestion(q.id, t) EXCEPT !.prompt = q.prompt]
  BY DEF K!Turned
<1>2. PICK b : b = K!blankQuestion(q.id, t)
  OBVIOUS
<1>3. b \in GoodQuestions /\ b.id = q.id
  BY <1>2, QuestionHas, BlankIsGood
<1>4. q.prompt \in PromptTexts /\ p = [b EXCEPT !.prompt = q.prompt]
  BY <1>1, <1>2, QuestionHas
<1> QED
  BY <1>3, <1>4, PromptChanged

LEMMA PickedIsGood ==
    ASSUME NEW q \in GoodQuestions, q.type = "multiple_choice", NEW o \in DOMAIN q.options,
           NEW p, p = K!Picked(q, o)
    PROVE  p \in GoodQuestions /\ p.id = q.id
<1>1. /\ q.options \in Seq(AnswerRows) /\ o \in 1..Len(q.options) /\ o \in Nat
      /\ q.options[o] \in AnswerRows
  BY QuestionHas
<1>2. q.options[o].id \in Nat
  BY <1>1 DEF AnswerRows
<1>3. PICK os, m : os = q.options /\ m = q.options[o].id
  OBVIOUS
<1>4. ShapedAs(p, q, os, o, m)
  <2>1. Reshapes(p, q, os, o, m)
    BY <1>3 DEF K!Picked, Reshapes
  <2> QED
    BY <2>1, Reshaped
<1>5. os \in Seq(AnswerRows) /\ m \in Nat /\ o \in Nat /\ o \in 1..Len(os) /\ os[o].id = m
  BY <1>1, <1>2, <1>3
<1> QED
  BY <1>4, <1>5, OptionsChanged

LEMMA TypedIsGood ==
    ASSUME NEW q \in GoodQuestions, NEW o \in DOMAIN q.options, NEW p, p = K!Typed(q, o)
    PROVE  p \in GoodQuestions /\ p.id = q.id
<1>1. PICK os : os = [q.options EXCEPT ![o].blank = ~@]
  OBVIOUS
<1>2. /\ q.options \in Seq(AnswerRows) /\ o \in 1..Len(q.options) /\ q.right \in Nat /\ q.meant \in Nat
      /\ DOMAIN q.options = 1..Len(q.options) /\ \A k \in 1..Len(q.options) : q.options[k] \in AnswerRows
      /\ q.meant # 0 => /\ q.type = "multiple_choice" /\ q.right \in 1..Len(q.options)
                        /\ q.options[q.right].id = q.meant
  BY QuestionHas
<1>3. PICK x : x = [q.options[o] EXCEPT !.blank = ~@]
  OBVIOUS
<1>4. x \in AnswerRows /\ x.id = q.options[o].id
  BY <1>2, <1>3 DEF AnswerRows
<1>5. os = [q.options EXCEPT ![o] = x]
  BY <1>1, <1>3
<1>6. os \in Seq(AnswerRows) /\ Len(os) = Len(q.options) /\ \A k \in 1..Len(os) : os[k].id = q.options[k].id
  BY <1>2, <1>4, <1>5, ExceptSeq
<1>7. q.meant # 0 => q.type = "multiple_choice" /\ q.right \in 1..Len(os) /\ os[q.right].id = q.meant
  BY <1>2, <1>6
<1>8. ShapedAs(p, q, os, q.right, q.meant)
  <2>1. Reshapes(p, q, os, q.right, q.meant)
    BY <1>1, QuestionHas DEF K!Typed, Reshapes
  <2> QED
    BY <2>1, Reshaped
<1> QED
  BY <1>2, <1>6, <1>7, <1>8, OptionsChanged

LEMMA WiderIsGood ==
    ASSUME NEW q \in GoodQuestions, Len(q.options) < MaxOptions, NEW p, p = K!Wider(q)
    PROVE  p \in GoodQuestions /\ p.id = q.id
<1>1. PICK n : n = CHOOSE k \in 1..MaxOptions : \A o \in K!Range(q.options) : o.id # k
  OBVIOUS
<1>2. /\ q.options \in Seq(AnswerRows) /\ q.right \in Nat /\ q.meant \in Nat /\ Len(q.options) \in Nat
      /\ DOMAIN q.options = 1..Len(q.options) /\ \A k \in 1..Len(q.options) : q.options[k] \in AnswerRows
      /\ q.meant # 0 => /\ q.type = "multiple_choice" /\ q.right \in 1..Len(q.options)
                        /\ q.options[q.right].id = q.meant
  BY QuestionHas
<1>3. n \in Nat
  <2>1. PICK g : g = [i \in 1..Len(q.options) |-> q.options[i].id]
    OBVIOUS
  <2>2. g \in [1..Len(q.options) -> Nat]
    BY <1>2, <2>1 DEF AnswerRows
  <2>3. MaxOptions \in Nat
    BY PagesAssumption
  <2>4. \E k \in 1..MaxOptions : \A i \in 1..Len(q.options) : g[i] # k
    BY <1>2, <2>2, <2>3, OneIsFree
  <2>5. PICK k \in 1..MaxOptions : \A i \in 1..Len(q.options) : q.options[i].id # k
    BY <2>1, <2>4
  <2>6. \A o \in K!Range(q.options) : \E i \in 1..Len(q.options) : o = q.options[i]
    BY <1>2 DEF K!Range
  <2>7. \E j \in 1..MaxOptions : \A o \in K!Range(q.options) : o.id # j
    BY <2>5, <2>6
  <2> QED
    BY <1>1, <2>3, <2>7, FreeIsFound
<1>4. PICK x : x = K!Option(n, TRUE)
  OBVIOUS
<1>5. x \in AnswerRows
  BY <1>3, <1>4 DEF K!Option, AnswerRows
<1>6. PICK os : os = Append(q.options, x)
  OBVIOUS
<1>7. os \in Seq(AnswerRows) /\ Len(os) = Len(q.options) + 1 /\ \A k \in 1..Len(q.options) : os[k] = q.options[k]
  BY <1>2, <1>5, <1>6, AppendProperties
<1>8. q.meant # 0 => q.type = "multiple_choice" /\ q.right \in 1..Len(os) /\ os[q.right].id = q.meant
  BY <1>2, <1>7
<1>9. ShapedAs(p, q, os, q.right, q.meant)
  <2>1. p = [q EXCEPT !.options = Append(@, K!Option(n, TRUE))]
    BY <1>1 DEF K!Wider
  <2>2. PICK f : f = [q EXCEPT !.options = os]
    OBVIOUS
  <2>3. p = f
    BY <1>4, <1>6, <2>1, <2>2
  <2>4. Reshapes(p, q, os, q.right, q.meant)
    BY <2>2, <2>3 DEF Reshapes
  <2> QED
    BY <2>4, Reshaped
<1> QED
  BY <1>2, <1>7, <1>8, <1>9, OptionsChanged

LEMMA NarrowerIsGood ==
    ASSUME NEW q \in GoodQuestions, NEW o \in DOMAIN q.options, NEW p, p = K!Narrower(q, o)
    PROVE  p \in GoodQuestions /\ p.id = q.id
<1>1. PICK os : os = K!RemoveAt(q.options, o)
  OBVIOUS
<1>2. /\ q.options \in Seq(AnswerRows) /\ o \in 1..Len(q.options) /\ q.right \in Nat /\ q.meant \in Nat
      /\ Len(q.options) \in Nat /\ \A k \in 1..Len(q.options) : q.options[k] \in AnswerRows
      /\ q.type \in {"multiple_choice", "fill_blank"}
      /\ q.meant # 0 => /\ q.type = "multiple_choice" /\ q.right \in 1..Len(q.options)
                        /\ q.options[q.right].id = q.meant
  BY QuestionHas
<1>3. PICK r : r = IF q.type = "fill_blank" \/ o > q.right THEN q.right ELSE IF o = q.right THEN 1 ELSE q.right - 1
  OBVIOUS
<1>4. PICK m : m = IF q.meant = q.options[o].id THEN 0 ELSE q.meant
  OBVIOUS
<1>5. /\ os \in Seq(AnswerRows) /\ Len(os) = Len(q.options) - 1
      /\ \A k \in 1..Len(os) : os[k] = IF k < o THEN q.options[k] ELSE q.options[k + 1]
  BY <1>1, <1>2, PlaceTaken
<1>6. r \in Nat /\ m \in Nat
  BY <1>2, <1>3, <1>4
<1>7. ASSUME m # 0 PROVE q.type = "multiple_choice" /\ r \in 1..Len(os) /\ os[r].id = m
  <2>1. /\ m = q.meant /\ q.type = "multiple_choice" /\ q.right \in 1..Len(q.options)
        /\ q.options[q.right].id = m /\ q.options[o].id # m
    BY <1>2, <1>4, <1>7
  <2>2. q.right # o /\ q.type # "fill_blank"
    BY <2>1
  <2>3. CASE o > q.right
    <3>1. r = q.right /\ r \in 1..Len(os) /\ r < o
      BY <1>2, <1>3, <1>5, <2>1, <2>3
    <3> QED
      BY <1>5, <2>1, <3>1
  <2>4. CASE ~(o > q.right)
    <3>1. r = q.right - 1 /\ r \in 1..Len(os) /\ ~(r < o) /\ r + 1 = q.right
      BY <1>2, <1>3, <1>5, <2>1, <2>2, <2>4
    <3> QED
      BY <1>5, <2>1, <3>1
  <2> QED
    BY <2>3, <2>4
<1>8. ShapedAs(p, q, os, r, m)
  <2>1. Reshapes(p, q, os, r, m)
    BY <1>1, <1>3, <1>4, QuestionHas DEF K!Narrower, Reshapes
  <2> QED
    BY <2>1, Reshaped
<1> QED
  BY <1>5, <1>6, <1>7, <1>8, OptionsChanged

LEMMA SizeInTests ==
    ASSUME NEW Few
    PROVE  K!Cardinality(Few) = Cardinality(Few)
  BY DEF K!Cardinality, Cardinality, K!IsFiniteSet, IsFiniteSet

LEMMA ListedOnce ==
    ASSUME NEW Few, IsFiniteSet(Few), NEW s, s = K!SetToSeq(Few)
    PROVE  /\ s \in Seq(Few) /\ Len(s) = Cardinality(Few) /\ Cardinality(Few) \in Nat
           /\ DOMAIN s = 1..Len(s) /\ \A i \in 1..Len(s) : s[i] \in Few
<1>1. Cardinality(Few) \in Nat /\ ExistsBijection(1..Cardinality(Few), Few)
  BY FS_CardinalityType
<1>2. PICK h \in Bijection(1..Cardinality(Few), Few) : TRUE
  BY <1>1 DEF ExistsBijection
<1>3. h \in [1..Cardinality(Few) -> Few] /\ \A a, b \in 1..Cardinality(Few) : h[a] = h[b] => a = b
  BY <1>2 DEF Bijection, Injection, IsInjective
<1>4. DOMAIN h = 1..Cardinality(Few)
  BY <1>3
<1>5. K!IsInjective(h)
  BY <1>3, <1>4 DEF K!IsInjective
<1>6. s = CHOOSE f \in [1..Cardinality(Few) -> Few] : K!IsInjective(f)
  BY SizeInTests DEF K!SetToSeq
<1>7. s \in [1..Cardinality(Few) -> Few]
  BY <1>3, <1>5, <1>6, Zenon
<1>8. PICK n \in Nat : n = Cardinality(Few)
  BY <1>1
<1>9. s \in Seq(Few)
  BY <1>7, <1>8, SeqDef
<1>10. DOMAIN s = 1..n
  BY <1>7, <1>8
<1>11. Len(s) = n
  BY <1>8, <1>9, <1>10, LenProperties
<1> QED
  BY <1>1, <1>7, <1>8, <1>9, <1>10, <1>11

\* A question, as it is stored.
LEMMA StoredIsUsable ==
    ASSUME NEW q \in GoodQuestions, K!Usable(q), NEW p,
           p = [K!UsablePractice(q) EXCEPT !.source = "curated"]
    PROVE  p \in GoodQuestions /\ p.id = q.id /\ K!Usable(p)
<1>1. PICK e \in PromptTexts :
        /\ "text" \in PromptTexts /\ "gap" \in PromptTexts /\ e # "text" /\ e # "gap"
        /\ \A x : K!questionProblem(x) <=>
             \/ x.prompt = e
             \/ x.type = "fill_blank" /\ (x.prompt # "gap" \/ \A o \in K!Range(x.options) : o.blank)
             \/ x.type = "multiple_choice" /\ (Len(x.options) < 2 \/ x.right \notin DOMAIN x.options)
  BY EmptyPrompt
<1>2. PICK id, t, x, os, r, m, from :
          q = [id |-> id, type |-> t, prompt |-> x, options |-> os, right |-> r, meant |-> m, source |-> from]
  BY QuestionHas
<1>3. /\ id \in Nat /\ t \in {"multiple_choice", "fill_blank"} /\ os \in Seq(AnswerRows) /\ r \in Nat
      /\ m \in Nat /\ x \in PromptTexts
      /\ Len(os) \in Nat /\ DOMAIN os = 1..Len(os) /\ \A o \in 1..Len(os) : os[o] \in AnswerRows
  BY <1>2, QuestionHas
<1>4. m # 0 => t = "multiple_choice" /\ r \in 1..Len(os) /\ os[r].id = m
  BY <1>2, QuestionHas
<1>5. ~K!questionProblem(q) /\ (q.type = "multiple_choice" => K!distinctOptions(q.options))
  BY DEF K!Usable
<1>6. CASE t = "fill_blank"
  <2>1. PICK Some : Some = {o \in K!Range(os) : ~o.blank}
    OBVIOUS
  <2>2. PICK few : few = K!SetToSeq(Some)
    OBVIOUS
  <2>3. p = [id |-> id, type |-> t, prompt |-> x, options |-> few, right |-> r, meant |-> m, source |-> "curated"]
    <3>1. K!UsablePractice(q) = [q EXCEPT !.options = few]
      BY <1>2, <1>6, <2>1, <2>2 DEF K!UsablePractice
    <3> QED
      BY <1>2, <3>1
  <2>4. Some \subseteq AnswerRows /\ IsFiniteSet(Some)
    <3>1. \A o \in Some : \E i \in 1..Len(os) : o = os[i]
      BY <1>3, <2>1 DEF K!Range
    <3>2. IsFiniteSet(Some)
      BY <1>3, <3>1, NoMoreThanPlaces
    <3> QED
      BY <1>3, <3>1, <3>2
  <2>5. /\ few \in Seq(Some) /\ Len(few) = Cardinality(Some) /\ Cardinality(Some) \in Nat
        /\ DOMAIN few = 1..Len(few) /\ \A i \in 1..Len(few) : few[i] \in Some
    BY <2>2, <2>4, ListedOnce
  <2>6. few \in Seq(AnswerRows)
    BY <2>4, <2>5, SeqDef
  <2>7. x = "gap" /\ Some # {}
    <3>1. q.type = t /\ q.prompt = x /\ q.options = os
      BY <1>2
    <3>2. x = "gap" /\ ~\A o \in K!Range(os) : o.blank
      BY <1>1, <1>5, <1>6, <3>1
    <3> QED
      BY <2>1, <3>2
  <2>8. Cardinality(Some) # 0
    BY <2>4, <2>7, FS_EmptySet
  <2>9. 1 \in DOMAIN few /\ few[1] \in Some
    BY <2>5, <2>8
  <2>10. few[1] \in K!Range(few) /\ ~few[1].blank
    BY <2>1, <2>9 DEF K!Range
  <2>11. p.type = "fill_blank" /\ p.prompt = "gap" /\ p.options = few /\ p.id = id
    BY <1>6, <2>3, <2>7
  <2>12. ~K!questionProblem(p)
    BY <1>1, <2>10, <2>11
  <2>13. p \in GoodQuestions
    <3>1. PICK f : f = few
      OBVIOUS
    <3>2. /\ p.type = "fill_blank" /\ p.prompt = x /\ p.options = f /\ p.id = id /\ p.right = r /\ p.meant = m
          /\ p.source = "curated" /\ ~(m # 0)
      BY <1>4, <1>6, <2>3, <3>1
    <3>3. p = [id |-> p.id, type |-> p.type, prompt |-> p.prompt, options |-> p.options,
               right |-> p.right, meant |-> p.meant, source |-> p.source]
      BY <2>3
    <3>4. /\ p.type \in {"multiple_choice", "fill_blank"} /\ p.source \in {"ai", "curated"}
          /\ p.options \in Seq(AnswerRows) /\ p.prompt \in PromptTexts /\ p.id \in Nat /\ p.right \in Nat
          /\ p.meant \in Nat /\ ~(p.meant # 0)
      BY <1>3, <2>6, <3>1, <3>2
    <3> QED
      BY <3>3, <3>4, QuestionIs
  <2> QED
    BY <1>2, <2>11, <2>12, <2>13 DEF K!Usable
<1>7. CASE t = "multiple_choice"
  <2>1. p = [id |-> id, type |-> t, prompt |-> x, options |-> os, right |-> r, meant |-> m, source |-> "curated"]
    <3>1. K!UsablePractice(q) = q
      BY <1>2, <1>7 DEF K!UsablePractice
    <3> QED
      BY <1>2, <3>1
  <2>2. /\ q.type = p.type /\ q.prompt = p.prompt /\ q.options = p.options /\ q.right = p.right /\ q.id = p.id
        /\ p.type = "multiple_choice"
    <3>1. q.id = id /\ q.type = t /\ q.prompt = x /\ q.options = os /\ q.right = r
      BY <1>2
    <3>2. p.id = id /\ p.type = t /\ p.prompt = x /\ p.options = os /\ p.right = r
      BY ONLY <2>1
    <3> QED
      BY <1>7, <3>1, <3>2
  <2>3. ~K!questionProblem(p)
    <3>1. q.prompt # e /\ ~(Len(q.options) < 2 \/ q.right \notin DOMAIN q.options)
      BY <1>1, <1>5, <2>2
    <3>2. p.prompt # e /\ ~(Len(p.options) < 2 \/ p.right \notin DOMAIN p.options)
      BY <2>2, <3>1
    <3>3. p.type # "fill_blank"
      BY <2>2
    <3> QED
      BY <1>1, <3>2, <3>3
  <2>4. p \in GoodQuestions
    <3>1. PICK from2 \in {"ai", "curated"} : from2 = "curated"
      OBVIOUS
    <3>2. p = [id |-> id, type |-> t, prompt |-> x, options |-> os, right |-> r, meant |-> m, source |-> from2]
      BY <2>1, <3>1
    <3> QED
      BY <1>3, <1>4, <3>2, QuestionIs
  <2> QED
    BY <1>5, <2>2, <2>3, <2>4 DEF K!Usable
<1> QED
  BY <1>3, <1>6, <1>7

\* Whatever is done to a question in the editor.
Edited(q, p) ==
    \/ p = K!Turned(q)
    \/ \E e \in PromptTexts : p = [q EXCEPT !.prompt = e]
    \/ Len(q.options) < MaxOptions /\ p = K!Wider(q)
    \/ \E o \in DOMAIN q.options : \/ p = K!Typed(q, o) \/ p = K!Narrower(q, o)
                                   \/ q.type = "multiple_choice" /\ p = K!Picked(q, o)

LEMMA EditIsGood ==
    ASSUME NEW q \in GoodQuestions, NEW p, Edited(q, p)
    PROVE  p \in GoodQuestions /\ p.id = q.id
<1>1. CASE \E e \in PromptTexts : p = [q EXCEPT !.prompt = e]
  BY <1>1, PromptChanged
<1>2. CASE p = K!Turned(q)
  BY <1>2, TurnedIsGood
<1>3. CASE Len(q.options) < MaxOptions /\ p = K!Wider(q)
  BY <1>3, WiderIsGood
<1>4. ASSUME NEW o \in DOMAIN q.options,
             \/ p = K!Typed(q, o) \/ p = K!Narrower(q, o)
             \/ q.type = "multiple_choice" /\ p = K!Picked(q, o)
      PROVE  p \in GoodQuestions /\ p.id = q.id
  BY <1>4, TypedIsGood, NarrowerIsGood, PickedIsGood
<1> QED
  BY <1>1, <1>2, <1>3, <1>4 DEF Edited

\* The members of a test.
LEMMA TestHas ==
    ASSUME NEW s \in Tests
    PROVE  /\ s \in Seq(GoodQuestions) /\ Len(s) \in Nat /\ DOMAIN s = 1..Len(s)
           /\ \A i \in 1..Len(s) : s[i] \in GoodQuestions /\ s[i].id \in Nat
           /\ \A i, j \in 1..Len(s) : s[i].id = s[j].id => i = j
<1>1. s \in Seq(GoodQuestions) /\ \A i, j \in 1..Len(s) : s[i].id = s[j].id => i = j
  BY DEF Tests
<1>2. Len(s) \in Nat /\ DOMAIN s = 1..Len(s)
  BY <1>1, LenProperties
<1>3. \A i \in 1..Len(s) : s[i] \in GoodQuestions
  BY <1>1, ElementOfSeq
<1> QED
  BY <1>1, <1>2, <1>3, QuestionHas

\* What is open is told by its names.
OpenRows(s, open) == {s[i].id : i \in open \cap (1..Len(s))}

LEMMA RowRewritten ==
    ASSUME NEW s \in Tests, NEW i \in 1..Len(s), NEW p \in GoodQuestions, p.id = s[i].id,
           NEW t, t = [s EXCEPT ![i] = p]
    PROVE  /\ t \in Tests /\ Len(t) = Len(s) /\ \A open : OpenRows(t, open) = OpenRows(s, open)
<1>1. /\ s \in Seq(GoodQuestions) /\ Len(s) \in Nat
      /\ \A j \in 1..Len(s) : s[j] \in GoodQuestions /\ s[j].id \in Nat
      /\ \A j, k \in 1..Len(s) : s[j].id = s[k].id => j = k
  BY TestHas
<1>2. /\ t \in Seq(GoodQuestions) /\ Len(t) = Len(s)
      /\ \A j \in 1..Len(s) : t[j] = IF j = i THEN p ELSE s[j]
  BY <1>1, ExceptSeq
<1>3. \A j \in 1..Len(s) : t[j].id = s[j].id
  BY <1>2
<1>4. t \in Tests
  BY <1>1, <1>2, <1>3 DEF Tests
<1>5. ASSUME NEW open PROVE OpenRows(t, open) = OpenRows(s, open)
  BY <1>2, <1>3 DEF OpenRows
<1> QED
  BY <1>2, <1>4, <1>5

FreshIn(s, p) == \A i \in 1..Len(s) : s[i].id # p.id

Adds(t, s, p, wide, open) ==
    /\ t \in Tests /\ Len(t) = Len(s) + 1
    /\ OpenRows(t, wide) = OpenRows(s, open) \union {p.id}
    /\ (s \in StoredTests /\ K!Usable(p)) => t \in StoredTests

LEMMA RowAdded ==
    ASSUME NEW s \in Tests, NEW p \in GoodQuestions, FreshIn(s, p),
           NEW t, t = Append(s, p), NEW open, NEW wide, wide = open \union {Len(s) + 1}
    PROVE  Adds(t, s, p, wide, open)
<1>1. /\ s \in Seq(GoodQuestions) /\ Len(s) \in Nat
      /\ \A j \in 1..Len(s) : s[j] \in GoodQuestions /\ s[j].id \in Nat
      /\ \A j, k \in 1..Len(s) : s[j].id = s[k].id => j = k
  BY TestHas
<1>0. \A i \in 1..Len(s) : s[i].id # p.id
  BY DEF FreshIn
<1>2. /\ t \in Seq(GoodQuestions) /\ Len(t) = Len(s) + 1
      /\ \A j \in 1..Len(s) : t[j] = s[j] /\ t[Len(s) + 1] = p
  BY <1>1, AppendProperties
<1>3. t[Len(s) + 1] = p
  BY <1>1, AppendProperties
<1>4. ASSUME NEW j \in 1..Len(t), NEW k \in 1..Len(t), t[j].id = t[k].id
      PROVE  j = k
  <2>1. CASE j \in 1..Len(s) /\ k \in 1..Len(s)
    BY <1>1, <1>2, <1>4, <2>1
  <2>2. CASE j \in 1..Len(s) /\ k = Len(s) + 1
    BY <1>0, <1>1, <1>2, <1>3, <1>4, <2>2
  <2>3. CASE j = Len(s) + 1 /\ k \in 1..Len(s)
    BY <1>0, <1>1, <1>2, <1>3, <1>4, <2>3
  <2> QED
    BY <1>1, <1>2, <2>1, <2>2, <2>3
<1>5. t \in Tests
  BY <1>2, <1>4 DEF Tests
<1>6. OpenRows(t, wide) = OpenRows(s, open) \union {p.id}
  <2>1. 1..Len(t) = (1..Len(s)) \union {Len(s) + 1}
    BY <1>1, <1>2
  <2>2. wide \cap (1..Len(t)) = (open \cap (1..Len(s))) \union {Len(s) + 1}
    BY <2>1
  <2> QED
    BY <1>1, <1>2, <1>3, <2>2 DEF OpenRows
<1>7. ASSUME s \in StoredTests, K!Usable(p) PROVE t \in StoredTests
  <2>1. \A i \in 1..Len(s) : K!Usable(s[i])
    BY <1>7 DEF StoredTests
  <2>2. ASSUME NEW i \in 1..Len(t) PROVE K!Usable(t[i])
    <3>1. CASE i \in 1..Len(s)
      BY <1>2, <2>1, <3>1
    <3>2. CASE i = Len(s) + 1
      BY <1>3, <1>7, <3>2
    <3> QED
      BY <1>1, <1>2, <3>1, <3>2
  <2> QED
    BY <1>5, <2>2 DEF StoredTests
<1> QED
  BY <1>2, <1>5, <1>6, <1>7 DEF Adds

MovedUp(open, i) == {IF j > i THEN j - 1 ELSE j : j \in open \ {i}}

LEMMA RowRemoved ==
    ASSUME NEW s \in Tests, NEW i \in 1..Len(s), NEW t, t = K!RemoveAt(s, i), NEW open \in SUBSET Nat,
           NEW upward, upward = MovedUp(open, i)
    PROVE  /\ t \in Tests /\ Len(t) = Len(s) - 1 /\ upward \in SUBSET Nat
           /\ OpenRows(t, upward) = OpenRows(s, open) \ {s[i].id}
<1>1. /\ s \in Seq(GoodQuestions) /\ Len(s) \in Nat
      /\ \A j \in 1..Len(s) : s[j] \in GoodQuestions /\ s[j].id \in Nat
      /\ \A j, k \in 1..Len(s) : s[j].id = s[k].id => j = k
  BY TestHas
<1>2. /\ t \in Seq(GoodQuestions) /\ Len(t) = Len(s) - 1
      /\ \A k \in 1..Len(t) : t[k] = IF k < i THEN s[k] ELSE s[k + 1]
  BY <1>1, PlaceTaken
<1>3. \A k \in 1..Len(t) : (IF k < i THEN k ELSE k + 1) \in 1..Len(s) /\ t[k] = s[IF k < i THEN k ELSE k + 1]
  BY <1>1, <1>2
<1>4. ASSUME NEW j \in 1..Len(t), NEW k \in 1..Len(t), t[j].id = t[k].id
      PROVE  j = k
  <2>1. PICK x, y \in 1..Len(s) : /\ x = (IF j < i THEN j ELSE j + 1) /\ y = (IF k < i THEN k ELSE k + 1)
                                  /\ t[j] = s[x] /\ t[k] = s[y]
    BY <1>3
  <2>2. x = y
    BY <1>1, <1>4, <2>1
  <2> QED
    BY <1>1, <1>2, <2>1, <2>2
<1>5. t \in Tests
  BY <1>2, <1>4 DEF Tests
<1>6. upward \in SUBSET Nat
  BY <1>1 DEF MovedUp
<1>7. ASSUME NEW x \in OpenRows(t, upward) PROVE x \in OpenRows(s, open) \ {s[i].id}
  <2>1. PICK k \in upward \cap (1..Len(t)) : x = t[k].id
    BY <1>7 DEF OpenRows
  <2>2. PICK j \in open \ {i} : k = IF j > i THEN j - 1 ELSE j
    BY <2>1 DEF MovedUp
  <2>3. j \in 1..Len(s) /\ t[k] = s[j]
    BY <1>1, <1>2, <2>1, <2>2
  <2>4. x = s[j].id /\ j # i
    BY <2>1, <2>2, <2>3
  <2> QED
    BY <1>1, <2>2, <2>3, <2>4 DEF OpenRows
<1>8. ASSUME NEW x \in OpenRows(s, open) \ {s[i].id} PROVE x \in OpenRows(t, upward)
  <2>1. PICK j \in open \cap (1..Len(s)) : x = s[j].id
    BY <1>8 DEF OpenRows
  <2>2. j # i
    BY <1>8, <2>1
  <2>3. PICK k : k = IF j > i THEN j - 1 ELSE j
    OBVIOUS
  <2>4. k \in upward /\ k \in 1..Len(t)
    BY <1>1, <1>2, <2>1, <2>2, <2>3 DEF MovedUp
  <2>5. t[k] = s[j]
    BY <1>1, <1>2, <2>1, <2>2, <2>3, <2>4
  <2> QED
    BY <2>1, <2>4, <2>5 DEF OpenRows
<1> QED
  BY <1>2, <1>5, <1>6, <1>7, <1>8

LEMMA RowToggled ==
    ASSUME NEW s \in Tests, NEW i \in 1..Len(s), NEW open \in SUBSET Nat
    PROVE  /\ OpenRows(s, open \ {i}) = OpenRows(s, open) \ {s[i].id}
           /\ OpenRows(s, open \union {i}) = OpenRows(s, open) \union {s[i].id}
<1>1. \A j, k \in 1..Len(s) : s[j].id = s[k].id => j = k
  BY TestHas
<1>2. OpenRows(s, open \ {i}) = OpenRows(s, open) \ {s[i].id}
  BY <1>1 DEF OpenRows
<1>3. OpenRows(s, open \union {i}) = OpenRows(s, open) \union {s[i].id}
  BY DEF OpenRows
<1> QED
  BY <1>2, <1>3

\* Questions with a name of their own, in any order, are a test.
LEMMA OrderedIsStored ==
    ASSUME NEW n \in Nat, NEW g, NEW Few, NEW s \in K!SetToSeqs(Few),
           \A x \in Few : x \in GoodQuestions /\ K!Usable(x) /\ \E i \in 1..n : x = g[i],
           \A x, y \in Few : x.id = y.id => x = y
    PROVE  s \in StoredTests /\ Len(s) <= n
<1>1. IsFiniteSet(Few) /\ Cardinality(Few) \in 0..n
  BY NoMoreThanPlaces
<1>2. PICK m \in 0..n : m = Cardinality(Few)
  BY <1>1
<1>3. s \in [1..m -> Few] /\ \A i, j \in 1..m : i # j => s[i] # s[j]
  BY <1>2, SizeInTests DEF K!SetToSeqs
<1>4. s \in [1..m -> GoodQuestions] /\ \A i \in 1..m : s[i] \in Few
  BY <1>3
<1>5. s \in Seq(GoodQuestions) /\ Len(s) = m
  <2>1. PICK Row : Row = GoodQuestions
    OBVIOUS
  <2>2. s \in [1..m -> Row] /\ m \in Nat
    BY <1>4, <2>1
  <2>3. s \in Seq(Row) /\ DOMAIN s = 1..m
    BY <2>2, SeqDef
  <2>4. Len(s) = m
    BY <2>2, <2>3, LenProperties
  <2> QED
    BY <2>1, <2>3, <2>4
<1>6. \A i, j \in 1..m : s[i].id = s[j].id => i = j
  BY <1>3, <1>4
<1> QED
  BY <1>4, <1>5, <1>6 DEF Tests, StoredTests

\* How long a list may have grown: by hand it stops at MaxQuestions, and each
\* test that the model has written added one.
Most == MaxQuestions + requests - (IF author = "writes" THEN 1 ELSE 0)

Askings == [at : {"no", "item", "all"}, index : Nat]
Benches == [key : Nat, questions : Tests, open : SUBSET Nat, asked : Askings]
Shows == [version : Nat, questions : Tests]

BudgetOk == requests \in 0..MaxRequests /\ author \in {"no", "writes", "wrote"} /\ (author = "writes" => requests >= 1)
LessonOk == /\ lesson \in [version : Nat, draft : StoredTests, live : StoredTests]
            /\ Len(lesson.draft) <= Most /\ Len(lesson.live) <= Most
CacheOk == cachedLesson \in Shows /\ Len(cachedLesson.questions) <= Most
CallOk == saveCall # Nothing =>
              /\ saveCall \in [at : {"sent", "versioned", "stored", "refused"}, questions : Tests]
              /\ Len(saveCall.questions) <= Most
BenchOk == bench # Nothing => /\ bench \in Benches /\ Len(bench.questions) <= Most
                              /\ wanted = OpenRows(bench.questions, bench.open)
TaughtOk == taught \in BOOLEAN /\ (taught => lesson.live # <<>>)

TestInv == BudgetOk /\ LessonOk /\ CacheOk /\ CallOk /\ BenchOk /\ TaughtOk

LEMMA TestConstants ==
    MaxQuestions \in Nat /\ MaxQuestions >= 2 /\ MaxRequests \in Nat
<1>1. MaxQuestions \in Nat \ {0, 1}
  BY PagesAssumption
<1>2. MaxRequests \in Nat
  BY PagesAssumption
<1> QED
  BY <1>1, <1>2

LEMMA MostIs ==
    ASSUME BudgetOk
    PROVE  /\ Most \in Nat /\ MaxQuestions <= Most /\ Most <= MaxQuestions + MaxRequests
           /\ author = "writes" => Most < MaxQuestions + MaxRequests
           /\ 2 <= Most /\ MaxQuestions \in Nat /\ MaxRequests \in Nat /\ requests \in Nat
<1>1. MaxQuestions \in Nat /\ MaxQuestions >= 2 /\ MaxRequests \in Nat
  BY TestConstants
<1> QED
  BY <1>1 DEF BudgetOk, Most

\* A test that is long enough is as long as it may be.
LEMMA RoomGrows ==
    ASSUME BudgetOk,
           \/ requests' = requests /\ author' = author
           \/ requests' = requests + 1 /\ requests < MaxRequests /\ author' = author
           \/ requests' = requests + 1 /\ requests < MaxRequests /\ author = "no" /\ author' = "writes"
           \/ requests' = requests /\ author = "writes" /\ author' \in {"no", "wrote"}
           \/ requests' = requests /\ author = "wrote" /\ author' = "no"
    PROVE  BudgetOk' /\ Most <= Most' /\ Most' \in Nat /\ Most \in Nat
<1>1. MaxQuestions \in Nat /\ MaxQuestions >= 2 /\ MaxRequests \in Nat
  BY TestConstants
<1>2. requests \in Nat /\ requests <= MaxRequests
  BY <1>1 DEF BudgetOk
<1>3. BudgetOk'
  BY <1>1, <1>2 DEF BudgetOk
<1>4. Most \in Nat /\ Most' \in Nat
  <2>1. requests' \in Nat
    BY <1>2
  <2>2. Most \in Nat
    BY <1>1, <1>2 DEF Most
  <2>3. Most' \in Nat
    <3>1. Most' = MaxQuestions + requests' \/ Most' = MaxQuestions + requests' - 1
      BY <1>1, <2>1 DEF Most
    <3> QED
      BY <1>1, <2>1, <3>1
  <2> QED
    BY <2>2, <2>3
<1>5. Most <= Most'
  <2>1. CASE author = "writes"
    <3>1. Most = MaxQuestions + requests - 1 /\ (author' = "writes" \/ requests' = requests)
      BY <1>1, <1>2, <2>1 DEF Most
    <3>2. Most' = MaxQuestions + requests' \/ Most' = MaxQuestions + requests' - 1
      BY <1>1, <1>2 DEF Most
    <3> QED
      BY <1>1, <1>2, <3>1, <3>2
  <2>2. CASE author # "writes"
    <3>1. Most = MaxQuestions + requests
      BY <1>1, <1>2, <2>2 DEF Most
    <3>2. CASE author' = "writes"
      <4>1. Most' = MaxQuestions + requests' - 1 /\ requests' = requests + 1
        BY <1>1, <1>2, <2>2, <3>2 DEF Most
      <4> QED
        BY <1>1, <1>2, <3>1, <4>1
    <3>3. CASE author' # "writes"
      <4>1. Most' = MaxQuestions + requests'
        BY <1>1, <1>2, <3>3 DEF Most
      <4> QED
        BY <1>1, <1>2, <3>1, <4>1
    <3> QED
      BY <3>2, <3>3
  <2> QED
    BY <2>1, <2>2
<1> QED
  BY <1>3, <1>4, <1>5

LEMMA LengthIs ==
    /\ \A s \in Tests : Len(s) \in Nat
    /\ \A s \in StoredTests : s \in Tests /\ Len(s) \in Nat
<1>1. \A s \in Tests : Len(s) \in Nat
  BY TestHas
<1>2. \A s \in StoredTests : s \in Tests
  BY DEF StoredTests
<1> QED
  BY <1>1, <1>2

LEMMA LessonStays ==
    ASSUME LessonOk, Most \in Nat, Most' \in Nat, Most <= Most', lesson' = lesson
    PROVE  LessonOk'
<1>1. lesson.draft \in StoredTests /\ lesson.live \in StoredTests
  BY DEF LessonOk
<1>2. Len(lesson.draft) \in Nat /\ Len(lesson.live) \in Nat
  BY <1>1, LengthIs
<1>3. Len(lesson.draft) <= Most' /\ Len(lesson.live) <= Most'
  BY <1>2 DEF LessonOk
<1> QED
  BY <1>3 DEF LessonOk

LEMMA CacheStays ==
    ASSUME CacheOk, Most \in Nat, Most' \in Nat, Most <= Most', cachedLesson' = cachedLesson
    PROVE  CacheOk'
<1>1. cachedLesson.questions \in Tests
  BY DEF CacheOk, Shows
<1>2. Len(cachedLesson.questions) <= Most'
  BY <1>1, LengthIs DEF CacheOk
<1> QED
  BY <1>2 DEF CacheOk

LEMMA CallStays ==
    ASSUME CallOk, Most \in Nat, Most' \in Nat, Most <= Most', saveCall' = saveCall \/ saveCall' = Nothing
    PROVE  CallOk'
<1> SUFFICES ASSUME saveCall' # Nothing PROVE CallOk'
  BY DEF CallOk
<1>1. saveCall.questions \in Tests
  BY DEF CallOk
<1>2. Len(saveCall.questions) <= Most'
  BY <1>1, LengthIs DEF CallOk
<1> QED
  BY <1>2 DEF CallOk

LEMMA BenchStays ==
    ASSUME BenchOk, Most \in Nat, Most' \in Nat, Most <= Most', bench' = bench, wanted' = wanted
    PROVE  BenchOk'
<1> SUFFICES ASSUME bench' # Nothing PROVE BenchOk'
  BY DEF BenchOk
<1>1. bench.questions \in Tests
  BY DEF BenchOk, Benches
<1>2. Len(bench.questions) <= Most'
  BY <1>1, LengthIs DEF BenchOk
<1> QED
  BY <1>2 DEF BenchOk

\* What is loaded is what is shown.
LEMMA LoadedIs ==
    ASSUME LessonOk
    PROVE  K!Loaded \in Shows /\ Len(K!Loaded.questions) <= Most
<1>1. lesson.version \in Nat /\ lesson.draft \in StoredTests /\ lesson.live \in StoredTests
  BY DEF LessonOk
<1>2. lesson.draft \in Tests /\ lesson.live \in Tests
  BY <1>1, LengthIs
<1> QED
  BY <1>1, <1>2 DEF LessonOk, K!Loaded, Shows

LEMMA ShownIsWhole ==
    ASSUME BenchOk, Most \in Nat, Most' \in Nat, Most <= Most',
           NEW c \in Shows, Len(c.questions) <= Most', NEW w, K!Show(c, w)
    PROVE  BenchOk'
<1>1. CASE bench' = Nothing
  BY <1>1 DEF BenchOk
<1>2. CASE bench' = bench /\ wanted' = wanted
  BY <1>2, BenchStays
<1>3. CASE bench' = K!Mounted(c) /\ wanted' = {}
  <2>1. bench' = [key |-> c.version, questions |-> c.questions, open |-> {},
                  asked |-> [at |-> "no", index |-> 0]]
    BY <1>3 DEF K!Mounted, K!Unasked
  <2>2. bench' \in Benches /\ bench'.questions = c.questions /\ bench'.open = {}
    BY <2>1 DEF Benches, Askings, Shows
  <2>3. wanted' = OpenRows(c.questions, {})
    BY <1>3 DEF OpenRows
  <2> QED
    BY <2>2, <2>3 DEF BenchOk, OpenRows
<1> QED
  BY <1>1, <1>2, <1>3 DEF K!Show, K!screen

\* What the editor does leaves the server alone.
LEMMA EditorStep ==
    ASSUME TestInv, UNCHANGED <<lesson, cachedLesson, saveCall, author, taught, requests>>, BenchOk'
    PROVE  TestInv'
<1> USE DEF TestInv
<1>1. BudgetOk' /\ Most <= Most' /\ Most' \in Nat /\ Most \in Nat
  BY RoomGrows
<1>2. LessonOk' /\ CacheOk' /\ CallOk'
  BY <1>1, LessonStays, CacheStays, CallStays
<1>3. TaughtOk'
  BY DEF TaughtOk
<1> QED
  BY <1>1, <1>2, <1>3

LEMMA BenchIs ==
    ASSUME BenchOk, bench # Nothing
    PROVE  /\ bench.key \in Nat /\ bench.questions \in Tests /\ bench.open \in SUBSET Nat /\ bench.asked \in Askings
           /\ bench = [key |-> bench.key, questions |-> bench.questions, open |-> bench.open, asked |-> bench.asked]
           /\ Len(bench.questions) <= Most /\ wanted = OpenRows(bench.questions, bench.open)
           /\ Len(bench.questions) \in Nat /\ K!Rows = 1..Len(bench.questions)
<1>1. bench \in Benches /\ Len(bench.questions) <= Most /\ wanted = OpenRows(bench.questions, bench.open)
  BY DEF BenchOk
<1>2. /\ bench.key \in Nat /\ bench.questions \in Tests /\ bench.open \in SUBSET Nat /\ bench.asked \in Askings
      /\ bench = [key |-> bench.key, questions |-> bench.questions, open |-> bench.open, asked |-> bench.asked]
  BY <1>1 DEF Benches
<1>3. Len(bench.questions) \in Nat /\ K!Rows = 1..Len(bench.questions)
  BY <1>2, TestHas DEF K!Rows
<1> QED
  BY <1>1, <1>2, <1>3

\* The editor, with other rows.
LEMMA RowsStep ==
    ASSUME TestInv, bench # Nothing, NEW qs \in Tests, NEW open \in SUBSET Nat, NEW ask \in Askings,
           UNCHANGED <<lesson, cachedLesson, saveCall, author, taught, requests>>,
           Len(qs) <= Most,
           bench' = [key |-> bench.key, questions |-> qs, open |-> open, asked |-> ask],
           wanted' = OpenRows(qs, open)
    PROVE  TestInv'
<1>1. Most' = Most
  BY DEF Most
<1>2. bench.key \in Nat
  BY BenchIs DEF TestInv
<1>3. bench' \in Benches /\ bench'.questions = qs /\ bench'.open = open
  BY <1>2 DEF Benches
<1>4. BenchOk'
  BY <1>1, <1>3 DEF BenchOk
<1> QED
  BY <1>4, EditorStep

LEMMA EditorParts ==
    ASSUME NEW i, K!PracticeEditor(i), NEW q, q = bench.questions[i]
    PROVE  K!toggle(i) \/ K!removed(i) \/ \E p : Edited(q, p) /\ K!update(i, p)
<1>1. CASE K!toggle(i) \/ K!removed(i)
  BY <1>1
<1>2. CASE K!update(i, K!Turned(q))
  BY <1>2 DEF Edited
<1>3. ASSUME NEW e \in {"", "text", "gap"} \ {q.prompt}, K!update(i, [q EXCEPT !.prompt = e])
      PROVE  \E p : Edited(q, p) /\ K!update(i, p)
  <2>1. PICK p : p = [q EXCEPT !.prompt = e]
    BY Zenon
  <2>2. e \in PromptTexts
    BY Zenon DEF PromptTexts
  <2>3. Edited(q, p)
    BY <2>1, <2>2, Zenon DEF Edited
  <2> QED
    BY <1>3, <2>1, <2>3, Zenon
<1>4. CASE Len(q.options) < MaxOptions /\ K!update(i, K!Wider(q))
  BY <1>4 DEF Edited
<1>5. ASSUME NEW o \in DOMAIN q.options,
             \/ K!update(i, K!Typed(q, o))
             \/ q.type = "multiple_choice" /\ o # q.right /\ K!update(i, K!Picked(q, o))
             \/ K!update(i, K!Narrower(q, o))
      PROVE  \E p : Edited(q, p) /\ K!update(i, p)
  BY <1>5 DEF Edited
<1> QED
  BY <1>1, <1>2, <1>3, <1>4, <1>5, Zenon DEF K!PracticeEditor

LEMMA UpdateStep ==
    ASSUME TestInv, bench # Nothing, NEW i \in K!Rows, NEW p, Edited(bench.questions[i], p), K!update(i, p)
    PROVE  TestInv'
<1>1. /\ bench.questions \in Tests /\ bench.open \in SUBSET Nat /\ bench.asked \in Askings
      /\ bench = [key |-> bench.key, questions |-> bench.questions, open |-> bench.open, asked |-> bench.asked]
      /\ Len(bench.questions) <= Most /\ wanted = OpenRows(bench.questions, bench.open)
      /\ i \in 1..Len(bench.questions)
  BY BenchIs DEF TestInv
<1>2. bench.questions[i] \in GoodQuestions
  BY <1>1, TestHas
<1>3. p \in GoodQuestions /\ p.id = bench.questions[i].id
  BY <1>2, EditIsGood
<1>4. PICK qs : qs = [bench.questions EXCEPT ![i] = p]
  OBVIOUS
<1>5. qs \in Tests /\ Len(qs) = Len(bench.questions) /\ OpenRows(qs, bench.open) = OpenRows(bench.questions, bench.open)
  BY <1>1, <1>3, <1>4, RowRewritten
<1>6. /\ bench' = [bench EXCEPT !.questions[i] = p] /\ wanted' = wanted
      /\ UNCHANGED <<lesson, cachedLesson, saveCall, author, taught, requests>>
  BY DEF K!update, K!Page
<1>7. bench' = [key |-> bench.key, questions |-> qs, open |-> bench.open, asked |-> bench.asked]
  BY <1>1, <1>4, <1>6
<1> QED
  BY <1>1, <1>5, <1>6, <1>7, RowsStep

LEMMA ToggleStep ==
    ASSUME TestInv, bench # Nothing, NEW i \in K!Rows, K!toggle(i)
    PROVE  TestInv'
<1>1. /\ bench.questions \in Tests /\ bench.open \in SUBSET Nat /\ bench.asked \in Askings
      /\ bench = [key |-> bench.key, questions |-> bench.questions, open |-> bench.open, asked |-> bench.asked]
      /\ Len(bench.questions) <= Most /\ wanted = OpenRows(bench.questions, bench.open)
      /\ i \in 1..Len(bench.questions)
  BY BenchIs DEF TestInv
<1>2. UNCHANGED <<lesson, cachedLesson, saveCall, author, taught, requests>>
  BY DEF K!toggle, K!Page
<1>3. CASE bench' = [bench EXCEPT !.open = @ \ {i}] /\ wanted' = wanted \ {bench.questions[i].id}
  <2>1. PICK open \in SUBSET Nat : open = bench.open \ {i}
    BY <1>1
  <2>2. wanted' = OpenRows(bench.questions, open)
    BY <1>1, <1>3, <2>1, RowToggled
  <2>3. bench' = [key |-> bench.key, questions |-> bench.questions, open |-> open, asked |-> bench.asked]
    BY <1>1, <1>3, <2>1
  <2> QED
    BY <1>1, <1>2, <2>2, <2>3, RowsStep
<1>4. CASE bench' = [bench EXCEPT !.open = @ \union {i}] /\ wanted' = wanted \union {bench.questions[i].id}
  <2>0. i \in Nat /\ bench.open \union {i} \in SUBSET Nat
    BY <1>1
  <2>1. PICK open \in SUBSET Nat : open = bench.open \union {i}
    BY <2>0
  <2>2. wanted' = OpenRows(bench.questions, open)
    BY <1>1, <1>4, <2>1, RowToggled
  <2>3. bench' = [key |-> bench.key, questions |-> bench.questions, open |-> open, asked |-> bench.asked]
    BY <1>1, <1>4, <2>1
  <2> QED
    BY <1>1, <1>2, <2>2, <2>3, RowsStep
<1> QED
  BY <1>3, <1>4 DEF K!toggle

LEMMA RemovedStep ==
    ASSUME TestInv, bench # Nothing, NEW i \in K!Rows, K!removed(i)
    PROVE  TestInv'
<1>1. /\ bench.questions \in Tests /\ bench.open \in SUBSET Nat /\ bench.asked \in Askings
      /\ bench = [key |-> bench.key, questions |-> bench.questions, open |-> bench.open, asked |-> bench.asked]
      /\ Len(bench.questions) <= Most /\ wanted = OpenRows(bench.questions, bench.open)
      /\ i \in 1..Len(bench.questions) /\ Len(bench.questions) \in Nat
  BY BenchIs DEF TestInv
<1>2. PICK qs : qs = K!RemoveAt(bench.questions, i)
  OBVIOUS
<1>3. PICK open : open = MovedUp(bench.open, i)
  OBVIOUS
<1>4. /\ qs \in Tests /\ Len(qs) = Len(bench.questions) - 1 /\ open \in SUBSET Nat
      /\ OpenRows(qs, open) = OpenRows(bench.questions, bench.open) \ {bench.questions[i].id}
  BY <1>1, <1>2, <1>3, RowRemoved
<1>5. /\ bench' = [bench EXCEPT !.questions = K!RemoveAt(@, i),
                                !.open = {IF j > i THEN j - 1 ELSE j : j \in @ \ {i}}]
      /\ wanted' = wanted \ {bench.questions[i].id}
      /\ UNCHANGED <<lesson, cachedLesson, saveCall, author, taught, requests>>
  BY DEF K!removed, K!Page
<1>6. bench' = [key |-> bench.key, questions |-> qs, open |-> open, asked |-> bench.asked]
  BY <1>1, <1>2, <1>3, <1>5 DEF MovedUp
<1>7. Len(qs) <= Most /\ wanted' = OpenRows(qs, open)
  <2>1. Most \in Nat
    <3>1. BudgetOk
      BY DEF TestInv
    <3> QED
      BY <3>1, MostIs
  <2> QED
    BY <1>1, <1>4, <1>5, <2>1
<1> QED
  BY <1>1, <1>4, <1>5, <1>6, <1>7, RowsStep

LEMMA AddStep ==
    ASSUME TestInv, bench # Nothing, NEW t \in {"multiple_choice", "fill_blank"}, K!add(t)
    PROVE  TestInv'
<1>1. /\ bench.questions \in Tests /\ bench.open \in SUBSET Nat /\ bench.asked \in Askings
      /\ bench = [key |-> bench.key, questions |-> bench.questions, open |-> bench.open, asked |-> bench.asked]
      /\ Len(bench.questions) <= Most /\ wanted = OpenRows(bench.questions, bench.open)
      /\ K!Rows = 1..Len(bench.questions) /\ Len(bench.questions) \in Nat
  BY BenchIs DEF TestInv
<1>2. PICK id : id = CHOOSE n \in 1..(MaxQuestions + MaxRequests) : \A i \in K!Rows : bench.questions[i].id # n
  OBVIOUS
<1>3. PICK p : p = K!blankQuestion(id, t)
  OBVIOUS
<1>4. /\ Len(bench.questions) < MaxQuestions
      /\ bench' = [bench EXCEPT !.questions = Append(@, p), !.open = @ \union {Len(bench.questions) + 1}]
      /\ wanted' = wanted \union {id}
      /\ UNCHANGED <<lesson, cachedLesson, saveCall, author, taught, requests>>
  BY <1>2, <1>3 DEF K!add, K!Page
<1>5. id \in Nat /\ \A i \in 1..Len(bench.questions) : bench.questions[i].id # id
  <2>1. PICK g : g = [i \in 1..Len(bench.questions) |-> bench.questions[i].id]
    OBVIOUS
  <2>2. g \in [1..Len(bench.questions) -> Nat]
    BY <1>1, <2>1, TestHas
  <2>3. PICK m \in Nat : m = MaxQuestions + MaxRequests
    BY TestConstants
  <2>4. Len(bench.questions) < m
    BY <1>1, <1>4, <2>3, TestConstants
  <2>5. \E k \in 1..m : \A i \in 1..Len(bench.questions) : g[i] # k
    BY <1>1, <2>2, <2>4, OneIsFree
  <2>6. \E k \in 1..m : \A i \in K!Rows : bench.questions[i].id # k
    BY <1>1, <2>1, <2>5
  <2>7. id \in 1..m /\ \A i \in K!Rows : bench.questions[i].id # id
    BY <1>2, <2>3, <2>6, Zenon
  <2> QED
    BY <1>1, <2>7
<1>6. p \in GoodQuestions /\ p.id = id
  BY <1>3, <1>5, BlankIsGood
<1>7. PICK qs : qs = Append(bench.questions, p)
  OBVIOUS
<1>8. PICK open \in SUBSET Nat : open = bench.open \union {Len(bench.questions) + 1}
  <2>1. bench.open \union {Len(bench.questions) + 1} \in SUBSET Nat
    BY <1>1
  <2> QED
    BY <2>1
<1>9. /\ qs \in Tests /\ Len(qs) = Len(bench.questions) + 1
      /\ OpenRows(qs, open) = OpenRows(bench.questions, bench.open) \union {p.id}
  <2>1. PICK s, old : s = bench.questions /\ old = bench.open /\ s \in Tests
    BY <1>1
  <2>2. FreshIn(s, p)
    BY <1>5, <1>6, <2>1 DEF FreshIn
  <2>3. qs = Append(s, p) /\ open = old \union {Len(s) + 1}
    BY <1>7, <1>8, <2>1
  <2>4. Adds(qs, s, p, open, old)
    BY <1>6, <2>1, <2>2, <2>3, RowAdded
  <2> QED
    BY <2>1, <2>4 DEF Adds
<1>10. Len(qs) <= Most
  <2>1. Most \in Nat /\ MaxQuestions <= Most /\ MaxQuestions \in Nat
    BY MostIs DEF TestInv
  <2> QED
    BY <1>1, <1>4, <1>9, <2>1
<1>11. bench' = [key |-> bench.key, questions |-> qs, open |-> open, asked |-> bench.asked]
  BY <1>1, <1>4, <1>7, <1>8
<1>12. wanted' = OpenRows(qs, open)
  BY <1>1, <1>4, <1>6, <1>9
<1> QED
  BY <1>1, <1>4, <1>9, <1>10, <1>11, <1>12, RowsStep

LEMMA AskedStep ==
    ASSUME TestInv, bench # Nothing, NEW ask \in Askings,
           bench' = [bench EXCEPT !.asked = ask], wanted' = wanted,
           UNCHANGED <<lesson, cachedLesson, saveCall, author, taught, requests>>
    PROVE  TestInv'
<1>1. /\ bench.questions \in Tests /\ bench.open \in SUBSET Nat /\ bench.asked \in Askings
      /\ bench = [key |-> bench.key, questions |-> bench.questions, open |-> bench.open, asked |-> bench.asked]
      /\ Len(bench.questions) <= Most /\ wanted = OpenRows(bench.questions, bench.open)
  BY BenchIs DEF TestInv
<1>2. bench' = [key |-> bench.key, questions |-> bench.questions, open |-> bench.open, asked |-> ask]
  BY <1>1
<1>3. wanted' = OpenRows(bench.questions, bench.open)
  BY <1>1
<1> QED
  BY <1>1, <1>2, <1>3, RowsStep

LEMMA ProposedStep ==
    ASSUME TestInv, bench # Nothing, NEW qs \in Tests, Len(qs) <= Most, K!Proposed(qs)
    PROVE  TestInv'
<1>1. /\ bench.questions \in Tests /\ bench.open \in SUBSET Nat
      /\ bench = [key |-> bench.key, questions |-> bench.questions, open |-> bench.open, asked |-> bench.asked]
  BY BenchIs DEF TestInv
<1>2. PICK ask \in Askings : ask = K!Unasked
  BY DEF K!Unasked, Askings
<1>3. bench' = [key |-> bench.key, questions |-> qs, open |-> bench.open, asked |-> ask]
  BY <1>1, <1>2 DEF K!Proposed
<1>4. wanted' = OpenRows(qs, bench.open)
  BY TestHas DEF K!Proposed, OpenRows
<1>5. UNCHANGED <<lesson, cachedLesson, saveCall, author, taught, requests>>
  BY DEF K!Proposed, K!Page
<1> QED
  BY <1>1, <1>3, <1>4, <1>5, RowsStep

LEMMA RefinedStep ==
    ASSUME TestInv, bench # Nothing, K!Refined
    PROVE  TestInv'
<1>1. /\ bench.questions \in Tests /\ Len(bench.questions) <= Most /\ bench.asked \in Askings
      /\ Len(bench.questions) \in Nat /\ K!Rows = 1..Len(bench.questions)
  BY BenchIs DEF TestInv
<1>2. PICK i \in Nat : i = bench.asked.index
  BY <1>1 DEF Askings
<1>3. CASE i \in K!Rows /\ K!Proposed([bench.questions EXCEPT ![i] = K!Choice(bench.questions[i].id, "curated")])
  <2>1. PICK id : id = bench.questions[i].id
    OBVIOUS
  <2>2. id \in Nat
    BY <1>1, <1>3, <2>1, TestHas
  <2>3. PICK p : p = K!Choice(id, "curated")
    OBVIOUS
  <2>4. PICK from \in {"ai", "curated"} : from = "curated"
    OBVIOUS
  <2>5. p \in GoodQuestions /\ p.id = id
    BY <2>2, <2>3, <2>4, MadeIsGood
  <2>6. PICK qs : qs = [bench.questions EXCEPT ![i] = p]
    OBVIOUS
  <2>7. qs \in Tests /\ Len(qs) = Len(bench.questions)
    BY <1>1, <1>3, <2>1, <2>5, <2>6, RowRewritten
  <2>8. K!Proposed(qs)
    BY <1>3, <2>1, <2>3, <2>6
  <2> QED
    BY <1>1, <2>7, <2>8, ProposedStep
<1>4. CASE K!Proposed(bench.questions)
  BY <1>1, <1>4, ProposedStep
<1>5. CASE K!Proposed(<<>>)
  <2>1. PICK qs : qs = <<>>
    OBVIOUS
  <2>2. qs \in Seq(GoodQuestions) /\ Len(qs) = 0
    BY <2>1
  <2>3. qs \in Tests
    BY <2>2 DEF Tests
  <2>4. Len(qs) <= Most
    BY <2>2, MostIs DEF TestInv
  <2> QED
    BY <1>5, <2>1, <2>3, <2>4, ProposedStep
<1>6. CASE K!Proposed(<<K!Choice(1, "curated")>>)
  <2>1. PICK from \in {"ai", "curated"} : from = "curated"
    OBVIOUS
  <2>2. PICK p : p = K!Choice(1, "curated")
    OBVIOUS
  <2>3. p \in GoodQuestions
    BY <2>1, <2>2, MadeIsGood
  <2>4. PICK Row : Row = GoodQuestions
    OBVIOUS
  <2>5. PICK qs : qs = <<p>>
    OBVIOUS
  <2>6. qs \in Seq(Row) /\ Len(qs) = 1
    BY <2>3, <2>4, <2>5
  <2>7. qs \in Tests
    <3>1. \A j, k \in 1..Len(qs) : j = k
      BY <2>6
    <3>2. qs \in Seq(GoodQuestions)
      BY <2>4, <2>6
    <3> QED
      BY <3>1, <3>2 DEF Tests
  <2>8. Len(qs) <= Most
    BY <2>6, MostIs DEF TestInv
  <2> QED
    BY <1>6, <2>2, <2>5, <2>7, <2>8, ProposedStep
<1> QED
  BY <1>2, <1>3, <1>4, <1>5, <1>6 DEF K!Refined

LEMMA PersistStep ==
    ASSUME TestInv, bench # Nothing, K!persist
    PROVE  TestInv'
<1> USE DEF TestInv
<1>1. /\ requests < MaxRequests /\ requests' = requests + 1
      /\ saveCall' = [at |-> "sent", questions |-> bench.questions]
      /\ UNCHANGED <<lesson, cachedLesson, bench, wanted, author, taught>>
  BY DEF K!persist, K!Request, K!screen
<1>2. BudgetOk' /\ Most <= Most' /\ Most' \in Nat /\ Most \in Nat
  BY <1>1, RoomGrows
<1>3. LessonOk' /\ CacheOk' /\ BenchOk'
  BY <1>1, <1>2, LessonStays, CacheStays, BenchStays
<1>4. TaughtOk'
  BY <1>1 DEF TaughtOk
<1>5. CallOk'
  <2>1. bench.questions \in Tests /\ Len(bench.questions) <= Most /\ Len(bench.questions) \in Nat
    BY BenchIs
  <2>2. /\ saveCall' \in [at : {"sent", "versioned", "stored", "refused"}, questions : Tests]
        /\ saveCall'.questions = bench.questions
    BY <1>1, <2>1
  <2> QED
    BY <1>2, <2>1, <2>2 DEF CallOk
<1> QED
  BY <1>2, <1>3, <1>4, <1>5

LEMMA EditingStep ==
    ASSUME TestInv, K!Editing
    PROVE  TestInv'
<1>0. bench # Nothing
  BY DEF K!Editing
<1>1. ASSUME NEW i \in K!Rows, K!PracticeEditor(i) PROVE TestInv'
  BY <1>0, <1>1, EditorParts, UpdateStep, ToggleStep, RemovedStep
<1>2. ASSUME NEW i \in K!Rows, K!runItem(i) PROVE TestInv'
  <2>1. i \in Nat
    BY <1>0, BenchIs DEF TestInv
  <2>2. PICK ask \in Askings : ask = [at |-> "item", index |-> i]
    BY <2>1 DEF Askings
  <2> QED
    BY <1>0, <1>2, <2>2, AskedStep DEF K!runItem, K!Page
<1>3. CASE K!runRefine
  <2>1. PICK ask \in Askings : ask = [at |-> "all", index |-> 0]
    BY DEF Askings
  <2> QED
    BY <1>0, <1>3, <2>1, AskedStep DEF K!runRefine, K!Page
<1>4. CASE K!RefineFails
  <2>1. PICK ask \in Askings : ask = K!Unasked
    BY DEF Askings, K!Unasked
  <2> QED
    BY <1>0, <1>4, <2>1, AskedStep DEF K!RefineFails
<1>5. ASSUME NEW t \in {"multiple_choice", "fill_blank"}, K!add(t) PROVE TestInv'
  BY <1>0, <1>5, AddStep
<1>6. CASE K!Refined \/ K!persist
  BY <1>0, <1>6, RefinedStep, PersistStep
<1> QED
  BY <1>1, <1>2, <1>3, <1>4, <1>5, <1>6 DEF K!Editing

-----------------------------------------------------------------------------
(* What the server stores, and what is shown of it.                        *)

\* A test, as it is saved, in the order it comes back in.
LEMMA StoreIsWhole ==
    ASSUME NEW qs \in Tests, \A q \in K!Range(qs) : K!Usable(q), K!Store(qs)
    PROVE  \E order \in StoredTests : Len(order) <= Len(qs) /\ lesson' = [lesson EXCEPT !.draft = order]
<1>1. /\ Len(qs) \in Nat /\ DOMAIN qs = 1..Len(qs)
      /\ \A i \in 1..Len(qs) : qs[i] \in GoodQuestions /\ qs[i].id \in Nat
      /\ \A i, j \in 1..Len(qs) : qs[i].id = qs[j].id => i = j
  BY TestHas
<1>2. PICK g : g = [i \in 1..Len(qs) |-> [K!UsablePractice(qs[i]) EXCEPT !.source = "curated"]]
  OBVIOUS
<1>3. \A i \in 1..Len(qs) : qs[i] \in K!Range(qs) /\ K!Usable(qs[i])
  BY <1>1 DEF K!Range
<1>4. ASSUME NEW i \in 1..Len(qs)
      PROVE  g[i] \in GoodQuestions /\ g[i].id = qs[i].id /\ K!Usable(g[i])
  <2>1. PICK q : q = qs[i]
    OBVIOUS
  <2>2. PICK p : p = g[i]
    OBVIOUS
  <2>3. p = [K!UsablePractice(q) EXCEPT !.source = "curated"]
    BY <1>2, <2>1, <2>2
  <2>4. q \in GoodQuestions /\ K!Usable(q)
    BY <1>1, <1>3, <2>1
  <2> QED
    BY <2>1, <2>2, <2>3, <2>4, StoredIsUsable
<1>5. PICK Few : Few = {[K!UsablePractice(q) EXCEPT !.source = "curated"] : q \in K!Range(qs)}
  OBVIOUS
<1>6. ASSUME NEW x \in Few
      PROVE  \E i \in 1..Len(qs) : x = g[i]
  <2>1. PICK q \in K!Range(qs) : x = [K!UsablePractice(q) EXCEPT !.source = "curated"]
    BY <1>5, <1>6
  <2>2. PICK i \in 1..Len(qs) : q = qs[i]
    BY <1>1, <2>1 DEF K!Range
  <2>3. x = g[i]
    BY <1>2, <2>1, <2>2
  <2> QED
    BY <2>3
<1>7. \A x \in Few : x \in GoodQuestions /\ K!Usable(x) /\ \E i \in 1..Len(qs) : x = g[i]
  BY <1>4, <1>6
<1>8. \A x, y \in Few : x.id = y.id => x = y
  BY <1>1, <1>4, <1>6
<1>9. PICK order \in K!SetToSeqs(Few) : lesson' = [lesson EXCEPT !.draft = order]
  BY <1>5 DEF K!Store
<1>10. order \in StoredTests /\ Len(order) <= Len(qs)
  BY <1>1, <1>7, <1>8, OrderedIsStored
<1> QED
  BY <1>9, <1>10

\* The draft takes another test.
LEMMA DraftTakes ==
    ASSUME LessonOk, NEW order \in StoredTests, Most \in Nat, Most' \in Nat, Most <= Most', Len(order) <= Most',
           NEW n \in Nat, lesson' = [version |-> n, draft |-> order, live |-> lesson.live]
    PROVE  LessonOk'
<1>1. lesson.live \in StoredTests /\ Len(lesson.live) <= Most
  BY DEF LessonOk
<1>2. Len(lesson.live) \in Nat
  BY <1>1, LengthIs
<1>3. Len(lesson.live) <= Most'
  BY <1>1, <1>2
<1>4. lesson' \in [version : Nat, draft : StoredTests, live : StoredTests]
  BY <1>1
<1> QED
  BY <1>3, <1>4 DEF LessonOk

LEMMA LessonIs ==
    ASSUME LessonOk
    PROVE  /\ lesson = [version |-> lesson.version, draft |-> lesson.draft, live |-> lesson.live]
           /\ lesson.version \in Nat /\ lesson.draft \in StoredTests /\ lesson.live \in StoredTests
           /\ Len(lesson.draft) <= Most /\ Len(lesson.live) <= Most
           /\ Len(lesson.draft) \in Nat /\ Len(lesson.live) \in Nat
<1>1. /\ lesson = [version |-> lesson.version, draft |-> lesson.draft, live |-> lesson.live]
      /\ lesson.version \in Nat /\ lesson.draft \in StoredTests /\ lesson.live \in StoredTests
      /\ Len(lesson.draft) <= Most /\ Len(lesson.live) <= Most
  BY DEF LessonOk
<1> QED
  BY <1>1, LengthIs

LEMMA SaveStep ==
    ASSUME TestInv, K!saveGrammarLevel \/ K!replaceLevelQuestions
    PROVE  TestInv'
<1> USE DEF TestInv
<1>1. UNCHANGED <<cachedLesson, bench, wanted, author, taught, requests>>
  BY DEF K!saveGrammarLevel, K!replaceLevelQuestions, K!screen, K!Unspent
<1>2. BudgetOk' /\ Most <= Most' /\ Most' \in Nat /\ Most \in Nat
  BY <1>1, RoomGrows
<1>3. CacheOk' /\ BenchOk'
  BY <1>1, <1>2, CacheStays, BenchStays
<1>4. saveCall # Nothing
  BY DEF K!saveGrammarLevel, K!replaceLevelQuestions, K!At
<1>5. /\ saveCall = [at |-> saveCall.at, questions |-> saveCall.questions]
      /\ saveCall.questions \in Tests /\ Len(saveCall.questions) <= Most /\ Len(saveCall.questions) \in Nat
  <2>1. saveCall \in [at : {"sent", "versioned", "stored", "refused"}, questions : Tests]
        /\ Len(saveCall.questions) <= Most
    BY <1>4 DEF CallOk
  <2> QED
    BY <2>1, LengthIs
<1>6. ASSUME NEW next \in {"sent", "versioned", "stored", "refused"}, saveCall' = [saveCall EXCEPT !.at = next]
      PROVE  CallOk'
  <2>1. saveCall' = [at |-> next, questions |-> saveCall.questions]
    BY <1>5, <1>6
  <2>2. /\ saveCall' \in [at : {"sent", "versioned", "stored", "refused"}, questions : Tests]
        /\ Len(saveCall'.questions) <= Most'
    BY <1>2, <1>5, <2>1
  <2> QED
    BY <2>2 DEF CallOk
<1>7. CASE K!saveGrammarLevel
  <2>1. lesson' = [version |-> lesson.version + 1, draft |-> lesson.draft, live |-> lesson.live]
    BY <1>7, LessonIs DEF K!saveGrammarLevel
  <2>2. LessonOk'
    BY <1>2, <2>1, LessonIs, DraftTakes
  <2>3. CallOk'
    BY <1>6, <1>7 DEF K!saveGrammarLevel
  <2>4. TaughtOk'
    BY <1>1, <2>1 DEF TaughtOk
  <2> QED
    BY <1>2, <1>3, <2>2, <2>3, <2>4
<1>8. CASE K!replaceLevelQuestions /\ ~(\A q \in K!Range(saveCall.questions) : K!Usable(q))
  <2>1. lesson' = lesson /\ saveCall' = [saveCall EXCEPT !.at = "refused"]
    BY <1>8 DEF K!replaceLevelQuestions
  <2>2. LessonOk' /\ CallOk'
    BY <1>2, <1>6, <2>1, LessonStays
  <2>3. TaughtOk'
    BY <1>1, <2>1 DEF TaughtOk
  <2> QED
    BY <1>2, <1>3, <2>2, <2>3
<1>9. CASE K!replaceLevelQuestions /\ \A q \in K!Range(saveCall.questions) : K!Usable(q)
  <2>1. K!Store(saveCall.questions) /\ saveCall' = [saveCall EXCEPT !.at = "stored"]
    BY <1>9 DEF K!replaceLevelQuestions
  <2>2. PICK qs \in Tests : qs = saveCall.questions
    BY <1>5
  <2>3. PICK order \in StoredTests : Len(order) <= Len(qs) /\ lesson' = [lesson EXCEPT !.draft = order]
    BY <1>9, <2>1, <2>2, StoreIsWhole
  <2>4. lesson' = [version |-> lesson.version, draft |-> order, live |-> lesson.live]
    BY <2>3, LessonIs
  <2>5. Len(order) <= Most'
    BY <1>2, <1>5, <2>2, <2>3, LengthIs
  <2>6. LessonOk'
    BY <1>2, <2>4, <2>5, LessonIs, DraftTakes
  <2>7. CallOk'
    BY <1>6, <2>1
  <2>8. TaughtOk'
    BY <1>1, <2>4 DEF TaughtOk
  <2> QED
    BY <1>2, <1>3, <2>6, <2>7, <2>8
<1> QED
  BY <1>7, <1>8, <1>9

\* A call that is over, and content that is shown again.
LEMMA CallOverStep ==
    ASSUME TestInv, K!Saved \/ K!Refused \/ K!SaveFails \/ K!Reread
    PROVE  TestInv'
<1> USE DEF TestInv
<1>1. UNCHANGED <<lesson, author, taught, requests>>
  BY DEF K!Saved, K!Refused, K!SaveFails, K!Reread, K!screen, K!Unspent
<1>2. BudgetOk' /\ Most <= Most' /\ Most' \in Nat /\ Most \in Nat
  BY <1>1, RoomGrows
<1>3. LessonOk' /\ TaughtOk'
  BY <1>1, <1>2, LessonStays DEF TaughtOk
<1>4. saveCall' = saveCall \/ saveCall' = Nothing
  BY DEF K!Saved, K!Refused, K!SaveFails, K!Reread
<1>5. CallOk'
  BY <1>2, <1>4, CallStays
<1>6. CASE UNCHANGED <<cachedLesson, bench, wanted>>
  BY <1>2, <1>3, <1>5, <1>6, CacheStays, BenchStays
<1>7. CASE cachedLesson' = K!Loaded /\ K!Show(K!Loaded, author)
  <2>1. PICK c : c = K!Loaded
    OBVIOUS
  <2>2. c \in Shows /\ Len(c.questions) <= Most
    BY <2>1, LoadedIs
  <2>3. Most' = Most
    BY <1>1 DEF Most
  <2>4. CacheOk'
    BY <1>7, <2>1, <2>2, <2>3 DEF CacheOk
  <2>5. BenchOk'
    BY <1>2, <1>7, <2>1, <2>2, <2>3, ShownIsWhole
  <2> QED
    BY <1>2, <1>3, <1>5, <2>4, <2>5
<1> QED
  BY <1>6, <1>7 DEF K!Saved, K!Refused, K!SaveFails, K!Reread, K!screen

LEMMA WriteStep ==
    ASSUME TestInv, K!replaceAIPractice
    PROVE  TestInv'
<1> USE DEF TestInv
<1>1. /\ author = "writes" /\ author' = "wrote"
      /\ UNCHANGED <<cachedLesson, bench, wanted, saveCall, taught, requests>>
  BY DEF K!replaceAIPractice, K!screen, K!Unspent
<1>2. BudgetOk' /\ Most <= Most' /\ Most' \in Nat /\ Most \in Nat
  BY <1>1, RoomGrows
<1>3. CacheOk' /\ BenchOk' /\ CallOk'
  BY <1>1, <1>2, CacheStays, BenchStays, CallStays
<1>4. PICK byHand \in K!SetToSeqs({q \in K!Range(lesson.draft) : q.source = "curated"}), more \in {0, 1} :
         LET id == CHOOSE n \in 1..(MaxQuestions + MaxRequests) : \A q \in K!Range(byHand) : q.id # n
         IN  lesson' = [lesson EXCEPT !.version = @ + more, !.draft = Append(byHand, K!Choice(id, "ai"))]
  BY Zenon DEF K!replaceAIPractice
<1>5. PICK id : id = CHOOSE n \in 1..(MaxQuestions + MaxRequests) : \A q \in K!Range(byHand) : q.id # n
  OBVIOUS
<1>6. PICK p : p = K!Choice(id, "ai")
  OBVIOUS
<1>7. PICK order : order = Append(byHand, p)
  OBVIOUS
<1>8. lesson' = [version |-> lesson.version + more, draft |-> order, live |-> lesson.live]
  <2>1. lesson' = [lesson EXCEPT !.version = @ + more, !.draft = order]
    BY <1>4, <1>5, <1>6, <1>7
  <2> QED
    BY <2>1, LessonIs
<1>9. byHand \in StoredTests /\ Len(byHand) <= Len(lesson.draft)
  <2>1. PICK s, n : s = lesson.draft /\ s \in StoredTests /\ n = Len(s) /\ n \in Nat
    BY LessonIs
  <2>2. PICK Few : Few = {q \in K!Range(s) : q.source = "curated"}
    OBVIOUS
  <2>3. /\ s \in Tests /\ DOMAIN s = 1..n /\ \A i \in 1..n : s[i] \in GoodQuestions /\ K!Usable(s[i])
        /\ \A i, j \in 1..n : s[i].id = s[j].id => i = j
    BY <2>1, TestHas DEF StoredTests
  <2>4. \A x \in Few : \E i \in 1..n : x = s[i]
    BY <2>2, <2>3 DEF K!Range
  <2>5. \A x \in Few : x \in GoodQuestions /\ K!Usable(x) /\ \E i \in 1..n : x = s[i]
    BY <2>3, <2>4
  <2>6. \A x, y \in Few : x.id = y.id => x = y
    BY <2>3, <2>4
  <2>7. byHand \in K!SetToSeqs(Few)
    BY <1>4, <2>1, <2>2
  <2>8. PICK inOrder : inOrder = byHand
    OBVIOUS
  <2>9. n \in Nat /\ inOrder \in K!SetToSeqs(Few)
    BY <2>1, <2>7, <2>8
  <2>10. inOrder \in StoredTests /\ Len(inOrder) <= n
    BY ONLY <2>5, <2>6, <2>9, OrderedIsStored
  <2> QED
    BY <2>1, <2>8, <2>10
<1>10. /\ byHand \in Tests /\ Len(byHand) \in Nat /\ DOMAIN byHand = 1..Len(byHand)
       /\ \A i \in 1..Len(byHand) : byHand[i].id \in Nat
  BY <1>9, LengthIs, TestHas
<1>11. id \in Nat /\ \A q \in K!Range(byHand) : q.id # id
  <2>1. PICK g : g = [i \in 1..Len(byHand) |-> byHand[i].id]
    OBVIOUS
  <2>2. g \in [1..Len(byHand) -> Nat]
    BY <1>10, <2>1
  <2>3. PICK m \in Nat : m = MaxQuestions + MaxRequests
    BY TestConstants
  <2>4. Len(byHand) < m
    <3>1. Len(lesson.draft) <= Most /\ Len(lesson.draft) \in Nat /\ Most < m
      BY <1>1, <2>3, LessonIs, MostIs
    <3> QED
      BY <1>2, <1>9, <1>10, <3>1
  <2>5. PICK k \in 1..m : \A i \in 1..Len(byHand) : g[i] # k
    BY <1>10, <2>2, <2>4, OneIsFree
  <2>6. \A q \in K!Range(byHand) : \E i \in 1..Len(byHand) : q = byHand[i]
    BY <1>10 DEF K!Range
  <2>7. \E j \in 1..m : \A q \in K!Range(byHand) : q.id # j
    BY <2>1, <2>5, <2>6
  <2>8. id = CHOOSE n \in 1..m : \A q \in K!Range(byHand) : q.id # n
    BY <1>5, <2>3
  <2> QED
    BY <2>7, <2>8, FreeIsFound
<1>12. p \in GoodQuestions /\ p.id = id /\ K!Usable(p)
  <2>1. PICK from \in {"ai", "curated"} : from = "ai"
    OBVIOUS
  <2> QED
    BY <1>6, <1>11, <2>1, MadeIsGood
<1>13. FreshIn(byHand, p)
  <2>1. \A i \in 1..Len(byHand) : byHand[i] \in K!Range(byHand)
    BY <1>10 DEF K!Range
  <2> QED
    BY <1>11, <1>12, <2>1 DEF FreshIn
<1>14. order \in StoredTests /\ Len(order) = Len(byHand) + 1
  <2>1. PICK open, wide : open = {} /\ wide = open \union {Len(byHand) + 1}
    OBVIOUS
  <2>2. Adds(order, byHand, p, wide, open)
    BY <1>7, <1>10, <1>12, <1>13, <2>1, RowAdded
  <2> QED
    BY <1>9, <1>12, <2>2 DEF Adds
<1>15. Len(order) <= Most'
  <2>1. Most' = Most + 1
    <3>1. Most = MaxQuestions + requests - 1
      BY <1>1 DEF Most
    <3>2. Most' = MaxQuestions + requests
      BY <1>1, MostIs DEF Most
    <3> QED
      BY <3>1, <3>2, MostIs
  <2>2. Len(lesson.draft) <= Most /\ Len(lesson.draft) \in Nat
    BY LessonIs
  <2> QED
    BY <1>2, <1>9, <1>10, <1>14, <2>1, <2>2
<1>16. LessonOk'
  <2>1. lesson.version + more \in Nat
    BY <1>4, LessonIs
  <2> QED
    BY <1>2, <1>8, <1>14, <1>15, <2>1, DraftTakes
<1>17. TaughtOk'
  BY <1>1, <1>8 DEF TaughtOk
<1> QED
  BY <1>2, <1>3, <1>16, <1>17

LEMMA AuthorStep ==
    ASSUME TestInv, K!runGenerate \/ K!WritingOver \/ K!GenerationFails
    PROVE  TestInv'
<1> USE DEF TestInv
<1>1. /\ UNCHANGED <<lesson, cachedLesson, saveCall, taught>>
      /\ K!Show(cachedLesson, "no") \/ K!Show(cachedLesson, author')
      /\ \/ author = "no" /\ requests < MaxRequests /\ requests' = requests + 1 /\ author' = "writes"
         \/ author \in {"writes", "wrote"} /\ requests' = requests /\ author' = "no"
  BY DEF K!runGenerate, K!WritingOver, K!GenerationFails, K!Request, K!Unspent
<1>2. BudgetOk' /\ Most <= Most' /\ Most' \in Nat /\ Most \in Nat
  BY <1>1, RoomGrows
<1>3. LessonOk' /\ CacheOk' /\ CallOk' /\ TaughtOk'
  BY <1>1, <1>2, LessonStays, CacheStays, CallStays DEF TaughtOk
<1>4. PICK c \in Shows : c = cachedLesson
  BY DEF CacheOk
<1>5. Len(c.questions) <= Most'
  <2>1. c.questions \in Tests
    BY DEF Shows
  <2>2. Len(c.questions) \in Nat /\ Len(c.questions) <= Most
    BY <1>4, <2>1, LengthIs DEF CacheOk
  <2> QED
    BY <1>2, <2>2
<1>6. BenchOk'
  BY <1>1, <1>2, <1>4, <1>5, ShownIsWhole
<1> QED
  BY <1>2, <1>3, <1>6

LEMMA LaunchStep ==
    ASSUME TestInv, K!publish \/ K!checkTopic \/ K!publishLevelExtras \/ K!Look
    PROVE  TestInv'
<1> USE DEF TestInv
<1>1. /\ UNCHANGED <<cachedLesson, bench, wanted, saveCall, author>>
      /\ requests' = requests \/ (requests < MaxRequests /\ requests' = requests + 1)
  BY DEF K!publish, K!checkTopic, K!publishLevelExtras, K!Look, K!Request, K!screen, K!Unspent
<1>2. BudgetOk' /\ Most <= Most' /\ Most' \in Nat /\ Most \in Nat
  BY <1>1, RoomGrows
<1>3. CacheOk' /\ BenchOk' /\ CallOk'
  BY <1>1, <1>2, CacheStays, BenchStays, CallStays
<1>4. CASE UNCHANGED <<lesson, taught>>
  BY <1>2, <1>3, <1>4, LessonStays DEF TaughtOk
<1>5. CASE lesson' = lesson /\ taught' = (taught \/ lesson'.live # <<>>)
  <2>1. TaughtOk'
    BY <1>5 DEF TaughtOk
  <2> QED
    BY <1>2, <1>3, <1>5, <2>1, LessonStays
<1>6. CASE /\ lesson.draft # <<>> /\ lesson' = [lesson EXCEPT !.live = lesson.draft, !.draft = <<>>]
           /\ taught' = (taught \/ lesson'.live # <<>>)
  <2>1. PICK s \in StoredTests : s = <<>>
    <3>1. <<>> \in Seq(GoodQuestions) /\ Len(<<>>) = 0
      OBVIOUS
    <3>2. <<>> \in StoredTests
      BY <3>1 DEF Tests, StoredTests
    <3> QED
      BY <3>2
  <2>2. lesson' = [version |-> lesson.version, draft |-> s, live |-> lesson.draft]
    BY <1>6, <2>1, LessonIs
  <2>3. lesson' \in [version : Nat, draft : StoredTests, live : StoredTests]
    BY <2>2, LessonIs
  <2>4. Len(lesson'.draft) <= Most' /\ Len(lesson'.live) <= Most'
    <3>1. Len(s) = 0
      BY <2>1
    <3> QED
      BY <1>2, <2>2, <3>1, LessonIs
  <2>5. LessonOk'
    BY <2>3, <2>4 DEF LessonOk
  <2>6. TaughtOk'
    <3>1. lesson'.live # <<>>
      BY <1>6, <2>2
    <3> QED
      BY <1>6, <3>1 DEF TaughtOk
  <2> QED
    BY <1>2, <1>3, <2>5, <2>6
<1> QED
  BY <1>4, <1>5, <1>6 DEF K!publish, K!checkTopic, K!publishLevelExtras, K!Look

LEMMA TestStart == Init => TestInv
<1> SUFFICES ASSUME K!TestInit PROVE TestInv
  BY DEF Init
<1>1. PICK old : old = <<K!Choice(1, "ai"), K!Gap(2, "ai")>>
  OBVIOUS
<1>2. PICK a, b : a = K!Choice(1, "ai") /\ b = K!Gap(2, "ai")
  OBVIOUS
<1>3. /\ a \in GoodQuestions /\ a.id = 1 /\ K!Usable(a)
      /\ b \in GoodQuestions /\ b.id = 2 /\ K!Usable(b)
  <2>1. PICK from \in {"ai", "curated"} : from = "ai"
    OBVIOUS
  <2>2. a = K!Choice(1, from) /\ b = K!Gap(2, from) /\ 1 \in Nat /\ 2 \in Nat
    BY <1>2, <2>1
  <2> QED
    BY <2>2, MadeIsGood
<1>4. old \in Seq(GoodQuestions) /\ Len(old) = 2 /\ old[1] = a /\ old[2] = b
  <2>1. PICK Row : Row = GoodQuestions
    OBVIOUS
  <2>2. a \in Row /\ b \in Row /\ old = <<a, b>>
    BY <1>1, <1>2, <1>3, <2>1
  <2>3. old \in Seq(Row) /\ Len(old) = 2 /\ old[1] = a /\ old[2] = b
    BY <2>2
  <2> QED
    BY <2>1, <2>3
<1>5. old \in StoredTests
  <2>1. \A k \in 1..Len(old) : k = 1 \/ k = 2
    BY <1>4
  <2>2. \A k \in 1..Len(old) : K!Usable(old[k]) /\ old[k].id = k
    BY <1>3, <1>4, <2>1
  <2>3. \A j, k \in 1..Len(old) : old[j].id = old[k].id => j = k
    BY <2>2
  <2> QED
    BY <1>4, <2>2, <2>3 DEF Tests, StoredTests
<1>6. PICK none : none = <<>>
  OBVIOUS
<1>7. none \in StoredTests /\ Len(none) = 0
  <2>1. none \in Seq(GoodQuestions) /\ Len(none) = 0
    BY <1>6
  <2> QED
    BY <2>1 DEF Tests, StoredTests
<1>8. /\ \/ lesson = [version |-> 1, draft |-> none, live |-> old]
         \/ lesson = [version |-> 1, draft |-> old, live |-> none]
      /\ cachedLesson = K!Loaded /\ bench = K!Mounted(K!Loaded) /\ wanted = {} /\ saveCall = Nothing
      /\ author = "no" /\ taught = (lesson.live # <<>>) /\ requests = 0
  BY <1>1, <1>6 DEF K!TestInit
<1>9. BudgetOk
  BY <1>8, TestConstants DEF BudgetOk
<1>10. Most \in Nat /\ 2 <= Most
  BY <1>9, MostIs
<1>11. LessonOk
  <2>1. lesson \in [version : Nat, draft : StoredTests, live : StoredTests]
    BY <1>5, <1>7, <1>8
  <2>2. Len(lesson.draft) <= Most /\ Len(lesson.live) <= Most
    <3>1. Len(old) <= Most /\ Len(none) <= Most
      BY <1>4, <1>7, <1>10
    <3>2. (lesson.draft = none /\ lesson.live = old) \/ (lesson.draft = old /\ lesson.live = none)
      BY <1>8
    <3> QED
      BY <3>1, <3>2
  <2> QED
    BY <2>1, <2>2 DEF LessonOk
<1>12. PICK c : c = K!Loaded
  OBVIOUS
<1>13. c \in Shows /\ Len(c.questions) <= Most
  BY <1>11, <1>12, LoadedIs
<1>14. CacheOk
  BY <1>8, <1>12, <1>13 DEF CacheOk
<1>15. BenchOk
  <2>1. bench = [key |-> c.version, questions |-> c.questions, open |-> {},
                 asked |-> [at |-> "no", index |-> 0]]
    BY <1>8, <1>12 DEF K!Mounted, K!Unasked
  <2>2. bench \in Benches /\ bench.questions = c.questions /\ bench.open = {}
    BY <1>13, <2>1 DEF Benches, Askings, Shows
  <2>3. wanted = OpenRows(c.questions, {})
    BY <1>8 DEF OpenRows
  <2> QED
    BY <1>13, <2>2, <2>3 DEF BenchOk
<1>16. CallOk /\ TaughtOk
  BY <1>8 DEF CallOk, TaughtOk
<1> QED
  BY <1>9, <1>11, <1>14, <1>15, <1>16 DEF TestInv

LEMMA TestStep ==
    ASSUME TestInv, [Next]_pageVars
    PROVE  TestInv'
<1>1. CASE UNCHANGED tests
  <2>1. UNCHANGED <<lesson, cachedLesson, bench, wanted, saveCall, author, taught, requests>>
    BY <1>1 DEF tests
  <2> QED
    BY <2>1 DEF TestInv, BudgetOk, LessonOk, CacheOk, CallOk, BenchOk, TaughtOk, Most
<1>2. CASE K!TestNext
  BY <1>2, EditingStep, SaveStep, CallOverStep, WriteStep, AuthorStep, LaunchStep DEF K!TestNext
<1> QED
  BY <1>1, <1>2, PageSteps

\* What the invariant says of the questions that are marked and of those being edited.
LEMMA TestsAreMeant ==
    ASSUME TestInv
    PROVE  K!AnswersAreMeant
<1> USE DEF TestInv
<1>1. ASSUME NEW s \in Tests, NEW i \in 1..Len(s) PROVE K!IsAsMeant(s[i])
  <2>1. PICK q \in GoodQuestions : q = s[i]
    BY TestHas
  <2>2. q.meant # 0 => q.options[q.right].id = q.meant
    BY QuestionHas
  <2> QED
    BY <2>1, <2>2 DEF K!IsAsMeant
<1>2. ASSUME NEW s \in StoredTests, NEW q \in K!Range(s) PROVE K!Usable(q) /\ K!IsAsMeant(q)
  <2>1. s \in Tests /\ \A i \in 1..Len(s) : K!Usable(s[i])
    BY DEF StoredTests
  <2>2. PICK i \in 1..Len(s) : q = s[i]
    BY <2>1, TestHas DEF K!Range
  <2> QED
    BY <1>1, <2>1, <2>2
<1>3. \A q \in K!Range(lesson.draft) \union K!Range(lesson.live) : K!Usable(q) /\ K!IsAsMeant(q)
  <2>1. lesson.draft \in StoredTests /\ lesson.live \in StoredTests
    BY LessonIs
  <2> QED
    BY <1>2, <2>1
<1>4. ASSUME bench # Nothing
      PROVE  /\ \A i \in K!Rows : K!IsAsMeant(bench.questions[i])
             /\ {bench.questions[i].id : i \in bench.open \cap K!Rows} = wanted
  BY <1>1, <1>4, BenchIs DEF OpenRows
<1>5. taught => lesson.live # <<>>
  BY DEF TaughtOk
<1> QED
  BY <1>3, <1>4, <1>5 DEF K!AnswersAreMeant

(* A learner is marked by what was meant and told what was recorded.  An   *)
(* answer that was explained is the one that is stored and counted, as     *)
(* FeedbackHolds says; and the option that a question of a level's test    *)
(* counts as right is the one its author picked, however options and       *)
(* questions before it come and go, every question that is stored can be   *)
(* marked, the rows that are open are those that were opened by hand, and  *)
(* a level that had a live test has one (PracticeEditor and onUpdate in    *)
(* grammar-builder-view.tsx; replaceLevelQuestions and publishLevelExtras  *)
(* of the server).                                                         *)
THEOREM FeedbackStays == Spec => []FeedbackIsTrue
<1>1. Spec => []K!AnswersAreMeant
  <2>1. TestInv /\ [Next]_pageVars => TestInv'
    BY TestStep
  <2>2. TestInv => K!AnswersAreMeant
    BY TestsAreMeant
  <2> QED
    BY <2>1, <2>2, TestStart, PTL DEF Spec
<1>2. Spec => []G!FeedbackIsRecorded
  BY FeedbackHolds
<1>3. G!FeedbackIsRecorded /\ K!AnswersAreMeant => FeedbackIsTrue
  BY DEF FeedbackIsTrue
<1> QED
  BY <1>1, <1>2, <1>3, PTL
=============================================================================
