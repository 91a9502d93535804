------------------------------ MODULE Billing ------------------------------
(***************************************************************************)
(* Payment transactions, the Click callbacks that move them, and the       *)
(* subscription a confirmed payment opens (internal/payments,              *)
(* Activate of internal/subscriptions).  One step is one SQL statement, or *)
(* one SQL transaction: that is where callbacks interleave.                *)
(***************************************************************************)
EXTENDS Naturals, Sequences

CONSTANTS
    Users, Plans, Txs,  \* accounts, subscription_plans, payment_transactions ids
    Trans,              \* Click's click_trans_ids: one per attempt to pay
    Handlers,           \* HTTP callbacks that can be in progress at once
    Period,             \* length of a plan's billing_interval, 0 for 'none'
    DefaultPlan,        \* the plan is_default marks, or None
    None,               \* SQL NULL for an id
    MaxTime,            \* bound: the clock stops here
    CanFail,            \* statements that may be refused, changing nothing
    CanLose,            \* statements that may commit and still report an error
    CanCrash,           \* whether a process may die between two statements
    Patient,            \* whether Click waits for an answer before it repeats a callback
    Misquoted           \* attempts Click charges another amount for

Stmts == {"load", "cancel", "prepare", "claim", "interval", "snap", "write",
          "link", "unclaim"}

ASSUME PeriodAssumption == Period \in [Plans -> Nat]
ASSUME BoundAssumption == MaxTime \in Nat \ {0}
ASSUME NoneAssumption == None \notin Users \cup Plans \cup Txs \cup Trans
ASSUME FaultAssumption == /\ CanFail \subseteq Stmts
                          /\ CanLose \subseteq Stmts \cup {"reply"}
                          /\ CanCrash \in BOOLEAN
                          /\ Patient \in BOOLEAN
                          /\ Misquoted \subseteq Trans

VARIABLES
    now,        \* the clock; starts at 1, so 0 can stand for "no end"
    active,     \* subscription_plans.is_active
    tx,         \* payment_transactions
    subs,       \* subscriptions, in the order of created_at
    seq,        \* payment_prepare_id_seq
    pc,         \* what each callback does next
    req,        \* the request a callback carries
    code,       \* what it will answer
    got,        \* what its last statement returned: a prepare_id, a row of subs
    at,         \* time.Now() of its Activate
    st,         \* Click: how far each attempt has come
    merch,      \* Click: the merchant_trans_id of the attempt
    prep        \* Click: the merchant_prepare_id it was given, 0 before

db    == <<active, tx, subs, seq>>
local == <<req, code, got, at>>
click == <<st, merch, prep>>
vars  == <<now, db, pc, local, click>>

-----------------------------------------------------------------------------
(* Rows and requests.                                                      *)

TxStatus == {"absent", "created", "prepared", "paid", "canceled"}

\* A transaction; sub = 0 and prepare = 0 are SQL NULL.
Transaction ==
    [status : TxStatus, user : Users \cup {None}, plan : Plans \cup {None},
     prepare : Nat, trans : Trans \cup {None}, sub : Nat]

AbsentTx == [status |-> "absent", user |-> None, plan |-> None,
             prepare |-> 0, trans |-> None, sub |-> 0]

\* A subscription; tx is a history field: the payment that opened the row.
Subscription ==
    [user : Users \cup {None}, plan : Plans \cup {None}, status : {"active", "expired"},
     start : Nat, end : Nat, ref : Trans, tx : Txs]

\* A callback's request; "failed" is a Complete with a negative error.
Request == [tx : Txs, trans : Trans, prepare : Nat,
            action : {"prepare", "complete", "failed"}]

Codes == {"OK", "AlreadyPaid", "Canceled", "TransNotFound", "UpdateFailed", "BadAmount"}

ASSUME CodesAssumption == None \notin Codes

\* The row's period has not run out at time t.
Running(s, t) == s.end = 0 \/ s.end > t

\* The row Activate would select at time t.
Live(i, u, t) ==
    /\ i \in DOMAIN subs
    /\ subs[i].user = u
    /\ subs[i].status = "active"
    /\ Running(subs[i], t)

Granted(t) == \E i \in DOMAIN subs : subs[i].tx = t

\* The callbacks that hold the claim on a transaction.
Settling == {"interval", "snap", "write", "link", "unclaim"}

Settles(h, t) == pc[h] \in Settling /\ req[h].tx = t

-----------------------------------------------------------------------------
Init ==
    /\ now = 1
    /\ active = [p \in Plans |-> TRUE]
    /\ tx = [t \in Txs |-> AbsentTx]
    /\ subs = <<>>
    /\ seq = 0
    /\ pc = [h \in Handlers |-> "idle"]
    /\ req = [h \in Handlers |-> None]
    /\ code = [h \in Handlers |-> None]
    /\ got = [h \in Handlers |-> 0]
    /\ at = [h \in Handlers |-> 0]
    /\ st = [k \in Trans |-> "new"]
    /\ merch = [k \in Trans |-> None]
    /\ prep = [k \in Trans |-> 0]

(* A callback moves on: to its next statement, or to its answer.           *)
Goto(h, next) ==
    /\ pc' = [pc EXCEPT ![h] = next]
    /\ UNCHANGED <<req, code>>

Answering(h, c) ==
    /\ pc' = [pc EXCEPT ![h] = "reply"]
    /\ code' = [code EXCEPT ![h] = c]
    /\ UNCHANGED req

(* Where a callback goes when statement s reports an error.                *)
OnError(h, s) ==
    CASE s = "load"    -> Answering(h, "TransNotFound")
      [] s = "cancel"  -> Answering(h, "Canceled")
      [] s \in {"prepare", "claim", "unclaim"} -> Answering(h, "UpdateFailed")
      [] OTHER         -> Goto(h, "unclaim")

(* A statement that has committed: the caller learns so, or sees an error. *)
Then(h, s, Success) == Success \/ (s \in CanLose /\ OnError(h, s))

-----------------------------------------------------------------------------
(* The learner and the owner.                                              *)

Checkout(t, u, p) ==
    /\ tx[t].status = "absent"
    /\ active[p]
    /\ tx' = [tx EXCEPT ![t] = [AbsentTx EXCEPT !.status = "created", !.user = u, !.plan = p]]
    /\ UNCHANGED <<now, active, subs, seq, pc, local, click>>

UpdatePlan(p) ==
    /\ p # DefaultPlan
    /\ active' = [active EXCEPT ![p] = ~@]
    /\ UNCHANGED <<now, tx, subs, seq, pc, local, click>>

Tick ==
    /\ now < MaxTime
    /\ now' = now + 1
    /\ UNCHANGED <<db, pc, local, click>>

-----------------------------------------------------------------------------
(* Click, as its callbacks are used: an attempt is prepared, then charged  *)
(* or abandoned, and a callback is repeated until it is answered.          *)

ClickOpen(k, t) ==
    /\ st[k] = "new"
    /\ tx[t].status # "absent"
    /\ st' = [st EXCEPT ![k] = "preparing"]
    /\ merch' = [merch EXCEPT ![k] = t]
    /\ UNCHANGED <<now, db, pc, local, prep>>

\* A Complete may come, or be refused, though the Prepare was not answered.
ClickCharge(k) ==
    /\ st[k] \in {"preparing", "ready"}
    /\ \E s \in {"charging", "aborting"} : st' = [st EXCEPT ![k] = s]
    /\ UNCHANGED <<now, db, pc, local, merch, prep>>

Receive(h, k) ==
    /\ pc[h] = "idle"
    /\ st[k] \in {"preparing", "charging", "aborting"}
    /\ Patient => k \notin {req[g].trans : g \in {g \in Handlers : pc[g] # "idle"}}
    /\ pc' = [pc EXCEPT ![h] = "load"]
    /\ req' = [req EXCEPT ![h] =
                 [tx |-> merch[k], trans |-> k, prepare |-> prep[k],
                  action |-> CASE st[k] = "preparing" -> "prepare"
                               [] st[k] = "charging"  -> "complete"
                               [] st[k] = "aborting"  -> "failed"]]
    /\ UNCHANGED <<now, db, code, got, at, click>>

\* What Click concludes from answer c to a callback of attempt k.
Hears(k, c) ==
    CASE st[k] = "preparing" /\ c = "OK" -> "ready"
      [] st[k] = "charging" /\ c \in {"OK", "AlreadyPaid"} -> "settled"
      [] c = "UpdateFailed" -> st[k]
      [] OTHER -> "refused"

\* Whether an answer to a callback of this kind is still awaited.
Awaited(r) == \/ st[r.trans] = "preparing" /\ r.action = "prepare"
              \/ st[r.trans] = "charging"  /\ r.action = "complete"
              \/ st[r.trans] = "aborting"  /\ r.action = "failed"

-----------------------------------------------------------------------------
(* The callback handler, statement by statement.                           *)

Rests(h) ==
    /\ pc' = [pc EXCEPT ![h] = "idle"]
    /\ req' = [req EXCEPT ![h] = None]
    /\ code' = [code EXCEPT ![h] = None]
    /\ got' = [got EXCEPT ![h] = 0]
    /\ at' = [at EXCEPT ![h] = 0]

(* byID, and every decision taken on the row it returned.                  *)
Load(h) ==
    /\ pc[h] = "load"
    /\ LET r == req[h]
           t == tx[r.tx]
           mismatch == r.action = "complete" /\ (t.prepare = 0 \/ r.prepare # t.prepare)
       IN  \/ t.status = "paid" /\ Answering(h, "AlreadyPaid")
           \/ t.status = "canceled" /\ Answering(h, "Canceled")
           \/ /\ t.status \in {"created", "prepared"}
              /\ IF r.trans \in Misquoted THEN Answering(h, "BadAmount")
                 ELSE \/ r.action = "failed" /\ Goto(h, "cancel")
                      \/ r.action = "prepare" /\ Goto(h, "prepare")
                      \/ mismatch /\ Answering(h, "TransNotFound")
                      \/ r.action = "complete" /\ ~mismatch /\ Goto(h, "claim")
    /\ UNCHANGED <<now, db, got, at, click>>

CancelPaid(h) ==    \* mutant: the cancel statement lost its WHERE status <> 'paid'
    /\ pc[h] = "cancel"
    /\ tx' = [tx EXCEPT ![req[h].tx].status = "canceled"]
    /\ Answering(h, "Canceled")
    /\ UNCHANGED <<now, active, subs, seq, got, at, click>>

Cancel(h) ==
    /\ pc[h] = "cancel"
    /\ tx' = [tx EXCEPT ![req[h].tx].status = IF @ = "paid" THEN @ ELSE "canceled"]
    /\ Answering(h, "Canceled")
    /\ UNCHANGED <<now, active, subs, seq, got, at, click>>

Prepare(h) ==
    /\ pc[h] = "prepare"
    /\ LET t == req[h].tx
           n == IF tx[t].prepare = 0 THEN seq + 1 ELSE tx[t].prepare
       IN  \/ /\ tx[t].status \in {"created", "prepared"}
              /\ seq' = IF tx[t].prepare = 0 THEN n ELSE seq
              /\ tx' = [tx EXCEPT ![t] = [@ EXCEPT !.status = "prepared", !.prepare = n,
                                                   !.trans = req[h].trans]]
              /\ got' = [got EXCEPT ![h] = n]
              /\ Then(h, "prepare", Answering(h, "OK"))
           \/ /\ tx[t].status \notin {"created", "prepared"}
              /\ Answering(h, "UpdateFailed")
              /\ UNCHANGED <<tx, seq, got>>
    /\ UNCHANGED <<now, active, subs, at, click>>

ClaimOpen(h) ==     \* mutant: the claim does not compare the status it sets
    /\ pc[h] = "claim"
    /\ tx' = [tx EXCEPT ![req[h].tx].status = "paid", ![req[h].tx].trans = req[h].trans]
    /\ Goto(h, "interval")
    /\ UNCHANGED <<now, active, subs, seq, got, at, click>>

Claim(h) ==
    /\ pc[h] = "claim"
    /\ LET t == req[h].tx IN
         \/ /\ tx[t].status = "prepared"
            /\ tx' = [tx EXCEPT ![t] = [@ EXCEPT !.status = "paid", !.trans = req[h].trans]]
            /\ Then(h, "claim", Goto(h, "interval"))
         \/ /\ tx[t].status # "prepared"
            /\ Answering(h, "AlreadyPaid")
            /\ UNCHANGED tx
    /\ UNCHANGED <<now, active, subs, seq, got, at, click>>

(* Activate: the plan's interval, read before the transaction begins.      *)
IntervalOnly(h) ==  \* mutant: a plan that is gone is answered without unclaiming
    /\ pc[h] = "interval"
    /\ IF active[tx[req[h].tx].plan] THEN Goto(h, "snap") ELSE Answering(h, "UpdateFailed")
    /\ UNCHANGED <<now, db, got, at, click>>

Interval(h) ==
    /\ pc[h] = "interval"
    /\ Goto(h, IF active[tx[req[h].tx].plan] THEN "snap" ELSE "unclaim")
    /\ UNCHANGED <<now, db, got, at, click>>

(* Activate's transaction begins: now, and the row its SELECT finds.       *)
Snap(h) ==
    /\ pc[h] = "snap"
    /\ at' = [at EXCEPT ![h] = now]
    /\ LET live == {i \in DOMAIN subs : Live(i, tx[req[h].tx].user, now)} IN
         \/ live = {} /\ got' = [got EXCEPT ![h] = 0]
         \/ \E i \in live : /\ \A j \in live : j <= i
                            /\ got' = [got EXCEPT ![h] = i]
    /\ Goto(h, "write")
    /\ UNCHANGED <<now, db, click>>

(* Once FOR UPDATE holds the row, PostgreSQL evaluates the condition again *)
(* on its current version, and the row is dropped if it no longer holds.   *)
Locked(h) == Live(got[h], tx[req[h].tx].user, at[h])

StartsNow(h) == at[h]   \* mutant: renewing restarts the plan instead of extending it

StartsAt(h) ==
    IF /\ Locked(h)
       /\ subs[got[h]].plan = tx[req[h].tx].plan
       /\ subs[got[h]].end > at[h]
    THEN subs[got[h]].end
    ELSE at[h]

NewRow(h) ==
    LET t == req[h].tx
        p == tx[t].plan
    IN  [user |-> tx[t].user, plan |-> p, status |-> "active", start |-> StartsAt(h),
         end |-> IF Period[p] = 0 THEN 0 ELSE StartsAt(h) + Period[p],
         ref |-> req[h].trans, tx |-> t]

\* The rows once the locked one is expired.
Closed(h) ==
    IF Locked(h) THEN [subs EXCEPT ![got[h]].status = "expired"] ELSE subs

\* The unique indexes subscriptions_one_live_per_user and _provider_ref_key.
Insertable(rows, new) ==
    \A i \in DOMAIN rows : /\ ~(rows[i].user = new.user /\ rows[i].status = "active")
                           /\ rows[i].ref # new.ref

WriteIgnoring(h) == \* mutant: a refused insert is not noticed
    /\ pc[h] = "write"
    /\ IF Insertable(Closed(h), NewRow(h))
       THEN /\ subs' = Append(Closed(h), NewRow(h))
            /\ got' = [got EXCEPT ![h] = Len(subs) + 1]
       ELSE UNCHANGED <<subs, got>>
    /\ Goto(h, "link")
    /\ UNCHANGED <<now, active, tx, seq, at, click>>

Write(h) ==
    /\ pc[h] = "write"
    /\ \/ /\ Insertable(Closed(h), NewRow(h))
          /\ subs' = Append(Closed(h), NewRow(h))
          /\ got' = [got EXCEPT ![h] = Len(subs) + 1]
          /\ Then(h, "write", Goto(h, "link"))
       \/ /\ ~Insertable(Closed(h), NewRow(h))
          /\ Goto(h, "unclaim")
          /\ UNCHANGED <<subs, got>>
    /\ UNCHANGED <<now, active, tx, seq, at, click>>

Link(h) ==
    /\ pc[h] = "link"
    /\ tx' = [tx EXCEPT ![req[h].tx].sub = got[h]]
    /\ Then(h, "link", Answering(h, "OK"))
    /\ UNCHANGED <<now, active, subs, seq, got, at, click>>

UnclaimToCreated(h) ==  \* mutant: put back to the status of a new transaction
    /\ pc[h] = "unclaim"
    /\ tx' = [tx EXCEPT ![req[h].tx].status = IF @ = "paid" THEN "created" ELSE @]
    /\ Answering(h, "UpdateFailed")
    /\ UNCHANGED <<now, active, subs, seq, got, at, click>>

Unclaim(h) ==
    /\ pc[h] = "unclaim"
    /\ tx' = [tx EXCEPT ![req[h].tx].status = IF @ = "paid" THEN "prepared" ELSE @]
    /\ Answering(h, "UpdateFailed")
    /\ UNCHANGED <<now, active, subs, seq, got, at, click>>

(* A statement is refused: the database is down, the connection is cut, or *)
(* the request's context ended because Click hung up.                      *)
Fail(h) ==
    /\ pc[h] \in CanFail
    /\ OnError(h, pc[h])
    /\ UNCHANGED <<now, db, got, at, click>>

Reply(h) ==
    /\ pc[h] = "reply"
    /\ LET r == req[h]
           k == r.trans
       IN  \/ /\ Awaited(r)
              /\ st' = [st EXCEPT ![k] = Hears(k, code[h])]
              /\ prep' = [prep EXCEPT ![k] = IF st'[k] = "ready" THEN got[h] ELSE @]
           \/ /\ ~Awaited(r) \/ "reply" \in CanLose
              /\ UNCHANGED <<st, prep>>
    /\ Rests(h)
    /\ UNCHANGED <<now, db, merch>>

Crash(h) ==
    /\ CanCrash
    /\ pc[h] # "idle"
    /\ Rests(h)
    /\ UNCHANGED <<now, db, click>>

-----------------------------------------------------------------------------
Handle(h) ==
    \/ Load(h) \/ Cancel(h) \/ Prepare(h) \/ Claim(h) \/ Interval(h) \/ Snap(h)
    \/ Write(h) \/ Link(h) \/ Unclaim(h) \/ Reply(h)

Next ==
    \/ \E t \in Txs, u \in Users, p \in Plans : Checkout(t, u, p)
    \/ \E p \in Plans : UpdatePlan(p)
    \/ Tick
    \/ \E k \in Trans, t \in Txs : ClickOpen(k, t)
    \/ \E k \in Trans : ClickCharge(k)
    \/ \E h \in Handlers, k \in Trans : Receive(h, k)
    \/ \E h \in Handlers : Handle(h) \/ Fail(h) \/ Crash(h)

Spec == Init /\ [][Next]_vars

(* A running handler is scheduled; Click repeats an unanswered callback as *)
(* long as the server keeps having room for it.                            *)
Fairness ==
    /\ \A h \in Handlers : WF_vars(Handle(h))
    /\ \A k \in Trans : SF_vars(\E h \in Handlers : Receive(h, k))

FairSpec == Spec /\ Fairness

-----------------------------------------------------------------------------
(* Every variable holds a value of its type, a callback in progress        *)
(* carries a request, and a transaction has an owner and a plan.           *)
TablesOK ==
    /\ now \in 1..MaxTime
    /\ active \in [Plans -> BOOLEAN]
    /\ tx \in [Txs -> Transaction]
    /\ \A t \in Txs : tx[t].status # "absent" => tx[t].user \in Users /\ tx[t].plan \in Plans
    /\ subs \in Seq(Subscription)
    /\ seq \in Nat

CallbacksOK ==
    /\ pc \in [Handlers -> Stmts \cup {"idle", "reply"}]
    /\ req \in [Handlers -> Request \cup {None}]
    /\ \A h \in Handlers : pc[h] # "idle" => req[h] \in Request
    /\ code \in [Handlers -> Codes \cup {None}]
    /\ got \in [Handlers -> Nat]
    /\ at \in [Handlers -> Nat]

ClickOK ==
    /\ st \in [Trans -> {"new", "preparing", "ready", "charging", "aborting",
                         "settled", "refused"}]
    /\ merch \in [Trans -> Txs \cup {None}]
    /\ \A k \in Trans : st[k] # "new" => merch[k] \in Txs
    /\ prep \in [Trans -> Nat]

RefersOK ==
    /\ \A h \in Handlers : pc[h] # "idle" => tx[req[h].tx].status # "absent"
    /\ \A k \in Trans : st[k] # "new" => tx[merch[k]].status # "absent"

TypesOK == TablesOK /\ CallbacksOK /\ ClickOK

TypeOK == TypesOK /\ RefersOK

(* The compare-and-set of claim admits one callback per transaction: while *)
(* one settles it no other does, and the transaction reads paid.           *)
SoleSettler ==
    \A t \in Txs, h \in Handlers : Settles(h, t) =>
        /\ tx[t].status = "paid"
        /\ \A g \in Handlers : Settles(g, t) => g = h

\* The statements after the insert say truly whether they committed.
LinkReports == "link" \notin CanFail \cup CanLose /\ "write" \notin CanLose

(* However often Click repeats a callback, and however many attempts to    *)
(* pay are made, one transaction opens one subscription (if LinkReports).  *)
OneGrantPerPayment ==
    \A i, j \in DOMAIN subs : subs[i].tx = subs[j].tx => i = j

(* A cancelled transaction has opened nothing and is about to open         *)
(* nothing, whatever cancel, claim and unclaim interleave with (if         *)
(* LinkReports).                                                           *)
CanceledNeverGranted ==
    \A t \in Txs : tx[t].status = "canceled" =>
        ~Granted(t) /\ \A h \in Handlers : ~Settles(h, t)

(* A Complete answered with success has opened the learner's own           *)
(* subscription to the plan of the transaction, and the transaction points *)
(* at it, whichever statements failed for other callbacks.                 *)
ConfirmedIsServed ==
    \A h \in Handlers : code[h] = "OK" /\ req[h].action = "complete" =>
        LET t == req[h].tx
            s == tx[t].sub
        IN  /\ s \in DOMAIN subs
            /\ subs[s].tx = t /\ subs[s].user = tx[t].user /\ subs[s].plan = tx[t].plan

(* A transaction that reads paid has its subscription, or a callback still *)
(* at work on it: unclaim leaves nothing behind.                           *)
PaidIsServed ==
    \A t \in Txs : tx[t].status = "paid" =>
        Granted(t) \/ \E h \in Handlers : Settles(h, t)

(* What makes the two inductive: a transaction that has opened its         *)
(* subscription stays paid, since its settler is past every statement that *)
(* could lead it to unclaim.                                               *)
GrantIsFinal ==
    \A t \in Txs : Granted(t) =>
        /\ tx[t].status = "paid"
        /\ \A h \in Handlers : Settles(h, t) => pc[h] = "link"

(* When Click keeps the money, the learner has access.                     *)
SettledIsServed ==
    \A k \in Trans : st[k] = "settled" => Granted(merch[k])

(* "Transaction does not exist" is said of no transaction that exists.     *)
NotFoundIsTrue ==
    \A h \in Handlers : code[h] = "TransNotFound" => tx[req[h].tx].status = "absent"

(* "Already paid" is said of no transaction that is cancelled.             *)
AlreadyPaidIsTrue ==
    \A h \in Handlers : code[h] = "AlreadyPaid" => tx[req[h].tx].status # "canceled"

(* A subscription is closed only by opening its successor, and renewing    *)
(* the plan a learner has keeps every paid day of it, also when two        *)
(* payments of one learner are activated at once.                          *)
RenewalKeepsPaidTime ==
    [][\A i \in DOMAIN subs : subs'[i].status # subs[i].status =>
          LET new == subs'[Len(subs')] IN
            /\ Len(subs') = Len(subs) + 1
            /\ new.user = subs[i].user
            /\ (new.plan = subs[i].plan /\ subs[i].end # 0) => new.start >= subs[i].end
      ]_subs

(* What unclaim puts back is a payment that has opened nothing.            *)
UnclaimedIsUngranted ==
    \A t \in Txs : tx[t].status = "prepared" => ~Granted(t)

(* Money that has arrived is turned down only where the learner already    *)
(* has a running subscription.                                             *)
RefusedOnlyIfRunning ==
    [][\A h \in Handlers : pc[h] = "write" /\ pc'[h] = "unclaim" =>
          \E i \in DOMAIN subs : Live(i, tx[req[h].tx].user, now)]_vars

(* The transactions as their learner sees them: see PaidAccess.            *)
Outcome(t) ==
    IF tx[t].status = "absent" THEN "none"
    ELSE IF Granted(t) THEN "granted"
    ELSE IF tx[t].status = "canceled" THEN "canceled"
    ELSE "open"

Access == INSTANCE PaidAccess WITH
    outcome <- [t \in Txs |-> Outcome(t)],
    linked <- {t \in Txs : tx[t].sub # 0}

(* The statements, interleaved in any way and failing in any way, never do *)
(* to a transaction what PaidAccess does not allow.                        *)
PaidAccessSpec == Access!Spec

\* The learner's last period ran out, and its row still reads active: the case
\* in which Activate turns every payment down.
Lapsed(u) == \E i \in DOMAIN subs : subs[i].user = u /\ subs[i].status = "active" /\ ~Running(subs[i], now)

(* A charge ends in access, or in a transaction that is refused or         *)
(* cancelled, when nothing fails and Click keeps asking, unless the plan   *)
(* is not sold any more or the learner's last period has lapsed.           *)
ChargedIsDecided ==
    \A k \in Trans : st[k] = "charging" ~>
        \/ st[k] = "refused"
        \/ \E t \in Txs : merch[k] = t /\
              \/ Granted(t) \/ tx[t].status = "canceled"
              \/ ~active[tx[t].plan] \/ Lapsed(tx[t].user)
=============================================================================
