--------------------------- MODULE BillingProofs ---------------------------
(* Theorems about Billing, for every value of its constants. *)
EXTENDS Billing, SequenceTheorems, TLAPS

(* Changing one field of one row of a table leaves a table.                *)
LEMMA ExceptRow ==
    ASSUME NEW rows \in Seq(Subscription), NEW i \in DOMAIN rows,
           NEW s \in {"active", "expired"}
    PROVE  /\ [rows EXCEPT ![i].status = s] \in Seq(Subscription)
           /\ Len([rows EXCEPT ![i].status = s]) = Len(rows)
<1> DEFINE new == [rows EXCEPT ![i].status = s]
<1>1. Len(rows) \in Nat /\ DOMAIN rows = 1..Len(rows) /\ DOMAIN new = DOMAIN rows
  OBVIOUS
<1>2. \A j \in 1..Len(rows) : rows[j] \in Subscription
  BY <1>1
<1>3. \A j \in 1..Len(rows) : new[j] \in Subscription
  BY <1>1, <1>2 DEF Subscription
<1>4. new = [j \in 1..Len(rows) |-> new[j]]
  BY <1>1
<1>5. new \in Seq(Subscription)
  BY <1>1, <1>3, <1>4
<1>6. Len(new) = Len(rows)
  BY <1>1, <1>5
<1> QED
  BY <1>5, <1>6

(* The row Activate inserts is a subscription, and expiring the one it     *)
(* holds leaves a table.                                                   *)
LEMMA ActivateTypes ==
    ASSUME TypeOK, SoleSettler, NEW h \in Handlers, pc[h] = "write"
    PROVE  /\ Closed(h) \in Seq(Subscription)
           /\ Len(Closed(h)) = Len(subs)
           /\ NewRow(h) \in Subscription
<1>1. req[h] \in Request /\ req[h].tx \in Txs /\ req[h].trans \in Trans
  BY DEF TypeOK, TypesOK, CallbacksOK, Request
<1>2. /\ tx[req[h].tx] \in Transaction
      /\ tx[req[h].tx].user \in Users
      /\ tx[req[h].tx].plan \in Plans
  <2>1. tx[req[h].tx].status = "paid"
    BY <1>1 DEF SoleSettler, Settles, Settling
  <2> QED
    BY <2>1, <1>1 DEF TypeOK, TypesOK, TablesOK
<1>3. got[h] \in Nat /\ at[h] \in Nat /\ subs \in Seq(Subscription)
  BY DEF TypeOK, TypesOK, TablesOK, CallbacksOK
<1>4. Locked(h) => got[h] \in DOMAIN subs
  BY DEF Locked, Live
<1>5. Closed(h) \in Seq(Subscription) /\ Len(Closed(h)) = Len(subs)
  <2>1. CASE Locked(h)
    BY <2>1, <1>3, <1>4, ExceptRow DEF Closed
  <2>2. CASE ~Locked(h)
    BY <2>2, <1>3 DEF Closed
  <2> QED
    BY <2>1, <2>2
<1>6. StartsAt(h) \in Nat
  <2>1. Locked(h) => subs[got[h]] \in Subscription
    BY <1>3, <1>4
  <2> QED
    BY <2>1, <1>3 DEF StartsAt, Subscription
<1>7. Period[tx[req[h].tx].plan] \in Nat
  BY <1>2, PeriodAssumption
<1>8. NewRow(h) \in Subscription
  BY <1>1, <1>2, <1>6, <1>7 DEF NewRow, Subscription
<1> QED
  BY <1>5, <1>8
(* A callback that moves on is at a place it can be, with its request.     *)
LEMMA CallbackMoves ==
    ASSUME CallbacksOK, NEW h \in Handlers, pc[h] # "idle",
           got' \in [Handlers -> Nat], at' \in [Handlers -> Nat],
           \/ \E next \in Stmts : Goto(h, next)
           \/ \E c \in Codes : Answering(h, c)
    PROVE  CallbacksOK'
<1>1. pc' \in [Handlers -> Stmts \cup {"idle", "reply"}]
  BY DEF CallbacksOK, Goto, Answering
<1>2. code' \in [Handlers -> Codes \cup {None}]
  BY DEF CallbacksOK, Goto, Answering
<1>3. req' = req
  BY DEF Goto, Answering
<1>4. \A g \in Handlers : pc'[g] # "idle" => pc[g] # "idle"
  BY DEF CallbacksOK, Goto, Answering
<1> QED
  BY <1>1, <1>2, <1>3, <1>4 DEF CallbacksOK

LEMMA ErrorMoves ==
    ASSUME NEW h \in Handlers, NEW s \in Stmts, OnError(h, s)
    PROVE  \/ Goto(h, "unclaim")
           \/ \E c \in {"TransNotFound", "Canceled", "UpdateFailed"} : Answering(h, c)
  BY DEF OnError, Stmts

LEMMA CallbackRests ==
    ASSUME CallbacksOK, NEW h \in Handlers, Rests(h)
    PROVE  CallbacksOK'
  BY DEF CallbacksOK, Rests

(* Transactions are never deleted, so what refers to them keeps doing so.  *)
LEMMA StaysPresent ==
    ASSUME TypeOK, [Next]_vars, NEW t \in Txs, tx[t].status # "absent"
    PROVE  tx'[t].status # "absent"
<1>a. tx \in [Txs -> Transaction]
  BY DEF TypeOK, TypesOK, TablesOK
<1>1. ASSUME NEW h \in Handlers, Handle(h)
      PROVE  tx'[t].status # "absent"
  <2>1. CASE Cancel(h)
    BY <1>a, <2>1 DEF Cancel, Transaction
  <2>2. CASE Prepare(h)
    <3>1. tx' = tx \/ (\E n : tx' = [tx EXCEPT ![req[h].tx] =
            [@ EXCEPT !.status = "prepared", !.prepare = n, !.trans = req[h].trans]])
      BY <2>2 DEF Prepare
    <3> QED
      BY <1>a, <3>1 DEF Transaction
  <2>3. CASE Claim(h)
    BY <1>a, <2>3 DEF Claim, Transaction
  <2>4. CASE Link(h)
    BY <1>a, <2>4 DEF Link, Transaction
  <2>5. CASE Unclaim(h)
    BY <1>a, <2>5 DEF Unclaim, Transaction
  <2>6. CASE UNCHANGED tx
    BY <2>6
  <2> QED
    BY <1>1, <2>1, <2>2, <2>3, <2>4, <2>5, <2>6
    DEF Handle, Load, Interval, Snap, Write, Reply, db
<1>2. ASSUME NEW h \in Handlers, Fail(h) \/ Crash(h)
      PROVE  tx'[t].status # "absent"
  BY <1>2 DEF Fail, Crash, db
<1>3. ASSUME NEW u \in Txs, NEW v \in Users, NEW p \in Plans, Checkout(u, v, p)
      PROVE  tx'[t].status # "absent"
  BY <1>a, <1>3 DEF Checkout
<1>4. CASE UNCHANGED tx
  BY <1>4
<1> QED
  BY <1>1, <1>2, <1>3, <1>4 DEF Next, vars, db, UpdatePlan, Tick, ClickOpen, ClickCharge, Receive

LEMMA TypeInit == Init => TypeOK
<1> SUFFICES ASSUME Init PROVE TypeOK
  OBVIOUS
<1>1. AbsentTx \in Transaction
  BY DEF AbsentTx, Transaction, TxStatus
<1>2. TablesOK
  BY <1>1, BoundAssumption DEF Init, TablesOK, AbsentTx
<1>3. CallbacksOK /\ ClickOK /\ RefersOK
  BY DEF Init, CallbacksOK, ClickOK, RefersOK
<1> QED
  BY <1>2, <1>3 DEF TypeOK, TypesOK

LEMMA TypeStep ==
    ASSUME TypeOK, SoleSettler, [Next]_vars
    PROVE  TypesOK'
<1> USE DEF TypesOK, vars, db, local, click
<1>a. TypesOK /\ RefersOK
  BY DEF TypeOK
<1>b. ASSUME UNCHANGED <<now, db>> PROVE TablesOK'
  BY <1>a, <1>b DEF TablesOK
<1>c. ASSUME UNCHANGED <<pc, local>> PROVE CallbacksOK'
  BY <1>a, <1>c DEF CallbacksOK
<1>d. ASSUME UNCHANGED click PROVE ClickOK'
  BY <1>a, <1>d DEF ClickOK
<1>1. ASSUME NEW t \in Txs, NEW u \in Users, NEW p \in Plans, Checkout(t, u, p)
      PROVE  TypesOK'
  <2>1. TablesOK'
    BY <1>a, <1>1 DEF Checkout, AbsentTx, TablesOK, Transaction, TxStatus
  <2> QED
    BY <1>a, <2>1, <1>1, <1>c, <1>d DEF Checkout
<1>2. ASSUME NEW p \in Plans, UpdatePlan(p)
      PROVE  TypesOK'
  BY <1>a, <1>2, <1>c, <1>d DEF UpdatePlan, TablesOK
<1>3. CASE Tick
  BY <1>a, <1>3, <1>c, <1>d, BoundAssumption DEF Tick, TablesOK
<1>4. ASSUME NEW k \in Trans, NEW t \in Txs, ClickOpen(k, t)
      PROVE  TypesOK'
  BY <1>a, <1>4, <1>b, <1>c DEF ClickOpen, ClickOK
<1>5. ASSUME NEW k \in Trans, ClickCharge(k)
      PROVE  TypesOK'
  BY <1>a, <1>5, <1>b, <1>c DEF ClickCharge, ClickOK
<1>6. ASSUME NEW h \in Handlers, NEW k \in Trans, Receive(h, k)
      PROVE  TypesOK'
  <2>1. merch[k] \in Txs /\ prep[k] \in Nat
    BY <1>a, <1>6 DEF Receive, ClickOK
  <2>2. req'[h] \in Request /\ req' \in [Handlers -> Request \cup {None}]
    BY <1>a, <1>6, <2>1 DEF Receive, CallbacksOK, Request
  <2>3. pc' \in [Handlers -> Stmts \cup {"idle", "reply"}]
    BY <1>a, <1>6 DEF Receive, CallbacksOK, Stmts
  <2>4. \A g \in Handlers : pc'[g] # "idle" => req'[g] \in Request
    BY <1>a, <1>6, <2>2 DEF Receive, CallbacksOK
  <2>5. CallbacksOK'
    BY <1>a, <1>6, <2>2, <2>3, <2>4 DEF Receive, CallbacksOK
  <2> QED
    BY <1>a, <2>5, <1>6, <1>b, <1>d DEF Receive
<1>7. ASSUME NEW h \in Handlers, Handle(h)
      PROVE  TypesOK'
  <2> DEFINE Moves == \/ \E next \in Stmts : Goto(h, next)
                      \/ \E c \in Codes : Answering(h, c)
  <2>0. pc[h] # "idle" => /\ req[h].tx \in Txs /\ req[h].trans \in Trans
                          /\ tx[req[h].tx] \in Transaction
                          /\ tx[req[h].tx].status # "absent"
    BY <1>a DEF CallbacksOK, TablesOK, Request, RefersOK
  <2>00. \A s \in Stmts : OnError(h, s) => Moves
    BY <1>a, ErrorMoves DEF Stmts, Codes
  <2>1. CASE Load(h)
    <3>1. Moves
      BY <1>a, <2>1 DEF Load, Stmts, Codes
    <3> QED
      BY <1>a, <3>1, <2>1, <1>b, <1>d, CallbackMoves DEF Load, CallbacksOK
  <2>2. CASE Cancel(h)
    <3>1. TablesOK'
      BY <1>a, <2>2, <2>0 DEF Cancel, TablesOK, Transaction, TxStatus
    <3>2. Moves
      BY <1>a, <2>2 DEF Cancel, Codes
    <3> QED
      BY <1>a, <3>1, <3>2, <2>2, <1>d, CallbackMoves DEF Cancel, CallbacksOK
  <2>3. CASE Prepare(h)
    <3> DEFINE t == req[h].tx
    <3>a. t \in Txs /\ tx[t] \in Transaction /\ tx[t].status # "absent"
          /\ req[h].trans \in Trans /\ seq \in Nat
      BY <1>a, <2>3, <2>0 DEF Prepare, TablesOK
    <3>b. UNCHANGED <<now, active, subs>>
      BY <2>3 DEF Prepare
    <3>c. ASSUME UNCHANGED <<tx, seq, got>>
          PROVE  TablesOK' /\ got' \in [Handlers -> Nat]
      BY <1>a, <3>b, <3>c DEF TablesOK, CallbacksOK
    <3>d. ASSUME ~UNCHANGED <<tx, seq, got>>
          PROVE  TablesOK' /\ got' \in [Handlers -> Nat]
      <4> DEFINE n == IF tx[t].prepare = 0 THEN seq + 1 ELSE tx[t].prepare
                 new == [tx[t] EXCEPT !.status = "prepared", !.prepare = n, !.trans = req[h].trans]
      <4>1. n \in Nat
        BY <3>a DEF Transaction
      <4>2. new \in Transaction /\ new.status # "absent"
            /\ new.user = tx[t].user /\ new.plan = tx[t].plan
        BY <3>a, <4>1 DEF Transaction, TxStatus
      <4>3. tx' = [tx EXCEPT ![t] = new] /\ seq' \in {n, seq} /\ got' = [got EXCEPT ![h] = n]
        BY <2>3, <3>d DEF Prepare
      <4> HIDE DEF new, n
      <4>4. tx' \in [Txs -> Transaction]
        BY <1>a, <3>a, <4>2, <4>3 DEF TablesOK
      <4>5. \A u \in Txs : tx'[u].status # "absent" => tx'[u].user \in Users /\ tx'[u].plan \in Plans
        BY <1>a, <3>a, <4>2, <4>3 DEF TablesOK
      <4> QED
        BY <1>a, <3>a, <3>b, <4>1, <4>3, <4>4, <4>5 DEF TablesOK, CallbacksOK
    <3>1. TablesOK' /\ got' \in [Handlers -> Nat]
      BY <3>c, <3>d
    <3>2. Moves
      BY <1>a, <2>3, <2>00 DEF Prepare, Then, Codes, Stmts
    <3> QED
      BY <1>a, <3>1, <3>2, <2>3, <1>d, CallbackMoves DEF Prepare, CallbacksOK
  <2>4. CASE Claim(h)
    <3> DEFINE t == req[h].tx
               new == [tx[t] EXCEPT !.status = "paid", !.trans = req[h].trans]
    <3>a. t \in Txs /\ tx[t] \in Transaction /\ req[h].trans \in Trans
      BY <2>4, <2>0 DEF Claim
    <3>b. new \in Transaction /\ new.user = tx[t].user /\ new.plan = tx[t].plan
      BY <3>a DEF Transaction, TxStatus
    <3>c. tx' = tx \/ (tx[t].status = "prepared" /\ tx' = [tx EXCEPT ![t] = new])
      BY <2>4, <3>a DEF Claim
    <3> HIDE DEF new
    <3>1. TablesOK'
      BY <1>a, <2>4, <3>a, <3>b, <3>c DEF Claim, TablesOK
    <3>2. Moves
      BY <1>a, <2>4, <2>00 DEF Claim, Then, Codes, Stmts
    <3> QED
      BY <1>a, <3>1, <3>2, <2>4, <1>d, CallbackMoves DEF Claim, CallbacksOK
  <2>5. CASE Interval(h)
    <3>1. Moves
      BY <1>a, <2>5 DEF Interval, Stmts
    <3> QED
      BY <1>a, <3>1, <2>5, <1>b, <1>d, CallbackMoves DEF Interval, CallbacksOK
  <2>6. CASE Snap(h)
    <3>1. Moves
      BY <1>a, <2>6 DEF Snap, Stmts
    <3>2. got' \in [Handlers -> Nat] /\ at' \in [Handlers -> Nat]
      BY <1>a, <2>6 DEF Snap, CallbacksOK, TablesOK, Live
    <3> QED
      BY <1>a, <3>1, <3>2, <2>6, <1>b, <1>d, CallbackMoves DEF Snap
  <2>7. CASE Write(h)
    <3>1. TablesOK' /\ got' \in [Handlers -> Nat]
      <4>1. CASE UNCHANGED <<subs, got>>
        BY <1>a, <2>7, <4>1 DEF Write, TablesOK, CallbacksOK
      <4>2. CASE /\ subs' = Append(Closed(h), NewRow(h))
                 /\ got' = [got EXCEPT ![h] = Len(subs) + 1]
        <5>1. /\ Closed(h) \in Seq(Subscription) /\ NewRow(h) \in Subscription
              /\ Len(subs) \in Nat
          BY <1>a, <2>7, ActivateTypes DEF Write, TablesOK
        <5>2. subs' \in Seq(Subscription)
          BY <4>2, <5>1
        <5> QED
          BY <1>a, <2>7, <4>2, <5>1, <5>2 DEF Write, TablesOK, CallbacksOK
      <4> QED
        BY <2>7, <4>1, <4>2 DEF Write
    <3>2. Moves
      BY <1>a, <2>7, <2>00 DEF Write, Then, Stmts
    <3> QED
      BY <1>a, <3>1, <3>2, <2>7, <1>d, CallbackMoves DEF Write, CallbacksOK
  <2>8. CASE Link(h)
    <3>1. TablesOK'
      BY <1>a, <2>8, <2>0 DEF Link, TablesOK, CallbacksOK, Transaction
    <3>2. Moves
      BY <1>a, <2>8, <2>00 DEF Link, Then, Codes, Stmts
    <3> QED
      BY <1>a, <3>1, <3>2, <2>8, <1>d, CallbackMoves DEF Link, CallbacksOK
  <2>9. CASE Unclaim(h)
    <3>1. TablesOK'
      BY <1>a, <2>9, <2>0 DEF Unclaim, TablesOK, Transaction, TxStatus
    <3>2. Moves
      BY <1>a, <2>9 DEF Unclaim, Codes
    <3> QED
      BY <1>a, <3>1, <3>2, <2>9, <1>d, CallbackMoves DEF Unclaim, CallbacksOK
  <2>10. CASE Reply(h)
    <3>1. ClickOK'
      BY <1>a, <2>10, <2>0 DEF Reply, Hears, ClickOK, CallbacksOK, Awaited
    <3> QED
      BY <1>a, <3>1, <2>10, <1>b, CallbackRests DEF Reply
  <2> QED
    BY <1>a, <1>7, <2>1, <2>2, <2>3, <2>4, <2>5, <2>6, <2>7, <2>8, <2>9, <2>10 DEF Handle
<1>8. ASSUME NEW h \in Handlers, Fail(h)
      PROVE  TypesOK'
  <2>1. pc[h] \in Stmts /\ pc[h] # "idle"
    BY <1>a, <1>8, FaultAssumption DEF Fail, Stmts
  <2>2. \/ \E next \in Stmts : Goto(h, next)
        \/ \E c \in Codes : Answering(h, c)
    BY <1>a, <1>8, <2>1, ErrorMoves DEF Fail, Stmts, Codes
  <2> QED
    BY <1>a, <1>8, <2>1, <2>2, <1>b, <1>d, CallbackMoves DEF Fail, CallbacksOK
<1>9. ASSUME NEW h \in Handlers, Crash(h)
      PROVE  TypesOK'
  BY <1>a, <1>9, <1>b, <1>d, CallbackRests DEF Crash
<1>10. CASE UNCHANGED vars
  BY <1>a, <1>10, <1>b, <1>c, <1>d
<1> QED
  BY <1>a, <1>1, <1>2, <1>3, <1>4, <1>5, <1>6, <1>7, <1>8, <1>9, <1>10 DEF Next

-----------------------------------------------------------------------------
(* A step of one callback leaves the others where they are.                *)
LEMMA CallbackFrame ==
    ASSUME TypesOK, NEW h \in Handlers, Handle(h) \/ Fail(h) \/ Crash(h)
    PROVE  /\ pc[h] # "idle" /\ pc' \in [Handlers -> Stmts \cup {"idle", "reply"}]
           /\ \A g \in Handlers : g # h => pc'[g] = pc[g] /\ req'[g] = req[g]
           /\ pc'[h] = "idle" \/ req'[h] = req[h]
           /\ merch' = merch
           /\ \A k \in Trans : st'[k] # "new" => st[k] # "new"
<1> USE DEF TypesOK, CallbacksOK, ClickOK, db, click
<1>a. pc[h] # "idle" => req[h].trans \in Trans
  BY DEF Request
<1>b. ~Reply(h) => merch' = merch /\ st' = st /\ pc[h] # "idle"
  BY FaultAssumption DEF Handle, Load, Cancel, Prepare, Claim, Interval, Snap, Write, Link,
     Unclaim, Fail, Crash, Stmts
<1>c. Reply(h) => /\ merch' = merch /\ pc[h] = "reply"
                  /\ st' = st \/ (st[req[h].trans] # "new" /\ \E s : st' = [st EXCEPT ![req[h].trans] = s])
  BY DEF Reply, Awaited
<1>1. CASE Rests(h)
  <2>1. \A k \in Trans : st'[k] # "new" => st[k] # "new"
    BY <1>a, <1>b, <1>c
  <2> QED
    BY <1>1, <1>b, <1>c, <2>1 DEF Rests
<1>2. CASE \/ \E next \in Stmts : Goto(h, next)
           \/ \E c \in Codes : Answering(h, c)
  <2>1. CASE Reply(h)
    BY <2>1, <1>1 DEF Reply
  <2>2. CASE ~Reply(h)
    BY <1>2, <1>b, <2>2 DEF Goto, Answering
  <2> QED
    BY <2>1, <2>2
<1>3. \/ Rests(h)
      \/ \E next \in Stmts : Goto(h, next)
      \/ \E c \in Codes : Answering(h, c)
  <2>1. \A s \in Stmts : OnError(h, s) => \/ \E next \in Stmts : Goto(h, next)
                                          \/ \E c \in Codes : Answering(h, c)
    BY ErrorMoves DEF Stmts, Codes
  <2>2. CASE Handle(h)
    BY <2>2, <2>1 DEF Handle, Load, Cancel, Prepare, Claim, Interval, Snap, Write, Link, Unclaim,
       Reply, Then, Stmts, Codes
  <2>3. CASE Fail(h) \/ Crash(h)
    BY <2>3, <2>1, FaultAssumption DEF Fail, Crash
  <2> QED
    BY <2>2, <2>3
<1> QED
  BY <1>1, <1>2, <1>3

LEMMA RefersStep ==
    ASSUME TypeOK, [Next]_vars
    PROVE  RefersOK'
<1> USE DEF TypeOK
<1>1. \A h \in Handlers : pc'[h] # "idle" =>
        \/ pc[h] # "idle" /\ req'[h] = req[h]
        \/ \E k \in Trans : st[k] # "new" /\ req'[h].tx = merch[k]
  <2>1. ASSUME NEW g \in Handlers, Handle(g) \/ Fail(g) \/ Crash(g)
        PROVE  <1>1
    BY <2>1, CallbackFrame
  <2>2. ASSUME NEW g \in Handlers, NEW k \in Trans, Receive(g, k)
        PROVE  <1>1
    BY <2>2 DEF Receive, TypesOK, CallbacksOK
  <2>3. CASE UNCHANGED <<pc, local>>
    BY <2>3 DEF local
  <2> QED
    BY <2>1, <2>2, <2>3 DEF Next, vars, Checkout, UpdatePlan, Tick, ClickOpen, ClickCharge
<1>2. \A k \in Trans : st'[k] # "new" =>
        \/ st[k] # "new" /\ merch'[k] = merch[k]
        \/ \E t \in Txs : merch'[k] = t /\ tx[t].status # "absent"
  <2>1. ASSUME NEW g \in Handlers, Handle(g) \/ Fail(g) \/ Crash(g)
        PROVE  <1>2
    BY <2>1, CallbackFrame
  <2>2. ASSUME NEW k \in Trans, NEW t \in Txs, ClickOpen(k, t)
        PROVE  <1>2
    BY <2>2 DEF ClickOpen, TypesOK, ClickOK
  <2>3. ASSUME NEW k \in Trans, ClickCharge(k)
        PROVE  <1>2
    BY <2>3 DEF ClickCharge, TypesOK, ClickOK
  <2>4. CASE UNCHANGED click
    BY <2>4 DEF click
  <2> QED
    BY <2>1, <2>2, <2>3, <2>4 DEF Next, vars, Checkout, UpdatePlan, Tick, Receive
<1>3. \A t \in Txs : tx[t].status # "absent" => tx'[t].status # "absent"
  BY StaysPresent
<1>4. /\ \A h \in Handlers : pc[h] # "idle" => req[h].tx \in Txs
      /\ \A k \in Trans : st[k] # "new" => merch[k] \in Txs
  BY DEF TypesOK, CallbacksOK, ClickOK, Request
<1> QED
  BY <1>1, <1>2, <1>3, <1>4 DEF RefersOK

-----------------------------------------------------------------------------
(* Only a claim makes a callback a settler, and it finds the transaction   *)
(* prepared; only the settler itself takes the transaction back.           *)
LEMMA SettlesByClaim ==
    ASSUME TypeOK, NEW h \in Handlers, Handle(h) \/ Fail(h) \/ Crash(h), NEW t \in Txs
    PROVE  /\ \A g \in Handlers : g # h => (Settles(g, t)' <=> Settles(g, t))
           /\ Settles(h, t)' => \/ Settles(h, t)
                                \/ Claim(h) /\ tx[t].status = "prepared" /\ tx'[t].status = "paid"
           /\ tx[t].status = "paid" => \/ tx'[t].status = "paid"
                                       \/ Settles(h, t) /\ ~Settles(h, t)' /\ pc[h] = "unclaim"
<1>a. tx \in [Txs -> Transaction] /\ pc \in [Handlers -> Stmts \cup {"idle", "reply"}]
  BY DEF TypeOK, TypesOK, TablesOK, CallbacksOK
<1>b. \A g \in Handlers : g # h => pc'[g] = pc[g] /\ req'[g] = req[g]
  BY CallbackFrame DEF TypeOK
<1>1. CASE Claim(h)
  <2>1. tx[req[h].tx].status = "prepared" \/ (UNCHANGED tx /\ Answering(h, "AlreadyPaid"))
    BY <1>1 DEF Claim
  <2>2. tx' = tx \/ (tx[req[h].tx].status = "prepared" /\ req' = req /\
          tx' = [tx EXCEPT ![req[h].tx] = [@ EXCEPT !.status = "paid", !.trans = req[h].trans]])
    BY <1>1 DEF Claim, Then, OnError, Goto, Answering
  <2>0. req[h].tx \in Txs
    BY <1>1 DEF Claim, TypeOK, TypesOK, CallbacksOK, Request
  <2>3. tx' = tx => ~Settles(h, t)'
    <3>1. CASE tx[req[h].tx].status = "prepared"
      <4>1. tx'[req[h].tx].status = "paid"
        BY <1>a, <1>1, <2>0, <3>1 DEF Claim, Transaction
      <4> QED
        BY <3>1, <4>1
    <3>2. CASE Answering(h, "AlreadyPaid")
      BY <1>a, <3>2 DEF Answering, Settles, Settling
    <3> QED
      BY <2>1, <3>1, <3>2
  <2> QED
    BY <1>a, <1>b, <1>1, <2>2, <2>3 DEF Settles, Settling, Transaction
<1>2. CASE Unclaim(h)
  BY <1>a, <1>b, <1>2 DEF Unclaim, Answering, Settles, Settling, Transaction
<1>3. CASE Cancel(h)
  BY <1>a, <1>b, <1>3 DEF Cancel, Answering, Settles, Settling, Transaction
<1>4. CASE Prepare(h)
  <2>1. tx' = tx \/ (tx[req[h].tx].status \in {"created", "prepared"} /\ \E n : tx' = [tx EXCEPT ![req[h].tx] =
            [@ EXCEPT !.status = "prepared", !.prepare = n, !.trans = req[h].trans]])
    BY <1>4 DEF Prepare
  <2>2. ~Settles(h, t)'
    BY <1>a, <1>4 DEF Prepare, Then, OnError, Answering, Settles, Settling
  <2> QED
    BY <1>a, <1>b, <2>1, <2>2 DEF Settles, Settling, Transaction
<1>5. CASE Link(h)
  <2>1. tx' = [tx EXCEPT ![req[h].tx].sub = got[h]] /\ req' = req /\ pc[h] = "link"
    BY <1>5 DEF Link, Then, OnError, Goto, Answering
  <2> QED
    BY <1>a, <1>b, <2>1 DEF Settles, Settling, Transaction
<1>6. CASE Interval(h) \/ Snap(h) \/ Write(h)
  <2>1. tx' = tx /\ req' = req /\ pc[h] \in Settling
    BY <1>6 DEF Interval, Snap, Write, Then, OnError, Goto, Answering, db, Settling
  <2> QED
    BY <1>b, <2>1 DEF Settles
<1>7. CASE Load(h)
  <2>1. tx' = tx /\ ~Settles(h, t)'
    BY <1>a, <1>7 DEF Load, Goto, Answering, db, Settles, Settling
  <2> QED
    BY <1>b, <2>1 DEF Settles
<1>8. CASE Reply(h) \/ Crash(h)
  <2>1. tx' = tx /\ ~Settles(h, t)'
    BY <1>a, <1>8 DEF Reply, Crash, Rests, db, Settles, Settling
  <2> QED
    BY <1>b, <2>1 DEF Settles
<1>9. CASE Fail(h)
  <2>1. tx' = tx /\ req' = req /\ pc[h] \in Stmts
    BY <1>9, FaultAssumption DEF Fail, OnError, Goto, Answering, db
  <2>2. pc[h] \notin Settling => ~Settles(h, t)'
    BY <1>a, <1>9, <2>1 DEF Fail, OnError, Goto, Answering, Settles, Settling, Stmts
  <2> QED
    BY <1>b, <2>1, <2>2 DEF Settles
<1> QED
  BY <1>1, <1>2, <1>3, <1>4, <1>5, <1>6, <1>7, <1>8, <1>9 DEF Handle

(* The rest of the system leaves every settler alone.                      *)
LEMMA SettlersLeftAlone ==
    ASSUME TypeOK, [Next]_vars, \A h \in Handlers : ~Handle(h) /\ ~Fail(h) /\ ~Crash(h),
           NEW t \in Txs
    PROVE  /\ \A g \in Handlers : Settles(g, t)' <=> Settles(g, t)
           /\ tx[t].status # "absent" => tx'[t] = tx[t]
           /\ subs' = subs /\ \A g \in Handlers : Settles(g, t) => pc'[g] = pc[g]
<1>1. CASE UNCHANGED <<pc, req, tx, subs>>
  BY <1>1 DEF Settles
<1>2. ASSUME NEW g \in Handlers, NEW k \in Trans, Receive(g, k)
      PROVE  /\ UNCHANGED <<tx, subs>>
             /\ \A f \in Handlers : Settles(f, t)' <=> Settles(f, t)
             /\ \A f \in Handlers : Settles(f, t) => pc'[f] = pc[f]
  BY <1>2 DEF Receive, Settles, Settling, db, TypeOK, TypesOK, CallbacksOK
<1>3. ASSUME NEW u \in Txs, NEW v \in Users, NEW p \in Plans, Checkout(u, v, p)
      PROVE  UNCHANGED <<pc, req, subs>> /\ (tx[t].status # "absent" => tx'[t] = tx[t])
  BY <1>3 DEF Checkout, local, TypeOK, TypesOK, TablesOK
<1> QED
  BY <1>1, <1>2, <1>3 DEF Next, vars, db, local, UpdatePlan, Tick, ClickOpen, ClickCharge, Settles

LEMMA SettlerStep ==
    ASSUME TypeOK, SoleSettler, [Next]_vars
    PROVE  SoleSettler'
<1>1. CASE \A h \in Handlers : ~Handle(h) /\ ~Fail(h) /\ ~Crash(h)
  BY <1>1, SettlersLeftAlone DEF SoleSettler
<1>2. ASSUME NEW h \in Handlers, Handle(h) \/ Fail(h) \/ Crash(h)
      PROVE  SoleSettler'
  BY <1>2, SettlesByClaim DEF SoleSettler
<1> QED
  BY <1>1, <1>2

(* Type correctness and the single settler, for any number of users,       *)
(* transactions, attempts and callbacks and any failures.                  *)
THEOREM OneCallbackSettles == Spec => [](TypeOK /\ SoleSettler)
<1>1. Init => TypeOK /\ SoleSettler
  BY TypeInit DEF Init, SoleSettler, Settles, Settling
<1>2. TypeOK /\ SoleSettler /\ [Next]_vars => (TypeOK /\ SoleSettler)'
  BY TypeStep, RefersStep, SettlerStep DEF TypeOK
<1> QED
  BY <1>1, <1>2, PTL DEF Spec

-----------------------------------------------------------------------------
(* Only the insert changes what has been granted: it adds one row, for the *)
(* transaction its callback settles.                                       *)
LEMMA InsertAddsOne ==
    ASSUME TypeOK, SoleSettler, NEW h \in Handlers, pc[h] = "write",
           subs' = Append(Closed(h), NewRow(h))
    PROVE  /\ \A t : Granted(t)' <=> Granted(t) \/ t = req[h].tx
           /\ OneGrantPerPayment /\ ~Granted(req[h].tx) => OneGrantPerPayment'
<1>1. /\ Closed(h) \in Seq(Subscription) /\ Len(Closed(h)) = Len(subs) /\ Len(subs) \in Nat
      /\ subs \in Seq(Subscription) /\ NewRow(h) \in Subscription
  BY ActivateTypes DEF TypeOK, TypesOK, TablesOK
<1>2. DOMAIN subs = 1..Len(subs) /\ DOMAIN subs' = 1..(Len(subs) + 1)
  BY <1>1
<1>3. \A i \in DOMAIN subs : Closed(h)[i].tx = subs[i].tx
  <2>1. \A i \in DOMAIN subs : subs[i] \in Subscription
    BY <1>1
  <2> QED
    BY <1>1, <2>1 DEF Closed, Locked, Live, Subscription
<1>4. \A i \in DOMAIN subs : subs'[i].tx = subs[i].tx
  BY <1>1, <1>2, <1>3
<1>5. subs'[Len(subs) + 1].tx = req[h].tx
  BY <1>1 DEF NewRow
<1>6. \A i \in DOMAIN subs' : i \in DOMAIN subs \/ i = Len(subs) + 1
  BY <1>1, <1>2
<1>7. Len(subs) + 1 \in DOMAIN subs' /\ DOMAIN subs \subseteq DOMAIN subs'
  BY <1>1, <1>2
<1> QED
  BY <1>4, <1>5, <1>6, <1>7 DEF Granted, OneGrantPerPayment

LEMMA GrantStep ==
    ASSUME LinkReports, TypeOK, SoleSettler, GrantIsFinal, OneGrantPerPayment, [Next]_vars
    PROVE  GrantIsFinal' /\ OneGrantPerPayment'
<1>a. pc \in [Handlers -> Stmts \cup {"idle", "reply"}]
  BY DEF TypeOK, TypesOK, CallbacksOK
<1>1. ASSUME \A h \in Handlers : ~Handle(h) /\ ~Fail(h) /\ ~Crash(h)
      PROVE  GrantIsFinal' /\ OneGrantPerPayment'
  <2>1. subs' = subs
    BY <1>1 DEF Next, vars, db, UpdatePlan, Tick, ClickOpen, ClickCharge, Checkout, Receive
  <2> QED
    BY <1>1, <2>1, SettlersLeftAlone DEF GrantIsFinal, OneGrantPerPayment, Granted
<1>2. ASSUME NEW h \in Handlers, Handle(h) \/ Fail(h) \/ Crash(h)
      PROVE  GrantIsFinal' /\ OneGrantPerPayment'
  <2>1. CASE Write(h) /\ subs' = Append(Closed(h), NewRow(h)) /\ Then(h, "write", Goto(h, "link"))
    <3> DEFINE t == req[h].tx
    <3>1. pc[h] = "write" /\ tx' = tx /\ pc' = [pc EXCEPT ![h] = "link"] /\ req' = req
      BY <2>1 DEF Write, Then, Goto, LinkReports
    <3>2. t \in Txs /\ Settles(h, t) /\ ~Granted(t)
      BY <3>1 DEF Settles, Settling, GrantIsFinal, TypeOK, TypesOK, CallbacksOK, Request
    <3>3. OneGrantPerPayment'
      BY <2>1, <3>1, <3>2, InsertAddsOne
    <3>4. \A u \in Txs : Granted(u)' => Granted(u) \/ u = t
      BY <2>1, <3>1, InsertAddsOne
    <3>5. tx[t].status = "paid" /\ \A g \in Handlers : Settles(g, t) => g = h
      BY <3>2 DEF SoleSettler
    <3>6. GrantIsFinal'
      BY <1>a, <3>1, <3>2, <3>4, <3>5 DEF GrantIsFinal, Settles, Settling
    <3> QED
      BY <3>3, <3>6
  <2>2. CASE subs' = subs
    <3>1. \A t \in Txs : Granted(t)' <=> Granted(t)
      BY <2>2 DEF Granted
    <3>2. ASSUME NEW t \in Txs, Granted(t)
          PROVE  tx'[t].status = "paid" /\ \A g \in Handlers : Settles(g, t)' => pc'[g] = "link"
      <4>1. tx[t].status = "paid" /\ \A g \in Handlers : Settles(g, t) => pc[g] = "link"
        BY <3>2 DEF GrantIsFinal
      <4>2. tx'[t].status = "paid"
        BY <1>2, <4>1, SettlesByClaim
      <4>3. pc[h] = "link" => ~Settles(h, t)'
        BY <1>a, <1>2 DEF Handle, Load, Cancel, Prepare, Claim, Interval, Snap, Write, Link, Unclaim,
           Reply, Fail, Crash, Rests, Then, Answering, LinkReports, Settles, Settling
      <4>4. \A g \in Handlers : g # h => pc'[g] = pc[g] /\ (Settles(g, t)' <=> Settles(g, t))
        BY <1>2, CallbackFrame, SettlesByClaim DEF TypeOK
      <4>5. ~Settles(h, t)'
        BY <1>2, <4>1, <4>3, SettlesByClaim
      <4> QED
        BY <4>1, <4>2, <4>4, <4>5
    <3> QED
      BY <2>2, <3>1, <3>2 DEF GrantIsFinal, OneGrantPerPayment
  <2> QED
    BY <1>2, <2>1, <2>2
    DEF Handle, Load, Cancel, Prepare, Claim, Interval, Snap, Write, Link, Unclaim, Reply, Fail,
        Crash, db
<1> QED
  BY <1>1, <1>2

(* One payment opens one subscription and a cancelled one opens none, for  *)
(* any number of attempts, repeated callbacks, refused statements and      *)
(* crashes, as long as the statements after the insert report truly.       *)
THEOREM GrantsAreSafe ==
    LinkReports => (Spec => [](OneGrantPerPayment /\ CanceledNeverGranted))
<1> SUFFICES ASSUME LinkReports PROVE Spec => [](OneGrantPerPayment /\ CanceledNeverGranted)
  OBVIOUS
<1>1. Init => GrantIsFinal /\ OneGrantPerPayment
  BY DEF Init, GrantIsFinal, OneGrantPerPayment, Granted
<1>2. /\ TypeOK /\ SoleSettler /\ GrantIsFinal /\ OneGrantPerPayment /\ [Next]_vars
      => (GrantIsFinal /\ OneGrantPerPayment)'
  BY GrantStep
<1>3. SoleSettler /\ GrantIsFinal => CanceledNeverGranted
  BY DEF SoleSettler, GrantIsFinal, CanceledNeverGranted
<1> QED
  BY <1>1, <1>2, <1>3, OneCallbackSettles, PTL DEF Spec

-----------------------------------------------------------------------------
(* What a payment has bought.  Nothing below assumes anything of the       *)
(* faults: a row, once inserted, is its learner's, whatever happened to    *)
(* the statements around it.                                               *)

(* Row i was opened by transaction t, for its learner and its plan.        *)
OwnRow(t, i) ==
    i \in DOMAIN subs /\ subs[i].tx = t /\ subs[i].user = tx[t].user /\ subs[i].plan = tx[t].plan

RowsAreOwn ==
    /\ \A t \in Txs : tx[t].sub # 0 => tx[t].status # "absent" /\ OwnRow(t, tx[t].sub)
    /\ \A h \in Handlers : pc[h] = "link" => OwnRow(req[h].tx, got[h])
    /\ \A i \in DOMAIN subs : tx[subs[i].tx].status # "absent"

(* An answer OK belongs to the callback that gives it: a Prepare that was  *)
(* one, or a Complete whose transaction points at its row.                 *)
SuccessIsMeant ==
    \A h \in Handlers :
        /\ pc[h] = "prepare" => req[h].action = "prepare"
        /\ code[h] = "OK" =>
              pc[h] = "reply" /\ (req[h].action = "complete" => tx[req[h].tx].sub # 0)

(* A transaction never changes hands, and only Link points it at a row.    *)
LEMMA LearnerKept ==
    ASSUME TypeOK, [Next]_vars, NEW t \in Txs
    PROVE  /\ tx[t].status # "absent" => tx'[t].user = tx[t].user /\ tx'[t].plan = tx[t].plan
           /\ \/ tx'[t].sub = tx[t].sub
              \/ tx[t].status = "absent" /\ tx'[t].sub = 0
              \/ \E h \in Handlers : Link(h) /\ req[h].tx = t /\ tx'[t].sub = got[h]
<1> DEFINE Kept == /\ tx[t].status # "absent" => tx'[t].user = tx[t].user /\ tx'[t].plan = tx[t].plan
                   /\ \/ tx'[t].sub = tx[t].sub
                      \/ tx[t].status = "absent" /\ tx'[t].sub = 0
                      \/ \E h \in Handlers : Link(h) /\ req[h].tx = t /\ tx'[t].sub = got[h]
<1>a. tx \in [Txs -> Transaction]
  BY DEF TypeOK, TypesOK, TablesOK
<1>1. ASSUME NEW h \in Handlers, Handle(h)
      PROVE  Kept
  <2>1. CASE Cancel(h)
    BY <1>a, <2>1 DEF Cancel, Transaction
  <2>2. CASE Prepare(h)
    <3>1. tx'[t].user = tx[t].user /\ tx'[t].plan = tx[t].plan /\ tx'[t].sub = tx[t].sub
      <4>1. CASE tx' = tx
        BY <4>1
      <4>2. CASE tx' # tx
        <5>1. PICK n : tx' = [tx EXCEPT ![req[h].tx] =
                [@ EXCEPT !.status = "prepared", !.prepare = n, !.trans = req[h].trans]]
          BY <2>2, <4>2 DEF Prepare
        <5>2. tx[t] \in Transaction
          BY <1>a
        <5> QED
          BY <1>a, <5>1, <5>2 DEF Transaction
      <4> QED
        BY <4>1, <4>2
    <3> QED
      BY <3>1
  <2>3. CASE Claim(h)
    <3>1. \/ tx' = tx
          \/ tx' = [tx EXCEPT ![req[h].tx] = [@ EXCEPT !.status = "paid", !.trans = req[h].trans]]
      BY <2>3 DEF Claim
    <3>2. tx[t] \in Transaction
      BY <1>a
    <3>3. tx'[t].user = tx[t].user /\ tx'[t].plan = tx[t].plan /\ tx'[t].sub = tx[t].sub
      <4>1. CASE tx' = tx
        BY <4>1
      <4>2. CASE tx' = [tx EXCEPT ![req[h].tx] = [@ EXCEPT !.status = "paid", !.trans = req[h].trans]]
        BY <1>a, <3>2, <4>2 DEF Transaction
      <4> QED
        BY <3>1, <4>1, <4>2
    <3> QED
      BY <3>3
  <2>4. CASE Link(h)
    <3>1. tx' = [tx EXCEPT ![req[h].tx].sub = got[h]]
      BY <2>4 DEF Link
    <3> QED
      BY <1>a, <2>4, <3>1 DEF Transaction
  <2>5. CASE Unclaim(h)
    BY <1>a, <2>5 DEF Unclaim, Transaction
  <2>6. CASE UNCHANGED tx
    BY <2>6
  <2> QED
    BY <1>1, <2>1, <2>2, <2>3, <2>4, <2>5, <2>6
    DEF Handle, Load, Interval, Snap, Write, Reply, db
<1>2. ASSUME NEW u \in Txs, NEW v \in Users, NEW p \in Plans, Checkout(u, v, p)
      PROVE  Kept
  <2>1. tx[u].status = "absent"
        /\ tx' = [tx EXCEPT ![u] = [AbsentTx EXCEPT !.status = "created", !.user = v, !.plan = p]]
    BY <1>2 DEF Checkout
  <2> QED
    BY <1>a, <2>1 DEF AbsentTx
<1>3. CASE UNCHANGED tx
  BY <1>3
<1>4. Kept
  BY <1>1, <1>2, <1>3 DEF Next, vars, db, UpdatePlan, Tick, ClickOpen, ClickCharge, Receive,
     Fail, Crash
<1> QED
  BY <1>4

(* The rows of subscriptions are only added to.                            *)
LEMMA RowsGrow ==
    ASSUME [Next]_vars
    PROVE  \/ subs' = subs
           \/ \E h \in Handlers : /\ Write(h)
                                 /\ subs' = Append(Closed(h), NewRow(h))
                                 /\ Insertable(Closed(h), NewRow(h))
                                 /\ got' = [got EXCEPT ![h] = Len(subs) + 1]
<1>1. ASSUME NEW h \in Handlers, Handle(h)
      PROVE  subs' = subs \/ (/\ Write(h) /\ subs' = Append(Closed(h), NewRow(h))
                              /\ Insertable(Closed(h), NewRow(h))
                              /\ got' = [got EXCEPT ![h] = Len(subs) + 1])
  <2>1. CASE Write(h)
    BY <2>1 DEF Write
  <2> QED
    BY <1>1, <2>1 DEF Handle, Load, Cancel, Prepare, Claim, Interval, Snap, Link, Unclaim, Reply, db
<1> QED
  BY <1>1 DEF Next, vars, db, Checkout, UpdatePlan, Tick, ClickOpen, ClickCharge, Receive, Fail, Crash

(* The insert of Activate: the old rows keep their owner, the new one      *)
(* comes last.                                                             *)
LEMMA InsertShape ==
    ASSUME TypeOK, SoleSettler, NEW h \in Handlers, pc[h] = "write",
           subs' = Append(Closed(h), NewRow(h))
    PROVE  /\ Len(subs) + 1 \in DOMAIN subs' /\ subs'[Len(subs) + 1] = NewRow(h)
           /\ Len(subs') = Len(subs) + 1 /\ Len(subs) \in Nat
           /\ \A i \in DOMAIN subs' : i \in DOMAIN subs \/ i = Len(subs) + 1
           /\ \A i \in DOMAIN subs :
                 /\ i \in DOMAIN subs' /\ i # Len(subs) + 1
                 /\ subs'[i] = Closed(h)[i]
                 /\ subs'[i].tx = subs[i].tx /\ subs'[i].user = subs[i].user /\ subs'[i].plan = subs[i].plan
<1>1. /\ Closed(h) \in Seq(Subscription) /\ Len(Closed(h)) = Len(subs) /\ Len(subs) \in Nat
      /\ subs \in Seq(Subscription) /\ NewRow(h) \in Subscription
  BY ActivateTypes DEF TypeOK, TypesOK, TablesOK
<1>2. DOMAIN subs = 1..Len(subs) /\ DOMAIN subs' = 1..(Len(subs) + 1) /\ Len(subs') = Len(subs) + 1
  BY <1>1
<1>3. \A i \in DOMAIN subs : /\ Closed(h)[i].tx = subs[i].tx /\ Closed(h)[i].user = subs[i].user
                             /\ Closed(h)[i].plan = subs[i].plan
  <2>1. \A i \in DOMAIN subs : subs[i] \in Subscription
    BY <1>1
  <2> QED
    BY <1>1, <2>1 DEF Closed, Locked, Live, Subscription
<1>4. \A i \in DOMAIN subs : subs'[i] = Closed(h)[i]
  BY <1>1, <1>2
<1>5. subs'[Len(subs) + 1] = NewRow(h)
  BY <1>1
<1> QED
  BY <1>1, <1>2, <1>3, <1>4, <1>5

LEMMA OwnRowStays ==
    ASSUME TypeOK, SoleSettler, [Next]_vars, NEW t \in Txs, tx[t].status # "absent",
           NEW i, OwnRow(t, i)
    PROVE  OwnRow(t, i)'
<1>1. tx'[t].user = tx[t].user /\ tx'[t].plan = tx[t].plan
  BY LearnerKept
<1>2. i \in DOMAIN subs' /\ subs'[i].tx = subs[i].tx /\ subs'[i].user = subs[i].user
      /\ subs'[i].plan = subs[i].plan
  <2>1. CASE subs' = subs
    BY <2>1 DEF OwnRow
  <2>2. ASSUME NEW h \in Handlers, Write(h), subs' = Append(Closed(h), NewRow(h))
        PROVE  <1>2
    BY <2>2, InsertShape DEF Write, OwnRow
  <2> QED
    BY <2>1, <2>2, RowsGrow
<1> QED
  BY <1>1, <1>2 DEF OwnRow

LEMMA OwnershipStep ==
    ASSUME TypeOK, SoleSettler, RowsAreOwn, [Next]_vars
    PROVE  RowsAreOwn'
<1>a. /\ \A h \in Handlers : pc[h] # "idle" => req[h].tx \in Txs /\ tx[req[h].tx].status # "absent"
      /\ got \in [Handlers -> Nat] /\ pc \in [Handlers -> Stmts \cup {"idle", "reply"}]
  BY DEF TypeOK, TypesOK, CallbacksOK, RefersOK, Request
<1>c. \A i \in DOMAIN subs : subs[i].tx \in Txs
  <2>1. subs \in Seq(Subscription)
    BY DEF TypeOK, TypesOK, TablesOK
  <2>2. \A i \in DOMAIN subs : subs[i] \in Subscription
    BY <2>1
  <2> QED
    BY <2>2 DEF Subscription
<1>b. \A t \in Txs : tx[t].status # "absent" => tx'[t].status # "absent"
  BY StaysPresent
<1>1. ASSUME NEW t \in Txs, tx'[t].sub # 0
      PROVE  tx'[t].status # "absent" /\ OwnRow(t, tx[t].sub)'
  <2> DEFINE Own == tx'[t].status # "absent" /\ OwnRow(t, tx[t].sub)'
  <2>1. CASE tx'[t].sub = tx[t].sub
    <3>1. tx[t].status # "absent" /\ OwnRow(t, tx[t].sub)
      BY <1>1, <2>1 DEF RowsAreOwn
    <3>2. \A i : OwnRow(t, i) => OwnRow(t, i)'
      BY <3>1, OwnRowStays
    <3> QED
      BY <1>b, <2>1, <3>1, <3>2 DEF OwnRow
  <2>2. ASSUME NEW h \in Handlers, Link(h), req[h].tx = t, tx'[t].sub = got[h]
        PROVE  Own
    <3>1. tx[t].status # "absent" /\ OwnRow(t, got[h])
      BY <1>a, <2>2 DEF Link, RowsAreOwn
    <3>2. OwnRow(t, got[h])' /\ got' = got
      BY <2>2, <3>1, OwnRowStays DEF Link
    <3> QED
      BY <1>b, <2>2, <3>1, <3>2 DEF OwnRow
  <2> QED
    BY <1>1, <2>1, <2>2, LearnerKept
<1>2. ASSUME NEW h \in Handlers, pc'[h] = "link"
      PROVE  OwnRow(req[h].tx, got[h])'
  <2>1. CASE pc[h] = "link" /\ req'[h] = req[h] /\ got'[h] = got[h]
    <3>1. req[h].tx \in Txs /\ tx[req[h].tx].status # "absent" /\ OwnRow(req[h].tx, got[h])
      BY <1>a, <2>1 DEF RowsAreOwn
    <3>2. \A t \in Txs : \A i : tx[t].status # "absent" /\ OwnRow(t, i) => OwnRow(t, i)'
      BY OwnRowStays
    <3> QED
      BY <2>1, <3>1, <3>2 DEF OwnRow
  <2>2. CASE Write(h) /\ subs' = Append(Closed(h), NewRow(h)) /\ got' = [got EXCEPT ![h] = Len(subs) + 1]
    <3>1. pc[h] = "write" /\ req' = req /\ tx' = tx /\ got'[h] = Len(subs) + 1
      BY <1>a, <2>2 DEF Write, Then, OnError, Goto, Answering
    <3>2. Len(subs) + 1 \in DOMAIN subs' /\ subs'[Len(subs) + 1] = NewRow(h)
      BY <2>2, <3>1, InsertShape
    <3> QED
      BY <3>1, <3>2 DEF OwnRow, NewRow
  <2>3. \/ pc[h] = "link" /\ req'[h] = req[h] /\ got'[h] = got[h]
        \/ Write(h) /\ subs' = Append(Closed(h), NewRow(h)) /\ got' = [got EXCEPT ![h] = Len(subs) + 1]
    <3>1. ASSUME NEW g \in Handlers, Handle(g) \/ Fail(g) \/ Crash(g)
          PROVE  <2>3
      <4>1. CASE g # h
        <5>1. got'[h] = got[h]
          BY <1>a, <3>1, <4>1 DEF Handle, Load, Cancel, Prepare, Claim, Interval, Snap, Write, Link,
             Unclaim, Reply, Fail, Crash, Rests
        <5> QED
          BY <1>2, <3>1, <4>1, <5>1, CallbackFrame DEF TypeOK
      <4>2. CASE g = h
        BY <1>a, <1>2, <3>1, <4>2, FaultAssumption
        DEF Handle, Load, Cancel, Prepare, Claim, Interval, Snap, Write, Link, Unclaim, Reply, Fail,
            Crash, Rests, Then, OnError, Goto, Answering
      <4> QED
        BY <4>1, <4>2
    <3>2. ASSUME NEW g \in Handlers, NEW k \in Trans, Receive(g, k)
          PROVE  <2>3
      BY <1>a, <1>2, <3>2 DEF Receive, TypeOK, TypesOK, CallbacksOK
    <3>3. CASE UNCHANGED <<pc, local>>
      BY <1>2, <3>3 DEF local
    <3> QED
      BY <3>1, <3>2, <3>3 DEF Next, vars, Checkout, UpdatePlan, Tick, ClickOpen, ClickCharge
  <2> QED
    BY <2>1, <2>2, <2>3
<1>3. ASSUME NEW i \in DOMAIN subs'
      PROVE  tx'[subs'[i].tx].status # "absent"
  <2>1. CASE subs' = subs
    BY <1>b, <1>c, <1>3, <2>1 DEF RowsAreOwn
  <2>2. ASSUME NEW h \in Handlers, Write(h), subs' = Append(Closed(h), NewRow(h))
        PROVE  tx'[subs'[i].tx].status # "absent"
    <3>1. CASE i \in DOMAIN subs
      <4>1. subs'[i].tx = subs[i].tx
        BY <2>2, <3>1, InsertShape DEF Write
      <4> QED
        BY <1>b, <1>c, <3>1, <4>1 DEF RowsAreOwn
    <3>2. CASE i = Len(subs) + 1
      <4>0. NewRow(h).tx = req[h].tx
        BY DEF NewRow
      <4>1. subs'[i].tx = req[h].tx
        BY <2>2, <3>2, <4>0, InsertShape DEF Write
      <4> QED
        BY <1>a, <1>b, <2>2, <4>1 DEF Write
    <3> QED
      BY <1>3, <2>2, <3>1, <3>2, InsertShape DEF Write
  <2> QED
    BY <2>1, <2>2, RowsGrow
<1> QED
  BY <1>1, <1>2, <1>3 DEF RowsAreOwn

LEMMA MeantStep ==
    ASSUME TypeOK, SoleSettler, RowsAreOwn, SuccessIsMeant, [Next]_vars
    PROVE  SuccessIsMeant'
<1>a. /\ \A h \in Handlers : pc[h] # "idle" => req[h].tx \in Txs /\ tx[req[h].tx].status # "absent"
      /\ code \in [Handlers -> Codes \cup {None}]
      /\ pc \in [Handlers -> Stmts \cup {"idle", "reply"}]
      /\ tx \in [Txs -> Transaction]
  BY DEF TypeOK, TypesOK, TablesOK, CallbacksOK, RefersOK, Request
<1>b. \A t \in Txs : tx[t].sub # 0 => tx'[t].sub # 0
  <2>1. \A h \in Handlers : Link(h) => got[h] # 0
    <3>1. subs \in Seq(Subscription)
      BY DEF TypeOK, TypesOK, TablesOK
    <3> QED
      BY <3>1 DEF Link, RowsAreOwn, OwnRow
  <2> QED
    BY <2>1, LearnerKept DEF RowsAreOwn
<1> DEFINE Meant(h) == /\ pc[h] = "prepare" => req[h].action = "prepare"
                       /\ code[h] = "OK" =>
                             pc[h] = "reply" /\ (req[h].action = "complete" => tx[req[h].tx].sub # 0)
<1>1. ASSUME NEW h \in Handlers, Handle(h) \/ Fail(h) \/ Crash(h)
      PROVE  Meant(h)'
  <2>0. pc[h] # "idle" /\ (pc'[h] = "idle" \/ req'[h] = req[h])
    BY <1>1, CallbackFrame DEF TypeOK
  <2>1. CASE Rests(h)
    <3>1. pc'[h] = "idle" /\ code'[h] = None
      BY <1>a, <2>1 DEF Rests
    <3> QED
      BY <3>1, CodesAssumption DEF Codes
  <2>2. ASSUME NEW s \in Stmts, s # "prepare", Goto(h, s), pc[h] # "reply"
        PROVE  Meant(h)'
    BY <1>a, <2>2 DEF SuccessIsMeant, Stmts, Goto
  <2>3. ASSUME NEW c \in Codes, c # "OK", Answering(h, c)
        PROVE  Meant(h)'
    BY <1>a, <2>3 DEF Answering, Codes
  <2>4. ASSUME NEW s \in Stmts, OnError(h, s), pc[h] # "reply"
        PROVE  Meant(h)'
    BY <2>2, <2>3, <2>4, ErrorMoves DEF Stmts, Codes
  <2>5. CASE Load(h)
    <3>1. CASE Goto(h, "prepare")
      BY <1>a, <2>5, <3>1 DEF Load, Goto, Answering, SuccessIsMeant
    <3> QED
      BY <2>2, <2>3, <2>5, <3>1 DEF Load, Stmts, Codes
  <2>6. CASE Prepare(h)
    <3>1. CASE Answering(h, "OK")
      BY <1>a, <2>6, <3>1 DEF Prepare, Answering, SuccessIsMeant
    <3> QED
      BY <2>3, <2>4, <2>6, <3>1 DEF Prepare, Then, Stmts, Codes
  <2>7. CASE Link(h)
    <3>1. CASE Answering(h, "OK")
      <4>1. got[h] # 0 /\ req[h].tx \in Txs /\ tx'[req[h].tx].sub = got[h]
        <5>1. subs \in Seq(Subscription)
          BY DEF TypeOK, TypesOK, TablesOK
        <5> QED
          BY <1>a, <2>7, <5>1 DEF Link, RowsAreOwn, OwnRow
      <4> QED
        BY <1>a, <3>1, <4>1 DEF Answering
    <3> QED
      BY <2>4, <2>7, <3>1 DEF Link, Then, Stmts
  <2>8. CASE Fail(h)
    BY <1>a, <2>4, <2>8, FaultAssumption DEF Fail, Stmts
  <2>9. CASE Cancel(h) \/ Claim(h) \/ Interval(h) \/ Snap(h) \/ Write(h) \/ Unclaim(h)
    BY <2>2, <2>3, <2>4, <2>9
    DEF Cancel, Claim, Interval, Snap, Write, Unclaim, Then, Stmts, Codes
  <2> QED
    BY <1>1, <2>1, <2>5, <2>6, <2>7, <2>8, <2>9 DEF Handle, Reply, Crash
<1>2. ASSUME NEW h \in Handlers, Meant(h), UNCHANGED <<pc[h], req[h], code[h]>>
      PROVE  Meant(h)'
  <2>1. code[h] = "OK" => req[h].tx \in Txs
    BY <1>a, <1>2
  <2> QED
    BY <1>b, <1>2, <2>1
<1>3. ASSUME NEW h \in Handlers
      PROVE  Meant(h)'
  <2>0. Meant(h)
    BY DEF SuccessIsMeant
  <2>1. ASSUME NEW g \in Handlers, Handle(g) \/ Fail(g) \/ Crash(g), g # h
        PROVE  UNCHANGED <<pc[h], req[h], code[h]>>
    <3>1. UNCHANGED <<pc[h], req[h]>>
      BY <2>1, CallbackFrame DEF TypeOK
    <3>2. code'[h] = code[h]
      <4>1. \/ Rests(g) \/ code' = code \/ \E c : Answering(g, c)
        BY <2>1, ErrorMoves, FaultAssumption DEF Handle, Load, Cancel, Prepare, Claim, Interval, Snap, Write, Link, Unclaim,
           Reply, Fail, Crash, Then, Goto, Stmts
      <4> QED
        BY <1>a, <2>1, <4>1 DEF Rests, Answering
    <3> QED
      BY <3>1, <3>2
  <2>2. ASSUME NEW g \in Handlers, NEW k \in Trans, Receive(g, k)
        PROVE  Meant(h)'
    <3>1. CASE g = h
      BY <1>a, <2>0, <2>2, <3>1 DEF Receive
    <3>2. CASE g # h
      BY <1>a, <1>2, <2>0, <2>2, <3>2 DEF Receive
    <3> QED
      BY <3>1, <3>2
  <2>3. CASE UNCHANGED <<pc, local>>
    BY <1>2, <2>0, <2>3 DEF local
  <2> QED
    BY <1>1, <1>2, <2>0, <2>1, <2>2, <2>3 DEF Next, vars, Checkout, UpdatePlan, Tick, ClickOpen, ClickCharge
<1> QED
  BY <1>3 DEF SuccessIsMeant

(* Whoever is told OK at the end of a Complete has the subscription of     *)
(* that transaction: for every value of the constants and any faults.      *)
THEOREM ConfirmedAreServed == Spec => []ConfirmedIsServed
<1>1. Init => RowsAreOwn /\ SuccessIsMeant
  BY CodesAssumption DEF Init, RowsAreOwn, SuccessIsMeant, AbsentTx, Codes
<1>2. TypeOK /\ SoleSettler /\ RowsAreOwn /\ SuccessIsMeant /\ [Next]_vars
      => (RowsAreOwn /\ SuccessIsMeant)'
  BY OwnershipStep, MeantStep
<1>3. TypeOK /\ RowsAreOwn /\ SuccessIsMeant => ConfirmedIsServed
  BY DEF TypeOK, TypesOK, CallbacksOK, Request, RowsAreOwn, SuccessIsMeant, OwnRow, ConfirmedIsServed
<1> QED
  BY <1>1, <1>2, <1>3, OneCallbackSettles, PTL DEF Spec

-----------------------------------------------------------------------------
(* A claim is followed through: its commit is not mistaken for a failure,  *)
(* the process lives, and what has to be put back is put back.             *)
ClaimsAreSettled == "claim" \notin CanLose /\ "unclaim" \notin CanFail /\ ~CanCrash

LEMMA GrantsRemain ==
    ASSUME TypeOK, SoleSettler, [Next]_vars, NEW t, Granted(t)
    PROVE  Granted(t)'
<1>1. CASE subs' = subs
  BY <1>1 DEF Granted
<1>2. ASSUME NEW h \in Handlers, Write(h), subs' = Append(Closed(h), NewRow(h))
      PROVE  Granted(t)'
  BY <1>2, InsertAddsOne DEF Write
<1> QED
  BY <1>1, <1>2, RowsGrow

LEMMA PaidStep ==
    ASSUME ClaimsAreSettled, TypeOK, SoleSettler, RowsAreOwn, PaidIsServed, [Next]_vars
    PROVE  PaidIsServed'
<1>a. /\ pc \in [Handlers -> Stmts \cup {"idle", "reply"}]
      /\ tx \in [Txs -> Transaction]
  BY DEF TypeOK, TypesOK, TablesOK, CallbacksOK
<1>1. ASSUME NEW t \in Txs, tx'[t].status = "paid"
      PROVE  Granted(t)' \/ \E h \in Handlers : Settles(h, t)'
  <2>1. CASE Granted(t)
    BY <2>1, GrantsRemain
  <2>2. CASE (\A h \in Handlers : ~Handle(h) /\ ~Fail(h) /\ ~Crash(h)) /\ ~Granted(t)
    <3>1. tx[t].status = "paid"
      <4>1. ASSUME NEW u \in Txs, NEW v \in Users, NEW p \in Plans, Checkout(u, v, p)
            PROVE  tx[t].status = "paid"
        BY <1>a, <1>1, <4>1 DEF Checkout, AbsentTx
      <4>2. CASE UNCHANGED tx
        BY <1>1, <4>2
      <4> QED
        BY <2>2, <4>1, <4>2 DEF Next, vars, db, UpdatePlan, Tick, ClickOpen, ClickCharge, Receive
    <3> QED
      BY <2>2, <3>1, SettlersLeftAlone DEF PaidIsServed
  <2>3. ASSUME NEW h \in Handlers, Handle(h) \/ Fail(h) \/ Crash(h), ~Granted(t)
        PROVE  Granted(t)' \/ \E g \in Handlers : Settles(g, t)'
    <3>0. pc[h] # "idle" /\ (pc'[h] = "idle" \/ req'[h] = req[h])
      BY <2>3, CallbackFrame DEF TypeOK
    <3>1. CASE tx[t].status = "paid" /\ ~Settles(h, t)
      <4>1. PICK g \in Handlers : Settles(g, t)
        BY <2>3, <3>1 DEF PaidIsServed
      <4> QED
        BY <2>3, <3>1, <4>1, SettlesByClaim
    <3>2. CASE Settles(h, t)
      <4>1. pc[h] \in Settling /\ req[h].tx = t /\ tx[t].status = "paid"
        BY <3>2 DEF Settles, SoleSettler
      <4>2. pc[h] # "link"
        BY <2>3, <4>1 DEF RowsAreOwn, OwnRow, Granted
      <4>3. CASE pc'[h] \in Settling /\ req' = req
        BY <4>1, <4>3 DEF Settles
      <4>4. CASE Unclaim(h)
        BY <1>a, <1>1, <4>1, <4>4 DEF Unclaim, Transaction
      <4>5. (pc'[h] \in Settling /\ req' = req) \/ Unclaim(h)
        BY <1>a, <2>3, <4>1, <4>2, FaultAssumption
        DEF Handle, Load, Cancel, Prepare, Claim, Interval, Snap, Write, Link, Reply, Fail, Crash,
            Then, OnError, Goto, Settling, ClaimsAreSettled
      <4> QED
        BY <4>3, <4>4, <4>5
    <3>3. CASE tx[t].status # "paid"
      <4>1. Claim(h) /\ req[h].tx = t /\ tx[t].status = "prepared"
        <5>1. CASE Claim(h)
          BY <1>a, <1>1, <3>3, <5>1 DEF Claim, Transaction
        <5>2. CASE Cancel(h)
          BY <1>a, <1>1, <3>3, <5>2 DEF Cancel, Transaction
        <5>3. CASE Prepare(h)
          <6>1. tx' # tx
            BY <1>1, <3>3
          <6>2. PICK n : tx' = [tx EXCEPT ![req[h].tx] =
                  [@ EXCEPT !.status = "prepared", !.prepare = n, !.trans = req[h].trans]]
            BY <5>3, <6>1 DEF Prepare
          <6> QED
            BY <1>a, <1>1, <3>3, <6>2 DEF Transaction
        <5>4. CASE Link(h)
          <6>1. tx' = [tx EXCEPT ![req[h].tx].sub = got[h]]
            BY <5>4 DEF Link
          <6> QED
            BY <1>a, <1>1, <3>3, <6>1 DEF Transaction
        <5>5. CASE Unclaim(h)
          BY <1>a, <1>1, <3>3, <5>5 DEF Unclaim, Transaction
        <5>6. CASE UNCHANGED tx
          BY <1>1, <3>3, <5>6
        <5> QED
          BY <2>3, <5>1, <5>2, <5>3, <5>4, <5>5, <5>6
          DEF Handle, Load, Interval, Snap, Write, Reply, Fail, Crash, db
      <4>2. pc'[h] = "interval" /\ req' = req
        BY <1>a, <4>1 DEF Claim, Then, Goto, ClaimsAreSettled
      <4> QED
        BY <4>1, <4>2 DEF Settles, Settling
    <3> QED
      BY <3>1, <3>2, <3>3
  <2> QED
    BY <2>1, <2>2, <2>3
<1> QED
  BY <1>1 DEF PaidIsServed

(* A transaction that reads paid is served or being served, however the    *)
(* other statements fail, as long as claims are settled.                   *)
THEOREM PaidAreServed == ClaimsAreSettled => (Spec => []PaidIsServed)
<1> SUFFICES ASSUME ClaimsAreSettled PROVE Spec => []PaidIsServed
  OBVIOUS
<1>1. Init => RowsAreOwn /\ PaidIsServed
  BY DEF Init, RowsAreOwn, PaidIsServed, AbsentTx
<1>2. TypeOK /\ SoleSettler /\ RowsAreOwn /\ PaidIsServed /\ [Next]_vars
      => (RowsAreOwn /\ PaidIsServed)'
  BY OwnershipStep, PaidStep
<1> QED
  BY <1>1, <1>2, OneCallbackSettles, PTL DEF Spec

-----------------------------------------------------------------------------
(* Activate closes the row it holds only by inserting the one that follows *)
(* it, and a renewal starts where the running period ends.                 *)
THEOREM RenewalsKeepPaidTime == Spec => RenewalKeepsPaidTime
<1> DEFINE Extends(i) ==
      LET new == subs'[Len(subs')] IN
        /\ Len(subs') = Len(subs) + 1
        /\ new.user = subs[i].user
        /\ (new.plan = subs[i].plan /\ subs[i].end # 0) => new.start >= subs[i].end
<1>1. ASSUME TypeOK, SoleSettler, [Next]_vars, NEW i \in DOMAIN subs,
             subs'[i].status # subs[i].status
      PROVE  Extends(i)
  <2>1. PICK h \in Handlers : Write(h) /\ subs' = Append(Closed(h), NewRow(h))
    BY <1>1, RowsGrow
  <2>2. /\ subs'[i] = Closed(h)[i] /\ Len(subs') = Len(subs) + 1
        /\ subs'[Len(subs')] = NewRow(h)
    BY <1>1, <2>1, InsertShape DEF Write
  <2>3. subs \in Seq(Subscription) /\ subs[i] \in Subscription /\ at[h] \in Nat
    BY <1>1 DEF TypeOK, TypesOK, TablesOK, CallbacksOK
  <2>4. Locked(h) /\ got[h] = i
    BY <1>1, <2>2, <2>3 DEF Closed, Locked, Live, Subscription
  <2>5. subs[i].user = tx[req[h].tx].user /\ (subs[i].end # 0 => subs[i].end > at[h])
    BY <2>3, <2>4 DEF Locked, Live, Running, Subscription
  <2>6. /\ NewRow(h).user = tx[req[h].tx].user /\ NewRow(h).plan = tx[req[h].tx].plan
        /\ NewRow(h).start = StartsAt(h)
    BY DEF NewRow
  <2>7. tx[req[h].tx].plan = subs[i].plan /\ subs[i].end # 0 => StartsAt(h) = subs[i].end
    BY <2>4, <2>5 DEF StartsAt
  <2>8. subs[i].end \in Nat
    BY <2>3 DEF Subscription
  <2> QED
    BY <2>2, <2>5, <2>6, <2>7, <2>8
<1>2. TypeOK /\ SoleSettler /\ [Next]_vars =>
        [\A i \in DOMAIN subs : subs'[i].status # subs[i].status => Extends(i)]_subs
  BY <1>1
<1> QED
  BY <1>2, OneCallbackSettles, PTL DEF Spec, RenewalKeepsPaidTime
-----------------------------------------------------------------------------
(* What a learner sees of the transactions, as the refinement maps it.     *)
Outcomes == [t \in Txs |-> Outcome(t)]
Linked   == {t \in Txs : tx[t].sub # 0}

(* One transaction moves, the others keep what is seen of them.            *)
LEMMA OneIsMoved ==
    ASSUME NEW t \in Txs, NEW to, Outcome(t)' = to, Linked' = Linked,
           \A u \in Txs : u # t => Outcome(u)' = Outcome(u)
    PROVE  Access!Move(t, Outcome(t), to)
<1>1. Outcomes' = [Outcomes EXCEPT ![t] = to]
  BY DEF Outcomes
<1> QED
  BY <1>1 DEF Access!Move, Outcomes, Linked

(* A step that opens no row and leaves a transaction's pointer alone shows *)
(* only when the transaction appears or is cancelled.                      *)
LEMMA SeenByStatus ==
    ASSUME NEW t \in Txs, subs' = subs, tx'[t].sub = tx[t].sub,
           \/ tx'[t].status = tx[t].status
           \/ /\ {tx[t].status, tx'[t].status} \cap {"absent", "canceled"} = {}
    PROVE  Outcome(t)' = Outcome(t)
<1>1. Granted(t)' <=> Granted(t)
  BY DEF Granted
<1> QED
  BY <1>1 DEF Outcome

LEMMA AccessStep ==
    ASSUME TypeOK, SoleSettler, RowsAreOwn, [Next]_vars
    PROVE  [Access!Next]_<<Outcomes, Linked>>
<1>a. /\ tx \in [Txs -> Transaction] /\ \A t \in Txs : tx[t] \in Transaction
      /\ \A h \in Handlers : pc[h] # "idle" => req[h].tx \in Txs
      /\ \A h \in Handlers : pc[h] # "idle" => tx[req[h].tx].status # "absent"
  BY DEF TypeOK, TypesOK, TablesOK, CallbacksOK, RefersOK, Request
<1>b. \A t \in Txs : tx[t].status = "absent" => ~Granted(t) /\ tx[t].sub = 0
  BY DEF RowsAreOwn, Granted
<1>c. ASSUME \A t \in Txs : Outcome(t)' = Outcome(t) /\ tx'[t].sub = tx[t].sub
      PROVE  UNCHANGED <<Outcomes, Linked>>
  BY <1>c DEF Outcomes, Linked
<1>d. ASSUME tx' = tx, subs' = subs
      PROVE  UNCHANGED <<Outcomes, Linked>>
  BY <1>c, <1>d, SeenByStatus
<1>1. ASSUME NEW t \in Txs, NEW u \in Users, NEW p \in Plans, Checkout(t, u, p)
      PROVE  Access!Offer(t)
  <2>1. /\ tx[t].status = "absent" /\ subs' = subs
        /\ tx' = [tx EXCEPT ![t] = [AbsentTx EXCEPT !.status = "created", !.user = u, !.plan = p]]
    BY <1>1 DEF Checkout
  <2>2. tx'[t].status = "created" /\ tx'[t].sub = 0 /\ tx[t].sub = 0
    BY <1>a, <1>b, <2>1 DEF AbsentTx
  <2>3. Outcome(t) = "none" /\ Outcome(t)' = "open"
    BY <1>b, <2>1, <2>2 DEF Outcome, Granted
  <2>4. \A v \in Txs : v # t => tx'[v] = tx[v]
    BY <1>a, <2>1
  <2>5. \A v \in Txs : v # t => Outcome(v)' = Outcome(v)
    BY <2>1, <2>4, SeenByStatus
  <2>6. Linked' = Linked
    BY <2>2, <2>4 DEF Linked
  <2> QED
    BY <2>3, <2>5, <2>6, OneIsMoved DEF Access!Offer
<1>2. ASSUME NEW h \in Handlers, Cancel(h)
      PROVE  Access!Cancel(req[h].tx) \/ UNCHANGED <<Outcomes, Linked>>
  <2>t. PICK t : t = req[h].tx
    OBVIOUS
  <2>0. t \in Txs /\ tx[t].status # "absent" /\ subs' = subs
    BY <1>a, <1>2, <2>t DEF Cancel
  <2>1. \A v \in Txs : v # t => tx'[v] = tx[v]
    BY <1>a, <1>2, <2>t DEF Cancel
  <2>2. \A v \in Txs : v # t => Outcome(v)' = Outcome(v)
    BY <2>0, <2>1, SeenByStatus
  <2>3. tx'[t].sub = tx[t].sub
        /\ tx'[t].status = IF tx[t].status = "paid" THEN "paid" ELSE "canceled"
    BY <1>a, <1>2, <2>0, <2>t DEF Cancel, Transaction
  <2>4. Linked' = Linked
    BY <2>1, <2>3 DEF Linked
  <2>5. CASE Outcome(t) = "open" /\ tx[t].status # "paid"
    <3>1. Outcome(t)' = "canceled"
      BY <2>0, <2>3, <2>5 DEF Outcome, Granted
    <3> QED
      BY <2>0, <2>2, <2>4, <2>5, <2>t, <3>1, OneIsMoved DEF Access!Cancel
  <2>6. CASE ~(Outcome(t) = "open" /\ tx[t].status # "paid")
    <3>1. Outcome(t)' = Outcome(t)
      BY <2>0, <2>3, <2>6 DEF Outcome, Granted
    <3> QED
      BY <1>c, <2>0, <2>1, <2>2, <2>3, <3>1
  <2> QED
    BY <2>5, <2>6
<1>3. ASSUME NEW h \in Handlers, Prepare(h) \/ Claim(h) \/ Unclaim(h)
      PROVE  UNCHANGED <<Outcomes, Linked>>
  <2>0. subs' = subs
    BY <1>3 DEF Prepare, Claim, Unclaim
  <2>1. \A v \in Txs : /\ tx'[v].sub = tx[v].sub
                       /\ \/ tx'[v].status = tx[v].status
                          \/ {tx[v].status, tx'[v].status} \subseteq {"created", "prepared", "paid"}
    <3>1. CASE tx' = tx
      BY <3>1
    <3>2. CASE Unclaim(h)
      BY <1>a, <3>2 DEF Unclaim, Transaction
    <3>3. CASE Claim(h) /\ tx' # tx
      <4>1. tx[req[h].tx].status = "prepared"
            /\ tx' = [tx EXCEPT ![req[h].tx] = [@ EXCEPT !.status = "paid", !.trans = req[h].trans]]
        BY <3>3 DEF Claim
      <4> QED
        BY <1>a, <4>1 DEF Transaction
    <3>4. CASE Prepare(h) /\ tx' # tx
      <4>1. PICK n : tx' = [tx EXCEPT ![req[h].tx] =
              [@ EXCEPT !.status = "prepared", !.prepare = n, !.trans = req[h].trans]]
        BY <3>4 DEF Prepare
      <4>2. tx[req[h].tx].status \in {"created", "prepared"}
        BY <3>4 DEF Prepare
      <4> QED
        BY <1>a, <4>1, <4>2 DEF Transaction
    <3> QED
      BY <1>3, <3>1, <3>2, <3>3, <3>4
  <2>2. \A v \in Txs : Outcome(v)' = Outcome(v)
    BY <2>0, <2>1, SeenByStatus
  <2> QED
    BY <1>c, <2>1, <2>2
<1>4. ASSUME NEW h \in Handlers, Write(h)
      PROVE  Access!Grant(req[h].tx) \/ UNCHANGED <<Outcomes, Linked>>
  <2>t. PICK t : t = req[h].tx
    OBVIOUS
  <2>0. t \in Txs /\ tx[t].status = "paid" /\ tx' = tx
    BY <1>a, <1>4, <2>t DEF Write, SoleSettler, Settles, Settling
  <2>1. CASE subs' = subs
    BY <1>d, <2>0, <2>1
  <2>2. CASE subs' = Append(Closed(h), NewRow(h))
    <3>1. \A v : Granted(v)' <=> Granted(v) \/ v = t
      BY <1>4, <2>2, <2>t, InsertAddsOne DEF Write
    <3>2. \A v \in Txs : v # t => Outcome(v)' = Outcome(v)
      BY <2>0, <3>1 DEF Outcome
    <3>3. Outcome(t)' = "granted" /\ Outcome(t) \in {"open", "granted"}
      BY <2>0, <3>1 DEF Outcome
    <3>4. Linked' = Linked
      BY <2>0 DEF Linked
    <3>5. CASE Outcome(t) = "open"
      BY <2>0, <3>2, <3>3, <3>4, <3>5, <2>t, OneIsMoved DEF Access!Grant
    <3>6. CASE Outcome(t) = "granted"
      BY <1>c, <2>0, <3>2, <3>3, <3>6
    <3> QED
      BY <3>3, <3>5, <3>6
  <2> QED
    BY <1>4, <2>1, <2>2 DEF Write
<1>5. ASSUME NEW h \in Handlers, Link(h)
      PROVE  Access!Link(req[h].tx)
  <2>t. PICK t : t = req[h].tx
    OBVIOUS
  <2>0. t \in Txs /\ tx[t].status # "absent" /\ OwnRow(t, got[h]) /\ subs' = subs
    BY <1>a, <1>5, <2>t DEF Link, RowsAreOwn
  <2>1. Outcome(t) = "granted" /\ got[h] # 0
    <3>1. subs \in Seq(Subscription)
      BY DEF TypeOK, TypesOK, TablesOK
    <3> QED
      BY <2>0, <3>1 DEF OwnRow, Outcome, Granted
  <2>2. tx' = [tx EXCEPT ![t].sub = got[h]]
    BY <1>5, <2>t DEF Link
  <2>3. /\ tx'[t].sub = got[h]
        /\ \A v \in Txs : tx'[v].status = tx[v].status /\ (v # t => tx'[v].sub = tx[v].sub)
    BY <1>a, <2>0, <2>2 DEF Transaction
  <2>4. \A v \in Txs : Outcome(v)' = Outcome(v)
    BY <2>0, <2>3 DEF Outcome, Granted
  <2>5. Outcomes' = Outcomes
    BY <2>4 DEF Outcomes
  <2>6. Linked' = Linked \cup {t}
    BY <2>0, <2>1, <2>3 DEF Linked
  <2> QED
    BY <2>0, <2>1, <2>5, <2>6, <2>t DEF Access!Link, Outcomes, Linked
<1>6. ASSUME NEW h \in Handlers, Handle(h) \/ Fail(h) \/ Crash(h)
      PROVE  [Access!Next]_<<Outcomes, Linked>>
  <2>1. CASE tx' = tx /\ subs' = subs
    BY <1>d, <2>1
  <2>2. CASE Cancel(h) \/ Write(h) \/ Link(h)
    <3>1. req[h].tx \in Txs
      BY <1>a, <2>2 DEF Cancel, Write, Link
    <3>2. CASE Cancel(h)
      <4>1. Access!Cancel(req[h].tx) \/ UNCHANGED <<Outcomes, Linked>>
        BY <1>2, <3>2
      <4> QED
        BY <3>1, <4>1 DEF Access!Next
    <3>3. CASE Write(h)
      <4>1. Access!Grant(req[h].tx) \/ UNCHANGED <<Outcomes, Linked>>
        BY <1>4, <3>3
      <4> QED
        BY <3>1, <4>1 DEF Access!Next
    <3>4. CASE Link(h)
      <4>1. Access!Link(req[h].tx)
        BY <1>5, <3>4
      <4> QED
        BY <3>1, <4>1 DEF Access!Next, Access!Link
    <3> QED
      BY <2>2, <3>2, <3>3, <3>4
  <2> QED
    BY <1>3, <1>6, <2>1, <2>2 DEF Handle, Load, Interval, Snap, Reply, Fail, Crash, db
<1>7. CASE UNCHANGED <<tx, subs>>
  BY <1>d, <1>7
<1> QED
  BY <1>1, <1>6, <1>7 DEF Next, vars, db, UpdatePlan, Tick, ClickOpen, ClickCharge, Receive, Access!Next

(* Statement by statement, interleaved and failing in any way, callbacks   *)
(* do to a transaction only what PaidAccess allows.                        *)
THEOREM ImplementsPaidAccess == Spec => PaidAccessSpec
<1>1. Init => RowsAreOwn /\ Access!Init
  <2>1. Init => RowsAreOwn
    BY DEF Init, RowsAreOwn, AbsentTx
  <2>2. Init => \A t \in Txs : Outcome(t) = "none" /\ tx[t].sub = 0
    BY DEF Init, Outcome, AbsentTx
  <2> QED
    BY <2>1, <2>2 DEF Access!Init
<1>2. TypeOK /\ SoleSettler /\ RowsAreOwn /\ [Next]_vars => RowsAreOwn'
  BY OwnershipStep
<1>3. TypeOK /\ SoleSettler /\ RowsAreOwn /\ [Next]_vars => [Access!Next]_<<Outcomes, Linked>>
  BY AccessStep
<1> QED
  BY <1>1, <1>2, <1>3, OneCallbackSettles, PTL DEF Spec, PaidAccessSpec, Access!Spec, Outcomes, Linked
=============================================================================
