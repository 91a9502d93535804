---------------------------- MODULE UsageProofs ----------------------------
(***************************************************************************)
(* Usage windows are counted truly, for any number of requests, any plans, *)
(* limits and windows, and any handlers.                                   *)
(***************************************************************************)
EXTENDS UsageMetering, FiniteSetTheorems, TLAPS

LEMMA WindowBegan ==
    ASSUME NEW length \in Nat \ {0}, NEW t \in Nat
    PROVE  Window(length, t) \in 0..t
<1>1. t \div length \in Nat /\ (t \div length) * length \in Nat
  BY SMT
<1>2. (t \div length) * length <= t
  BY SMT
<1> QED
  BY <1>1, <1>2 DEF Window

(* What a request carries at each point of its way.                        *)
RequestsOK ==
    \A r \in Requests :
        /\ pc[r] \in {"idle", "charge"} => paid[r] = None
        /\ pc[r] # "failed" => gave[r] = None
        /\ pc[r] \in Working \cup {"answered"} => allowed[r] # 0
        /\ paid[r] # None => paid[r] \in DOMAIN used

(* A step of one request leaves the others alone.                          *)
LEMMA Alone ==
    ASSUME TypeOK, NEW r \in Requests, Serve(r), NEW q \in Requests, q # r
    PROVE  /\ UNCHANGED <<pc[q], allowed[q], span[q], todo[q], paid[q], gave[q]>>
           /\ UNCHANGED <<now, plan, hung>>
<1>1. CASE ReadLimit(r)
  BY <1>1 DEF ReadLimit, TypeOK, Goto
<1>2. CASE Charge(r)
  BY <1>2 DEF Charge, TypeOK, Goto
<1>3. CASE Call(r)
  BY <1>3 DEF Call, TypeOK, Goto
<1>4. CASE Answer(r)
  BY <1>4 DEF Answer, TypeOK, Goto
<1>5. CASE ReadRefund(r)
  BY <1>5 DEF ReadRefund, TypeOK, Goto
<1>6. CASE Refund(r)
  BY <1>6 DEF Refund, TypeOK, Goto
<1> QED
  BY <1>1, <1>2, <1>3, <1>4, <1>5, <1>6 DEF Serve

(* The counters: a charge adds one to a window, a refund takes one away.   *)
LEMMA PlusCounts ==
    ASSUME TypeOK, NEW w \in 0..now
    PROVE  /\ DOMAIN Plus(w) = DOMAIN used \cup {w}
           /\ \A x \in DOMAIN used : x # w => Plus(w)[x] = used[x]
           /\ w \in DOMAIN used => Plus(w)[w] = used[w] + 1
           /\ w \notin DOMAIN used => Plus(w)[w] = 1
           /\ \A x \in DOMAIN Plus(w) : x \in 0..now /\ Plus(w)[x] \in Nat
<1>1. \A x \in DOMAIN used : x \in 0..now /\ used[x] \in Nat
  BY DEF TypeOK
<1> QED
  BY <1>1 DEF Plus

LEMMA TakenBack ==
    ASSUME TypeOK, NEW r \in Requests, Refund(r), NEW w, w = Window(span[r], now)
    PROVE  /\ DOMAIN used' = DOMAIN used
           /\ \A x \in DOMAIN used : x \in 0..now /\ used'[x] \in Nat /\ used'[x] <= used[x]
           /\ \A x \in DOMAIN used : gave'[r] # x => used'[x] = used[x]
           /\ \A x \in DOMAIN used : used'[x] < used[x] => used'[x] = used[x] - 1
           /\ \A x \in DOMAIN used : gave'[r] = x /\ used[x] > 0 => used'[x] = used[x] - 1
           /\ gave'[r] \in {w, Absent}
<1>1. /\ \A x \in DOMAIN used : x \in Nat /\ x \in 0..now /\ used[x] \in Nat
      /\ Absent \notin Nat /\ r \in DOMAIN gave
  BY NoneAssumption DEF TypeOK
<1>2. \/ used' = used /\ gave'[r] \in {w, Absent} /\ (gave'[r] = w /\ w \in DOMAIN used => ~(used[w] > 0))
      \/ used' = [used EXCEPT ![w] = @ - 1] /\ gave'[r] = w /\ w \in DOMAIN used /\ used[w] > 0
  BY <1>1 DEF Refund
<1>3. CASE used' = [used EXCEPT ![w] = @ - 1] /\ gave'[r] = w /\ w \in DOMAIN used /\ used[w] > 0
  <2>1. used'[w] = used[w] - 1 /\ \A x \in DOMAIN used : x # w => used'[x] = used[x]
    BY <1>3
  <2>2. DOMAIN used' = DOMAIN used
    BY <1>3
  <2> QED
    BY <1>1, <1>3, <2>1, <2>2
<1>4. CASE used' = used /\ gave'[r] \in {w, Absent} /\ (gave'[r] = w /\ w \in DOMAIN used => ~(used[w] > 0))
  <2>1. \A x \in DOMAIN used : ~(gave'[r] = x /\ used[x] > 0)
    BY <1>1, <1>4
  <2>2. \A x \in DOMAIN used : ~(used'[x] < used[x]) /\ used'[x] <= used[x]
    BY <1>1, <1>4
  <2> QED
    BY <1>1, <1>4, <2>1, <2>2
<1> QED
  BY <1>2, <1>3, <1>4

LEMMA TypeInit == Init => TypeOK
<1> SUFFICES ASSUME Init PROVE TypeOK
  OBVIOUS
<1>1. now \in 0..MaxTime
  BY BoundAssumption DEF Init
<1>2. \A w \in DOMAIN used : w \in 0..now /\ used[w] \in Nat
  BY DEF Init
<1> QED
  BY <1>1, <1>2, ScriptsAssumption DEF Init, TypeOK

LEMMA TypeStep == ASSUME TypeOK, [Next]_vars PROVE TypeOK'
<1>a. /\ now \in 0..MaxTime /\ now \in Nat /\ MaxTime \in Nat /\ plan \in Plans
      /\ Limits \in [Plans -> Nat \cup {Unlimited, Absent}] /\ Spans \in [Plans -> Nat \ {0}]
  BY PlansAssumption, BoundAssumption DEF TypeOK
<1>1. ASSUME NEW r \in Requests, ReadLimit(r) PROVE TypeOK'
  BY <1>a, <1>1 DEF ReadLimit, TypeOK, Goto, Working, Finished
<1>2. ASSUME NEW r \in Requests, Charge(r) PROVE TypeOK'
  <2>1. Window(span[r], now) \in 0..now
    BY <1>a, WindowBegan DEF TypeOK
  <2>2. \A w \in DOMAIN used' : w \in 0..now /\ used'[w] \in Nat
    BY <1>2, <2>1, PlusCounts DEF Charge, TypeOK
  <2>3. paid' \in [Requests -> Nat \cup {None}]
    BY <1>2, <2>1 DEF Charge, TypeOK
  <2> QED
    BY <1>2, <2>2, <2>3 DEF Charge, TypeOK, Goto, Working, Finished
<1>3. ASSUME NEW r \in Requests, Call(r) PROVE TypeOK'
  <2>1. Tail(todo[r]) \in Seq({"ai", "sql"})
    BY <1>3 DEF Call, TypeOK
  <2> QED
    BY <1>3, <2>1 DEF Call, TypeOK, Goto, Working, Finished
<1>4. ASSUME NEW r \in Requests, Answer(r) PROVE TypeOK'
  BY <1>4 DEF Answer, TypeOK, Goto, Working, Finished
<1>5. ASSUME NEW r \in Requests, ReadRefund(r) PROVE TypeOK'
  BY <1>a, <1>5 DEF ReadRefund, TypeOK, Goto, Working, Finished
<1>6. ASSUME NEW r \in Requests, Refund(r) PROVE TypeOK'
  <2>1. Window(span[r], now) \in 0..now
    BY <1>a, WindowBegan DEF TypeOK
  <2>2. \A w \in DOMAIN used' : w \in 0..now /\ used'[w] \in Nat
    BY <1>6, TakenBack
  <2>3. gave' \in [Requests -> Nat \cup {None, Absent}]
    <3>1. Window(span[r], now) \in Nat
      BY <1>a, <2>1
    <3>2. \/ gave' = [gave EXCEPT ![r] = Window(span[r], now)]
          \/ gave' = [gave EXCEPT ![r] = Absent]
      BY <1>6 DEF Refund
    <3> QED
      BY <3>1, <3>2 DEF TypeOK
  <2> QED
    BY <1>6, <2>2, <2>3 DEF Refund, TypeOK, Goto, Working, Finished
<1>7. ASSUME NEW r \in Requests, HangUp(r) PROVE TypeOK'
  BY <1>7 DEF HangUp, TypeOK, request
<1>8. ASSUME NEW p \in Plans, Switch(p) PROVE TypeOK'
  BY <1>8 DEF Switch, TypeOK, request
<1>9. CASE Tick
  BY <1>a, <1>9 DEF Tick, TypeOK, request
<1>10. CASE UNCHANGED vars
  BY <1>10 DEF vars, TypeOK, request
<1> QED
  BY <1>1, <1>2, <1>3, <1>4, <1>5, <1>6, <1>7, <1>8, <1>9, <1>10 DEF Next, Serve

(* Whatever fails, every variable of the meter keeps a value of its type.  *)
THEOREM UsageTypes == Spec => []TypeOK
<1> QED
  BY TypeInit, TypeStep, PTL DEF Spec

-----------------------------------------------------------------------------
LEMMA RequestsStep == ASSUME TypeOK, RequestsOK, [Next]_vars PROVE RequestsOK'
<1> DEFINE Fine(r) ==
        /\ pc[r] \in {"idle", "charge"} => paid[r] = None
        /\ pc[r] # "failed" => gave[r] = None
        /\ pc[r] \in Working \cup {"answered"} => allowed[r] # 0
        /\ paid[r] # None => paid[r] \in DOMAIN used
<1>a. \A r \in Requests : Fine(r)
  BY DEF RequestsOK
<1>b. now \in Nat
  BY DEF TypeOK
<1>1. ASSUME NEW r \in Requests, Serve(r) PROVE DOMAIN used \subseteq DOMAIN used'
  <2>1. CASE Charge(r)
    <3>1. Window(span[r], now) \in 0..now
      BY <1>b, WindowBegan DEF TypeOK
    <3> QED
      BY <2>1, <3>1, PlusCounts DEF Charge
  <2>2. CASE Refund(r)
    BY <2>2, TakenBack
  <2> QED
    BY <1>1, <2>1, <2>2 DEF Serve, ReadLimit, Call, Answer, ReadRefund
<1>2. ASSUME NEW r \in Requests, Serve(r) PROVE Fine(r)'
  <2>0. Fine(r) /\ DOMAIN used \subseteq DOMAIN used'
    BY <1>a, <1>1, <1>2
  <2>1. CASE ReadLimit(r)
    BY <1>a, <2>1, PlansAssumption DEF ReadLimit, Goto, TypeOK, Working
  <2>2. CASE Charge(r)
    <3>1. Window(span[r], now) \in 0..now
      BY <1>b, WindowBegan DEF TypeOK
    <3>2. Window(span[r], now) \in DOMAIN used' \/ paid' = paid
      BY <2>2, <3>1, PlusCounts DEF Charge
    <3>3. paid'[r] \in DOMAIN used' \/ paid'[r] = paid[r]
      BY <2>2, <3>2 DEF Charge, TypeOK
    <3> QED
      BY <2>0, <2>2, <3>3 DEF Charge, Goto, TypeOK, Working
  <2>3. CASE Call(r)
    BY <2>0, <2>3 DEF Call, Goto, TypeOK, Working
  <2>4. CASE Answer(r)
    BY <2>0, <2>4 DEF Answer, Goto, TypeOK, Working
  <2>5. CASE ReadRefund(r)
    BY <2>0, <2>5 DEF ReadRefund, Goto, TypeOK, Working
  <2>6. CASE Refund(r)
    BY <2>0, <2>6 DEF Refund, Goto, TypeOK, Working
  <2> QED
    BY <1>2, <2>1, <2>2, <2>3, <2>4, <2>5, <2>6 DEF Serve
<1>3. ASSUME NEW r \in Requests, Serve(r), NEW q \in Requests PROVE Fine(q)'
  <2>1. CASE q # r
    BY <1>a, <1>1, <1>3, <2>1, Alone
  <2> QED
    BY <1>2, <1>3, <2>1
<1>4. CASE UNCHANGED <<request, used>>
  BY <1>a, <1>4 DEF RequestsOK, request
<1> QED
  BY <1>3, <1>4 DEF RequestsOK, Next, vars, HangUp, Switch, Tick

(* A unit given back elsewhere, or nowhere, stays so.                      *)
LEMMA StraysStay ==
    ASSUME TypeOK, RequestsOK, [Next]_vars, NEW r \in Requests, gave[r] # None
    PROVE  gave'[r] = gave[r] /\ paid'[r] = paid[r]
<1>1. pc[r] = "failed"
  BY DEF RequestsOK
<1>2. ASSUME NEW q \in Requests, Serve(q) PROVE gave'[r] = gave[r] /\ paid'[r] = paid[r]
  <2>1. q # r
    BY <1>1, <1>2 DEF Serve, ReadLimit, Charge, Call, Answer, ReadRefund, Refund
  <2> QED
    BY <1>2, <2>1, Alone
<1>3. CASE UNCHANGED request
  BY <1>3 DEF request
<1> QED
  BY <1>2, <1>3 DEF Next, vars, HangUp, Switch, Tick

(* The ways a step shows in the counters and in what is served: not at     *)
(* all, one request charged, or one request given up.                      *)
Keeps == used' = used /\ paid' = paid /\ gave' = gave /\ \A w \in Nat : Served(w)' = Served(w)

Pays(r, w) ==
    /\ w \in 0..now /\ used' = Plus(w) /\ Fits(r, w)
    /\ pc[r] = "charge" /\ paid[r] = None /\ paid' = [paid EXCEPT ![r] = w]
    /\ gave' = gave /\ gave[r] = None /\ allowed[r] # 0
    /\ Served(w)' = Served(w) \cup {r}
    /\ \A v \in Nat : v # w => Served(v)' = Served(v)

GivesUp(r) ==
    /\ paid' = paid
    /\ r \in Served(paid[r]) /\ \A w \in Nat : Served(w)' = Served(w) \ {r}
    /\ \/ Call(r) /\ Head(todo[r]) # "ai" /\ MayFail(r, Head(todo[r])) /\ used' = used /\ gave' = gave
       \/ ReadRefund(r) /\ used' = used /\ gave' = [gave EXCEPT ![r] = Absent]
       \/ Refund(r) /\ \E w \in 0..now : w = Window(span[r], now) /\ gave' = [gave EXCEPT ![r] = gave'[r]]

LEMMA Moves ==
    ASSUME TypeOK, RequestsOK, [Next]_vars
    PROVE  Keeps \/ (\E r \in Requests : GivesUp(r) \/ \E w \in 0..now : Pays(r, w))
<1>a. now \in Nat /\ \A r \in Requests : pc[r] \in {"idle", "charge"} => paid[r] = None
  BY DEF TypeOK, RequestsOK
<1>b. \A r \in Requests : Window(span[r], now) \in 0..now
  BY <1>a, WindowBegan DEF TypeOK
<1>c. None \notin Nat
  BY NoneAssumption
<1>1. ASSUME NEW r \in Requests, ReadLimit(r) PROVE Keeps
  <2>1. paid[r] = None /\ used' = used /\ paid' = paid /\ gave' = gave
    BY <1>a, <1>1 DEF ReadLimit
  <2>2. \A q \in Requests : q # r => pc'[q] = pc[q]
    BY <1>1, Alone DEF Serve
  <2>3. \A w \in Nat : Served(w)' = Served(w)
    BY <1>c, <2>1, <2>2 DEF Served
  <2> QED
    BY <2>1, <2>3 DEF Keeps
<1>2. ASSUME NEW r \in Requests, Charge(r)
      PROVE  Keeps \/ \E w \in 0..now : Pays(r, w)
  <2>0. PICK w \in 0..now : w = Window(span[r], now)
    BY <1>b
  <2>1. paid[r] = None /\ gave' = gave /\ pc[r] = "charge" /\ gave[r] = None /\ allowed[r] # 0
    BY <1>a, <1>2 DEF Charge, RequestsOK, Working
  <2>2. \A q \in Requests : q # r => pc'[q] = pc[q] /\ paid'[q] = paid[q]
    BY <1>2, Alone DEF Serve
  <2>3. CASE used' = used /\ paid' = paid
    <3>1. \A v \in Nat : Served(v)' = Served(v)
      BY <1>c, <2>1, <2>2, <2>3 DEF Served
    <3> QED
      BY <2>1, <2>3, <3>1 DEF Keeps
  <2>4. CASE used' = Plus(w) /\ paid' = [paid EXCEPT ![r] = w] /\ Fits(r, w) /\ pc' = [pc EXCEPT ![r] = "work"]
    <3>1. pc'[r] = "work" /\ paid'[r] = w
      BY <2>4 DEF TypeOK
    <3>2. Served(w)' = Served(w) \cup {r}
      BY <2>2, <3>1 DEF Served, Working
    <3>3. \A v \in Nat : v # w => Served(v)' = Served(v)
      BY <1>c, <2>1, <2>2, <3>1 DEF Served
    <3> QED
      BY <2>1, <2>4, <3>2, <3>3 DEF Pays
  <2> QED
    BY <1>2, <2>0, <2>3, <2>4 DEF Charge, Goto
<1>3. ASSUME NEW r \in Requests, Call(r) \/ Answer(r) \/ ReadRefund(r) \/ Refund(r)
      PROVE  Keeps \/ GivesUp(r)
  <2>1. /\ paid' = paid /\ pc[r] \in Working
        /\ \A q \in Requests : q # r => pc'[q] = pc[q]
        /\ pc'[r] \in Working \cup {"answered", "failed"}
    BY <1>3, Alone DEF Serve, Call, Answer, ReadRefund, Refund, Goto, Working, TypeOK
  <2>2. CASE pc'[r] # "failed"
    <3>1. \A w \in Nat : Served(w)' = Served(w)
      BY <2>1, <2>2 DEF Served
    <3>2. used' = used /\ gave' = gave
      BY <1>3, <2>2 DEF Call, Answer, ReadRefund, Refund, Goto, TypeOK
    <3> QED
      BY <2>1, <3>1, <3>2 DEF Keeps
  <2>3. CASE pc'[r] = "failed"
    <3>1. r \in Served(paid[r]) /\ \A w \in Nat : Served(w)' = Served(w) \ {r}
      BY <2>1, <2>3 DEF Served, Working
    <3>2. CASE Call(r)
      <4>1. Head(todo[r]) # "ai" /\ MayFail(r, Head(todo[r])) /\ used' = used /\ gave' = gave
        BY <2>3, <3>2 DEF Call, Goto, TypeOK
      <4> QED
        BY <2>1, <3>1, <3>2, <4>1 DEF GivesUp
    <3>3. CASE ReadRefund(r)
      <4>1. used' = used /\ gave' = [gave EXCEPT ![r] = Absent]
        BY <2>3, <3>3 DEF ReadRefund, Goto, TypeOK
      <4> QED
        BY <2>1, <3>1, <3>3, <4>1 DEF GivesUp
    <3>4. CASE Refund(r)
      <4>1. gave' = [gave EXCEPT ![r] = gave'[r]]
        BY <3>4 DEF Refund, TypeOK
      <4> QED
        BY <1>b, <2>1, <3>1, <3>4, <4>1 DEF GivesUp
    <3>5. ~Answer(r)
      BY <2>3 DEF Answer, Goto, TypeOK
    <3> QED
      BY <1>3, <3>2, <3>3, <3>4, <3>5
  <2> QED
    BY <2>2, <2>3
<1>4. ASSUME UNCHANGED <<request, used>> PROVE Keeps
  BY <1>4 DEF Keeps, request, Served
<1> QED
  BY <1>1, <1>2, <1>3, <1>4 DEF Next, Serve, HangUp, Switch, Tick, vars

LEMMA Counting ==
    /\ \A w : IsFiniteSet(Served(w)) /\ Cardinality(Served(w)) \in Nat
    /\ \A w, r : /\ r \notin Served(w) => Cardinality(Served(w) \cup {r}) = Cardinality(Served(w)) + 1
                 /\ r \in Served(w) => Cardinality(Served(w) \ {r}) = Cardinality(Served(w)) - 1
<1>1. ASSUME NEW w PROVE IsFiniteSet(Served(w)) /\ Cardinality(Served(w)) \in Nat
  <2>1. Served(w) \in SUBSET Requests
    BY DEF Served
  <2>2. IsFiniteSet(Served(w))
    BY <2>1, FS_Subset, RequestsAssumption
  <2> QED
    BY <2>2, FS_CardinalityType
<1> QED
  BY <1>1, FS_AddElement, FS_RemoveElement

(* A window that is intact after a step was so before it, or is new.       *)
LEMMA IntactBefore ==
    ASSUME TypeOK, RequestsOK, [Next]_vars, NEW w \in Intact', w \in DOMAIN used
    PROVE  w \in Intact
<1>1. ASSUME NEW r \in Requests, Strays(r) PROVE gave[r] # w
  <2>1. gave'[r] = gave[r] /\ paid'[r] = paid[r]
    BY <1>1, StraysStay DEF Strays
  <2>2. Strays(r)'
    BY <1>1, <2>1 DEF Strays
  <2> QED
    BY <2>1, <2>2 DEF Intact
<1> QED
  BY <1>1 DEF Intact

(* No answer is free.                                                      *)
NothingFree == \A w \in Intact : used[w] >= Cardinality(Served(w))

(* Whatever requests a window serves, the last of them to be charged found *)
(* room for all under its own limit.                                       *)
RoomForAll ==
    \A w \in Intact : \A S \in SUBSET Served(w), n \in 0..Cardinality(Requests) :
        (\A r \in S : allowed[r] # Unlimited /\ allowed[r] <= n) => Cardinality(S) <= n

(* A charge that is its window's first finds nobody served there.          *)
LEMMA FirstCharge ==
    ASSUME RequestsOK, NEW w \in Nat, w \notin DOMAIN used
    PROVE  Served(w) = {} /\ Cardinality(Served(w)) = 0
<1>1. Served(w) = {}
  BY NoneAssumption DEF RequestsOK, Served
<1> QED
  BY <1>1, FS_EmptySet

LEMMA NothingFreeStep ==
    ASSUME TypeOK, RequestsOK, NothingFree, [Next]_vars
    PROVE  NothingFree'
<1>a. now \in Nat /\ \A w \in DOMAIN used : w \in 0..now /\ w \in Nat /\ used[w] \in Nat
  BY DEF TypeOK
<1> SUFFICES ASSUME NEW w \in Intact' PROVE used'[w] >= Cardinality(Served(w)')
  BY DEF NothingFree
<1>b. w \in DOMAIN used'
  BY DEF Intact
<1>c. w \in DOMAIN used => used[w] >= Cardinality(Served(w))
  BY IntactBefore DEF NothingFree
<1>1. CASE Keeps
  BY <1>1, <1>a, <1>b, <1>c DEF Keeps
<1>2. ASSUME NEW r \in Requests, NEW v \in 0..now, Pays(r, v)
      PROVE  used'[w] >= Cardinality(Served(w)')
  <2>0. v \in Nat /\ w \in DOMAIN used \cup {v} /\ r \notin Served(v)
    <3>1. v \in Nat
      BY <1>a
    <3>2. w \in DOMAIN used \cup {v}
      BY <1>b, <1>2, PlusCounts DEF Pays
    <3> QED
      BY <1>2, <3>1, <3>2, NoneAssumption DEF Pays, Served
  <2>1. CASE w # v
    BY <1>a, <1>c, <1>2, <2>0, <2>1, PlusCounts DEF Pays
  <2>2. CASE w = v /\ w \in DOMAIN used
    <3>1. used'[w] = used[w] + 1 /\ Served(w)' = Served(w) \cup {r}
      BY <1>2, <2>2, PlusCounts DEF Pays
    <3> QED
      BY <1>a, <1>c, <2>0, <2>2, <3>1, Counting
  <2>3. CASE w = v /\ w \notin DOMAIN used
    <3>1. used'[w] = 1 /\ Served(w)' = Served(w) \cup {r}
      BY <1>2, <2>3, PlusCounts DEF Pays
    <3>2. Cardinality(Served(w)) = 0
      BY <2>0, <2>3, FirstCharge
    <3> QED
      BY <2>0, <2>3, <3>1, <3>2, Counting
  <2> QED
    BY <2>0, <2>1, <2>2, <2>3
<1>3. ASSUME NEW r \in Requests, GivesUp(r)
      PROVE  used'[w] >= Cardinality(Served(w)')
  <2>0. DOMAIN used' = DOMAIN used
    BY <1>3, TakenBack DEF GivesUp
  <2>1. Served(w)' = Served(w) \ {r} /\ paid' = paid /\ r \in Served(paid[r])
    BY <1>a, <1>b, <1>3, <2>0 DEF GivesUp
  <2>2. Cardinality(Served(w)') <= Cardinality(Served(w))
        /\ (r \in Served(w) => Cardinality(Served(w)') = Cardinality(Served(w)) - 1)
        /\ Cardinality(Served(w)) \in Nat /\ Cardinality(Served(w)') \in Int
    <3>1. CASE r \in Served(w)
      BY <2>1, <3>1, Counting
    <3>2. CASE r \notin Served(w)
      <4>1. Served(w)' = Served(w)
        BY <2>1, <3>2
      <4>2. Cardinality(Served(w)') = Cardinality(Served(w)) /\ Cardinality(Served(w)) \in Nat
        BY <4>1, Counting
      <4> QED
        BY <3>2, <4>2
    <3> QED
      BY <3>1, <3>2
  <2>3. CASE used' = used
    BY <1>a, <1>b, <1>c, <2>2, <2>3
  <2>4. CASE Refund(r)
    <3>1. CASE gave'[r] = w
      <4>1. gave'[r] # None /\ ~Strays(r)'
        BY <1>a, <1>b, <2>0, <3>1, NoneAssumption DEF Intact
      <4>2. paid[r] = w
        BY <2>1, <3>1, <4>1 DEF Strays
      <4>3. r \in Served(w)
        BY <2>1, <4>2
      <4>4. used'[w] \in Nat /\ used'[w] <= used[w] /\ (used'[w] < used[w] => used'[w] = used[w] - 1)
        BY <1>b, <2>0, <2>4, TakenBack
      <4> QED
        BY <1>a, <1>b, <1>c, <2>0, <2>2, <4>3, <4>4
    <3>2. CASE gave'[r] # w
      <4>1. used'[w] = used[w]
        BY <1>b, <2>0, <2>4, <3>2, TakenBack
      <4> QED
        BY <1>a, <1>b, <1>c, <2>0, <2>2, <4>1
    <3> QED
      BY <3>1, <3>2
  <2> QED
    BY <1>3, <2>3, <2>4 DEF GivesUp
<1> QED
  BY <1>1, <1>2, <1>3, Moves

(* The limit a request was told stays what it was told.                    *)
LEMMA AllowedKept ==
    ASSUME TypeOK, [Next]_vars, NEW r \in Requests, pc[r] # "idle"
    PROVE  allowed'[r] = allowed[r]
<1>1. ASSUME NEW q \in Requests, Serve(q) PROVE allowed'[r] = allowed[r]
  <2>1. CASE q = r
    BY <1>1, <2>1 DEF Serve, ReadLimit, Charge, Call, Answer, ReadRefund, Refund
  <2> QED
    BY <1>1, <2>1, Alone
<1> QED
  BY <1>1 DEF Next, vars, HangUp, Switch, Tick, request

LEMMA RoomStep ==
    ASSUME TypeOK, RequestsOK, NothingFree, RoomForAll, [Next]_vars
    PROVE  RoomForAll'
<1>a. /\ now \in Nat /\ \A w \in DOMAIN used : w \in 0..now /\ w \in Nat /\ used[w] \in Nat
      /\ allowed \in [Requests -> Nat \cup {Unlimited}]
  BY DEF TypeOK
<1> SUFFICES ASSUME NEW w \in Intact', NEW S \in SUBSET Served(w)', NEW n \in 0..Cardinality(Requests),
                    \A r \in S : allowed'[r] # Unlimited /\ allowed'[r] <= n
             PROVE  Cardinality(S) <= n
  BY DEF RoomForAll
<1>b. w \in DOMAIN used'
  BY DEF Intact
<1>c. n \in Nat
  BY FS_CardinalityType, RequestsAssumption
<1>d. ASSUME w \in DOMAIN used, NEW T \in SUBSET Served(w),
             \A r \in T : allowed[r] # Unlimited /\ allowed[r] <= n
      PROVE  Cardinality(T) <= n
  BY <1>d, IntactBefore DEF RoomForAll
<1>e. ASSUME NEW r \in Requests, paid[r] # None PROVE allowed'[r] = allowed[r]
  <2>1. pc[r] # "idle"
    BY <1>e DEF RequestsOK
  <2> QED
    BY <1>e, <2>1, AllowedKept
<1>1. CASE w \in DOMAIN used /\ Served(w)' \subseteq Served(w)
  <2>1. \A r \in S : allowed[r] # Unlimited /\ allowed[r] <= n
    BY <1>a, <1>e, <1>1, NoneAssumption DEF Served
  <2> QED
    BY <1>d, <1>1, <2>1
<1>2. ASSUME NEW r \in Requests, Pays(r, w), w \in 0..now
      PROVE  Cardinality(S) <= n
  <2>0. /\ w \in Nat /\ r \notin Served(w) /\ S \subseteq Served(w) \cup {r}
        /\ gave' = gave /\ allowed[r] # 0 /\ Fits(r, w)
    BY <1>2, NoneAssumption DEF Pays, Served
  <2>1. CASE r \notin S
    <3>1. CASE w \in DOMAIN used
      <4>1. S \subseteq Served(w) /\ \A q \in S : q \in Requests /\ paid[q] # None
        BY <1>a, <2>0, <2>1, NoneAssumption DEF Served
      <4>2. \A q \in S : allowed[q] # Unlimited /\ allowed[q] <= n
        BY <1>e, <4>1
      <4> QED
        BY <1>d, <3>1, <4>1, <4>2
    <3>2. CASE w \notin DOMAIN used
      <4>1. S = {}
        BY <2>0, <2>1, <3>2, FirstCharge
      <4> QED
        BY <1>c, <4>1, FS_EmptySet
    <3> QED
      BY <3>1, <3>2
  <2>2. CASE r \in S
    <3>1. allowed[r] \in Nat /\ allowed[r] > 0 /\ allowed[r] <= n
      <4>1. pc[r] # "idle"
        BY <1>2 DEF Pays
      <4>2. allowed'[r] = allowed[r]
        BY <4>1, AllowedKept
      <4> QED
        BY <1>a, <2>0, <2>2, <4>2
    <3>2. IsFiniteSet(Served(w)) /\ IsFiniteSet(Served(w) \cup {r})
          /\ Cardinality(Served(w) \cup {r}) = Cardinality(Served(w)) + 1
          /\ Cardinality(Served(w)) \in Nat
      BY <2>0, Counting, FS_AddElement
    <3>3. Cardinality(S) <= Cardinality(Served(w)) + 1
      BY <2>0, <3>2, FS_Subset
    <3>4. Cardinality(Served(w)) < allowed[r]
      <4>1. CASE w \in DOMAIN used
        <5>1. used[w] >= Cardinality(Served(w)) /\ used[w] \in Nat
          BY <1>a, <4>1, IntactBefore DEF NothingFree
        <5>2. used[w] < allowed[r]
          BY <1>2, <2>0, <2>2, <3>1, <4>1, AllowedKept DEF Fits, Pays
        <5> QED
          BY <3>1, <3>2, <5>1, <5>2
      <4>2. CASE w \notin DOMAIN used
        BY <2>0, <3>1, <4>2, FirstCharge
      <4> QED
        BY <4>1, <4>2
    <3>5. S \subseteq Served(w) \cup {r} /\ IsFiniteSet(S) /\ Cardinality(S) \in Nat
      BY <2>0, <3>2, FS_Subset, FS_CardinalityType
    <3> QED
      BY <1>c, <3>1, <3>2, <3>3, <3>4, <3>5
  <2> QED
    BY <2>1, <2>2
<1>3. (w \in DOMAIN used /\ Served(w)' \subseteq Served(w)) \/ \E r \in Requests : Pays(r, w) /\ w \in 0..now
  <2>1. CASE Keeps
    BY <1>a, <1>b, <2>1 DEF Keeps
  <2>2. ASSUME NEW r \in Requests, GivesUp(r) PROVE <1>3
    <3>1. DOMAIN used' = DOMAIN used
      BY <2>2, TakenBack DEF GivesUp
    <3> QED
      BY <1>a, <1>b, <2>2, <3>1 DEF GivesUp
  <2>3. ASSUME NEW r \in Requests, NEW v \in 0..now, Pays(r, v) PROVE <1>3
    <3>1. v = w \/ w \in DOMAIN used
      BY <1>b, <2>3, PlusCounts DEF Pays
    <3> QED
      BY <1>a, <2>3, <3>1 DEF Pays
  <2> QED
    BY <2>1, <2>2, <2>3, Moves
<1> QED
  BY <1>1, <1>2, <1>3

-----------------------------------------------------------------------------
(* A statement after the AI's work succeeds: none is refused, and who may  *)
(* hang up is served by a handler that has none.                           *)
StatementsHold ==
    /\ "sql" \notin CanFail
    /\ \A r \in Requests \cap CanHang : \A i \in DOMAIN Scripts[r] : Scripts[r][i] # "sql"

HungOnAI ==
    /\ hung \subseteq CanHang
    /\ \A r \in Requests \cap CanHang : \A i \in DOMAIN todo[r] : todo[r][i] # "sql"

LEMMA HungStep == ASSUME TypeOK, HungOnAI, [Next]_vars PROVE HungOnAI'
<1>1. ASSUME NEW r \in Requests, Call(r) PROVE HungOnAI'
  <2>1. todo[r] \in Seq({"ai", "sql"}) /\ todo[r] # <<>> /\ todo' = [todo EXCEPT ![r] = Tail(@)] /\ hung' = hung
    BY <1>1 DEF Call, TypeOK
  <2>2. DOMAIN Tail(todo[r]) \subseteq 1..(Len(todo[r]) - 1)
        /\ \A i \in DOMAIN Tail(todo[r]) : Tail(todo[r])[i] = todo[r][i + 1] /\ i + 1 \in DOMAIN todo[r]
    BY <2>1
  <2>3. \A i \in DOMAIN Tail(todo[r]) : r \in CanHang => Tail(todo[r])[i] # "sql"
    BY <2>2 DEF HungOnAI
  <2> QED
    BY <2>1, <2>3 DEF HungOnAI, TypeOK
<1>2. ASSUME NEW r \in Requests, HangUp(r) PROVE HungOnAI'
  BY <1>2 DEF HangUp, HungOnAI, request
<1>3. CASE UNCHANGED <<todo, hung>>
  BY <1>3 DEF HungOnAI
<1> QED
  BY <1>1, <1>2, <1>3 DEF Next, Serve, ReadLimit, Charge, Answer, ReadRefund, Refund, Switch, Tick,
     request, vars

(* No charge is empty.                                                     *)
NothingEmpty ==
    \A w \in DOMAIN used : (\A r \in Requests : paid[r] = w => ~Strays(r)) =>
        used[w] <= Cardinality(Served(w))

LEMMA NothingEmptyStep ==
    ASSUME StatementsHold, TypeOK, RequestsOK, HungOnAI, NothingEmpty, [Next]_vars
    PROVE  NothingEmpty'
<1>a. now \in Nat /\ \A w \in DOMAIN used : w \in 0..now /\ w \in Nat /\ used[w] \in Nat
  BY DEF TypeOK
<1> SUFFICES ASSUME NEW w \in DOMAIN used', \A r \in Requests : paid'[r] = w => ~Strays(r)'
             PROVE  used'[w] <= Cardinality(Served(w)')
  BY DEF NothingEmpty
<1>b. \A r \in Requests : paid[r] = w => ~Strays(r)
  <2> SUFFICES ASSUME NEW r \in Requests, paid[r] = w, Strays(r) PROVE FALSE
    OBVIOUS
  <2>1. gave'[r] = gave[r] /\ paid'[r] = paid[r]
    BY StraysStay DEF Strays
  <2> QED
    BY <2>1 DEF Strays
<1>c. w \in DOMAIN used => used[w] <= Cardinality(Served(w))
  BY <1>b DEF NothingEmpty
<1>d. Cardinality(Served(w)) \in Nat
  BY Counting
<1>1. CASE Keeps
  BY <1>1, <1>a, <1>c DEF Keeps
<1>2. ASSUME NEW r \in Requests, NEW v \in 0..now, Pays(r, v)
      PROVE  used'[w] <= Cardinality(Served(w)')
  <2>0. v \in Nat /\ w \in DOMAIN used \cup {v} /\ r \notin Served(v)
    <3>1. v \in Nat
      BY <1>a
    <3>2. w \in DOMAIN used \cup {v}
      BY <1>2, PlusCounts DEF Pays
    <3> QED
      BY <1>2, <3>1, <3>2, NoneAssumption DEF Pays, Served
  <2>1. CASE w # v
    BY <1>a, <1>c, <1>2, <2>0, <2>1, PlusCounts DEF Pays
  <2>2. CASE w = v /\ w \in DOMAIN used
    <3>1. used'[w] = used[w] + 1 /\ Served(w)' = Served(w) \cup {r}
      BY <1>2, <2>2, PlusCounts DEF Pays
    <3> QED
      BY <1>a, <1>c, <1>d, <2>0, <2>2, <3>1, Counting
  <2>3. CASE w = v /\ w \notin DOMAIN used
    <3>1. used'[w] = 1 /\ Served(w)' = Served(w) \cup {r}
      BY <1>2, <2>3, PlusCounts DEF Pays
    <3> QED
      BY <1>d, <2>0, <2>3, <3>1, Counting
  <2> QED
    BY <2>0, <2>1, <2>2, <2>3
<1>3. ASSUME NEW r \in Requests, GivesUp(r)
      PROVE  used'[w] <= Cardinality(Served(w)')
  <2>0. w \in DOMAIN used
    BY <1>3, TakenBack DEF GivesUp
  <2>1. Served(w)' = Served(w) \ {r} /\ paid' = paid /\ r \in Served(paid[r]) /\ gave[r] = None
    <3>1. gave[r] = None
      BY <1>3 DEF GivesUp, Call, ReadRefund, Refund, RequestsOK
    <3> QED
      BY <1>a, <1>3, <2>0, <3>1 DEF GivesUp
  <2>2. ~Call(r) \/ Head(todo[r]) = "ai" \/ ~MayFail(r, Head(todo[r]))
    <3> SUFFICES ASSUME Call(r), Head(todo[r]) # "ai", MayFail(r, Head(todo[r])) PROVE FALSE
      OBVIOUS
    <3>1. todo[r] \in Seq({"ai", "sql"}) /\ todo[r] # <<>>
      BY DEF Call, TypeOK
    <3>2. 1 \in DOMAIN todo[r] /\ todo[r][1] = Head(todo[r]) /\ Head(todo[r]) \in {"ai", "sql"}
      BY <3>1
    <3> QED
      BY <3>2 DEF MayFail, StatementsHold, HungOnAI
  <2>3. gave'[r] # None
    <3>1. CASE ReadRefund(r) /\ gave' = [gave EXCEPT ![r] = Absent]
      BY <3>1, NoneAssumption DEF TypeOK
    <3>2. CASE Refund(r)
      <4>1. PICK v \in 0..now : v = Window(span[r], now)
        BY <1>3, <3>2, WindowBegan, <1>a DEF TypeOK
      <4> QED
        BY <1>a, <3>2, <4>1, TakenBack, NoneAssumption
    <3> QED
      BY <1>3, <2>2, <3>1, <3>2 DEF GivesUp
  <2>4. CASE paid[r] # w
    <3>1. r \notin Served(w)
      BY <2>4 DEF Served
    <3>2. Served(w)' = Served(w)
      BY <2>1, <3>1
    <3>3. used'[w] \in Nat /\ used'[w] <= used[w]
      BY <1>a, <1>3, <2>0, TakenBack DEF GivesUp
    <3> QED
      BY <1>a, <1>c, <1>d, <2>0, <3>2, <3>3
  <2>5. CASE paid[r] = w
    <3>1. r \in Served(w) /\ gave'[r] = w
      <4>1. ~Strays(r)'
        BY <2>1, <2>5
      <4> QED
        BY <2>1, <2>3, <2>5, <4>1 DEF Strays
    <3>2. Refund(r)
      <4>1. ASSUME gave' = [gave EXCEPT ![r] = Absent] PROVE FALSE
        BY <1>a, <2>0, <3>1, <4>1, NoneAssumption DEF TypeOK
      <4> QED
        BY <1>3, <2>2, <4>1 DEF GivesUp
    <3>3. used[w] > 0 => used'[w] = used[w] - 1
      BY <2>0, <3>1, <3>2, TakenBack
    <3>4. used'[w] \in Nat /\ used'[w] <= used[w]
      BY <2>0, <3>2, TakenBack
    <3>5. Cardinality(Served(w)') = Cardinality(Served(w)) - 1 /\ Cardinality(Served(w)) # 0
      <4>1. Cardinality(Served(w) \ {r}) = Cardinality(Served(w)) - 1
        BY <3>1, Counting
      <4>2. Served(w) # {} /\ IsFiniteSet(Served(w))
        BY <3>1, Counting
      <4> QED
        BY <2>1, <4>1, <4>2, FS_EmptySet
    <3> QED
      BY <1>a, <1>c, <1>d, <2>0, <3>3, <3>4, <3>5
  <2> QED
    BY <2>4, <2>5
<1> QED
  BY <1>1, <1>2, <1>3, Moves

-----------------------------------------------------------------------------
LEMMA UsageInit == Init => TypeOK /\ RequestsOK /\ NothingFree /\ RoomForAll /\ NothingEmpty
<1> SUFFICES ASSUME Init PROVE RequestsOK /\ NothingFree /\ RoomForAll /\ NothingEmpty
  BY TypeInit
<1>1. DOMAIN used = {}
  BY DEF Init
<1>2. RequestsOK
  BY DEF Init, RequestsOK, Working
<1> QED
  BY <1>1, <1>2 DEF NothingFree, RoomForAll, NothingEmpty, Intact

LEMMA UsageInvariant == Spec => [](TypeOK /\ RequestsOK /\ NothingFree /\ RoomForAll)
<1>1. TypeOK /\ RequestsOK /\ NothingFree /\ RoomForAll /\ [Next]_vars
      => (TypeOK /\ RequestsOK /\ NothingFree /\ RoomForAll)'
  BY TypeStep, RequestsStep, NothingFreeStep, RoomStep
<1> QED
  BY <1>1, UsageInit, PTL DEF Spec

(* Nobody is served above a limit they were told: for every set of         *)
(* requests, plans, limits, windows and handlers, whatever fails.          *)
THEOREM LimitsHold == Spec => []ServedWithinLimit
<1>1. RoomForAll => ServedWithinLimit
  <2> SUFFICES ASSUME RoomForAll, NEW w \in Intact, NEW n \in 0..Cardinality(Requests),
                      \A r \in Served(w) : allowed[r] # Unlimited /\ allowed[r] <= n
               PROVE  Cardinality(Served(w)) <= n
    BY DEF ServedWithinLimit
  <2>1. Served(w) \in SUBSET Served(w)
    OBVIOUS
  <2> QED
    BY <2>1 DEF RoomForAll
<1> QED
  BY <1>1, UsageInvariant, PTL

(* Counters are neither short nor over, but by the refunds that missed     *)
(* their window, as long as the handlers' statements succeed.              *)
THEOREM ChargesAreAnswered == StatementsHold => (Spec => []ChargedIsAnswered)
<1> SUFFICES ASSUME StatementsHold PROVE Spec => []ChargedIsAnswered
  OBVIOUS
<1>1. Init => HungOnAI /\ NothingEmpty
  BY UsageInit DEF Init, HungOnAI, StatementsHold
<1>2. TypeOK /\ RequestsOK /\ HungOnAI /\ NothingEmpty /\ [Next]_vars => (HungOnAI /\ NothingEmpty)'
  BY HungStep, NothingEmptyStep
<1>3. NothingFree /\ NothingEmpty => ChargedIsAnswered
  BY DEF NothingFree, NothingEmpty, ChargedIsAnswered
<1> QED
  BY <1>1, <1>2, <1>3, UsageInvariant, PTL DEF Spec
=============================================================================
