---------------------------- MODULE UsageMetering ----------------------------
(***************************************************************************)
(* Metered entitlements of one learner (internal/subscriptions) as the     *)
(* handlers that pay for AI work use them: read the plan, charge a unit in *)
(* the window of the moment, do the work, and give the unit back when the  *)
(* AI fails.  A step is one SQL statement or one AI call, so requests of   *)
(* the same learner, a change of plan and the clock come between.          *)
(***************************************************************************)
EXTENDS Naturals, Sequences, FiniteSets

CONSTANTS
    Requests,       \* requests for metered work
    Plans,
    Limits,         \* what each plan allows of the entitlement: a number,
    Unlimited,      \*   Unlimited,
    Absent,         \*   or Absent, when the plan does not have it
    Spans,          \* how long each plan's usage window is
    Scripts,        \* what follows the charge, per request: "ai" calls and "sql" statements
    Detached,       \* requests that refund on a context of their own
    CanFail,        \* which of "read", "charge", "ai", "sql", "refund" may fail
    CanHang,        \* requests the learner may hang up on
    MaxTime,        \* bound: the clock stops here
    None

ASSUME PlansAssumption ==
    /\ Limits \in [Plans -> Nat \cup {Unlimited, Absent}]
    /\ Spans \in [Plans -> Nat \ {0}]
ASSUME ScriptsAssumption == Scripts \in [Requests -> Seq({"ai", "sql"})]
ASSUME NoneAssumption ==
    /\ Unlimited \notin Nat /\ Absent \notin Nat /\ None \notin Nat
    /\ Absent # None
ASSUME BoundAssumption == MaxTime \in Nat
ASSUME RequestsAssumption == IsFiniteSet(Requests)

VARIABLES
    now, plan,
    used,       \* usage_counters: from the start of a window to what is used of it
    pc,         \* where each request is
    allowed,    \* the limit it read
    span,       \* the window length it read
    todo,       \* what is left of its script
    hung,       \* requests the learner hung up on
    paid,       \* the window each request was charged in, or None: never read
    gave        \* the window its unit was given back to, Absent if no counter took it,
                \*   or None: never read

request == <<pc, allowed, span, todo, paid, gave>>
vars == <<now, plan, used, request, hung>>

\* The start of the window that contains a moment.
Window(length, t) == (t \div length) * length

Working  == {"charge", "work", "giving", "refund"}
Finished == {"answered", "failed", "refused"}

-----------------------------------------------------------------------------
Init ==
    /\ now = 0
    /\ plan \in Plans
    /\ used = <<>>
    /\ pc = [r \in Requests |-> "idle"]
    /\ allowed = [r \in Requests |-> 0]
    /\ span = [r \in Requests |-> 1]
    /\ todo = Scripts
    /\ hung = {}
    /\ paid = [r \in Requests |-> None]
    /\ gave = [r \in Requests |-> None]

Goto(r, s) == pc' = [pc EXCEPT ![r] = s]

\* A statement or call on the request's own context fails once the learner hung up.
MayFail(r, s) == s \in CanFail \/ r \in hung
MayWork(r)    == r \notin hung

(* ConsumeUsage: what the plan of the moment says.  A limit below the      *)
(* amount is refused here, as the insert of a first counter checks none.   *)
ReadUnchecked(r) == \* mutant: a limit of zero is left to the statement
    /\ pc[r] = "idle"
    /\ \/ /\ MayWork(r)
          /\ IF Limits[plan] = Absent
             THEN Goto(r, "refused") /\ UNCHANGED <<allowed, span>>
             ELSE /\ Goto(r, "charge")
                  /\ allowed' = [allowed EXCEPT ![r] = Limits[plan]]
                  /\ span' = [span EXCEPT ![r] = Spans[plan]]
       \/ MayFail(r, "read") /\ Goto(r, "failed") /\ UNCHANGED <<allowed, span>>
    /\ UNCHANGED <<now, plan, used, todo, hung, paid, gave>>

ReadLimit(r) ==
    /\ pc[r] = "idle"
    /\ \/ /\ MayWork(r)
          /\ IF Limits[plan] \in {Absent, 0}
             THEN Goto(r, "refused") /\ UNCHANGED <<allowed, span>>
             ELSE /\ Goto(r, "charge")
                  /\ allowed' = [allowed EXCEPT ![r] = Limits[plan]]
                  /\ span' = [span EXCEPT ![r] = Spans[plan]]
       \/ MayFail(r, "read") /\ Goto(r, "failed") /\ UNCHANGED <<allowed, span>>
    /\ UNCHANGED <<now, plan, used, todo, hung, paid, gave>>

Fits(r, w) == w \in DOMAIN used /\ allowed[r] # Unlimited => used[w] < allowed[r]

Plus(w) == [x \in DOMAIN used \cup {w} |-> IF x # w THEN used[x]
                                           ELSE IF w \in DOMAIN used THEN used[w] + 1 ELSE 1]

(* IncrementUsage, in the window of its own reading of the clock.          *)
Charge(r) ==
    /\ pc[r] = "charge"
    /\ LET w == Window(span[r], now) IN
         \/ /\ MayWork(r) /\ Fits(r, w)
            /\ used' = Plus(w)
            /\ paid' = [paid EXCEPT ![r] = w]
            /\ Goto(r, "work")
         \/ /\ MayWork(r) /\ ~Fits(r, w)
            /\ Goto(r, "refused")
            /\ UNCHANGED <<used, paid>>
         \/ MayFail(r, "charge") /\ Goto(r, "failed") /\ UNCHANGED <<used, paid>>
    /\ UNCHANGED <<now, plan, allowed, span, todo, hung, gave>>

(* An AI call or a statement of the handler.  Only a failed AI call leads  *)
(* to the refund; an error of a statement is returned as it is.            *)
FailLate(r) ==      \* mutant: the AI's error is returned without a refund
    /\ pc[r] = "work" /\ todo[r] # <<>>
    /\ \/ MayWork(r) /\ UNCHANGED pc
       \/ MayFail(r, Head(todo[r])) /\ Goto(r, "failed")
    /\ todo' = [todo EXCEPT ![r] = Tail(@)]
    /\ UNCHANGED <<now, plan, used, allowed, span, hung, paid, gave>>

Call(r) ==
    /\ pc[r] = "work" /\ todo[r] # <<>>
    /\ \/ MayWork(r) /\ UNCHANGED pc
       \/ /\ MayFail(r, Head(todo[r]))
          /\ Goto(r, IF Head(todo[r]) = "ai" THEN "giving" ELSE "failed")
    /\ todo' = [todo EXCEPT ![r] = Tail(@)]
    /\ UNCHANGED <<now, plan, used, allowed, span, hung, paid, gave>>

Answer(r) ==
    /\ pc[r] = "work" /\ todo[r] = <<>>
    /\ Goto(r, "answered")
    /\ UNCHANGED <<now, plan, used, allowed, span, todo, hung, paid, gave>>

Reaches(r) == r \in Detached \/ MayWork(r)

(* ReleaseUsage: the plan is read again ...                                *)
ReadRefund(r) ==
    /\ pc[r] = "giving"
    /\ \/ /\ Reaches(r) /\ Limits[plan] = Absent
          /\ Goto(r, "failed")
          /\ gave' = [gave EXCEPT ![r] = Absent]
          /\ UNCHANGED span
       \/ /\ Reaches(r) /\ Limits[plan] # Absent
          /\ Goto(r, "refund")
          /\ span' = [span EXCEPT ![r] = Spans[plan]]
          /\ UNCHANGED gave
       \/ /\ "refund" \in CanFail \/ ~Reaches(r)
          /\ Goto(r, "failed")
          /\ gave' = [gave EXCEPT ![r] = Absent]
          /\ UNCHANGED span
    /\ UNCHANGED <<now, plan, used, allowed, todo, hung, paid>>

(* ... and DecrementUsage takes one from the window of that moment.        *)
Refund(r) ==
    /\ pc[r] = "refund"
    /\ LET w == Window(span[r], now) IN
         \/ /\ Reaches(r)
            /\ used' = IF w \in DOMAIN used /\ used[w] > 0
                       THEN [used EXCEPT ![w] = @ - 1] ELSE used
            /\ gave' = [gave EXCEPT ![r] = w]
         \/ /\ "refund" \in CanFail \/ ~Reaches(r)
            /\ gave' = [gave EXCEPT ![r] = Absent]
            /\ UNCHANGED used
    /\ Goto(r, "failed")
    /\ UNCHANGED <<now, plan, allowed, span, todo, hung, paid>>

-----------------------------------------------------------------------------
HangUp(r) ==
    /\ r \in CanHang
    /\ pc[r] \in Working \ {"giving", "refund"} /\ r \notin hung
    /\ hung' = hung \cup {r}
    /\ UNCHANGED <<now, plan, used, request>>

\* The learner's plan begins, ends or is replaced.
Switch(p) ==
    /\ p # plan
    /\ plan' = p
    /\ UNCHANGED <<now, used, request, hung>>

Tick ==
    /\ now < MaxTime
    /\ now' = now + 1
    /\ UNCHANGED <<plan, used, request, hung>>

Serve(r) ==
    \/ ReadLimit(r) \/ Charge(r) \/ Call(r) \/ Answer(r) \/ ReadRefund(r) \/ Refund(r)

Next ==
    \/ \E r \in Requests : Serve(r) \/ HangUp(r)
    \/ \E p \in Plans : Switch(p)
    \/ Tick

Spec == Init /\ [][Next]_vars

-----------------------------------------------------------------------------
(* Every variable holds a value of its type, and no counter is of a window *)
(* that has not begun.                                                     *)
TypeOK ==
    /\ now \in 0..MaxTime
    /\ plan \in Plans
    /\ \A w \in DOMAIN used : w \in 0..now /\ used[w] \in Nat
    /\ pc \in [Requests -> {"idle"} \cup Working \cup Finished]
    /\ allowed \in [Requests -> Nat \cup {Unlimited}]
    /\ span \in [Requests -> Nat \ {0}]
    /\ todo \in [Requests -> Seq({"ai", "sql"})]
    /\ hung \subseteq Requests
    /\ paid \in [Requests -> Nat \cup {None}]
    /\ gave \in [Requests -> Nat \cup {None, Absent}]

\* The requests that were charged in a window and have, or may get, what they paid for.
Served(w) == {r \in Requests : paid[r] = w /\ pc[r] \in Working \cup {"answered"}}

\* A refund that went to another window than its charge, or to none.
Strays(r) == gave[r] \notin {None, paid[r]}

\* The windows no unit of another window was given back to.
Intact == {w \in DOMAIN used : \A r \in Requests : Strays(r) => gave[r] # w}

(* However requests interleave with each other and with changes of plan,   *)
(* an intact window serves no more of them than the largest limit one of   *)
(* them was told.                                                          *)
ServedWithinLimit ==
    \A w \in Intact : \A n \in 0..Cardinality(Requests) :
        (\A r \in Served(w) : allowed[r] # Unlimited /\ allowed[r] <= n) => Cardinality(Served(w)) <= n

(* No answer is free: what was charged for it in an intact window is still *)
(* counted, whoever else was given a refund.  And no charge is empty: what *)
(* is counted is answered for or still under way, but for the units whose  *)
(* refund was tried and missed, because it failed, the window rolled over  *)
(* or the plan ended.                                                      *)
ChargedIsAnswered ==
    /\ \A w \in Intact : used[w] >= Cardinality(Served(w))
    /\ \A w \in DOMAIN used : (\A r \in Requests : paid[r] = w => ~Strays(r)) =>
          used[w] <= Cardinality(Served(w))

(* A refund takes nothing from a window its unit was not charged in.       *)
RefundsOwnWindow == \A r \in Requests : gave[r] \in {None, Absent, paid[r]}
=============================================================================
