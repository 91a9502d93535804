------------------------------ MODULE TestEditor ------------------------------
(***************************************************************************)
(* The test of one level of a grammar topic: its tab in the builder        *)
(* (owner/views/grammar-builder-view.tsx) and the rows of grammar_questions *)
(* behind it (internal/admin).  A question is a choice among options or a  *)
(* gap with the answers it accepts; texts are left out but for being there. *)
(***************************************************************************)
EXTENDS Naturals, Sequences, SequencesExt

CONSTANTS
    MaxQuestions, MaxOptions,   \* bounds: questions of a list, options of one (8 and 6 in the code)
    MaxStrokes,                 \* bound: changes made by hand or asked of the model
    MaxRequests,                \* bound: tests saved, generated and published
    MaxFailures,                \* bound: calls that fail, reads by themselves
    Nothing

VARIABLES
    lesson,         \* the server: versions of the level, its draft and its live questions
    cachedLesson,   \* the query cache: the version and the questions
    bench,          \* the editor: the version it is for, its questions, the rows open, what the model is asked
    wanted,         \* the rows that were opened by hand
    saveCall,       \* the test on its way to the server
    author,         \* the model writes a new test
    launch,         \* a publication
    rereads,        \* the content is being read again
    taught,         \* learners have had a test at this level
    strokes, requests, failures

screen == <<bench, wanted>>
testing == <<lesson, cachedLesson, screen, saveCall, author, launch, rereads, taught, strokes, requests,
             failures>>

-----------------------------------------------------------------------------
(* A question; "meant" is the option that its author said is right, if     *)
(* anyone did.                                                             *)
Option(n, blank) == [id |-> n, blank |-> blank]
Texts(n) == [k \in 1..n |-> Option(k, FALSE)]

Choice(id, source) ==
    [id |-> id, type |-> "multiple_choice", prompt |-> "text", options |-> Texts(3), right |-> 2, meant |-> 2,
     source |-> source]
Gap(id, source) ==
    [id |-> id, type |-> "fill_blank", prompt |-> "gap", options |-> Texts(1), right |-> 0, meant |-> 0,
     source |-> source]

blankQuestion(id, kind) ==
    [id |-> id, type |-> kind, prompt |-> "", source |-> "curated", meant |-> 0,
     options |-> IF kind = "fill_blank" THEN <<Option(1, TRUE)>> ELSE <<Option(1, TRUE), Option(2, TRUE)>>,
     right |-> IF kind = "fill_blank" THEN 0 ELSE 1]

\* What the page finds wrong with a question, which is less than the server does.
questionProblem(q) ==
    \/ q.prompt = ""
    \/ q.type = "fill_blank" /\ (q.prompt # "gap" \/ \A o \in Range(q.options) : o.blank)
    \/ q.type = "multiple_choice" /\ (Len(q.options) < 2 \/ q.right \notin DOMAIN q.options)

\* Options that are empty, or say the same, cannot be told apart by who marks them.
distinctOptions(options) == \A o \in Range(options) : ~o.blank

Usable(q) == ~questionProblem(q) /\ (q.type = "multiple_choice" => distinctOptions(q.options))

\* The answers that a gap accepts, of which none comes before another.
UsablePractice(q) ==
    IF q.type = "fill_blank" THEN [q EXCEPT !.options = SetToSeq({o \in Range(@) : ~o.blank})] ELSE q

\* questionsByLevel: a new test is shown in place of the live one.
Loaded == [version |-> lesson.version, questions |-> IF lesson.draft # <<>> THEN lesson.draft ELSE lesson.live]

Unasked == [at |-> "no", index |-> 0]
Mounted(c) == [key |-> c.version, questions |-> c.questions, open |-> {}, asked |-> Unasked]

TestInit ==
    /\ LET old == <<Choice(1, "ai"), Gap(2, "ai")>>
       IN  \E live \in BOOLEAN : lesson = [version |-> 1, draft |-> IF live THEN <<>> ELSE old,
                                            live |-> IF live THEN old ELSE <<>>]
    /\ cachedLesson = Loaded /\ bench = Mounted(Loaded) /\ wanted = {}
    /\ saveCall = Nothing /\ author = "no" /\ launch = "no" /\ rereads = FALSE
    /\ taught = (lesson.live # <<>>) /\ strokes = 0 /\ requests = 0 /\ failures = 0

Stroke  == strokes < MaxStrokes /\ strokes' = strokes + 1
Request == requests < MaxRequests /\ requests' = requests + 1
Failure == failures < MaxFailures /\ failures' = failures + 1

-----------------------------------------------------------------------------
(* The list.  A row is open for editing, or shows its text; the row that   *)
(* the model rewrites is neither.                                          *)
Rows == DOMAIN bench.questions
regenerating(i) == bench.asked.at = "item" /\ bench.asked.index = i
isOpen(i) == i \in bench.open /\ ~regenerating(i)

Page == UNCHANGED <<lesson, cachedLesson, saveCall, author, launch, rereads, taught, requests, failures>>

update(i, q) ==
    /\ isOpen(i) /\ Stroke
    /\ bench' = [bench EXCEPT !.questions[i] = q] /\ UNCHANGED wanted /\ Page

toggle(i) ==
    /\ ~regenerating(i) /\ Stroke
    /\ LET id == bench.questions[i].id
       IN  IF i \in bench.open
           THEN bench' = [bench EXCEPT !.open = @ \ {i}] /\ wanted' = wanted \ {id}
           ELSE bench' = [bench EXCEPT !.open = @ \union {i}] /\ wanted' = wanted \union {id}
    /\ Page

add(kind) ==
    /\ Len(bench.questions) < MaxQuestions /\ Stroke
    /\ LET id == CHOOSE n \in 1..(MaxQuestions + MaxRequests) : \A i \in Rows : bench.questions[i].id # n
       IN  /\ bench' = [bench EXCEPT !.questions = Append(@, blankQuestion(id, kind)),
                                     !.open = @ \union {Len(bench.questions) + 1}]
           /\ wanted' = wanted \union {id}
    /\ Page

RemoveStill(i) ==       \* mutant: the open rows are not moved up with those below
    /\ ~regenerating(i) /\ Stroke
    /\ bench' = [bench EXCEPT !.questions = RemoveAt(@, i), !.open = @ \ {i}]
    /\ wanted' = wanted \ {bench.questions[i].id} /\ Page

removed(i) ==
    /\ ~regenerating(i) /\ Stroke
    /\ bench' = [bench EXCEPT !.questions = RemoveAt(@, i),
                              !.open = {IF j > i THEN j - 1 ELSE j : j \in @ \ {i}}]
    /\ wanted' = wanted \ {bench.questions[i].id} /\ Page

\* The prompt carries over to the other kind; its answers do not.
Turned(q) ==
    LET other == IF q.type = "fill_blank" THEN "multiple_choice" ELSE "fill_blank"
    IN  [blankQuestion(q.id, other) EXCEPT !.prompt = q.prompt]

Picked(q, o) == [q EXCEPT !.right = o, !.meant = q.options[o].id]

Typed(q, o) == [q EXCEPT !.options[o].blank = ~@]

Wider(q) ==
    LET id == CHOOSE n \in 1..MaxOptions : \A o \in Range(q.options) : o.id # n
    IN  [q EXCEPT !.options = Append(@, Option(id, TRUE))]

NarrowerStill(q, o) ==      \* mutant: the index of the right option stays when one before it goes
    [q EXCEPT !.options = RemoveAt(@, o),
              !.right = IF o = @ /\ q.type = "multiple_choice" THEN 1 ELSE @,
              !.meant = IF @ = q.options[o].id THEN 0 ELSE @]

\* The right answer follows its option; when that goes, the first is right.
Narrower(q, o) ==
    [q EXCEPT !.options = RemoveAt(@, o),
              !.right = IF q.type = "fill_blank" \/ o > @ THEN @ ELSE IF o = @ THEN 1 ELSE @ - 1,
              !.meant = IF @ = q.options[o].id THEN 0 ELSE @]

PracticeEditor(i) ==
    LET q == bench.questions[i]
        least == IF q.type = "fill_blank" THEN 1 ELSE 2
    IN  \/ toggle(i) \/ removed(i) \/ update(i, Turned(q))
        \/ \E p \in {"", "text", "gap"} \ {q.prompt} : update(i, [q EXCEPT !.prompt = p])
        \/ Len(q.options) < MaxOptions /\ update(i, Wider(q))
        \/ \E o \in DOMAIN q.options :
              \/ update(i, Typed(q, o))
              \/ q.type = "multiple_choice" /\ o # q.right /\ update(i, Picked(q, o))
              \/ Len(q.options) > least /\ update(i, Narrower(q, o))

-----------------------------------------------------------------------------
(* The model: one question, put where it was asked for, or all of them.    *)
busy == bench.asked.at # "no"

runItem(i) ==
    /\ ~busy /\ Stroke
    /\ bench' = [bench EXCEPT !.asked = [at |-> "item", index |-> i]] /\ UNCHANGED wanted /\ Page

runRefine ==
    /\ ~busy /\ Stroke
    /\ bench' = [bench EXCEPT !.asked = [at |-> "all", index |-> 0]] /\ UNCHANGED wanted /\ Page

\* Rows stay open by their place, whatever is in it now.
Proposed(questions) ==
    /\ busy
    /\ bench' = [bench EXCEPT !.questions = questions, !.asked = Unasked]
    /\ wanted' = {questions[i].id : i \in bench.open \cap DOMAIN questions}
    /\ UNCHANGED strokes /\ Page

Refined ==
    LET i == bench.asked.index
        rewritten == IF i \in Rows
                     THEN [bench.questions EXCEPT ![i] = Choice(bench.questions[i].id, "curated")]
                     ELSE bench.questions
    IN  IF bench.asked.at = "item" THEN Proposed(rewritten)
        ELSE \E got \in {<<>>, <<Choice(1, "curated")>>} : Proposed(got)

RefineFails ==
    /\ busy /\ Failure /\ bench' = [bench EXCEPT !.asked = Unasked]
    /\ UNCHANGED <<lesson, cachedLesson, wanted, saveCall, author, launch, rereads, taught, strokes, requests>>

-----------------------------------------------------------------------------
(* What is shown: the editor is made anew for a new version, and a test    *)
(* that is being written is not shown.                                     *)
Show(content, writes) ==
    LET keeps == bench # Nothing /\ bench.key = content.version
    IN  IF writes # "no" THEN bench' = Nothing /\ wanted' = {}
        ELSE IF keeps THEN UNCHANGED screen ELSE bench' = Mounted(content) /\ wanted' = {}

Unspent == UNCHANGED <<strokes, requests, failures>>

Look ==
    /\ ~rereads /\ rereads' = TRUE /\ Failure
    /\ UNCHANGED <<lesson, cachedLesson, screen, saveCall, author, launch, taught, strokes, requests>>

Reread ==
    /\ rereads /\ rereads' = FALSE /\ cachedLesson' = Loaded /\ Show(Loaded, author)
    /\ UNCHANGED <<lesson, saveCall, author, launch, taught>> /\ Unspent

(* Saving: the level's new version first, then its questions, which the    *)
(* server may still refuse.                                                *)
persist ==
    /\ ~busy /\ saveCall = Nothing /\ Request
    /\ \A i \in Rows : ~questionProblem(bench.questions[i])
    /\ saveCall' = [at |-> "sent", questions |-> bench.questions]
    /\ UNCHANGED <<lesson, cachedLesson, screen, author, launch, rereads, taught, strokes, failures>>

At(stage) == saveCall # Nothing /\ saveCall.at = stage

saveGrammarLevel ==
    /\ At("sent") /\ saveCall' = [saveCall EXCEPT !.at = "versioned"]
    /\ lesson' = [lesson EXCEPT !.version = @ + 1]
    /\ UNCHANGED <<cachedLesson, screen, author, launch, rereads, taught>> /\ Unspent

\* The rows of one save are as old as each other, and come back in any order.
Store(questions) ==
    \E order \in SetToSeqs({[UsablePractice(q) EXCEPT !.source = "curated"] : q \in Range(questions)}) :
        lesson' = [lesson EXCEPT !.draft = order]

ReplaceUnchecked ==     \* mutant: what the page let pass is stored
    /\ At("versioned") /\ Store(saveCall.questions) /\ saveCall' = [saveCall EXCEPT !.at = "stored"]
    /\ UNCHANGED <<cachedLesson, screen, author, launch, rereads, taught>> /\ Unspent

replaceLevelQuestions ==
    /\ At("versioned")
    /\ IF \A q \in Range(saveCall.questions) : Usable(q)
       THEN Store(saveCall.questions) /\ saveCall' = [saveCall EXCEPT !.at = "stored"]
       ELSE UNCHANGED lesson /\ saveCall' = [saveCall EXCEPT !.at = "refused"]
    /\ UNCHANGED <<cachedLesson, screen, author, launch, rereads, taught>> /\ Unspent

Saved ==
    /\ At("stored") /\ saveCall' = Nothing /\ cachedLesson' = Loaded /\ Show(Loaded, author)
    /\ UNCHANGED <<lesson, author, launch, rereads, taught>> /\ Unspent

Refused ==
    /\ At("refused") /\ saveCall' = Nothing
    /\ UNCHANGED <<lesson, cachedLesson, screen, author, launch, rereads, taught>> /\ Unspent

SaveFails ==
    /\ saveCall # Nothing /\ saveCall' = Nothing /\ Failure
    /\ UNCHANGED <<lesson, cachedLesson, screen, author, launch, rereads, taught, strokes, requests>>

-----------------------------------------------------------------------------
(* A test is generated, alone or with the lesson: what was written by hand *)
(* stays beside it.                                                        *)
runGenerate ==
    /\ author = "no" /\ Request /\ author' = "writes" /\ Show(cachedLesson, author')
    /\ UNCHANGED <<lesson, cachedLesson, saveCall, launch, rereads, taught, strokes, failures>>

replaceAIPractice ==
    /\ author = "writes" /\ author' = "wrote"
    /\ \E byHand \in SetToSeqs({q \in Range(lesson.draft) : q.source = "curated"}), more \in {0, 1} :
          LET id == CHOOSE n \in 1..(MaxQuestions + MaxRequests) : \A q \in Range(byHand) : q.id # n
          IN  lesson' = [lesson EXCEPT !.version = @ + more, !.draft = Append(byHand, Choice(id, "ai"))]
    /\ UNCHANGED <<cachedLesson, screen, saveCall, launch, rereads, taught>> /\ Unspent

\* The editor is back at once, from the cache, while the content is read again.
WritingOver ==
    /\ author = "wrote" /\ author' = "no" /\ Show(cachedLesson, "no") /\ rereads' = TRUE
    /\ UNCHANGED <<lesson, cachedLesson, saveCall, launch, taught>> /\ Unspent

GenerationFails ==
    /\ author = "writes" /\ Failure /\ author' = "no" /\ Show(cachedLesson, "no") /\ rereads' = TRUE
    /\ UNCHANGED <<lesson, cachedLesson, saveCall, launch, taught, strokes, requests>>

(* Publishing: the questions are checked, and then those that are there by *)
(* then go live in place of the old ones.                                  *)
publish ==
    /\ launch = "no" /\ Request /\ launch' = "asked"
    /\ UNCHANGED <<lesson, cachedLesson, screen, saveCall, author, rereads, taught, strokes, failures>>

checkTopic ==
    /\ launch = "asked"
    /\ launch' = IF \E q \in Range(lesson.draft) \union Range(lesson.live) : questionProblem(q) THEN "no" ELSE "checked"
    /\ UNCHANGED <<lesson, cachedLesson, screen, saveCall, author, rereads, taught>> /\ Unspent

PublishAnyway ==        \* mutant: the live test is taken away although there is no new one
    /\ launch = "checked" /\ launch' = "no" /\ rereads' = TRUE
    /\ lesson' = [lesson EXCEPT !.live = lesson.draft, !.draft = <<>>]
    /\ taught' = (taught \/ lesson'.live # <<>>)
    /\ UNCHANGED <<cachedLesson, screen, saveCall, author>> /\ Unspent

publishLevelExtras ==
    /\ launch = "checked" /\ launch' = "no" /\ rereads' = TRUE
    /\ lesson' = IF lesson.draft = <<>> THEN lesson ELSE [lesson EXCEPT !.live = lesson.draft, !.draft = <<>>]
    /\ taught' = (taught \/ lesson'.live # <<>>)
    /\ UNCHANGED <<cachedLesson, screen, saveCall, author>> /\ Unspent

-----------------------------------------------------------------------------
Editing ==
    /\ bench # Nothing
    /\ \/ \E i \in Rows : PracticeEditor(i) \/ runItem(i)
       \/ \E k \in {"multiple_choice", "fill_blank"} : add(k)
       \/ runRefine \/ Refined \/ RefineFails \/ persist

TestNext ==
    \/ Editing
    \/ saveGrammarLevel \/ replaceLevelQuestions \/ Saved \/ Refused \/ SaveFails
    \/ runGenerate \/ replaceAIPractice \/ WritingOver \/ GenerationFails
    \/ publish \/ checkTopic \/ publishLevelExtras \/ Look \/ Reread

TestSpec == TestInit /\ [][TestNext]_testing

-----------------------------------------------------------------------------
(* What learners are marked by is what was meant.  The option counted as   *)
(* right is the one that was picked, however options before it come and    *)
(* go; every question stored can be marked, whatever the page let pass;    *)
(* the row that is open is the one that was opened; and a level that had a *)
(* live test has one.                                                      *)
IsAsMeant(q) == q.meant # 0 => q.options[q.right].id = q.meant

AnswersAreMeant ==
    /\ \A q \in Range(lesson.draft) \union Range(lesson.live) : Usable(q) /\ IsAsMeant(q)
    /\ bench # Nothing =>
         /\ \A i \in Rows : IsAsMeant(bench.questions[i])
         /\ {bench.questions[i].id : i \in bench.open \cap Rows} = wanted
    /\ taught => lesson.live # <<>>
=============================================================================
