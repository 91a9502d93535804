---------------------------- MODULE ContentBuilder ----------------------------
(***************************************************************************)
(* The page on which an owner writes a grammar topic                       *)
(* (features/owner/views/grammar-builder-view.tsx with the hooks it uses), *)
(* the rows of grammar_content behind it and the job that lets the model   *)
(* write a first draft (internal/admin).  One lesson in one language: a    *)
(* version is a list of rows, each written by the model or by hand.        *)
(***************************************************************************)
EXTENDS Naturals, Sequences, SequencesExt

CONSTANTS
    MaxVersions,    \* bound: versions ever written
    MaxRows,        \* bound: rows a list ever has
    MaxTouches,     \* bound: rows typed, added, removed or rewritten
    MaxCalls,       \* bound: drafts saved, generations started, releases asked for
    MaxMishaps,     \* bound: calls failing, workers dying, pages loaded again
    Nothing

VARIABLES
    versions,   \* grammar_content: each version's rows, source and status
    job,        \* the generation that is queued or runs, and whether it may overwrite
    content,    \* what the query cache holds: version, rows, source and status of the newest
    fetch,      \* the content being read again: whether, and what was read
    tab,        \* "editor" or "test"
    editor,     \* LevelEditor, when it is mounted
    save,       \* the draft on its way to the server
    start,      \* the request that starts a generation
    active,     \* the generation the page polls, remembered for the tab
    release,    \* a publication or deletion under way
    touches, asks, mishaps,
    unguarded   \* a generation may run that the page does not wait for

server  == <<versions, job>>
builder == <<versions, job, content, fetch, tab, editor, save, start, active, release, touches,
             asks, mishaps, unguarded>>

Row(id, hand) == [id |-> id, hand |-> hand]
Drafted == [i \in 1..(MaxRows - 1) |-> Row(i, FALSE)]

\* Rows of a list by the model: the same, in its own words.
ByModel(rows) == [i \in DOMAIN rows |-> Row(rows[i].id, FALSE)]

Newest == Last(versions)
Room   == Len(versions) < MaxVersions

\* loadTopicContent.
Loaded ==
    IF versions = <<>> THEN [version |-> 0, rows |-> <<>>, source |-> "none", status |-> "not_created"]
    ELSE [version |-> Len(versions), rows |-> Newest.rows, source |-> Newest.source,
          status |-> Newest.status]

Idle == [at |-> "idle", rows |-> <<>>, test |-> FALSE, heard |-> FALSE, answer |-> Nothing]
NoStart == [at |-> "idle", overwrite |-> FALSE]
NoFetch == [at |-> "idle", what |-> Nothing]
AskAgain == [at |-> "asked", what |-> Nothing]
NoJob == [at |-> "none", overwrite |-> FALSE]
NoRelease == [at |-> "idle", kind |-> Nothing]
NotAsked == [kind |-> Nothing, index |-> 0, id |-> 0, got |-> Nothing]

Mounted(c) == [key |-> c.version, rows |-> c.rows, asked |-> NotAsked, overwritten |-> {}]

\* What is being written is not shown for editing.
Writing(s, a) == a \/ s.at # "idle"

(* The editor is keyed by the version it shows: it keeps what is in it     *)
(* while that stays, and is made anew from the cache otherwise.            *)
Shown(c, t, s, a) ==
    IF t # "editor" \/ Writing(s, a) THEN Nothing
    ELSE IF editor # Nothing /\ editor.key = c.version THEN editor
    ELSE Mounted(c)

Mishap == mishaps < MaxMishaps /\ mishaps' = mishaps + 1
Touch  == touches < MaxTouches /\ touches' = touches + 1
Call   == asks < MaxCalls /\ asks' = asks + 1

-----------------------------------------------------------------------------
BuilderInit ==
    /\ \/ versions = <<>>
       \/ \E s \in {"draft", "published"} :
            versions = <<[rows |-> Drafted, source |-> "ai", status |-> s]>>
    /\ job = NoJob /\ content = Loaded /\ fetch = NoFetch /\ tab = "editor"
    /\ editor = Mounted(Loaded) /\ save = Idle /\ start = NoStart /\ active = FALSE
    /\ release = NoRelease /\ touches = 0 /\ asks = 0 /\ mishaps = 0 /\ unguarded = FALSE

-----------------------------------------------------------------------------
(* The rows of a list, and the model's help with them.                     *)
rewriting(i) == editor.asked.kind = "item" /\ editor.asked.index = i

Edit(e) ==
    /\ editor' = e
    /\ UNCHANGED <<server, content, fetch, tab, save, start, active, release, asks, mishaps, unguarded>>

TypeRow(i) ==
    /\ ~rewriting(i) /\ ~editor.rows[i].hand /\ Touch
    /\ Edit([editor EXCEPT !.rows[i].hand = TRUE])

AddRow ==
    LET id == CHOOSE n \in 1..(MaxRows + 1) : \A i \in DOMAIN editor.rows : editor.rows[i].id # n
    IN  /\ Len(editor.rows) < MaxRows /\ Touch
        /\ Edit([editor EXCEPT !.rows = Append(@, Row(id, TRUE))])

RemoveRow(i) ==
    /\ ~rewriting(i) /\ Touch
    /\ Edit([editor EXCEPT !.rows = RemoveAt(@, i)])

busy == editor.asked.kind # Nothing

runItem(i) ==
    /\ ~busy /\ Touch
    /\ Edit([editor EXCEPT !.asked = [kind |-> "item", index |-> i, id |-> editor.rows[i].id,
                                      got |-> Nothing]])

\* A section, the level, or its translation: all of them replace the list.
runRefine ==
    /\ ~busy /\ Touch
    /\ Edit([editor EXCEPT !.asked = [NotAsked EXCEPT !.kind = "list"]])

(* refineGrammarLevel works on the newest version stored, not on what the  *)
(* editor holds.                                                           *)
refineGrammarLevel ==
    /\ busy /\ editor.asked.got = Nothing
    /\ IF versions = <<>> THEN Edit([editor EXCEPT !.asked = NotAsked])
       ELSE Edit([editor EXCEPT !.asked.got = ByModel(Newest.rows)])
    /\ UNCHANGED touches

RefineFails ==
    /\ busy /\ Mishap
    /\ editor' = [editor EXCEPT !.asked = NotAsked]
    /\ UNCHANGED <<server, content, fetch, tab, save, start, active, release, touches, asks, unguarded>>

Pick(list, i) == IF i \in DOMAIN list THEN list[i] ELSE Last(list)

applyItem(rows, i, got) ==
    IF got = <<>> \/ i \notin DOMAIN rows THEN rows ELSE [rows EXCEPT ![i] = Pick(got, i)]

\* The rows an answer about the row of that id takes away without being asked.
Harmed(old, new, id) ==
    {r.id : r \in {old[i] : i \in DOMAIN old} \ {new[i] : i \in DOMAIN new}} \ {id}

(* The answer is put where the question was.                               *)
TakeProposal ==
    LET a == editor.asked
        rows == IF a.kind = "list" THEN a.got ELSE applyItem(editor.rows, a.index, a.got)
    IN  /\ busy /\ a.got # Nothing
        /\ Edit([editor EXCEPT
                   !.rows = rows, !.asked = NotAsked,
                   !.overwritten = IF a.kind = "list" THEN @
                                   ELSE @ \cup Harmed(editor.rows, rows, a.id)])
        /\ UNCHANGED touches

-----------------------------------------------------------------------------
(* The tabs: what is not on the screen is unmounted.                       *)
SetTab ==
    /\ tab' = IF tab = "editor" THEN "test" ELSE "editor"
    /\ editor' = Shown(content, tab', start, active)
    /\ UNCHANGED <<server, content, fetch, save, start, active, release, touches, asks, mishaps, unguarded>>

(* Saving: a row of its own, and for a test the text of the newest.        *)
persist ==
    /\ save.at = "idle" /\ Room /\ Call
    /\ tab = "test" => content.version > 0
    /\ tab = "editor" => editor # Nothing
    /\ save' = [at |-> "sent", rows |-> IF tab = "test" THEN <<>> ELSE editor.rows,
                test |-> tab = "test", heard |-> TRUE, answer |-> Nothing]
    /\ UNCHANGED <<server, content, fetch, tab, editor, start, active, release, touches, mishaps,
                   unguarded>>

saveGrammarLevel ==
    /\ save.at = "sent" /\ Room
    /\ versions' = Append(versions,
         [rows |-> IF save.test THEN Loaded.rows ELSE save.rows, source |-> "curated",
          status |-> "draft"])
    /\ save' = [save EXCEPT !.at = "stored"]
    /\ UNCHANGED <<job, content, fetch, tab, editor, start, active, release, touches, asks, mishaps, unguarded>>

SaveAnswers ==
    /\ save.at = "stored"
    /\ save' = [save EXCEPT !.at = "answered", !.answer = Loaded]
    /\ UNCHANGED <<server, content, fetch, tab, editor, start, active, release, touches, asks, mishaps,
                   unguarded>>

(* The answer goes into the cache, whatever a read under way will put there. *)
Saved ==
    /\ save.at = "answered"
    /\ save' = Idle
    /\ IF save.heard
       THEN content' = save.answer /\ editor' = Shown(save.answer, tab, start, active)
       ELSE UNCHANGED <<content, editor>>
    /\ UNCHANGED <<server, fetch, tab, start, active, release, touches, asks, mishaps, unguarded>>

SaveFails ==
    /\ save.at \in {"sent", "stored", "answered"} /\ Mishap
    /\ save' = Idle
    /\ UNCHANGED <<server, content, fetch, tab, editor, start, active, release, touches, asks, unguarded>>

-----------------------------------------------------------------------------
(* Generating.  The dialog wants "replace" ticked when the cache shows     *)
(* that somebody edited the text.                                          *)
runGenerate(overwrite) ==
    /\ ~Writing(start, active) /\ job.at \in {"none", "succeeded", "failed", "stuck"} /\ Room /\ Call
    /\ content.source = "curated" => overwrite
    /\ start' = [at |-> "sent", overwrite |-> overwrite]
    /\ editor' = Shown(content, tab, start', active)
    /\ unguarded' = (save.at # "idle")
    /\ UNCHANGED <<server, content, fetch, tab, save, active, release, touches, mishaps>>

EnqueueAnyway ==        \* mutant: work done by hand is not asked about
    /\ start.at = "sent"
    /\ job' = [at |-> "running", overwrite |-> start.overwrite] /\ start' = [start EXCEPT !.at = "accepted"]
    /\ UNCHANGED <<versions, content, fetch, tab, editor, save, active, release, touches, asks, mishaps,
                   unguarded>>

generateGrammarContent ==
    /\ start.at = "sent"
    /\ IF Loaded.source = "curated" /\ ~start.overwrite
       THEN start' = [start EXCEPT !.at = "refused"] /\ UNCHANGED job
       ELSE /\ start' = [start EXCEPT !.at = "accepted"]
            /\ job' = [at |-> "running", overwrite |-> start.overwrite]
    /\ UNCHANGED <<versions, content, fetch, tab, editor, save, active, release, touches, asks, mishaps,
                   unguarded>>

Started ==
    /\ start.at \in {"accepted", "refused"}
    /\ start' = NoStart /\ active' = (start.at = "accepted")
    /\ editor' = Shown(content, tab, start', active')
    /\ UNCHANGED <<server, content, fetch, tab, save, release, touches, asks, mishaps, unguarded>>

(* The page hears of an error, whether or not the generation was queued.   *)
StartFails ==
    /\ start.at # "idle" /\ Mishap
    /\ start' = NoStart /\ unguarded' = TRUE
    /\ editor' = Shown(content, tab, start', active)
    /\ UNCHANGED <<server, content, fetch, tab, save, active, release, touches, asks>>

-----------------------------------------------------------------------------
(* runGeneration: one attempt, on a worker.                                *)
Work(from, to) ==
    /\ job.at = from /\ job' = [job EXCEPT !.at = to]
    /\ UNCHANGED <<content, fetch, tab, editor, save, start, active, release, touches, asks, unguarded>>

storeGenerated ==
    /\ Work("running", "stored") /\ Room
    /\ versions' = Append(versions, [rows |-> Drafted, source |-> "ai", status |-> "draft"])
    /\ UNCHANGED mishaps

Finish == Work("stored", "succeeded") /\ UNCHANGED <<versions, mishaps>>

(* The author fails, or a task cannot be stored after the lesson was; or   *)
(* the worker stops and nobody says so.                                    *)
GenerationFails ==
    /\ \E from \in {"running", "stored"}, to \in {"failed", "stuck"} : Work(from, to)
    /\ Mishap /\ UNCHANGED versions

(* The end of waiting: every language of the topic is read again, and the  *)
(* editor comes back at once, from what the cache still holds.             *)
EndWaiting ==
    /\ active /\ active' = FALSE
    /\ fetch' = AskAgain
    /\ editor' = Shown(content, tab, start, FALSE)
    /\ UNCHANGED <<server, content, tab, save, start, release, touches, asks>>

PollSuccess ==          \* mutant: a job that failed is polled on
    /\ job.at = "succeeded"
    /\ EndWaiting
    /\ UNCHANGED <<mishaps, unguarded>>

Poll ==
    /\ job.at \in {"succeeded", "failed"}
    /\ EndWaiting
    /\ UNCHANGED <<mishaps, unguarded>>

PollFails == EndWaiting /\ Mishap /\ unguarded' = TRUE

(* GENERATION_GIVE_UP_MS: a job that long undecided is taken to be lost.   *)
GiveUp ==
    /\ job.at \in {"running", "stored", "stuck"}
    /\ EndWaiting
    /\ unguarded' = TRUE /\ UNCHANGED mishaps

-----------------------------------------------------------------------------
(* Reading the content again: a new invalidation starts it over.           *)
Read ==
    /\ fetch.at = "asked" /\ fetch' = [at |-> "read", what |-> Loaded]
    /\ UNCHANGED <<server, content, tab, editor, save, start, active, release, touches, asks, mishaps,
                   unguarded>>

Refetched ==
    /\ fetch.at = "read"
    /\ content' = fetch.what /\ fetch' = NoFetch
    /\ editor' = Shown(content', tab, start, active)
    /\ UNCHANGED <<server, tab, save, start, active, release, touches, asks, mishaps, unguarded>>

FetchFails ==
    /\ fetch.at # "idle" /\ Mishap /\ fetch' = NoFetch
    /\ UNCHANGED <<server, content, tab, editor, save, start, active, release, touches, asks, unguarded>>

(* The page is loaded again: calls are no longer heard of, but the running *)
(* job is remembered.                                                      *)
Reload ==
    /\ Mishap
    /\ content' = Loaded /\ fetch' = NoFetch /\ tab' = "editor"
    /\ start' = NoStart /\ unguarded' = (unguarded \/ start.at # "idle")
    /\ save' = [save EXCEPT !.heard = FALSE]
    /\ release' = NoRelease
    /\ editor' = IF active THEN Nothing ELSE Mounted(Loaded)
    /\ UNCHANGED <<server, active, touches, asks>>

-----------------------------------------------------------------------------
(* Going live, and starting over.                                          *)
Release(kind) ==
    /\ release.at = "idle" /\ Call
    /\ content.version > 0
    /\ kind = "publish" => content.status # "published"
    /\ kind = "delete" => ~Writing(start, active)
    /\ release' = [at |-> "sent", kind |-> kind]
    /\ UNCHANGED <<server, content, fetch, tab, editor, save, start, active, touches, mishaps, unguarded>>

Drafts(vs) == {v \in DOMAIN vs : vs[v].status = "draft"}

(* publishLanguage: the newest draft goes live and what is older is past;  *)
(* with no draft everything stays as it is.                                *)
publishLanguage(vs) ==
    IF Drafts(vs) = {} THEN vs
    ELSE LET draft == CHOOSE v \in Drafts(vs) : \A w \in Drafts(vs) : w <= v
         IN  [v \in DOMAIN vs |-> [vs[v] EXCEPT !.status =
                CASE v = draft -> "published"
                  [] @ = "published" \/ (@ = "draft" /\ v < draft) -> "archived"
                  [] OTHER -> @]]

publishGrammarContent ==
    /\ release = [at |-> "sent", kind |-> "publish"]
    /\ versions' = publishLanguage(versions)
    /\ release' = [release EXCEPT !.at = "answered"]
    /\ UNCHANGED <<job, content, fetch, tab, editor, save, start, active, touches, asks, mishaps, unguarded>>

deleteGrammarContent ==
    /\ release = [at |-> "sent", kind |-> "delete"]
    /\ versions' = <<>>
    /\ release' = [release EXCEPT !.at = "answered"]
    /\ UNCHANGED <<job, content, fetch, tab, editor, save, start, active, touches, asks, mishaps, unguarded>>

Released ==
    /\ release.at = "answered"
    /\ release' = NoRelease /\ fetch' = AskAgain
    /\ UNCHANGED <<server, content, tab, editor, save, start, active, touches, asks, mishaps, unguarded>>

ReleaseFails ==
    /\ release.at # "idle" /\ Mishap /\ release' = NoRelease
    /\ UNCHANGED <<server, content, fetch, tab, editor, save, start, active, touches, asks, unguarded>>

-----------------------------------------------------------------------------
Rows ==
    /\ editor # Nothing
    /\ \/ \E i \in DOMAIN editor.rows : TypeRow(i) \/ RemoveRow(i) \/ runItem(i)
       \/ AddRow \/ runRefine \/ refineGrammarLevel \/ RefineFails \/ TakeProposal

BuilderNext ==
    \/ Rows
    \/ SetTab \/ persist \/ saveGrammarLevel \/ SaveAnswers \/ Saved \/ SaveFails
    \/ \E o \in BOOLEAN : runGenerate(o)
    \/ generateGrammarContent \/ Started \/ StartFails
    \/ storeGenerated \/ Finish \/ GenerationFails \/ Poll \/ PollFails \/ GiveUp
    \/ Read \/ Refetched \/ FetchFails \/ Reload
    \/ \E k \in {"publish", "delete"} : Release(k)
    \/ publishGrammarContent \/ deleteGrammarContent \/ Released \/ ReleaseFails

BuilderSpec == BuilderInit /\ [][BuilderNext]_builder

\* Calls are answered, the job is polled every two seconds and the page's clock goes on.
BuilderFairness ==
    /\ WF_builder(generateGrammarContent) /\ WF_builder(Started)
    /\ WF_builder(Poll) /\ WF_builder(GiveUp)

FairBuilder == BuilderSpec /\ BuilderFairness

-----------------------------------------------------------------------------
ByHand(rows) == \E i \in DOMAIN rows : rows[i].hand

(* Work done by hand is not replaced by a generation unless its owner said *)
(* so: between the check, when the job is queued, and the moment its text  *)
(* is stored nothing is written by hand, unless the page took the job for  *)
(* lost or never heard of it, or a draft was being saved when it began.    *)
HandEditsSurvive ==
    [][ (versions # <<>> /\ Len(versions') > Len(versions) /\ Last(versions').source = "ai")
        => ~ByHand(Newest.rows) \/ job.overwrite \/ unguarded ]_builder

(* The answer about one row leaves all others as they are, typed and not   *)
(* saved included: so the comment above applyItem says.                    *)
OnlyTheRowAsked == editor # Nothing => editor.overwritten = {}
=============================================================================
