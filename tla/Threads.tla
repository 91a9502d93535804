-------------------------------- MODULE Threads --------------------------------
(***************************************************************************)
(* Conversations with the model: the tutor of a grammar topic, whose       *)
(* thread is the page's own, and the coach, whose conversations the server *)
(* keeps and answers with (internal/coach).                                *)
(***************************************************************************)
EXTENDS Naturals, Sequences

CONSTANTS
    MaxSays,        \* bound: questions
    MaxDrops        \* bound: calls and connections that fail

VARIABLES
    chat,           \* "tutor" or "coach"
    thread,         \* the messages on the page
    talk,           \* the conversation the page continues, 0 for a new one
    says,           \* the messages sent, as the server has them in hand
    talks,          \* the server: the coach's conversations
    given,          \* the questions whose answer the page gave up on
    said, drops

threads == <<chat, thread, talk, says, talks, given, said, drops>>

ThreadsInit ==
    /\ chat \in {"tutor", "coach"} /\ thread = <<>> /\ talk = 0 /\ says = {} /\ talks = <<>> /\ given = {}
    /\ said = 0 /\ drops = 0

User(n) == [role |-> "user", id |-> n]
Assistant(n) == [role |-> "assistant", id |-> n]

Waiting == \E r \in says : r.here
Drop == drops < MaxDrops /\ drops' = drops + 1
Becomes(r, what) == says' = (says \ {r}) \union {what}

-----------------------------------------------------------------------------
(* The pages.  The tutor's page shows a question at once and answers it    *)
(* where it stood; the coach's shows the conversation the server answers   *)
(* with, and nothing while it waits or when that failed.                   *)
Say ==
    LET sent == IF chat = "tutor" THEN Append(thread, User(said')) ELSE <<>>
    IN  /\ said < MaxSays /\ said' = said + 1
        /\ thread' = sent
        /\ says' = says \union {[id |-> said', at |-> "sent", talk |-> talk, sent |-> sent, here |-> TRUE]}
        /\ UNCHANGED <<chat, talk, talks, given, drops>>

SayAgain == Say     \* mutant: the page does not wait for its answer

submit == ~Waiting /\ Say

onSuccess(r) ==
    /\ r.here /\ r.at = "answered" /\ says' = says \ {r}
    /\ IF chat = "tutor" THEN thread' = Append(r.sent, Assistant(r.id)) /\ UNCHANGED talk
       ELSE thread' = r.sent /\ talk' = r.talk
    /\ UNCHANGED <<chat, talks, given, said, drops>>

Failed(r) ==
    /\ r.here /\ r.at = "failed" /\ says' = says \ {r}
    /\ UNCHANGED <<chat, thread, talk, talks, given, said, drops>>

\* The connection is lost; the server goes on.
Lost(r) ==
    /\ r.here /\ Drop /\ given' = given \union {r.id} /\ Becomes(r, [r EXCEPT !.here = FALSE])
    /\ UNCHANGED <<chat, thread, talk, talks, said>>

NewTopic ==
    /\ chat = "coach" /\ thread # <<>> /\ thread' = <<>> /\ talk' = 0
    /\ UNCHANGED <<chat, says, talks, given, said, drops>>

-----------------------------------------------------------------------------
(* The server.  The coach's question is kept before the model is asked,    *)
(* and stays when that fails.                                              *)
send(r) ==
    /\ r.at = "sent"
    /\ LET on == IF r.talk = 0 THEN Append(talks, <<>>) ELSE talks
           at == IF r.talk = 0 THEN Len(on) ELSE r.talk
       IN  IF chat = "tutor" THEN Becomes(r, [r EXCEPT !.at = "asked"]) /\ UNCHANGED talks
           ELSE /\ talks' = [on EXCEPT ![at] = Append(@, User(r.id))]
                /\ Becomes(r, [r EXCEPT !.at = "asked", !.talk = at])
    /\ UNCHANGED <<chat, thread, talk, given, said, drops>>

Reply(r) ==
    /\ r.at = "asked"
    /\ IF chat = "tutor" THEN Becomes(r, [r EXCEPT !.at = "answered"]) /\ UNCHANGED talks
       ELSE /\ talks' = [talks EXCEPT ![r.talk] = Append(@, Assistant(r.id))]
            /\ Becomes(r, [r EXCEPT !.at = "answered", !.sent = talks'[r.talk]])
    /\ UNCHANGED <<chat, thread, talk, given, said, drops>>

\* The plan refuses, a statement fails, or the model does.
Unavailable(r) ==
    /\ r.at \in {"sent", "asked"} /\ Drop /\ Becomes(r, [r EXCEPT !.at = "failed"])
    /\ UNCHANGED <<chat, thread, talk, talks, given, said>>

-----------------------------------------------------------------------------
ThreadsNext ==
    \/ submit \/ NewTopic
    \/ \E r \in says : onSuccess(r) \/ Failed(r) \/ Lost(r) \/ send(r) \/ Reply(r) \/ Unavailable(r)

ThreadsSpec == ThreadsInit /\ [][ThreadsNext]_threads

-----------------------------------------------------------------------------
(* An answer stands under the question it answers, on the page and in the  *)
(* conversations that are kept, unless the page gave up on it and went on; *)
(* what was asked of the tutor stays on the page; and what is shown of the *)
(* coach's conversation is what is kept of it.                             *)
AnswersFollow ==
    /\ \A s \in {thread} \union {talks[t] : t \in DOMAIN talks} : \A i \in DOMAIN s :
          s[i].role = "assistant" /\ s[i].id \notin given => i > 1 /\ (s[i - 1] = User(s[i].id) \/ s[i - 1].id \in given)
    /\ chat = "tutor" => {n \in 1..said : \E i \in DOMAIN thread : thread[i] = User(n)} = 1..said
    /\ chat = "coach" /\ thread # <<>> =>
          talk # 0 /\ Len(thread) <= Len(talks[talk]) /\ thread = SubSeq(talks[talk], 1, Len(thread))
=============================================================================
