------------------------------ MODULE LiveCoach ------------------------------
(***************************************************************************)
(* A conversation with the live coach: the hook useCoachLive of the page   *)
(* and, for each socket it opens, the handler liveSpeaking of the API with *)
(* its row of speaking_sessions.  Messages travel in order; a handler of   *)
(* the socket reads the stage and the connection of the last render, which *)
(* mirror holds.  Pausing is the coach taking its time.                    *)
(***************************************************************************)
EXTENDS Naturals, Sequences

CONSTANTS
    Sockets,        \* bound: the sockets opened, numbered from 1
    MaxTurns,       \* maxLiveTurns
    MaxUpsets,      \* bound: what goes wrong
    Nothing

VARIABLES
    here,           \* the page is mounted
    connection, stage,
    mirror,         \* connectionRef and stageRef
    await,          \* what connect waits for: "status", "mic", "token"; Nothing
    mic,            \* stream: the microphone is on
    recorder,       \* "off", "on", or "stopping": stop called, onstop to come
    question,       \* nextQuestion is set
    pendingSummary, \* turns of the summary that waits; Nothing
    results,        \* turns whose result arrived
    summary,        \* what the conversation ended with
    socket,         \* socket.current; 0: null
    ws,             \* each socket: its state, and the messages on their way
    srv,            \* each handler: where it is, its row, its turns
    unsaved,        \* sockets that were open too long, or whose last statements failed
    upsets

page == <<here, connection, stage, mirror, await, mic, recorder, question, pendingSummary, results,
          summary, socket>>
coachVars == <<page, ws, srv, unsaved, upsets>>

Msg(type, n) == [type |-> type, n |-> n]
Close == Msg("close", 0)

\* Effects and buttons are those of the last render, which is sooner than the
\* answer to any request; only messages that come together arrive before it.
Rendered == here => mirror = [connection |-> connection, stage |-> stage]

Upset == upsets < MaxUpsets /\ upsets' = upsets + 1

Closed == [state |-> "none", up |-> <<>>, down |-> <<>>]

\* What the page sends arrives while the handler reads, as does what it is sent.
Up(s, m) == IF ws[s].state = "open" /\ srv[s].at # "over" THEN [ws EXCEPT ![s].up = Append(@, m)] ELSE ws
Down(s, ms) == IF ws[s].state = "open" THEN [ws EXCEPT ![s].down = @ \o ms] ELSE ws

\* close of the page's end: nothing but onclose reaches the page any more.
Shut(w, s) ==
    IF s # 0 /\ w[s].state = "open"
    THEN [w EXCEPT ![s] = [state |-> "closing", up |-> Append(@.up, Close), down |-> <<Close>>]]
    ELSE IF s # 0 /\ w[s].state = "connecting"
    THEN [w EXCEPT ![s] = [state |-> "closing", up |-> <<>>, down |-> <<Close>>]]
    ELSE w

-----------------------------------------------------------------------------
CoachInit ==
    /\ here = TRUE /\ connection = "checking" /\ stage = "coach"
    /\ mirror = [connection |-> "checking", stage |-> "coach"]
    /\ await = "status" /\ mic = FALSE /\ recorder = "off"
    /\ question = FALSE /\ pendingSummary = Nothing /\ results = 0 /\ summary = Nothing
    /\ socket = 0 /\ ws = [s \in Sockets |-> Closed]
    /\ srv = [s \in Sockets |-> [at |-> "none", row |-> "none", turn |-> 0]]
    /\ unsaved = {} /\ upsets = 0

\* setState of a page that has gone does nothing.
Set(var, new, old) == var = IF here THEN new ELSE old

ConnectFails ==
    /\ await # Nothing /\ Rendered /\ Upset
    /\ await' = Nothing
    /\ Set(connection', "error", connection)
    /\ UNCHANGED <<here, stage, mirror, mic, recorder, question, pendingSummary, results, summary, socket,
                   ws, srv, unsaved>>

StatusOk ==
    /\ await = "status" /\ Rendered
    /\ IF mic THEN await' = "token" /\ Set(connection', "connecting", connection)
       ELSE await' = "mic" /\ UNCHANGED connection
    /\ UNCHANGED <<here, stage, mirror, mic, recorder, question, pendingSummary, results, summary, socket,
                   ws, srv, unsaved, upsets>>

MicOn ==
    /\ await = "mic" /\ Rendered
    /\ mic' = TRUE /\ await' = "token" /\ Set(connection', "connecting", connection)
    /\ UNCHANGED <<here, stage, mirror, recorder, question, pendingSummary, results, summary, socket,
                   ws, srv, unsaved, upsets>>

OpenSocket(s) ==
    /\ await = "token" /\ Rendered
    /\ ws[s].state = "none" /\ \A r \in Sockets : r < s => ws[r].state # "none"
    /\ await' = Nothing /\ socket' = s
    /\ ws' = [ws EXCEPT ![s].state = "connecting"]
    /\ UNCHANGED <<here, connection, stage, mirror, mic, recorder, question, pendingSummary, results,
                   summary, srv, unsaved, upsets>>

(* The hub admits the learner and the page says start, or it refuses.      *)
Admit(s) ==
    /\ ws[s].state = "connecting" /\ Rendered
    /\ \/ /\ ws' = [ws EXCEPT ![s] = [state |-> "open", up |-> <<Msg("start", 0)>>, down |-> <<>>]]
          /\ srv' = [srv EXCEPT ![s].at = "waiting"]
          /\ UNCHANGED upsets
       \/ /\ Upset
          /\ ws' = [ws EXCEPT ![s] = [state |-> "closing", up |-> <<>>, down |-> <<Close>>]]
          /\ UNCHANGED srv
    /\ UNCHANGED <<page, unsaved>>

-----------------------------------------------------------------------------
(* The handler of one socket: run.                                         *)
HandlerOver(s, row, ms) ==
    /\ srv' = [srv EXCEPT ![s].at = "over", ![s].row = row]
    /\ ws' = [Down(s, Append(ms, Close)) EXCEPT ![s].up = <<>>]

finishSession(s) ==
    IF srv[s].turn = 0
    THEN HandlerOver(s, "deleted", <<Msg("summary", 0)>>) /\ UNCHANGED <<unsaved, upsets>>
    ELSE \/ HandlerOver(s, "completed", <<Msg("summary", srv[s].turn)>>) /\ UNCHANGED <<unsaved, upsets>>
         \/ /\ Upset /\ unsaved' = unsaved \cup {s}
            /\ HandlerOver(s, "in_progress", <<Msg("error", 0)>>)

AbandonSilently(s, ms) ==   \* mutant: what was said is left as it is
    HandlerOver(s, srv[s].row, ms) /\ UNCHANGED <<unsaved, upsets>>

(* The turns already spoken are kept; a row without one is removed.        *)
abandon(s, ms) ==
    CASE srv[s].row = "none" -> HandlerOver(s, "none", ms) /\ UNCHANGED <<unsaved, upsets>>
      [] srv[s].row # "none" /\ srv[s].turn = 0 ->
            HandlerOver(s, "deleted", ms) /\ UNCHANGED <<unsaved, upsets>>
      [] OTHER -> \/ HandlerOver(s, "completed", ms) /\ UNCHANGED <<unsaved, upsets>>
                  \/ /\ Upset /\ unsaved' = unsaved \cup {s}
                     /\ HandlerOver(s, "in_progress", ms)

Read(s) == srv[s].at = "waiting" /\ ws[s].up # <<>>
Word(s) == Head(ws[s].up).type
Taken(s) == [ws EXCEPT ![s].up = Tail(@)]

TakeStart(s) ==
    /\ Read(s) /\ Word(s) = "start"
    /\ srv' = [srv EXCEPT ![s].row = "in_progress"]
    /\ ws' = IF ws[s].state = "open"
             THEN [Taken(s) EXCEPT ![s].down = Append(@, Msg("ready", 0))] ELSE Taken(s)
    /\ UNCHANGED <<page, unsaved, upsets>>

TakeTurn(s) ==
    /\ Read(s) /\ Word(s) = "turn"
    /\ srv' = [srv EXCEPT ![s].at = "judging"]
    /\ ws' = Taken(s)
    /\ UNCHANGED <<page, unsaved, upsets>>

\* The handler returns, so what is left unread stays so.
TakeFinish(s) == Read(s) /\ Word(s) = "finish" /\ finishSession(s) /\ UNCHANGED page

\* The read fails: the page has gone, or nothing came before the deadline.
TakeClose(s) == Read(s) /\ Word(s) = "close" /\ abandon(s, <<>>) /\ UNCHANGED page

IdleTimeout(s) == srv[s].at = "waiting" /\ ws[s].up = <<>> /\ abandon(s, <<>>) /\ UNCHANGED page

(* The loop finds that the conversation has been open too long: it fails,  *)
(* and its row is left as it is.                                           *)
TooLong(s) ==
    /\ srv[s].at = "waiting" /\ srv[s].turn > 0 /\ Upset
    /\ unsaved' = unsaved \cup {s}
    /\ HandlerOver(s, srv[s].row, <<Msg("error", 0)>>)
    /\ UNCHANGED page

\* A draining hub wakes the handler that waits for the learner.
Drain(s) == srv[s].at = "waiting" /\ srv[s].row # "none" /\ abandon(s, <<Msg("reconnect", 0)>>) /\ UNCHANGED page

(* handleTurn: a judged turn counts, and after the last the conversation   *)
(* is finished; the coach may have something to say about it.              *)
Judge(s) ==
    /\ srv[s].at = "judging"
    /\ \E says \in {0, 1} :
         /\ srv' = [srv EXCEPT ![s].turn = @ + 1,
                               ![s].at = IF srv[s].turn + 1 < MaxTurns THEN "waiting" ELSE "finishing"]
         /\ ws' = Down(s, <<Msg("turn", says)>>)
    /\ UNCHANGED <<page, unsaved, upsets>>

(* A bad turn is not a bad session.  When the last statement fails, the    *)
(* turn counts although the learner is told that it did not go through.    *)
JudgeFails(s) ==
    /\ srv[s].at = "judging" /\ Upset
    /\ \E counts \in {0, 1} : srv' = [srv EXCEPT ![s].turn = @ + counts, ![s].at = "waiting"]
    /\ ws' = Down(s, <<Msg("error", 0)>>)
    /\ UNCHANGED <<page, unsaved>>

FinishAll(s) == srv[s].at = "finishing" /\ finishSession(s) /\ UNCHANGED page

(* The network goes: what was on its way is lost, both ends see a close.   *)
Break(s) ==
    /\ ws[s].state = "open" /\ Upset
    /\ ws' = [ws EXCEPT ![s] = [state |-> "closing", up |-> <<Close>>, down |-> <<Close>>]]
    /\ UNCHANGED <<page, srv, unsaved>>

-----------------------------------------------------------------------------
(* The page hears from its sockets.                                        *)
Render ==
    /\ mirror' = [connection |-> connection, stage |-> stage]
    /\ mirror' # mirror /\ here
    /\ UNCHANGED <<here, connection, stage, await, mic, recorder, question, pendingSummary, results,
                   summary, socket, ws, srv, unsaved, upsets>>

\* finish, with the sockets as they are in w.
finish(w, n) ==
    /\ summary' = n /\ connection' = "finished" /\ mirror' = [mirror EXCEPT !.connection = "finished"]
    /\ ws' = Shut(w, socket)

(* askNext: the summary that waits, the next question, or the learner.     *)
askNext(w, ask) ==
    /\ question' = FALSE
    /\ IF pendingSummary # Nothing
       THEN finish(w, pendingSummary) /\ UNCHANGED stage
       ELSE /\ stage' = IF ask THEN "coach" ELSE "your-turn"
            /\ ws' = w /\ UNCHANGED <<summary, connection, mirror>>

OnReady(w) ==
    /\ stage' = "coach" /\ connection' = "live"
    /\ ws' = w /\ UNCHANGED <<mirror, question, pendingSummary, results, summary>>

OnTurn(w, says) ==
    /\ results' = results + 1 /\ UNCHANGED pendingSummary
    /\ IF says = 1
       THEN stage' = "feedback" /\ question' = TRUE /\ ws' = w /\ UNCHANGED <<summary, connection, mirror>>
       ELSE askNext(w, TRUE)

(* The summary waits while the coach is still saying the last feedback.    *)
OnSummary(w, n) ==
    /\ pendingSummary' = n
    /\ IF mirror.stage # "feedback" THEN finish(w, n) ELSE ws' = w /\ UNCHANGED <<summary, connection, mirror>>
    /\ UNCHANGED <<stage, question, results>>

OnError(w) ==
    /\ stage' = IF stage = "thinking" THEN "your-turn" ELSE stage
    /\ ws' = w /\ UNCHANGED <<connection, mirror, question, pendingSummary, results, summary>>

OnReconnect(w) ==
    /\ connection' = "error"
    /\ ws' = w /\ UNCHANGED <<stage, mirror, question, pendingSummary, results, summary>>

\* A message to a page that has gone changes nothing that anybody sees.
OnMessage(s, m) ==
    LET w == [ws EXCEPT ![s].down = Tail(@)] IN
    IF ~here THEN ws' = w /\ UNCHANGED <<stage, connection, mirror, question, pendingSummary, results, summary>>
    ELSE CASE m.type = "ready"     -> OnReady(w)
           [] m.type = "turn"      -> OnTurn(w, m.n)
           [] m.type = "summary"   -> OnSummary(w, m.n)
           [] m.type = "error"     -> OnError(w)
           [] m.type = "reconnect" -> OnReconnect(w)

Receive(s) ==
    /\ ws[s].down # <<>> /\ Head(ws[s].down) # Close
    /\ OnMessage(s, Head(ws[s].down))
    /\ UNCHANGED <<here, await, mic, recorder, socket, srv, unsaved, upsets>>

CloseMeans(s) ==
    /\ connection' = IF mirror.connection \in {"finished", "error"} \/ pendingSummary # Nothing \/ ~here
                     THEN connection ELSE "error"

(* onclose: a drop, unless the conversation is over or a summary on its    *)
(* way out.                                                                *)
OnClose(s) ==
    /\ ws[s].down # <<>> /\ Head(ws[s].down) = Close
    /\ ws' = [ws EXCEPT ![s] = [state |-> "closed", up |-> @.up, down |-> <<>>]]
    /\ socket' = 0
    /\ CloseMeans(s)
    /\ UNCHANGED <<here, stage, mirror, await, mic, recorder, question, pendingSummary, results, summary,
                   srv, unsaved, upsets>>

-----------------------------------------------------------------------------
(* The coach has said its line.                                            *)
Said ==
    /\ here /\ Rendered /\ connection = "live"
    /\ \/ /\ stage = "coach" /\ stage' = "your-turn"
          /\ UNCHANGED <<connection, mirror, question, summary, ws>>
       \/ stage = "feedback" /\ askNext(ws, question)
    /\ UNCHANGED <<here, await, mic, recorder, pendingSummary, results, socket, srv, unsaved, upsets>>

(* A tap on the microphone, whatever the connection is.                    *)
startAnswer ==
    /\ here /\ Rendered /\ stage = "your-turn" /\ mic
    /\ recorder' = "on" /\ stage' = "listening"
    /\ UNCHANGED <<here, connection, mirror, await, mic, question, pendingSummary, results, summary,
                   socket, ws, srv, unsaved, upsets>>

(* onstop, after the press or the longest answer that ends it, or End: too *)
(* short, or sent if there is a socket to send it on.                      *)
Stopped ==
    /\ here /\ recorder' = "off"
    /\ recorder = "stopping" \/ (recorder = "on" /\ stage = "listening" /\ Rendered)
    /\ \/ stage' = "your-turn" /\ UNCHANGED ws
       \/ /\ stage' = "thinking"
          /\ ws' = IF socket = 0 THEN ws ELSE Up(socket, Msg("turn", 0))
    /\ UNCHANGED <<here, connection, mirror, await, mic, question, pendingSummary, results, summary,
                   socket, srv, unsaved, upsets>>

\* Another finish after the first is never read.
End ==
    /\ here /\ Rendered /\ connection \in {"live", "ending"}
    /\ recorder' = IF recorder = "on" THEN "stopping" ELSE recorder
    /\ IF socket = 0 \/ ws[socket].state # "open"
       THEN finish(ws, results)
       ELSE /\ connection' = "ending" /\ mirror' = [mirror EXCEPT !.connection = "ending"]
            /\ ws' = IF connection = "ending" THEN ws ELSE Up(socket, Msg("finish", 0))
            /\ UNCHANGED summary
    /\ UNCHANGED <<here, stage, await, mic, question, pendingSummary, results, socket, srv, unsaved, upsets>>

(* Try again, when the last socket has reported its close.                 *)
retry ==
    /\ here /\ Rendered /\ connection = "error" /\ await = Nothing
    /\ \A s \in Sockets : ws[s].state \in {"none", "closed"}
    /\ connection' = "checking" /\ await' = "status"
    /\ question' = FALSE /\ pendingSummary' = Nothing /\ results' = 0 /\ summary' = Nothing
    /\ UNCHANGED <<here, stage, mirror, mic, recorder, socket, ws, srv, unsaved, upsets>>

(* The page goes, and the socket and the microphone with it; a connect     *)
(* that waits goes on.                                                     *)
Leave ==
    /\ here /\ here' = FALSE
    /\ ws' = Shut(ws, socket) /\ socket' = 0
    /\ recorder' = "off" /\ mic' = FALSE
    /\ UNCHANGED <<connection, stage, mirror, await, question, pendingSummary, results, summary, srv,
                   unsaved, upsets>>

-----------------------------------------------------------------------------
\* What goes on by itself: the handler, the network and the page's own code.
Handle(s) ==
    \/ TakeStart(s) \/ TakeTurn(s) \/ TakeFinish(s) \/ TakeClose(s) \/ IdleTimeout(s)
    \/ Judge(s) \/ FinishAll(s)

Hears(s) == Admit(s) \/ Receive(s) \/ OnClose(s)

CoachNext ==
    \/ ConnectFails \/ StatusOk \/ MicOn \/ Render
    \/ Said \/ startAnswer \/ Stopped \/ End \/ retry \/ Leave
    \/ \E s \in Sockets :
        \/ OpenSocket(s) \/ Handle(s) \/ Hears(s)
        \/ TooLong(s) \/ Drain(s) \/ JudgeFails(s) \/ Break(s)

CoachSpec == CoachInit /\ [][CoachNext]_coachVars

\* The handler and the network go on; the page renders what it is told, and
\* the coach says its line to the end while the learner does not pause it.
CoachFairness ==
    /\ \A s \in Sockets : WF_coachVars(Handle(s)) /\ WF_coachVars(Hears(s))
    /\ WF_coachVars(Render) /\ WF_coachVars(Said)

FairCoach == CoachSpec /\ CoachFairness

-----------------------------------------------------------------------------
\* An answer was sent, and the page waits for what the coach makes of it.
Thinking == here /\ connection = "live" /\ stage = "thinking"

(* The turns already spoken are kept: the row of a conversation that ends, *)
(* however it ends, is completed if a turn was judged and removed if none. *)
TurnsAreKept ==
    \A s \in Sockets \ unsaved :
        srv[s].at = "over" =>
            srv[s].row = IF srv[s].turn > 0 THEN "completed"
                         ELSE IF srv[s].row = "none" THEN "none" ELSE "deleted"

(* "let the coach finish the sentence": a conversation that the learner    *)
(* has ended is saved and then over.                                       *)
EndingFinishes ==
    (connection = "ending") ~> (connection # "ending" \/ ~here)
=============================================================================
