------------------------------- MODULE LiveTalk -------------------------------
(***************************************************************************)
(* The conversation page (practice/live-speaking.ts and its view) and the  *)
(* session the server keeps for each socket it opens                       *)
(* (internal/practice/live_speaking.go).                                   *)
(***************************************************************************)
EXTENDS Naturals, Sequences, Functions

CONSTANTS
    MaxTalkTurns,           \* the turns of a conversation
    MaxTalks, MaxBlips      \* bounds: conversations begun, failures

VARIABLES
    there,                  \* whether the page is shown
    status, dialed,         \* what it shows, and the conversations begun
    line,                   \* the socket it speaks on, if any
    shownTurns,             \* the conversation of each turn it shows
    wrapUp,                 \* the summary it shows: of which conversation, and its turns
    lines,                  \* each socket: its state, what is on the way, and the session behind it
    miscounted,             \* conversations with a turn that was counted and not kept
    stranded,               \* conversations that were failed, or could not be finished
    late,                   \* the end of one socket was heard after another conversation was begun
    blips

live == <<there, status, dialed, line, shownTurns, wrapUp, lines, miscounted, stranded, late,
          blips>>

-----------------------------------------------------------------------------
NoSummary == [of |-> 0, turns |-> 0]
NewLine == [net |-> "asking", up |-> <<>>, down |-> <<>>, runs |-> FALSE, row |-> "none", turn |-> 0, kept |-> 0]

TalkInit ==
    /\ there = TRUE /\ status = "idle" /\ dialed = 0 /\ line = 0 /\ shownTurns = <<>> /\ wrapUp = NoSummary
    /\ lines = <<>> /\ miscounted = {} /\ stranded = {} /\ late = FALSE /\ blips = 0

Blip == blips < MaxBlips /\ blips' = blips + 1
Server == UNCHANGED <<miscounted, stranded, late>>
Page == UNCHANGED <<there, status, dialed, line, shownTurns, wrapUp>>

Up == line # 0 /\ lines[line].net = "open"
Send(c, m) == lines' = [lines EXCEPT ![c].up = Append(@, m)]
ShowsIf(s) == status' = IF there THEN s ELSE status

-----------------------------------------------------------------------------
(* The page.  A conversation is begun afresh; its token is asked for, and  *)
(* the socket opened, even if the page was left meanwhile.                 *)
Begin ==
    /\ there /\ status \in {"idle", "error", "finished"} /\ dialed < MaxTalks
    /\ dialed' = dialed + 1 /\ lines' = Append(lines, NewLine)
    /\ status' = "connecting" /\ wrapUp' = NoSummary

ConnectOver ==      \* mutant: the turns of the conversation before are kept
    Begin /\ UNCHANGED <<there, line, shownTurns, blips>> /\ Server

connect == Begin /\ shownTurns' = <<>> /\ UNCHANGED <<there, line, blips>> /\ Server

refreshSession(c) ==
    /\ lines[c].net = "asking"
    /\ \/ line' = c /\ lines' = [lines EXCEPT ![c].net = "dialing"] /\ UNCHANGED <<status, blips>>
       \/ Blip /\ ShowsIf("error") /\ lines' = [lines EXCEPT ![c].net = "over"] /\ UNCHANGED line
    /\ UNCHANGED <<there, dialed, shownTurns, wrapUp>> /\ Server

onopen(c) ==
    /\ lines[c].net = "dialing"
    /\ lines' = [lines EXCEPT ![c].net = "open", ![c].up = <<"start">>, ![c].runs = TRUE]
    /\ Page /\ Server /\ UNCHANGED blips

onmessage(c) ==
    /\ lines[c].net \in {"open", "down"} /\ lines[c].down # <<>>
    /\ lines' = [lines EXCEPT ![c].down = Tail(@)]
    /\ LET m == Head(lines[c].down) IN
         /\ shownTurns' = IF m.type = "turn" THEN Append(shownTurns, c) ELSE shownTurns
         /\ wrapUp' = IF m.type = "summary" THEN [of |-> c, turns |-> m.turns] ELSE wrapUp
         /\ ShowsIf(IF m.type = "summary" \/ (m.type = "error" /\ status = "finished") THEN "finished" ELSE "ready")
    /\ UNCHANGED <<there, dialed, line, blips>> /\ Server

\* The socket closes, with an error or without; whichever it was, the page
\* has none any more.
onclose(c) ==
    /\ lines[c].net = "down" \/ (lines[c].net = "open" /\ ~lines[c].runs /\ lines[c].down = <<>>)
    /\ lines' = [lines EXCEPT ![c].net = "over", ![c].down = <<>>]
    /\ line' = 0
    /\ \/ ShowsIf(IF status = "error" THEN "error" ELSE "finished")
       \/ lines[c].net = "down" /\ ShowsIf("error")
    /\ late' = (late \/ c # dialed)
    /\ UNCHANGED <<there, dialed, shownTurns, wrapUp, miscounted, stranded, blips>>

sendTurn ==
    /\ there /\ status = "ready" /\ Up /\ Len(lines[line].up) < 2
    /\ status' = "thinking" /\ Send(line, "turn")
    /\ UNCHANGED <<there, dialed, line, shownTurns, wrapUp, blips>> /\ Server

finish ==
    /\ there /\ status = "ready"
    /\ IF Up THEN Len(lines[line].up) < 2 /\ Send(line, "finish") /\ UNCHANGED status
       ELSE status' = "finished" /\ UNCHANGED lines
    /\ UNCHANGED <<there, dialed, line, shownTurns, wrapUp, blips>> /\ Server

Leave ==
    /\ there /\ there' = FALSE /\ line' = 0
    /\ lines' = IF line = 0 THEN lines ELSE [lines EXCEPT ![line].net = "over", ![line].down = <<>>]
    /\ UNCHANGED <<status, dialed, shownTurns, wrapUp, blips>> /\ Server

Break(c) ==
    /\ lines[c].net \in {"dialing", "open"} /\ Blip
    /\ lines' = [lines EXCEPT ![c].net = "down", ![c].up = <<>>, ![c].down = <<>>]
    /\ Page /\ Server

-----------------------------------------------------------------------------
(* The server: one loop for each socket.                                   *)
Reads(c, what) == lines[c].runs /\ lines[c].up # <<>> /\ Head(lines[c].up) = what

Says(l, ms) == [l EXCEPT !.down = IF l.net = "open" THEN @ \o ms ELSE @]
Read(l) == [l EXCEPT !.up = Tail(@)]

\* How a conversation ends: one without a turn is deleted.
Ended(l) ==
    Says([l EXCEPT !.runs = FALSE, !.row = IF l.turn = 0 THEN "gone" ELSE "completed"],
         <<[type |-> "summary", turns |-> l.turn]>>)

start(c) ==
    /\ Reads(c, "start")
    /\ lines' = [lines EXCEPT ![c] = Says([Read(@) EXCEPT !.row = "open"], <<[type |-> "ready"]>>)]
    /\ Page /\ Server /\ UNCHANGED blips

\* A turn that was judged; the last one ends the conversation.
handleTurn(c) ==
    /\ Reads(c, "turn")
    /\ LET r == Read(lines[c])
           l == Says([r EXCEPT !.turn = r.turn + 1, !.kept = r.kept + 1], <<[type |-> "turn"]>>)
       IN  lines' = [lines EXCEPT ![c] = IF l.turn >= MaxTalkTurns THEN Ended(l) ELSE l]
    /\ Page /\ Server /\ UNCHANGED blips

\* One that was refused, or failed on the way; it may have been counted,
\* and then not stored.
TurnFails(c) ==
    /\ Reads(c, "turn")
    /\ \E counted \in BOOLEAN :
           /\ LET l == Read(lines[c]) IN
                lines' = [lines EXCEPT ![c] = Says([l EXCEPT !.turn = IF counted THEN l.turn + 1 ELSE l.turn],
                                                   <<[type |-> "error"]>>)]
           /\ IF counted THEN Blip /\ miscounted' = miscounted \union {c} ELSE UNCHANGED <<miscounted, blips>>
    /\ Page /\ UNCHANGED <<stranded, late>>

Finish(c) ==
    /\ Reads(c, "finish")
    /\ lines' = [lines EXCEPT ![c] = Ended(Read(@))]
    /\ Page /\ Server /\ UNCHANGED blips

\* The socket is gone, nobody speaks for long, or the server is drained.
\* What was said is kept, and a conversation without a turn is not.
abandon(c) ==
    /\ lines[c].runs /\ (lines[c].net = "open" \/ lines[c].up = <<>>)
    /\ LET l == lines[c] IN
         lines' = [lines EXCEPT ![c] =
             IF l.row = "open" /\ l.turn > 0 THEN Ended(l)
             ELSE [l EXCEPT !.runs = FALSE, !.row = IF l.row = "open" THEN "gone" ELSE l.row]]
    /\ Page /\ Server /\ UNCHANGED blips

\* It has been open too long, or a statement that would end it fails.
fail(c) ==
    /\ lines[c].runs /\ Blip
    /\ lines' = [lines EXCEPT ![c] = Says([@ EXCEPT !.runs = FALSE], <<[type |-> "error"]>>)]
    /\ stranded' = stranded \union {c}
    /\ Page /\ UNCHANGED <<miscounted, late>>

-----------------------------------------------------------------------------
TalkNext ==
    \/ connect \/ sendTurn \/ finish \/ Leave
    \/ \E c \in DOMAIN lines :
           \/ refreshSession(c) \/ onopen(c) \/ onmessage(c) \/ onclose(c) \/ Break(c)
           \/ start(c) \/ handleTurn(c) \/ TurnFails(c) \/ Finish(c) \/ abandon(c) \/ fail(c)

TalkSpec == TalkInit /\ [][TalkNext]_live

-----------------------------------------------------------------------------
(* "Conversation saved" is said of the conversation on the page: all turns *)
(* it shows are of that one and as many as its summary counts, unless one  *)
(* was counted and could not be kept, or the socket before it ended late.  *)
(* And when the server is done with a conversation it is completed if a    *)
(* turn was kept and gone otherwise, however it ended; only one that was   *)
(* failed stays open.                                                      *)
SavedIsTheTalk ==
    /\ wrapUp # NoSummary /\ ~late =>
           /\ wrapUp.of = dialed /\ Range(shownTurns) \subseteq {dialed}
           /\ Len(shownTurns) = wrapUp.turns \/ dialed \in miscounted
    /\ \A c \in DOMAIN lines : ~lines[c].runs =>
           CASE lines[c].row = "open" -> c \in stranded
             [] lines[c].row = "completed" -> lines[c].kept > 0 \/ c \in miscounted
             [] lines[c].row = "gone" -> lines[c].kept = 0
             [] OTHER -> TRUE
=============================================================================
