-------------------------------- MODULE Forms --------------------------------
(***************************************************************************)
(* The forms and controls with which stored records are changed: those of  *)
(* the owner console (features/owner) and of the profile and settings      *)
(* pages (features/profile).  Each reads its records from the query cache  *)
(* and sends what its user typed; they differ in when a form is filled,    *)
(* what it sends, when it may be sent again, what an answer does to the    *)
(* cache and when a dialog closes.  A policy says this of one form, and    *)
(* any of them may be the one on the screen.                               *)
(***************************************************************************)
EXTENDS Naturals, Sequences

CONSTANTS
    Records, Fields,
    MaxTexts,       \* bound: texts typed
    MaxPosts,       \* bound: requests a user sends
    MaxLosses,      \* bound: requests refused, answers lost, pages left, reads by themselves
    Nothing

VARIABLES
    policy,     \* how the form on the screen behaves
    records,    \* the server: the number of the text in each field
    copy,       \* the query cache
    reading,    \* the records being read again: how far, and what was read
    sheet,      \* the form: for which record, what is in it and what was typed for whom
    posts,      \* the requests, oldest first
    texts, losses,
    doubt       \* what the page shows may be old: an answer was lost, or answers crossed

forms == <<policy, records, copy, reading, sheet, posts, texts, losses, doubt>>

-----------------------------------------------------------------------------
(* The policies.  A form is filled when it opens, or starts blank, or is a *)
(* control that shows the cache itself.  It sends all it holds or only     *)
(* what was touched.  Its button waits for its own request ("form"), for   *)
(* any of the page's ("page"), or for none.  The answer has everything     *)
(* read again and is waited for ("reread") or not ("mark"), or is what the *)
(* cache holds from then on ("replace").  A dialog is closed by its own    *)
(* answer, by whichever comes, on the press, or never.                     *)
Policy(fills, sends, gate, after, closes) ==
    [fills |-> fills, sends |-> sends, gate |-> gate, after |-> after, closes |-> closes,
     keeps |-> FALSE, wipes |-> FALSE, refills |-> FALSE, restores |-> FALSE,
     keyed |-> FALSE]

Dialog == Policy("opening", "all", "form", "reread", "own")

ContentEditor      == [Dialog EXCEPT !.restores = TRUE]
RevisionHistory    == ContentEditor
EditAccessDialog   == Dialog
QuestionEditor     == [Dialog EXCEPT !.closes = "any"]
EditorForm         == QuestionEditor
VerbDialog         == Policy("opening", "all", "form", "mark", "any")
GrammarCreateView  == Policy("blank", "all", "form", "reread", "own")
PlanPricingDialog  == Policy("opening", "all", "form", "replace", "own")

\* Forms that are part of a page.
PageForm == Policy("opening", "all", "form", "replace", "never")
TemplateEditor     == PageForm
SettingsGroup      == PageForm
ProfileForm        == [PageForm EXCEPT !.refills = TRUE]
TaskEditor         == [PageForm EXCEPT !.after = "mark", !.keyed = TRUE]

\* Questions asked before a change: they are closed by the press that answers them.
Confirm == Policy("opening", "all", "page", "reread", "press")
RoleDialog         == Confirm
ContentStatus      == Confirm
TopicStatus        == Confirm
ActivateConfig     == Confirm
RemoveStaff        == Confirm
SuspendOne         == Confirm
RevokeOthers       == [Confirm EXCEPT !.after = "replace"]

(* Dialogs that stay mounted keep what was typed into them when they are   *)
(* closed; some are wiped a moment after Escape, never after Cancel.       *)
Kept == [Policy("blank", "all", "page", "reread", "any") EXCEPT !.keeps = TRUE]
AddStaffDialog     == [Kept EXCEPT !.wipes = TRUE]
ResetStaffPassword == [Kept EXCEPT !.wipes = TRUE]
SuspendDialog      == [Kept EXCEPT !.closes = "press"]
SetPasswordDialog  == Policy("blank", "all", "page", "mark", "any")
ChangePasswordDialog == SetPasswordDialog

\* Controls: the cache is what they show.
Control(sends, gate, after) == Policy("never", sends, gate, after, "never")
StaffRole          == Control("typed", "page", "reread")
Reactivate         == StaffRole
QuestionStatus     == StaffRole
VerbStatus         == Control("typed", "none", "mark")
WallpaperLibrary   == Control("typed", "none", "replace")
WallpaperCard      == WallpaperLibrary
WallpaperPicker    == WallpaperLibrary
AvatarUploader     == WallpaperLibrary
General            == Control("typed", "page", "replace")
Language           == General
Appearance         == General
Sidebar            == General
Sessions           == General
LanguageSettings   == General
NotificationSettings == Control("all", "page", "replace")
Alerts             == NotificationSettings
AccessibilitySection == NotificationSettings

Policies ==
    {ContentEditor, RevisionHistory, EditAccessDialog, QuestionEditor, EditorForm, VerbDialog,
     GrammarCreateView, PlanPricingDialog, TemplateEditor, SettingsGroup, ProfileForm, TaskEditor,
     RoleDialog, ContentStatus, TopicStatus, ActivateConfig, RemoveStaff, SuspendOne, RevokeOthers,
     AddStaffDialog, ResetStaffPassword, SuspendDialog, SetPasswordDialog, ChangePasswordDialog,
     StaffRole, Reactivate, QuestionStatus, VerbStatus, WallpaperLibrary, WallpaperCard, WallpaperPicker,
     AvatarUploader, General, Language, Appearance, Sidebar, Sessions, LanguageSettings,
     NotificationSettings, Alerts, AccessibilitySection}

-----------------------------------------------------------------------------
NoText == [f \in Fields |-> 0]
Shut == [row |-> Nothing, draft |-> NoText, typed |-> {}, sure |-> FALSE, wiping |-> FALSE]

Idle == [at |-> "no", what |-> Nothing, old |-> FALSE]
Asked == [Idle EXCEPT !.at = "asked"]

FormsInit ==
    /\ policy \in Policies
    /\ records = [r \in Records |-> NoText] /\ copy = records
    /\ reading = Idle /\ sheet = Shut /\ posts = <<>>
    /\ texts = 0 /\ losses = 0 /\ doubt = FALSE

Loss == losses < MaxLosses /\ losses' = losses + 1

Server == UNCHANGED <<policy, records>>
Screen == UNCHANGED <<policy, sheet, texts>>

InFlight(p) == p.at # "over"
Quiet == \A i \in DOMAIN posts : ~InFlight(posts[i])

\* The button waits, and shows that it does.
Waits ==
    \E i \in DOMAIN posts :
        /\ InFlight(posts[i])
        /\ \/ policy.gate = "form" /\ posts[i].heard = "form"
           \/ policy.gate = "page" /\ posts[i].heard # "no"

-----------------------------------------------------------------------------
(* The form.                                                               *)
Open(r) ==
    /\ policy.fills # "never" /\ sheet.row = Nothing
    /\ sheet' = [sheet EXCEPT !.row = r, !.sure = Quiet /\ ~doubt,
                               !.draft = IF policy.fills = "opening" THEN copy[r] ELSE @]
    /\ Server /\ UNCHANGED <<copy, reading, posts, texts, losses, doubt>>

Type(f) ==
    /\ sheet.row # Nothing /\ texts < MaxTexts /\ texts' = texts + 1
    /\ sheet' = [sheet EXCEPT !.draft[f] = texts', !.typed = @ \cup {<<sheet.row, f>>}]
    /\ Server /\ UNCHANGED <<copy, reading, posts, losses, doubt>>

\* A form that is closed is gone, and so is what was in it, but for some.
Closed == IF policy.keeps THEN [sheet EXCEPT !.row = Nothing] ELSE Shut
Unheard(ps) ==
    IF policy.keeps THEN ps
    ELSE [i \in DOMAIN ps |-> [ps[i] EXCEPT !.heard = IF @ = "form" THEN "page" ELSE @]]

Close ==
    /\ sheet.row # Nothing
    /\ \E wiping \in IF policy.wipes THEN BOOLEAN ELSE {FALSE} : sheet' = [Closed EXCEPT !.wiping = @ \/ wiping]
    /\ posts' = Unheard(posts)
    /\ Server /\ UNCHANGED <<copy, reading, texts, losses, doubt>>

\* It may be open again by then.
Wipe ==
    /\ sheet.wiping
    /\ sheet' = [Shut EXCEPT !.row = sheet.row, !.sure = sheet.sure]
    /\ Server /\ UNCHANGED <<copy, reading, posts, texts, losses, doubt>>

Post(r, input, typed, sure) ==
    [row |-> r, input |-> input, typed |-> typed, sure |-> sure, at |-> "sent", heard |-> "form",
     answer |-> Nothing, crossed |-> ~Quiet]

Send(p) ==
    /\ Len(posts) < MaxPosts
    /\ posts' = Append([i \in DOMAIN posts |-> [posts[i] EXCEPT !.crossed = @ \/ InFlight(posts[i])]], p)

Press ==
    /\ sheet.row # Nothing /\ ~Waits
    /\ policy.fills = "blank" => \A f \in Fields : sheet.draft[f] # 0
    /\ LET all == [f \in Fields |-> sheet.draft[f]]
           own == [f \in {g \in Fields : <<sheet.row, g>> \in sheet.typed} |-> sheet.draft[f]]
           p == Post(sheet.row, IF policy.sends = "all" THEN all ELSE own, sheet.typed, sheet.sure)
       IN  IF policy.closes = "press"
           THEN Send([p EXCEPT !.heard = "page"]) /\ sheet' = Shut
           ELSE Send(p) /\ UNCHANGED sheet
    /\ Server /\ UNCHANGED <<copy, reading, texts, losses, doubt>>

\* A control is switched over: what goes with it is what the page shows.
Flip(r, f) ==
    /\ policy.fills = "never" /\ ~Waits
    /\ LET over == IF copy[r][f] = 0 THEN 1 ELSE 0
       IN  Send(Post(r, IF policy.sends = "all" THEN [copy[r] EXCEPT ![f] = over] ELSE [g \in {f} |-> over],
                     {<<r, f>>}, Quiet /\ ~doubt))
    /\ Server /\ UNCHANGED <<copy, reading, sheet, texts, losses, doubt>>

\* An older version is put back, whatever the form holds.
Restore ==
    /\ policy.restores /\ sheet.row # Nothing /\ ~Waits
    /\ Send([Post(sheet.row, NoText, {sheet.row} \X Fields, sheet.sure) EXCEPT !.heard = "page"])
    /\ Server /\ UNCHANGED <<copy, reading, sheet, texts, losses, doubt>>

\* The page is left and come back to.
Turn ==
    /\ \E i \in DOMAIN posts : InFlight(posts[i]) /\ posts[i].heard # "no"
    /\ sheet' = Shut /\ posts' = [i \in DOMAIN posts |-> [posts[i] EXCEPT !.heard = "no"]]
    /\ Loss /\ Server /\ UNCHANGED <<copy, reading, texts, doubt>>

-----------------------------------------------------------------------------
(* The requests, which may pass one another.                               *)
Over == [row |-> Nothing, input |-> Nothing, typed |-> {}, sure |-> FALSE, at |-> "over", heard |-> "no",
         answer |-> Nothing, crossed |-> FALSE]

Serve(i) ==
    /\ posts[i].at = "sent"
    /\ records' = [records EXCEPT ![posts[i].row] =
                     [f \in Fields |-> IF f \in DOMAIN posts[i].input THEN posts[i].input[f] ELSE @[f]]]
    /\ posts' = [posts EXCEPT ![i].at = "served",
                   ![i].answer = IF policy.after = "replace" THEN records' ELSE Nothing]
    /\ Screen /\ UNCHANGED <<copy, reading, losses, doubt>>

\* What a read under way will show may be old, too.
Doubt == doubt' = TRUE /\ reading' = [reading EXCEPT !.old = reading.at # "no"]

\* The form stays as it is; a change whose answer is lost is not read again.
Fail(i) ==
    /\ posts[i].at \in {"sent", "served"} /\ Loss
    /\ posts' = [posts EXCEPT ![i] = Over]
    /\ IF posts[i].at = "served" THEN Doubt ELSE UNCHANGED <<reading, doubt>>
    /\ Screen /\ UNCHANGED <<records, copy>>

(* The requests of I are over and the form is told.  It closes, or is      *)
(* filled with what was saved: what was typed since goes with it.          *)
Told(I, ps) ==
    LET closes == \E i \in I : <<policy.closes, ps[i].heard>> \in
                    {<<"own", "form">>, <<"any", "form">>, <<"any", "page">>}
        over == [i \in DOMAIN ps |-> IF i \in I THEN Over ELSE ps[i]]
    IN  CASE closes /\ sheet.row # Nothing -> sheet' = Closed /\ posts' = Unheard(over)
          [] policy.refills /\ sheet.row # Nothing /\ \E i \in I : ps[i].heard = "form" ->
               /\ sheet' = [sheet EXCEPT !.draft = copy'[sheet.row], !.typed = {}]
               /\ posts' = over
          [] OTHER -> posts' = over /\ UNCHANGED sheet

\* Whoever waits for a read is told when it ends, or when another takes its place.
Waiting == {i \in DOMAIN posts : posts[i].at = "rereads"}

ReadOn ==               \* mutant: a read under way is taken for the one that is asked for
    /\ reading' = (IF reading.at = "no" THEN Asked ELSE reading) /\ UNCHANGED doubt

\* What is invalidated is read again: a read under way is not good enough.
Invalidate ==
    /\ reading' = Asked /\ UNCHANGED doubt

ReplaceWith(i) ==
    /\ copy' = posts[i].answer
    /\ IF posts[i].crossed \/ reading.at # "no" THEN Doubt ELSE UNCHANGED <<reading, doubt>>
    /\ Told({i}, posts)

CloseAtOnce(i) ==       \* mutant: the form is closed before its records have been read again
    /\ posts[i].at = "served"
    /\ IF policy.after = "replace" THEN ReplaceWith(i)
       ELSE Invalidate /\ UNCHANGED copy /\ Told(Waiting \cup {i}, posts)
    /\ UNCHANGED <<policy, records, texts, losses>>

Answer(i) ==
    /\ posts[i].at = "served"
    /\ CASE policy.after = "replace" -> ReplaceWith(i)
         [] policy.after = "mark" -> Invalidate /\ UNCHANGED copy /\ Told({i}, posts)
         [] policy.after = "reread" ->
              Invalidate /\ UNCHANGED copy /\ Told(Waiting, [posts EXCEPT ![i].at = "rereads"])
    /\ UNCHANGED <<policy, records, texts, losses>>

-----------------------------------------------------------------------------
(* The records are read when the page is opened, unless they are fresh.    *)
Look ==
    /\ reading.at = "no" /\ Loss
    /\ Invalidate
    /\ Screen /\ UNCHANGED <<records, copy, posts>>

Read ==
    /\ reading.at = "asked" /\ reading' = [reading EXCEPT !.at = "read", !.what = records]
    /\ Screen /\ UNCHANGED <<records, copy, posts, losses, doubt>>

\* A form that is keyed by some of its record's fields is made anew, and filled
\* again, when a read changes those.
Remade ==
    /\ policy.keyed /\ sheet.row # Nothing /\ copy'[sheet.row] # copy[sheet.row]
    /\ sheet' = [sheet EXCEPT !.draft = copy'[sheet.row], !.typed = {}, !.sure = Quiet /\ ~doubt']
    /\ posts' = Unheard(posts)

Arrive ==
    /\ reading.at = "read"
    /\ copy' = reading.what /\ doubt' = reading.old /\ reading' = Idle /\ (Told(Waiting, posts) \/ Remade)
    /\ UNCHANGED <<policy, records, texts, losses>>

ReadFails ==
    /\ reading.at # "no" /\ Loss
    /\ reading' = Idle /\ doubt' = TRUE /\ UNCHANGED copy /\ Told(Waiting, posts)
    /\ UNCHANGED <<policy, records, texts>>

-----------------------------------------------------------------------------
FormsNext ==
    \/ \E r \in Records : Open(r) \/ \E f \in Fields : Flip(r, f)
    \/ \E f \in Fields : Type(f)
    \/ Close \/ Wipe \/ Press \/ Restore \/ Turn
    \/ \E i \in DOMAIN posts : Serve(i) \/ Fail(i) \/ Answer(i)
    \/ Look \/ Read \/ Arrive \/ ReadFails

FormsSpec == FormsInit /\ [][FormsNext]_forms

-----------------------------------------------------------------------------
(* A field of a record changes only when somebody typed into it for that   *)
(* record, though a form sends all its fields: no save puts an old text    *)
(* back.  This is promised to a form that was opened, and whose request    *)
(* was sent and served, while no other was under way, where the records    *)
(* are read, or replaced, before it closes; a form that keeps its draft,   *)
(* or lets a version be restored behind it, does not keep the promise.     *)
Careful == policy.after # "mark" /\ ~policy.keeps /\ ~policy.restores

OnlyWhatWasTyped ==
    [][ \A i \in DOMAIN posts :
            (Careful /\ posts[i].at = "sent" /\ posts'[i].at = "served"
             /\ posts[i].sure /\ ~posts[i].crossed) =>
                \A r \in Records, f \in Fields :
                    records'[r][f] # records[r][f] => <<r, f>> \in posts[i].typed ]_forms

(* When nothing is under way the page shows what is stored, unless an      *)
(* answer was lost, or a read or another answer crossed one that is put    *)
(* into the cache as it comes.                                             *)
QuietMeansShown == Quiet /\ reading.at = "no" /\ ~doubt => copy = records
=============================================================================
