----------------------------- MODULE AgentRelay -----------------------------
(* The relay that carries the Agent API to an MCP client, and the pages that    *)
(* link to it: the relay's state and handlers (mcp-relay-server.ts), the         *)
(* page's link with its retries (agent-api-relay-link.ts), and between them the  *)
(* WebSockets, whose messages arrive in order, late, or not at all.             *)
(*                                                                           *)
(* The relay is one thread: a callback runs to its end, then the promises it     *)
(* settled go on, one by one (Resume), before the next callback. Frames that     *)
(* came in one chunk are handled by one callback.                             *)
(*                                                                           *)
(* A tool call is a member of Calls, asked at most once; its name, arguments     *)
(* and the text of the answers are left out. So are the handshake, the framing   *)
(* and the key itself: a link here presents the right key or is not seen.       *)
EXTENDS Naturals, SequencesExt, FiniteSets

CONSTANTS
    Calls,          \* bound: the tools/call requests of the MCP client
    Scenarios,      \* what the client may ask for: the kind of each call, and
                    \* how many of the WebSockets were opened and closed before
    Tabs,           \* the pages the person opens at the relay's address
    MaxLinks,       \* bound: the WebSockets opened, in all
    MaxTries,       \* the length of RECONNECT_DELAYS_MS
    MaxNotices,     \* bound: the change notices the pages send, in all
    NoCall,         \* no call: the origin of what no call caused
    NoFile,         \* nothing under that name
    OtherFile       \* what another program put there

Links  == 1 .. MaxLinks
NoPage == 0             \* state.page is null; no link

CallKinds == {"plain", "watch", "look", "save", "replace"}

ASSUME ScenariosAssumption ==
    Scenarios \subseteq [kinds : [Calls -> CallKinds], spent : 0 .. MaxLinks]

ASSUME BoundsAssumption ==
    /\ MaxTries \in Nat \ {0}
    /\ MaxNotices \in Nat
    /\ MaxLinks \in Nat

ASSUME NamesAssumption ==
    NoCall \notin Calls /\ NoFile \notin Calls /\ OtherFile \notin Calls

VARIABLES
    (* the relay *)
    running,         \* startMcpRelay has returned and close was not called
    page,            \* state.page
    nextPageCallId,  \* state.nextPageCallId
    watchSubscribed, \* state.watchSubscribed
    notices,         \* state.notices
    calls,           \* each call, as its promise chain stands
    reading,         \* the link whose chunk is being handled, or NoPage
    (* the links and the pages *)
    links,           \* each WebSocket at both ends, and what is under way
    tabs,            \* RelayLinkState of each page
    work,            \* the calls the pages have taken and not answered
    files,           \* the save folder: the name saved under, and its .bak
    (* history variables *)
    sent,            \* the change notices sent so far
    taken,           \* the notices that reached the relay
    dropped,         \* those thrown away with their page
    carried,         \* the calls a page has carried out
    saved,           \* what was put under the name last, and before that
    crossed          \* did two writers of the name ever overlap?

relayVars == <<running, page, nextPageCallId, watchSubscribed, notices, calls, reading>>
pageVars  == <<links, tabs, work>>
fileVars  == <<files, saved, crossed>>
ghosts    == <<sent, taken, dropped, carried>>
vars      == <<relayVars, pageVars, fileVars, ghosts>>

-----------------------------------------------------------------------------
(* Values *)

(* The stages of a call: "judging" and "judgingAgain" await the file system,    *)
(* "atPage" is registered in pageCalls, "waiting" in noticeWaiters; "replied"    *)
(* and "woken" have a promise settled and go on in this turn. A canceled call     *)
(* taken off the register awaits a promise nobody settles: it has "ended".      *)
Stages == {"unasked", "judging", "atPage", "replied", "waiting", "woken",
           "judgingAgain", "writing", "backingUp", "renaming", "ended"}

Replies  == {"none", "ok", "refused", "dropped", "timedOut"}
Endings  == {"none", "page", "relay", "canceled"}
Contents == Calls \cup {NoFile, OtherFile}

CallRecords ==
    [kind : CallKinds, stage : Stages, id : Nat, on : Links \cup {NoPage}, reply : Replies,
     of : Calls \cup {NoCall}, exists : BOOLEAN, got : Seq(Nat), end : Endings]

Unasked(kind) == [kind |-> kind, stage |-> "unasked", id |-> 0, on |-> NoPage, reply |-> "none",
                  of |-> NoCall, exists |-> FALSE, got |-> <<>>, end |-> "none"]

IsWatch(c) == calls[c].kind \in {"watch", "look"}
IsSave(c)  == calls[c].kind \in {"save", "replace"}

(* A link is opened by one page. At the relay it is first "accepted", then       *)
(* "linked" when its key was taken, whether as the page or to be closed. It is    *)
(* watched while the page's watch of the relay is called back on it.           *)
Messages == [what : {"key", "notice", "close", "request", "answer"},
             id : Nat, of : Calls \cup {NoCall}, reply : Replies]

Message(what, id, of, reply) == [what |-> what, id |-> id, of |-> of, reply |-> reply]

Key              == Message("key", 0, NoCall, "none")
Closing          == Message("close", 0, NoCall, "none")
Refusing         == Message("close", 1008, NoCall, "none")
Request(id, c)   == Message("request", id, c, "none")
Answer(id, c, r) == Message("answer", id, c, r)
Notice(n)        == Message("notice", n, NoCall, "none")

UnusedLink == [atPage |-> "unused", atRelay |-> "none", watched |-> FALSE,
               toPage |-> <<>>, toRelay |-> <<>>]

(* The link as its page leaves it when it closes, and as the relay does. *)
ClosedAtPage(link)  == [link EXCEPT !.atPage = "closed", !.watched = FALSE, !.toPage = <<>>]
ClosedAtRelay(link) == [link EXCEPT !.atRelay = "closed", !.toRelay = <<>>]

(* RelayLinkState; `on` is the enabling of the Agent API. *)
IdleTab == [on |-> FALSE, socket |-> NoPage, connecting |-> FALSE, hasEnded |-> FALSE,
            isRetrying |-> FALSE, triesMade |-> 0, pendingTry |-> FALSE]

(* Is the relay between two callbacks? *)
IsReady(c) == calls[c].stage \in {"replied", "woken"}
Idle == \A c \in Calls : ~IsReady(c)

-----------------------------------------------------------------------------
(* Calls and their promises *)

(* The word for the caller, unless it has canceled: the race is then over. *)
EndedBy(record, how) ==
    [Unasked(record.kind) EXCEPT !.stage = "ended", !.got = record.got,
                                 !.end = IF record.end = "none" THEN how ELSE record.end]

Woken(record) == IF record.stage = "waiting" THEN [record EXCEPT !.stage = "woken"] ELSE record

Becomes(c, record) == calls' = [calls EXCEPT ![c] = record]

(* sendText: a link being closed takes nothing more. *)
Sent(l, message) ==
    IF links[l].atRelay = "linked" /\ links[l].atPage = "open"
    THEN [links EXCEPT ![l].toPage = Append(@, message)]
    ELSE links

(* pageReplyOf with a page: the call is registered, then sent. A call canceled  *)
(* before is sent all the same, and taken off the register at once.            *)
AsksPage(c, record) ==
    /\ Becomes(c, IF record.end = "canceled" THEN EndedBy(record, "canceled")
                  ELSE [record EXCEPT !.stage = "atPage", !.id = nextPageCallId])
    /\ nextPageCallId' = nextPageCallId + 1
    /\ links' = Sent(page, Request(nextPageCallId, c))

(* noticeOrTimeout, or the notices at once: they go to the call that takes them. *)
TakesNotices(c, record) ==
    /\ Becomes(c, EndedBy([record EXCEPT !.got = notices], "relay"))
    /\ notices' = <<>>

GoesOnWatching(c, record) ==
    IF notices = <<>> /\ record.kind = "watch"
    THEN Becomes(c, [record EXCEPT !.stage = "waiting"]) /\ UNCHANGED notices
    ELSE TakesNotices(c, record)

(* toolCallReplyOf, up to the first await of the call. *)
Asked(c) == [calls[c] EXCEPT !.on = page]

AskPlain(c) ==
    /\ IF page = NoPage
       THEN Becomes(c, EndedBy(Asked(c), "relay")) /\ UNCHANGED <<nextPageCallId, links>>
       ELSE AsksPage(c, Asked(c))
    /\ UNCHANGED <<watchSubscribed, notices>>

AskWatch(c) ==
    \/ /\ page = NoPage
       /\ Becomes(c, EndedBy(Asked(c), "relay"))
       /\ UNCHANGED <<nextPageCallId, links, watchSubscribed, notices>>
    \/ /\ page # NoPage /\ ~watchSubscribed
       /\ watchSubscribed' = TRUE
       /\ AsksPage(c, Asked(c))
       /\ UNCHANGED notices
    \/ /\ page # NoPage /\ watchSubscribed
       /\ GoesOnWatching(c, Asked(c))
       /\ UNCHANGED <<nextPageCallId, links, watchSubscribed>>

AskSave(c) ==
    /\ Becomes(c, [Asked(c) EXCEPT !.stage = "judging"])
    /\ UNCHANGED <<nextPageCallId, links, watchSubscribed, notices>>

Ask(c) ==
    /\ running /\ calls[c].stage = "unasked"
    /\ \/ ~IsWatch(c) /\ ~IsSave(c) /\ AskPlain(c)
       \/ IsWatch(c) /\ AskWatch(c)
       \/ IsSave(c) /\ AskSave(c)
    /\ UNCHANGED <<running, page, reading, tabs, work, fileVars, ghosts>>

CancelButWait(c) ==                     \* mutant: the wait of a canceled call goes on
    /\ running
    /\ calls[c].stage \notin {"unasked", "ended"} /\ calls[c].end = "none"
    /\ Becomes(c, IF calls[c].stage = "atPage" THEN EndedBy(calls[c], "canceled")
                  ELSE [calls[c] EXCEPT !.end = "canceled"])
    /\ UNCHANGED <<running, page, nextPageCallId, watchSubscribed, notices, reading,
                   pageVars, fileVars, ghosts>>

(* handleMcpNotification: only a call not answered yet can be canceled. What it *)
(* has asked of the page, or of the file system, is not taken back.            *)
CancelCall(c) ==
    /\ running
    /\ calls[c].stage \notin {"unasked", "ended"} /\ calls[c].end = "none"
    /\ Becomes(c, IF calls[c].stage = "atPage" THEN EndedBy(calls[c], "canceled")
                  ELSE [Woken(calls[c]) EXCEPT !.end = "canceled"])
    /\ UNCHANGED <<running, page, nextPageCallId, watchSubscribed, notices, reading,
                   pageVars, fileVars, ghosts>>

(* The deadline takes the call off the register: a late answer finds no one. *)
Deadline(c) ==
    /\ calls[c].stage = "atPage"
    /\ Becomes(c, [calls[c] EXCEPT !.stage = "replied", !.reply = "timedOut"])
    /\ UNCHANGED <<running, page, nextPageCallId, watchSubscribed, notices, reading,
                   pageVars, fileVars, ghosts>>

WaitRunsOut(c) ==
    /\ calls[c].stage = "waiting"
    /\ Becomes(c, [calls[c] EXCEPT !.stage = "woken"])
    /\ UNCHANGED <<running, page, nextPageCallId, watchSubscribed, notices, reading,
                   pageVars, fileVars, ghosts>>

(* What follows the await, in the turn that settled its promise. *)
Told(record) == EndedBy(record, IF record.reply \in {"ok", "refused"} THEN "page" ELSE "relay")

ResumePlain(c) ==
    /\ calls[c].stage = "replied" /\ calls[c].kind = "plain"
    /\ Becomes(c, Told(calls[c]))
    /\ UNCHANGED <<watchSubscribed, notices>>

(* saveResultOf: a value of the page goes on to the folder. *)
ResumeSave(c) ==
    /\ calls[c].stage = "replied" /\ IsSave(c)
    /\ Becomes(c, IF calls[c].reply = "ok" THEN [calls[c] EXCEPT !.stage = "judgingAgain"]
                  ELSE Told(calls[c]))
    /\ UNCHANGED <<watchSubscribed, notices>>

(* watchResultOf, after the subscription. *)
ResumeSubscription(c) ==
    /\ calls[c].stage = "replied" /\ IsWatch(c)
    /\ \/ /\ page # calls[c].on
          /\ Becomes(c, EndedBy(calls[c], "relay"))
          /\ UNCHANGED <<watchSubscribed, notices>>
       \/ /\ page = calls[c].on /\ calls[c].reply # "ok"
          /\ watchSubscribed' = FALSE
          /\ Becomes(c, Told(calls[c]))
          /\ UNCHANGED notices
       \/ /\ page = calls[c].on /\ calls[c].reply = "ok"
          /\ GoesOnWatching(c, calls[c])
          /\ UNCHANGED watchSubscribed

(* watchResultOf, after the wait. *)
ResumeWatch(c) ==
    /\ calls[c].stage = "woken"
    /\ IF page # calls[c].on
       THEN Becomes(c, EndedBy(calls[c], "relay")) /\ UNCHANGED notices
       ELSE TakesNotices(c, calls[c])
    /\ UNCHANGED watchSubscribed

Resume(c) ==
    /\ ResumePlain(c) \/ ResumeSave(c) \/ ResumeSubscription(c) \/ ResumeWatch(c)
    /\ reading' = NoPage
    /\ UNCHANGED <<running, page, nextPageCallId, pageVars, fileVars, ghosts>>

-----------------------------------------------------------------------------
(* Saving an export into the folder (saveResultOf, writeSaveTarget) *)

SaveFails(c) == Becomes(c, EndedBy(calls[c], "relay")) /\ UNCHANGED fileVars

MayReplace(c) == calls[c].kind = "replace"

(* The first judgement, before the page is asked. *)
Judge(c) ==
    /\ calls[c].stage = "judging"
    /\ \/ /\ SaveFails(c)
          /\ UNCHANGED <<nextPageCallId, links>>
       \/ /\ files.name = NoFile \/ MayReplace(c)
          /\ IF page = NoPage
             THEN Becomes(c, EndedBy(calls[c], "relay")) /\ UNCHANGED <<nextPageCallId, links>>
             ELSE AsksPage(c, calls[c])
          /\ UNCHANGED fileVars
    /\ UNCHANGED <<running, page, watchSubscribed, notices, reading, tabs, work, ghosts>>

Writers == {c \in Calls : calls[c].stage \in {"writing", "backingUp", "renaming"}}

JudgedOnce(c) ==                        \* mutant: the first judgement is believed
    /\ calls[c].stage = "judgingAgain"
    /\ Becomes(c, [calls[c] EXCEPT !.stage = "writing",
                                   !.exists = MayReplace(c) /\ files.name # NoFile])
    /\ crossed' = (crossed \/ Writers # {})
    /\ UNCHANGED <<files, saved>>

(* The second, after it answered: it settles whether there is a file to keep. *)
JudgeAgain(c) ==
    /\ calls[c].stage = "judgingAgain"
    /\ \/ SaveFails(c)
       \/ /\ files.name = NoFile \/ MayReplace(c)
          /\ Becomes(c, [calls[c] EXCEPT !.stage = "writing", !.exists = files.name # NoFile])
          /\ crossed' = (crossed \/ Writers # {})
          /\ UNCHANGED <<files, saved>>

(* The temporary file, under a name of its own. *)
WriteTemporary(c) ==
    /\ calls[c].stage = "writing"
    /\ \/ SaveFails(c)
       \/ /\ Becomes(c, [calls[c] EXCEPT !.stage = IF calls[c].exists THEN "backingUp" ELSE "renaming"])
          /\ UNCHANGED fileVars

BackUp(c) ==
    /\ calls[c].stage = "backingUp"
    /\ \/ SaveFails(c)
       \/ /\ files.name # NoFile
          /\ files' = [name |-> NoFile, bak |-> files.name]
          /\ Becomes(c, [calls[c] EXCEPT !.stage = "renaming"])
          /\ UNCHANGED <<saved, crossed>>

Rename(c) ==
    /\ calls[c].stage = "renaming"
    /\ \/ SaveFails(c)
       \/ /\ files' = [files EXCEPT !.name = c]
          /\ saved' = [latest |-> c, before |-> saved.latest]
          /\ Becomes(c, EndedBy(calls[c], "page"))
          /\ UNCHANGED crossed

SaveStep(c) ==
    /\ JudgeAgain(c) \/ WriteTemporary(c) \/ BackUp(c) \/ Rename(c)
    /\ UNCHANGED <<running, page, nextPageCallId, watchSubscribed, notices, reading, pageVars, ghosts>>

(* Another program puts a file under the name, once. Only a save would see it. *)
FileAppears ==
    /\ files.name = NoFile /\ \E c \in Calls : IsSave(c)
    /\ OtherFile \notin {files.bak, saved.latest, saved.before}
    /\ files' = [files EXCEPT !.name = OtherFile]
    /\ saved' = [latest |-> OtherFile, before |-> NoFile]
    /\ crossed' = (crossed \/ Writers # {})
    /\ UNCHANGED <<relayVars, pageVars, ghosts>>

-----------------------------------------------------------------------------
(* The relay's end of the links *)

(* dropPage: everything of the page goes, and every promise of it is settled. *)
DropsPage(l) ==
    IF page # l THEN UNCHANGED <<page, watchSubscribed, notices, calls, dropped>>
    ELSE /\ page' = NoPage
         /\ watchSubscribed' = FALSE
         /\ notices' = <<>>
         /\ dropped' = dropped \cup ToSet(notices)
         /\ calls' = [c \in Calls |->
                         IF calls[c].stage = "atPage"
                         THEN [calls[c] EXCEPT !.stage = "replied", !.reply = "dropped"]
                         ELSE Woken(calls[c])]

PresentKeyToAll(l) ==                   \* mutant: a second page takes the first one's place
    /\ links[l].atRelay = "accepted"
    /\ page' = l
    /\ links' = [links EXCEPT ![l].atRelay = "linked", ![l].toRelay = Tail(@)]
    /\ UNCHANGED <<watchSubscribed, notices, calls, taken>>

(* presentKey, of a right key: there is one page at a time. *)
PresentKey(l) ==
    /\ links[l].atRelay = "accepted"
    /\ IF page = NoPage
       THEN /\ page' = l
            /\ links' = [links EXCEPT ![l].atRelay = "linked", ![l].toRelay = Tail(@)]
       ELSE /\ links' = [links EXCEPT ![l].atRelay = "closing", ![l].toRelay = <<>>,
                                      ![l].toPage = Append(@, Refusing)]
            /\ UNCHANGED page
    /\ UNCHANGED <<watchSubscribed, notices, calls, taken>>

(* handlePageMessage *)
TakeNotice(l, message) ==
    /\ message.what = "notice"
    /\ notices' = Append(notices, message.id)
    /\ taken' = taken \cup {message.id}
    /\ calls' = [c \in Calls |-> Woken(calls[c])]
    /\ links' = [links EXCEPT ![l].toRelay = Tail(@)]
    /\ UNCHANGED <<page, watchSubscribed>>

AnsweredByAny(message) ==               \* mutant: whoever waits for the page
    {c \in Calls : calls[c].stage = "atPage"}

Answered(message) ==
    {c \in Calls : calls[c].stage = "atPage" /\ calls[c].id = message.id}

TakeAnswer(l, message) ==
    /\ message.what = "answer"
    /\ calls' = [c \in Calls |->
                    IF c \in Answered(message)
                    THEN [calls[c] EXCEPT !.stage = "replied", !.reply = message.reply, !.of = message.of]
                    ELSE calls[c]]
    /\ links' = [links EXCEPT ![l].toRelay = Tail(@)]
    /\ UNCHANGED <<page, watchSubscribed, notices, taken>>

(* handleControlFrame of a close frame: the frame goes back. *)
TakeClose(l, message) ==
    /\ message.what = "close"
    /\ links' = [links EXCEPT ![l].atRelay = "closing", ![l].toRelay = <<>>]
    /\ UNCHANGED <<page, watchSubscribed, notices, calls, taken>>

TakeMessage(l) ==
    /\ links[l].toRelay # <<>>
    /\ LET message == Head(links[l].toRelay)
       IN  \/ message.what = "key" /\ PresentKey(l)
           \/ page = l /\ (TakeNotice(l, message) \/ TakeAnswer(l, message))
           \/ TakeClose(l, message)
    /\ reading' = IF Idle' THEN NoPage ELSE l
    /\ UNCHANGED <<running, nextPageCallId, tabs, work, fileVars, sent, dropped, carried>>

(* The 'close' event of a socket, whatever ended it. *)
LinkEnds(l) ==
    /\ links[l].atRelay \in {"accepted", "linked", "closing"}
    /\ links' = [links EXCEPT ![l] = ClosedAtRelay(@)]
    /\ DropsPage(l)
    /\ UNCHANGED <<running, nextPageCallId, reading, tabs, work, fileVars, sent, taken, carried>>

(* closeRelay *)
CloseRelay ==
    /\ running
    /\ running' = FALSE
    /\ links' = [l \in Links |-> IF links[l].atRelay = "none" THEN links[l]
                                 ELSE ClosedAtRelay(links[l])]
    /\ DropsPage(page)
    /\ UNCHANGED <<nextPageCallId, reading, tabs, work, fileVars, sent, taken, carried>>

-----------------------------------------------------------------------------
(* The pages' end: the link and its retries *)

GivesUp(tab) == [tab EXCEPT !.hasEnded = TRUE]

(* tryRelayAgainLater *)
TriesAgainLater(tab) ==
    IF tab.triesMade < MaxTries
    THEN [tab EXCEPT !.triesMade = @ + 1, !.pendingTry = TRUE]
    ELSE GivesUp(tab)

(* relayLinkClosed *)
LinkClosedForOnce(tab, hasOpened, isRefused) == \* mutant: a try that failed is the last
    LET gone == [tab EXCEPT !.socket = NoPage, !.connecting = FALSE]
    IN  CASE hasOpened /\ ~isRefused -> TriesAgainLater([gone EXCEPT !.isRetrying = TRUE,
                                                                     !.triesMade = 0])
          [] hasOpened               -> GivesUp(gone)
          [] OTHER                   -> gone

LinkClosed(tab, hasOpened, isRefused) ==
    LET gone == [tab EXCEPT !.socket = NoPage, !.connecting = FALSE]
    IN  CASE hasOpened /\ ~isRefused -> TriesAgainLater([gone EXCEPT !.isRetrying = TRUE,
                                                                     !.triesMade = 0])
          [] gone.isRetrying         -> TriesAgainLater(gone)
          [] hasOpened               -> GivesUp(gone)
          [] OTHER                   -> gone

(* sendWhileOpen *)
SentBack(l, message) ==
    IF links[l].atPage = "open" /\ links[l].atRelay \in {"accepted", "linked"}
    THEN [links EXCEPT ![l].toRelay = Append(@, message)]
    ELSE links

(* What the page still works at for a closed link is answered to no one. *)
WorkLeft(l) == {task \in work : task.on # l}

(* The Agent API is enabled: the page opens its link (openAgentApiRelayLink). *)
Enable(t) ==
    /\ ~tabs[t].on
    /\ tabs' = [tabs EXCEPT ![t] = [IdleTab EXCEPT !.on = TRUE, !.connecting = TRUE]]
    /\ UNCHANGED <<relayVars, links, work, fileVars, ghosts>>

(* It is disabled, or the page is closed: closeRelayLink. *)
Disable(t) ==
    /\ tabs[t].on
    /\ tabs' = [tabs EXCEPT ![t] = IdleTab]
    /\ LET l == tabs[t].socket
       IN  IF l = NoPage THEN UNCHANGED <<links, work>>
           ELSE /\ links' = [SentBack(l, Closing) EXCEPT ![l] = ClosedAtPage(@)]
                /\ work' = WorkLeft(l)
    /\ UNCHANGED <<relayVars, fileVars, ghosts>>

(* connectRelayOnce: the socket opens and the key goes out, or it fails. *)
Connects(t, l) ==
    /\ tabs[t].connecting /\ running
    /\ links[l].atRelay = "none" /\ \A k \in 1 .. l - 1 : links[k].atRelay # "none"
    /\ tabs' = [tabs EXCEPT ![t].socket = l, ![t].connecting = FALSE]
    /\ links' = [links EXCEPT ![l] = [UnusedLink EXCEPT !.atPage = "open", !.atRelay = "accepted",
                                                        !.toRelay = <<Key>>]]
    /\ UNCHANGED <<relayVars, work, fileVars, ghosts>>

ConnectFails(t) ==
    /\ tabs[t].connecting
    /\ tabs' = [tabs EXCEPT ![t] = LinkClosed(@, FALSE, FALSE)]
    /\ UNCHANGED <<relayVars, links, work, fileVars, ghosts>>

TryAgain(t) ==
    /\ tabs[t].pendingTry
    /\ \/ tabs' = [tabs EXCEPT ![t] = [@ EXCEPT !.pendingTry = FALSE, !.connecting = TRUE]]
       \/ tabs' = [tabs EXCEPT ![t] = TriesAgainLater([@ EXCEPT !.pendingTry = FALSE])]
    /\ UNCHANGED <<relayVars, links, work, fileVars, ghosts>>

(* The 'close' event of the page's socket. *)
PageClosed(l, isRefused) ==
    /\ links' = [links EXCEPT ![l] = ClosedAtPage(@)]
    /\ tabs' = [t \in Tabs |-> IF tabs[t].socket = l THEN LinkClosed(tabs[t], TRUE, isRefused)
                                ELSE tabs[t]]
    /\ work' = WorkLeft(l)
    /\ UNCHANGED <<relayVars, fileVars, ghosts>>

LosesLink(l)  == links[l].atPage = "open" /\ PageClosed(l, FALSE)
SeesClosed(l) == links[l].atRelay \in {"closing", "closed"} /\ links[l].toPage = <<>> /\ LosesLink(l)

TakesClose(l) ==
    /\ links[l].atPage = "open" /\ links[l].toPage # <<>>
    /\ Head(links[l].toPage).what = "close"
    /\ PageClosed(l, Head(links[l].toPage) = Refusing)

(* answerRelayRequests: the member is called at once. A watch is answered in the   *)
(* same turn, and its notices come later; any other member in its own time.     *)
CarriesOut(l) ==
    /\ links[l].atPage = "open" /\ links[l].toPage # <<>>
    /\ LET request == Head(links[l].toPage)
           c       == request.of
       IN  /\ request.what = "request"
           /\ carried' = carried \cup {c}
           /\ \/ /\ IsWatch(c)
                 /\ links' = [SentBack(l, Answer(request.id, c, "ok")) EXCEPT
                                 ![l].toPage = Tail(@), ![l].watched = TRUE]
                 /\ UNCHANGED work
              \/ /\ ~IsWatch(c)
                 /\ links' = [links EXCEPT ![l].toPage = Tail(@)]
                 /\ work' = work \cup {[on |-> l, id |-> request.id, of |-> c]}
    /\ UNCHANGED <<relayVars, tabs, fileVars, sent, taken, dropped>>

Answers(task) ==
    /\ task \in work
    /\ \E reply \in {"ok", "refused"} : links' = SentBack(task.on, Answer(task.id, task.of, reply))
    /\ work' = work \ {task}
    /\ UNCHANGED <<relayVars, tabs, fileVars, ghosts>>

(* The watch of the relay is called back with a change. *)
SendsNotice(l) ==
    /\ sent < MaxNotices
    /\ links[l].watched
    /\ sent' = sent + 1
    /\ links' = SentBack(l, Notice(sent + 1))
    /\ UNCHANGED <<relayVars, tabs, work, fileVars, taken, dropped, carried>>

-----------------------------------------------------------------------------
Init ==
    /\ running = TRUE
    /\ page = NoPage
    /\ nextPageCallId = 1
    /\ watchSubscribed = FALSE
    /\ notices = <<>>
    /\ \E scenario \in Scenarios :
           /\ calls = [c \in Calls |-> Unasked(scenario.kinds[c])]
           /\ links = [l \in Links |-> IF l <= scenario.spent
                                      THEN ClosedAtRelay(ClosedAtPage(UnusedLink)) ELSE UnusedLink]
    /\ reading = NoPage
    /\ tabs = [t \in Tabs |-> IdleTab]
    /\ work = {}
    /\ files = [name |-> NoFile, bak |-> NoFile]
    /\ saved = [latest |-> NoFile, before |-> NoFile]
    /\ crossed = FALSE
    /\ sent = 0
    /\ taken = {} /\ dropped = {} /\ carried = {}

TimerFires(c) == Idle /\ (Deadline(c) \/ WaitRunsOut(c))
FileStep(c)   == Idle /\ (Judge(c) \/ SaveStep(c))
Reads(l)      == (Idle \/ reading = l) /\ TakeMessage(l)

RelayNext ==
    \/ \E c \in Calls : \/ Idle /\ (Ask(c) \/ CancelCall(c))
                       \/ TimerFires(c) \/ FileStep(c) \/ Resume(c)
    \/ \E l \in Links : Reads(l) \/ (Idle /\ LinkEnds(l))
    \/ Idle /\ CloseRelay

(* The page's steps neither read nor write what a turn of the relay leaves half  *)
(* done, so they come between its turns.                                       *)
PageReads(l) == Idle /\ (TakesClose(l) \/ CarriesOut(l) \/ SeesClosed(l))
PageTries(t) == Idle /\ ((\E l \in Links : Connects(t, l)) \/ ConnectFails(t) \/ TryAgain(t))

PageNext ==
    \/ \E t \in Tabs : PageTries(t) \/ (Idle /\ (Enable(t) \/ Disable(t)))
    \/ \E l \in Links : PageReads(l) \/ (Idle /\ (LosesLink(l) \/ SendsNotice(l)))
    \/ Idle /\ \E task \in work : Answers(task)

Next == RelayNext \/ PageNext \/ (Idle /\ FileAppears)

Spec == Init /\ [][Next]_vars

(* The relay's event loop goes on: promises, timers, what the file system answers *)
(* and what reached its sockets. So does each page's, and a socket closed at the  *)
(* relay closes at the page. Nothing makes the page answer, the caller call, a    *)
(* link stay up, or the relay see that a link is gone.                         *)
RelayGoesOn ==
    \/ \E c \in Calls : TimerFires(c) \/ FileStep(c) \/ Resume(c)
    \/ \E l \in Links : Reads(l)

Fairness ==
    /\ WF_vars(RelayGoesOn)
    /\ WF_vars(\E l \in Links : PageReads(l))
    /\ \A t \in Tabs : WF_vars(PageTries(t))

FairSpec == Spec /\ Fairness

-----------------------------------------------------------------------------
(* Properties *)

LinkRecords ==
    [atPage : {"unused", "open", "closed"},
     atRelay : {"none", "accepted", "linked", "closing", "closed"}, watched : BOOLEAN,
     toPage : Seq(Messages), toRelay : Seq(Messages)]

TabRecords ==
    [on : BOOLEAN, socket : Links \cup {NoPage}, connecting : BOOLEAN, hasEnded : BOOLEAN,
     isRetrying : BOOLEAN, triesMade : 0 .. MaxTries, pendingTry : BOOLEAN]

(* The relay, the links and the pages keep their types; the page of the relay is  *)
(* the one link whose key it took, so no second one is ever linked (AG-12, 3).   *)
TypeOK ==
    /\ running \in BOOLEAN
    /\ nextPageCallId \in Nat
    /\ watchSubscribed \in BOOLEAN
    /\ notices \in Seq(1 .. MaxNotices)
    /\ calls \in [Calls -> CallRecords]
    /\ reading \in Links \cup {NoPage}
    /\ links \in [Links -> LinkRecords]
    /\ tabs \in [Tabs -> TabRecords]
    /\ \A task \in work : task.on \in Links /\ task.of \in Calls
    /\ files \in [name : Contents, bak : Contents]
    /\ saved \in [latest : Contents, before : Contents]
    /\ {page} \subseteq Links \cup {NoPage}
    /\ \A l \in Links : links[l].atRelay = "linked" => page = l

(* The answer a call took may be another one's: no step of the promise leads there. *)
StatusOf(c, record) ==
    CASE record.stage = "unasked"       -> "unasked"
      [] record.of \notin {c, NoCall}   -> "answeredForAnother"
      [] record.end = "page"            -> "answered"
      [] record.end = "relay"           -> "told"
      [] record.end = "canceled"        -> "canceled"
      [] OTHER                          -> "open"

Promise == INSTANCE RelayedCalls WITH status <- [c \in Calls |-> StatusOf(c, calls[c])]

(* Every call ends, once, and in the name of the page only after the page has     *)
(* carried it out, with the page's answer to that call and not to one that timed  *)
(* out, was canceled or was asked of an earlier page: through drops, deadlines,    *)
(* cancellations and saves (AG-12, 6).                                        *)
KeepsPromise == Promise!Spec

(* Every change that reached the relay is still held, was thrown away with its     *)
(* page, or is in an answer that goes out (AG-12, 5): no canceled, late or second  *)
(* watch call swallows one; and between turns a watch call waits only while there  *)
(* is nothing to tell, and only on the page now linked.                         *)
NoticesReachCaller ==
    /\ taken = ToSet(notices) \cup dropped
               \cup UNION {ToSet(calls[c].got) : c \in {d \in Calls : calls[d].end = "relay"}}
    /\ Idle => \A c \in Calls :
          calls[c].stage = "waiting" => notices = <<>> /\ calls[c].on = page

(* Unless another writer of the name came between, what was saved last stays whole *)
(* under its name or its .bak at every moment, so a relay that stops half way      *)
(* loses nothing, and a replaced file is kept as .bak (AG-12, 9).                *)
SavedFileStays ==
    \/ crossed
    \/ /\ saved.latest \in {files.name, files.bak, NoFile}
       /\ files.name = saved.latest /\ saved.before # NoFile => files.bak = saved.before

(* A page that lost its link is linked again, or given up and told.              *)
LinkSettles ==
    \A t \in Tabs :
        tabs[t].isRetrying /\ ~tabs[t].hasEnded
        ~> \/ ~tabs[t].on \/ tabs[t].hasEnded
           \/ page # NoPage /\ page = tabs[t].socket
=============================================================================
