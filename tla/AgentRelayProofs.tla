-------------------------- MODULE AgentRelayProofs --------------------------
(* What holds of AgentRelay for every set of calls and pages and every bound:  *)
(* its types, the notices, the saved file, and that it implements what         *)
(* RelayedCalls promises of each step.                                       *)
EXTENDS AgentRelay, TLAPS

-----------------------------------------------------------------------------
(* Sequences and their elements *)

LEMMA Elements ==
    ASSUME NEW S, NEW s \in Seq(S)
    PROVE  /\ \A e \in S : Append(s, e) \in Seq(S) /\ ToSet(Append(s, e)) = ToSet(s) \cup {e}
           /\ s # <<>> => /\ Head(s) \in S /\ Head(s) \in ToSet(s)
                          /\ Tail(s) \in Seq(S) /\ ToSet(Tail(s)) \subseteq ToSet(s)
           /\ ToSet(s) \subseteq S
<1>1. ASSUME NEW e \in S PROVE ToSet(Append(s, e)) = ToSet(s) \cup {e}
  <2>1. /\ DOMAIN Append(s, e) = 1 .. Len(s) + 1 /\ DOMAIN s = 1 .. Len(s) /\ Len(s) \in Nat
        /\ \A i \in 1 .. Len(s) : Append(s, e)[i] = s[i]
        /\ Append(s, e)[Len(s) + 1] = e
    OBVIOUS
  <2>2. \A i \in 1 .. Len(s) + 1 : i = Len(s) + 1 \/ i \in 1 .. Len(s)
    BY <2>1
  <2>3. ToSet(Append(s, e)) \subseteq ToSet(s) \cup {e}
    BY <2>1, <2>2 DEF ToSet
  <2>4. ToSet(s) \cup {e} \subseteq ToSet(Append(s, e))
    BY <2>1 DEF ToSet
  <2> QED
    BY <2>3, <2>4
<1>2. ASSUME s # <<>> PROVE Head(s) \in ToSet(s) /\ ToSet(Tail(s)) \subseteq ToSet(s)
  <2>1. Len(s) \in Nat \ {0} /\ DOMAIN s = 1 .. Len(s) /\ Head(s) = s[1]
    BY <1>2
  <2>2. DOMAIN Tail(s) = 1 .. Len(s) - 1 /\ \A i \in 1 .. Len(s) - 1 : Tail(s)[i] = s[i + 1]
    BY <1>2
  <2>3. \A i \in 1 .. Len(s) - 1 : i + 1 \in 1 .. Len(s)
    BY <2>1
  <2> QED
    BY <2>1, <2>2, <2>3 DEF ToSet
<1>3. ToSet(s) \subseteq S
  BY DEF ToSet
<1>4. s # <<>> => Head(s) \in S /\ Tail(s) \in Seq(S)
  OBVIOUS
<1> QED
  BY <1>1, <1>2, <1>3, <1>4

LEMMA NoElements == ToSet(<<>>) = {}
BY DEF ToSet

LEMMA LargerSequences ==
    ASSUME NEW S, NEW T, S \subseteq T, NEW s \in Seq(S)
    PROVE  s \in Seq(T)
OBVIOUS

-----------------------------------------------------------------------------
(* Types *)

MayBePage == Links \cup {NoPage}

RelayTyped ==
    /\ running \in BOOLEAN /\ page \in MayBePage /\ nextPageCallId \in Nat
    /\ watchSubscribed \in BOOLEAN /\ notices \in Seq(1 .. MaxNotices)
    /\ reading \in MayBePage
CallsTyped == calls \in [Calls -> CallRecords]
LinksTyped == links \in [Links -> LinkRecords]
TabsTyped  == tabs \in [Tabs -> TabRecords]
WorkTyped  == work \subseteq [on : Links, id : Nat, of : Calls]
FilesTyped ==
    /\ files \in [name : Contents, bak : Contents]
    /\ saved \in [latest : Contents, before : Contents]
SentTyped  == sent \in 0 .. MaxNotices

(* The page of the relay is the one link whose key it took. *)
OneIsLinked == \A l \in Links : links[l].atRelay = "linked" => page = l

(* What can be under way: requests and closes to a page; keys, notices, closes  *)
(* and answers to the relay.                                                 *)
ToPage  == {m \in Messages : m.what = "close" \/ (m.what = "request" /\ m.of \in Calls)}
ToRelay ==
    {m \in Messages : \/ m.what \in {"key", "close"}
                      \/ m.what = "notice" /\ m.id \in 1 .. MaxNotices
                      \/ m.what = "answer" /\ m.of \in Calls /\ m.reply \in {"ok", "refused"}}
MessagesTyped ==
    \A l \in Links : /\ ToSet(links[l].toPage) \subseteq ToPage
                     /\ ToSet(links[l].toRelay) \subseteq ToRelay

Typed ==
    /\ RelayTyped /\ CallsTyped /\ LinksTyped /\ TabsTyped /\ WorkTyped /\ FilesTyped /\ SentTyped
    /\ OneIsLinked /\ MessagesTyped

LEMMA TypedIsTypeOK == Typed => TypeOK
BY DEF Typed, TypeOK, RelayTyped, MayBePage, CallsTyped, LinksTyped, TabsTyped, WorkTyped,
       FilesTyped, OneIsLinked

LEMMA LinkIds == NoPage \notin Links
BY DEF Links, NoPage

(* The messages that the relay and the pages send. *)
LEMMA MessageTypes ==
    /\ Key \in ToRelay /\ Closing \in ToRelay /\ Refusing \in ToPage
    /\ \A id \in Nat, c \in Calls : /\ Request(id, c) \in ToPage
                                    /\ \A r \in {"ok", "refused"} : Answer(id, c, r) \in ToRelay
    /\ \A n \in 1 .. MaxNotices : Notice(n) \in ToRelay
    /\ ToPage \subseteq Messages /\ ToRelay \subseteq Messages
<1>1. 1008 \in Nat /\ 0 \in Nat /\ \A n \in 1 .. MaxNotices : n \in Nat
  BY BoundsAssumption
<1> QED
  BY <1>1 DEF Key, Closing, Refusing, Request, Answer, Notice, Message, ToPage, ToRelay, Messages, Replies

(* The records of calls that the actions make. *)
LEMMA RecordTypes ==
    /\ \A kind \in CallKinds : Unasked(kind) \in CallRecords
    /\ \A r \in CallRecords :
          /\ \A how \in {"page", "relay", "canceled"} : EndedBy(r, how) \in CallRecords
          /\ Woken(r) \in CallRecords /\ Told(r) \in CallRecords
<1>1. \A kind \in CallKinds : Unasked(kind) \in CallRecords
  BY DEF Unasked, CallRecords, Stages, Replies, Endings
<1>2. ASSUME NEW r \in CallRecords, NEW how \in {"page", "relay", "canceled"}
      PROVE  EndedBy(r, how) \in CallRecords
  BY <1>1 DEF EndedBy, CallRecords, Stages, Endings
<1>3. ASSUME NEW r \in CallRecords PROVE Woken(r) \in CallRecords
  BY DEF Woken, CallRecords, Stages
<1> QED
  BY <1>1, <1>2, <1>3 DEF Told

(* The fields of a call that has ended, and of one that is woken. *)
LEMMA EndedFields ==
    ASSUME NEW r \in CallRecords, NEW how
    PROVE  /\ EndedBy(r, how).stage = "ended" /\ EndedBy(r, how).kind = r.kind
           /\ EndedBy(r, how).of = NoCall /\ EndedBy(r, how).got = r.got
           /\ EndedBy(r, how).end = IF r.end = "none" THEN how ELSE r.end
BY DEF EndedBy, Unasked

LEMMA WokenFields ==
    ASSUME NEW r \in CallRecords
    PROVE  /\ Woken(r).stage = IF r.stage = "waiting" THEN "woken" ELSE r.stage
           /\ Woken(r).kind = r.kind /\ Woken(r).of = r.of /\ Woken(r).got = r.got
           /\ Woken(r).end = r.end /\ Woken(r).id = r.id /\ Woken(r).on = r.on
           /\ Woken(r).reply = r.reply /\ Woken(r).exists = r.exists
           /\ r.stage # "waiting" => Woken(r) = r
BY DEF Woken, CallRecords

-----------------------------------------------------------------------------
(* The links: what a step puts under way *)

(* The step adds at most these messages to what was under way to the pages and  *)
(* to the relay, and links only what the relay had not closed.                *)
Delivers(atPage, atRelay) ==
    /\ LinksTyped'
    /\ \A l \in Links : /\ ToSet(links'[l].toPage) \subseteq ToSet(links[l].toPage) \cup atPage
                        /\ ToSet(links'[l].toRelay) \subseteq ToSet(links[l].toRelay) \cup atRelay

LEMMA EmptyQueue == <<>> \in Seq(Messages)
OBVIOUS

LEMMA LinkTypes ==
    /\ UnusedLink \in LinkRecords
    /\ \A link \in LinkRecords :
          /\ ClosedAtPage(link) \in LinkRecords /\ ClosedAtPage(link).toPage = <<>>
          /\ ClosedAtPage(link).toRelay = link.toRelay /\ ClosedAtPage(link).atRelay = link.atRelay
          /\ ClosedAtRelay(link) \in LinkRecords /\ ClosedAtRelay(link).toRelay = <<>>
          /\ ClosedAtRelay(link).toPage = link.toPage /\ ClosedAtRelay(link).atRelay = "closed"
    /\ UnusedLink.toPage = <<>> /\ UnusedLink.toRelay = <<>> /\ UnusedLink.atRelay = "none"
<1>1. UnusedLink \in LinkRecords
  BY DEF UnusedLink, LinkRecords
<1> QED
  BY <1>1 DEF UnusedLink, LinkRecords, ClosedAtPage, ClosedAtRelay

(* One link replaced, the others as they were. *)
LEMMA LinkReplaced ==
    ASSUME LinksTyped, NEW l \in Links, NEW link \in LinkRecords, NEW atPage, NEW atRelay,
           links' = [links EXCEPT ![l] = link],
           ToSet(link.toPage) \subseteq ToSet(links[l].toPage) \cup atPage,
           ToSet(link.toRelay) \subseteq ToSet(links[l].toRelay) \cup atRelay
    PROVE  /\ Delivers(atPage, atRelay) /\ links'[l] = link
           /\ \A k \in Links \ {l} : links'[k] = links[k]
<1>1. links'[l] = link /\ \A k \in Links \ {l} : links'[k] = links[k]
  BY DEF LinksTyped
<1>2. links' \in [Links -> LinkRecords]
  BY DEF LinksTyped
<1> QED
  BY <1>1, <1>2 DEF Delivers, LinksTyped

LEMMA NothingDelivered ==
    ASSUME LinksTyped, links' = links
    PROVE  Delivers({}, {})
BY DEF Delivers, LinksTyped

(* What is sent reaches the end of the queue, or no one. *)
LEMMA SentToPage ==
    ASSUME LinksTyped, NEW l \in Links, NEW message \in Messages
    PROVE  /\ Sent(l, message) \in [Links -> LinkRecords]
           /\ \A k \in Links :
                 /\ ToSet(Sent(l, message)[k].toPage) \subseteq ToSet(links[k].toPage) \cup {message}
                 /\ Sent(l, message)[k].toRelay = links[k].toRelay
                 /\ Sent(l, message)[k].atRelay = links[k].atRelay
<1> DEFINE link == [links[l] EXCEPT !.toPage = Append(links[l].toPage, message)]
<1>0. links[l] \in LinkRecords /\ links[l].toPage \in Seq(Messages)
  BY DEF LinksTyped, LinkRecords
<1>1. Append(links[l].toPage, message) \in Seq(Messages)
      /\ ToSet(Append(links[l].toPage, message)) = ToSet(links[l].toPage) \cup {message}
  BY <1>0, Elements
<1>2. /\ link \in LinkRecords /\ link.toPage = Append(links[l].toPage, message)
      /\ link.toRelay = links[l].toRelay /\ link.atRelay = links[l].atRelay
  BY <1>0, <1>1 DEF LinkRecords
<1>3. Sent(l, message) = [links EXCEPT ![l] = link] \/ Sent(l, message) = links
  BY DEF Sent
<1> QED
  BY <1>1, <1>2, <1>3 DEF LinksTyped

LEMMA SentToRelay ==
    ASSUME LinksTyped, NEW l \in Links, NEW message \in Messages
    PROVE  /\ SentBack(l, message) \in [Links -> LinkRecords]
           /\ \A k \in Links :
                 /\ ToSet(SentBack(l, message)[k].toRelay) \subseteq ToSet(links[k].toRelay) \cup {message}
                 /\ SentBack(l, message)[k].toPage = links[k].toPage
                 /\ SentBack(l, message)[k].atRelay = links[k].atRelay
<1> DEFINE link == [links[l] EXCEPT !.toRelay = Append(links[l].toRelay, message)]
<1>0. links[l] \in LinkRecords /\ links[l].toRelay \in Seq(Messages)
  BY DEF LinksTyped, LinkRecords
<1>1. Append(links[l].toRelay, message) \in Seq(Messages)
      /\ ToSet(Append(links[l].toRelay, message)) = ToSet(links[l].toRelay) \cup {message}
  BY <1>0, Elements
<1>2. /\ link \in LinkRecords /\ link.toRelay = Append(links[l].toRelay, message)
      /\ link.toPage = links[l].toPage /\ link.atRelay = links[l].atRelay
  BY <1>0, <1>1 DEF LinkRecords
<1>3. SentBack(l, message) = [links EXCEPT ![l] = link] \/ SentBack(l, message) = links
  BY DEF SentBack
<1> QED
  BY <1>1, <1>2, <1>3 DEF LinksTyped

(* The heads of the queues. *)
LEMMA QueueHeads ==
    ASSUME LinksTyped, NEW l \in Links
    PROVE  /\ links[l] \in LinkRecords
           /\ links[l].toPage # <<>> =>
                 /\ Head(links[l].toPage) \in ToSet(links[l].toPage)
                 /\ Tail(links[l].toPage) \in Seq(Messages)
                 /\ ToSet(Tail(links[l].toPage)) \subseteq ToSet(links[l].toPage)
           /\ links[l].toRelay # <<>> =>
                 /\ Head(links[l].toRelay) \in ToSet(links[l].toRelay)
                 /\ Tail(links[l].toRelay) \in Seq(Messages)
                 /\ ToSet(Tail(links[l].toRelay)) \subseteq ToSet(links[l].toRelay)
<1>1. links[l].toPage \in Seq(Messages) /\ links[l].toRelay \in Seq(Messages)
  BY DEF LinksTyped, LinkRecords
<1> QED
  BY <1>1, Elements DEF LinksTyped

(* The relay's steps on a link: what it reads is taken off, what it closes is gone. *)
LEMMA RelayReadsLink ==
    ASSUME LinksTyped, NEW l \in Links, links[l].toRelay # <<>>,
           links' = [links EXCEPT ![l].toRelay = Tail(@)]
    PROVE  /\ Delivers({}, {})
           /\ \A k \in Links : links'[k].atRelay = links[k].atRelay
<1> DEFINE link == [links[l] EXCEPT !.toRelay = Tail(links[l].toRelay)]
<1>1. /\ link \in LinkRecords /\ link.toRelay = Tail(links[l].toRelay)
      /\ link.toPage = links[l].toPage /\ link.atRelay = links[l].atRelay
  BY QueueHeads DEF LinkRecords
<1>2. links' = [links EXCEPT ![l] = link]
  OBVIOUS
<1>3. /\ ToSet(link.toPage) \subseteq ToSet(links[l].toPage) \cup {}
      /\ ToSet(link.toRelay) \subseteq ToSet(links[l].toRelay) \cup {}
  BY <1>1, QueueHeads
<1> HIDE DEF link
<1>4. /\ Delivers({}, {}) /\ links'[l] = link
      /\ \A k \in Links \ {l} : links'[k] = links[k]
  BY <1>1, <1>2, <1>3, LinkReplaced
<1> QED
  BY <1>1, <1>4

LEMMA RelayTakesKey ==
    ASSUME LinksTyped, NEW l \in Links, links[l].toRelay # <<>>, PresentKey(l)
    PROVE  /\ Delivers({Refusing}, {})
           /\ \A k \in Links \ {l} : links'[k].atRelay = links[k].atRelay
           /\ links'[l].atRelay = IF page = NoPage THEN "linked" ELSE "closing"
<1>0. links[l] \in LinkRecords /\ links[l].toPage \in Seq(Messages)
  BY DEF LinksTyped, LinkRecords
<1>1. CASE page = NoPage
  <2> DEFINE link == [links[l] EXCEPT !.atRelay = "linked", !.toRelay = Tail(links[l].toRelay)]
  <2>1. /\ link \in LinkRecords /\ link.toRelay = Tail(links[l].toRelay)
        /\ link.toPage = links[l].toPage /\ link.atRelay = "linked"
    BY <1>0, QueueHeads DEF LinkRecords
  <2>2. links' = [links EXCEPT ![l] = link]
    BY <1>1 DEF PresentKey
  <2>3. /\ ToSet(link.toPage) \subseteq ToSet(links[l].toPage) \cup {Refusing}
        /\ ToSet(link.toRelay) \subseteq ToSet(links[l].toRelay) \cup {}
    BY <2>1, QueueHeads
  <2> HIDE DEF link
  <2> QED
    BY <1>1, <2>1, <2>2, <2>3, LinkReplaced
<1>2. CASE page # NoPage
  <2> DEFINE link == [links[l] EXCEPT !.atRelay = "closing", !.toRelay = <<>>,
                                      !.toPage = Append(links[l].toPage, Refusing)]
  <2>0. /\ Append(links[l].toPage, Refusing) \in Seq(Messages)
        /\ ToSet(Append(links[l].toPage, Refusing)) = ToSet(links[l].toPage) \cup {Refusing}
    BY <1>0, Elements, MessageTypes
  <2>1. /\ link \in LinkRecords /\ link.toRelay = <<>>
        /\ link.toPage = Append(links[l].toPage, Refusing) /\ link.atRelay = "closing"
    BY <1>0, <2>0, EmptyQueue DEF LinkRecords
  <2>2. links' = [links EXCEPT ![l] = link]
    BY <1>2 DEF PresentKey
  <2>3. /\ ToSet(link.toPage) \subseteq ToSet(links[l].toPage) \cup {Refusing}
        /\ ToSet(link.toRelay) \subseteq ToSet(links[l].toRelay) \cup {}
    BY <2>0, <2>1, NoElements
  <2> HIDE DEF link
  <2> QED
    BY <1>2, <2>1, <2>2, <2>3, LinkReplaced
<1> QED
  BY <1>1, <1>2

LEMMA RelayTakesClose ==
    ASSUME LinksTyped, NEW l \in Links,
           links' = [links EXCEPT ![l].atRelay = "closing", ![l].toRelay = <<>>]
    PROVE  /\ Delivers({}, {})
           /\ \A k \in Links : links'[k].atRelay \in {links[k].atRelay, "closing"}
<1> DEFINE link == [links[l] EXCEPT !.atRelay = "closing", !.toRelay = <<>>]
<1>0. links[l] \in LinkRecords
  BY DEF LinksTyped
<1>1. /\ link \in LinkRecords /\ link.toRelay = <<>> /\ link.toPage = links[l].toPage
      /\ link.atRelay = "closing"
  BY <1>0, EmptyQueue DEF LinkRecords
<1>2. links' = [links EXCEPT ![l] = link]
  OBVIOUS
<1>3. /\ ToSet(link.toPage) \subseteq ToSet(links[l].toPage) \cup {}
      /\ ToSet(link.toRelay) \subseteq ToSet(links[l].toRelay) \cup {}
  BY <1>1, NoElements
<1> HIDE DEF link
<1>4. /\ Delivers({}, {}) /\ links'[l] = link
      /\ \A k \in Links \ {l} : links'[k] = links[k]
  BY <1>1, <1>2, <1>3, LinkReplaced
<1> QED
  BY <1>1, <1>4

LEMMA RelayClosesLink ==
    ASSUME LinksTyped, NEW l \in Links, links' = [links EXCEPT ![l] = ClosedAtRelay(@)]
    PROVE  /\ Delivers({}, {}) /\ links'[l].atRelay = "closed"
           /\ \A k \in Links \ {l} : links'[k] = links[k]
<1> DEFINE link == ClosedAtRelay(links[l])
<1>1. /\ link \in LinkRecords /\ link.toRelay = <<>> /\ link.toPage = links[l].toPage
      /\ link.atRelay = "closed"
  BY LinkTypes DEF LinksTyped
<1>2. links' = [links EXCEPT ![l] = link]
  OBVIOUS
<1>3. /\ ToSet(link.toPage) \subseteq ToSet(links[l].toPage) \cup {}
      /\ ToSet(link.toRelay) \subseteq ToSet(links[l].toRelay) \cup {}
  BY <1>1, NoElements
<1> HIDE DEF link
<1>4. /\ Delivers({}, {}) /\ links'[l] = link
      /\ \A k \in Links \ {l} : links'[k] = links[k]
  BY <1>1, <1>2, <1>3, LinkReplaced
<1> QED
  BY <1>1, <1>4

LEMMA RelayClosesAll ==
    ASSUME LinksTyped,
           links' = [l \in Links |-> IF links[l].atRelay = "none" THEN links[l]
                                     ELSE ClosedAtRelay(links[l])]
    PROVE  Delivers({}, {}) /\ \A k \in Links : links'[k].atRelay \in {"none", "closed"}
<1> SUFFICES ASSUME NEW l \in Links
             PROVE  /\ links'[l] \in LinkRecords /\ links'[l].atRelay \in {"none", "closed"}
                    /\ ToSet(links'[l].toPage) \subseteq ToSet(links[l].toPage)
                    /\ ToSet(links'[l].toRelay) \subseteq ToSet(links[l].toRelay)
  BY DEF Delivers, LinksTyped
<1>1. links[l] \in LinkRecords
  BY DEF LinksTyped
<1>2. (links'[l] = links[l] /\ links[l].atRelay = "none") \/ links'[l] = ClosedAtRelay(links[l])
  OBVIOUS
<1> QED
  BY <1>1, <1>2, LinkTypes, NoElements

(* The pages' steps on a link: after what is sent back, the link is replaced. *)
LEMMA PageReplacesLink ==
    ASSUME LinksTyped, NEW base \in [Links -> LinkRecords], NEW atRelay,
           \A k \in Links : /\ base[k].toPage = links[k].toPage /\ base[k].atRelay = links[k].atRelay
                            /\ ToSet(base[k].toRelay) \subseteq ToSet(links[k].toRelay) \cup atRelay,
           NEW l \in Links, NEW link \in LinkRecords, links' = [base EXCEPT ![l] = link],
           link.toRelay = base[l].toRelay, link.atRelay = base[l].atRelay,
           ToSet(link.toPage) \subseteq ToSet(links[l].toPage)
    PROVE  Delivers({}, atRelay) /\ \A k \in Links : links'[k].atRelay = links[k].atRelay
<1>1. links' \in [Links -> LinkRecords]
  OBVIOUS
<1>2. ASSUME NEW k \in Links
      PROVE  /\ links'[k].atRelay = links[k].atRelay
             /\ ToSet(links'[k].toPage) \subseteq ToSet(links[k].toPage)
             /\ ToSet(links'[k].toRelay) \subseteq ToSet(links[k].toRelay) \cup atRelay
  <2>1. CASE k = l
    BY <2>1
  <2>2. CASE k # l
    <3>1. links'[k] = base[k]
      BY <2>2
    <3> QED
      BY <3>1
  <2> QED
    BY <2>1, <2>2
<1> QED
  BY <1>1, <1>2 DEF Delivers, LinksTyped

LEMMA PageClosesLink ==
    ASSUME LinksTyped, NEW l \in Links, links' = [links EXCEPT ![l] = ClosedAtPage(@)]
    PROVE  Delivers({}, {}) /\ \A k \in Links : links'[k].atRelay = links[k].atRelay
<1> DEFINE link == ClosedAtPage(links[l])
<1>1. /\ link \in LinkRecords /\ link.toPage = <<>>
      /\ link.toRelay = links[l].toRelay /\ link.atRelay = links[l].atRelay
  BY LinkTypes DEF LinksTyped
<1>2. links' = [links EXCEPT ![l] = link] /\ links \in [Links -> LinkRecords]
  BY DEF LinksTyped
<1>3. ToSet(link.toPage) \subseteq ToSet(links[l].toPage)
  BY <1>1, NoElements
<1>4. \A k \in Links : /\ links[k].toPage = links[k].toPage /\ links[k].atRelay = links[k].atRelay
                        /\ ToSet(links[k].toRelay) \subseteq ToSet(links[k].toRelay) \cup {}
  OBVIOUS
<1> HIDE DEF link
<1> QED
  BY <1>1, <1>2, <1>3, <1>4, PageReplacesLink

LEMMA PageLeavesLink ==
    ASSUME LinksTyped, NEW l \in Links,
           links' = [SentBack(l, Closing) EXCEPT ![l] = ClosedAtPage(@)]
    PROVE  Delivers({}, {Closing}) /\ \A k \in Links : links'[k].atRelay = links[k].atRelay
<1> DEFINE base == SentBack(l, Closing)
           link == ClosedAtPage(base[l])
<1>1. /\ base \in [Links -> LinkRecords]
      /\ \A k \in Links : /\ base[k].toPage = links[k].toPage /\ base[k].atRelay = links[k].atRelay
                           /\ ToSet(base[k].toRelay) \subseteq ToSet(links[k].toRelay) \cup {Closing}
  BY MessageTypes, SentToRelay
<1>2. links' = [base EXCEPT ![l] = link]
  OBVIOUS
<1> HIDE DEF base
<1>3. /\ link \in LinkRecords /\ link.toPage = <<>>
      /\ link.toRelay = base[l].toRelay /\ link.atRelay = base[l].atRelay
  BY <1>1, LinkTypes
<1>4. ToSet(link.toPage) \subseteq ToSet(links[l].toPage)
  BY <1>3, NoElements
<1> HIDE DEF link
<1> QED
  BY <1>1, <1>2, <1>3, <1>4, PageReplacesLink

LEMMA PageConnects ==
    ASSUME LinksTyped, NEW t \in Tabs, NEW l \in Links, Connects(t, l)
    PROVE  /\ Delivers({}, {Key})
           /\ \A k \in Links : links'[k].atRelay \in {links[k].atRelay, "accepted"}
<1> DEFINE link == [UnusedLink EXCEPT !.atPage = "open", !.atRelay = "accepted", !.toRelay = <<Key>>]
<1>1. <<Key>> \in Seq(Messages) /\ ToSet(<<Key>>) = {Key}
  <2>1. Key \in Messages /\ <<Key>> = Append(<<>>, Key)
    BY MessageTypes
  <2>2. /\ Append(<<>>, Key) \in Seq(Messages)
        /\ ToSet(Append(<<>>, Key)) = ToSet(<<>>) \cup {Key}
    BY <2>1, EmptyQueue, Elements
  <2> QED
    BY <2>1, <2>2, NoElements
<1>2. /\ link \in LinkRecords /\ link.toRelay = <<Key>> /\ link.toPage = <<>>
      /\ link.atRelay = "accepted"
  BY <1>1, LinkTypes DEF LinkRecords, UnusedLink
<1>3. links' = [links EXCEPT ![l] = link]
  BY DEF Connects
<1>4. /\ ToSet(link.toPage) \subseteq ToSet(links[l].toPage) \cup {}
      /\ ToSet(link.toRelay) \subseteq ToSet(links[l].toRelay) \cup {Key}
  BY <1>1, <1>2, NoElements
<1> HIDE DEF link
<1>5. /\ Delivers({}, {Key}) /\ links'[l] = link
      /\ \A k \in Links \ {l} : links'[k] = links[k]
  BY <1>2, <1>3, <1>4, LinkReplaced
<1> QED
  BY <1>2, <1>5

LEMMA PageCarriesOut ==
    ASSUME LinksTyped, MessagesTyped, NEW l \in Links, CarriesOut(l)
    PROVE  /\ Head(links[l].toPage) \in ToSet(links[l].toPage)
           /\ Delivers({}, {Answer(Head(links[l].toPage).id, Head(links[l].toPage).of, "ok")})
           /\ ~IsWatch(Head(links[l].toPage).of) => Delivers({}, {})
           /\ \A k \in Links : links'[k].atRelay = links[k].atRelay
<1> DEFINE request == Head(links[l].toPage)
           answer  == Answer(request.id, request.of, "ok")
<1>0. /\ request \in ToSet(links[l].toPage) /\ request.what = "request"
      /\ Tail(links[l].toPage) \in Seq(Messages)
      /\ ToSet(Tail(links[l].toPage)) \subseteq ToSet(links[l].toPage)
  BY QueueHeads DEF CarriesOut
<1>1. request \in ToPage
  BY <1>0 DEF MessagesTyped
<1>a. request.id \in Nat /\ request.of \in Calls
  BY <1>0, <1>1 DEF ToPage, Messages
<1>b. answer \in ToRelay /\ answer \in Messages
  BY <1>a, MessageTypes
<1>2. CASE IsWatch(request.of)
  <2> DEFINE base == SentBack(l, answer)
             link == [base[l] EXCEPT !.toPage = Tail(base[l].toPage), !.watched = TRUE]
  <2> HIDE DEF answer
  <2>1. /\ base \in [Links -> LinkRecords]
        /\ \A k \in Links : /\ base[k].toPage = links[k].toPage /\ base[k].atRelay = links[k].atRelay
                             /\ ToSet(base[k].toRelay) \subseteq ToSet(links[k].toRelay) \cup {answer}
    BY <1>b, SentToRelay
  <2>2. links' = [base EXCEPT ![l] = link]
    <3>1. links' = [SentBack(l, answer) EXCEPT ![l].toPage = Tail(@), ![l].watched = TRUE]
      BY <1>2 DEF CarriesOut, answer
    <3> HIDE DEF base
    <3>2. SentBack(l, answer) = base
      BY DEF base
    <3>3. links' = [base EXCEPT ![l].toPage = Tail(@), ![l].watched = TRUE]
      BY <3>1, <3>2
    <3> QED
      BY <2>1, <3>3
  <2> HIDE DEF base
  <2>3. /\ link \in LinkRecords /\ link.toPage = Tail(links[l].toPage)
        /\ link.toRelay = base[l].toRelay /\ link.atRelay = base[l].atRelay
    BY <1>0, <2>1 DEF LinkRecords
  <2>4. ToSet(link.toPage) \subseteq ToSet(links[l].toPage)
    BY <1>0, <2>3
  <2> HIDE DEF link
  <2>5. Delivers({}, {answer}) /\ \A k \in Links : links'[k].atRelay = links[k].atRelay
    BY <2>1, <2>2, <2>3, <2>4, PageReplacesLink
  <2> QED
    BY <1>0, <1>2, <2>5 DEF answer
<1>3. CASE ~IsWatch(request.of)
  <2> DEFINE link == [links[l] EXCEPT !.toPage = Tail(links[l].toPage)]
  <2>1. links' = [links EXCEPT ![l] = link]
    BY <1>3 DEF CarriesOut
  <2>2. /\ link \in LinkRecords /\ link.toPage = Tail(links[l].toPage)
        /\ link.toRelay = links[l].toRelay /\ link.atRelay = links[l].atRelay
    BY <1>0 DEF LinksTyped, LinkRecords
  <2>3. /\ ToSet(link.toPage) \subseteq ToSet(links[l].toPage) \cup {}
        /\ ToSet(link.toRelay) \subseteq ToSet(links[l].toRelay) \cup {}
    BY <1>0, <2>2
  <2> HIDE DEF link
  <2>4. /\ Delivers({}, {}) /\ links'[l] = link /\ \A k \in Links \ {l} : links'[k] = links[k]
    BY <2>1, <2>2, <2>3, LinkReplaced
  <2> QED
    BY <1>0, <2>2, <2>4 DEF Delivers
<1> QED
  BY <1>2, <1>3

LEMMA PageSendsBack ==
    ASSUME LinksTyped, NEW l \in Links, NEW message \in Messages, links' = SentBack(l, message)
    PROVE  Delivers({}, {message}) /\ \A k \in Links : links'[k].atRelay = links[k].atRelay
<1> DEFINE base == SentBack(l, message)
<1>1. /\ base \in [Links -> LinkRecords] /\ links' = base
      /\ \A k \in Links : /\ ToSet(base[k].toRelay) \subseteq ToSet(links[k].toRelay) \cup {message}
                           /\ base[k].toPage = links[k].toPage /\ base[k].atRelay = links[k].atRelay
  BY SentToRelay
<1> HIDE DEF base
<1> QED
  BY <1>1 DEF Delivers, LinksTyped

LEMMA RelayAsksPage ==
    ASSUME LinksTyped, NEW l \in Links, NEW message \in Messages, links' = Sent(l, message)
    PROVE  Delivers({message}, {}) /\ \A k \in Links : links'[k].atRelay = links[k].atRelay
<1> DEFINE base == Sent(l, message)
<1>1. /\ base \in [Links -> LinkRecords] /\ links' = base
      /\ \A k \in Links : /\ ToSet(base[k].toPage) \subseteq ToSet(links[k].toPage) \cup {message}
                           /\ base[k].toRelay = links[k].toRelay /\ base[k].atRelay = links[k].atRelay
  BY SentToPage
<1> HIDE DEF base
<1> QED
  BY <1>1 DEF Delivers, LinksTyped

-----------------------------------------------------------------------------
(* The types hold *)

(* A part that no step touches keeps its type. *)
LEMMA KeptTypes ==
    /\ RelayTyped /\ UNCHANGED <<running, page, nextPageCallId, watchSubscribed, notices, reading>>
          => RelayTyped'
    /\ CallsTyped /\ UNCHANGED calls => CallsTyped'
    /\ LinksTyped /\ UNCHANGED links => LinksTyped'
    /\ TabsTyped /\ UNCHANGED tabs => TabsTyped'
    /\ WorkTyped /\ UNCHANGED work => WorkTyped'
    /\ FilesTyped /\ UNCHANGED <<files, saved>> => FilesTyped'
    /\ SentTyped /\ UNCHANGED sent => SentTyped'
    /\ OneIsLinked /\ UNCHANGED <<links, page>> => OneIsLinked'
    /\ MessagesTyped /\ UNCHANGED links => MessagesTyped'
BY DEF RelayTyped, CallsTyped, LinksTyped, TabsTyped, WorkTyped, FilesTyped, SentTyped,
       OneIsLinked, MessagesTyped

(* What is delivered is of the types under way. *)
LEMMA DeliveredTypes ==
    ASSUME MessagesTyped, NEW atPage \in SUBSET ToPage, NEW atRelay \in SUBSET ToRelay,
           Delivers(atPage, atRelay)
    PROVE  LinksTyped' /\ MessagesTyped'
<1>1. LinksTyped'
  BY DEF Delivers
<1>2. ASSUME NEW l \in Links
      PROVE  ToSet(links'[l].toPage) \subseteq ToPage /\ ToSet(links'[l].toRelay) \subseteq ToRelay
  BY DEF Delivers, MessagesTyped
<1> QED
  BY <1>1, <1>2 DEF MessagesTyped

LEMMA CallReplaced ==
    ASSUME CallsTyped, NEW c \in Calls, NEW record \in CallRecords, Becomes(c, record)
    PROVE  /\ CallsTyped' /\ calls'[c] = record
           /\ \A d \in Calls \ {c} : calls'[d] = calls[d]
BY DEF CallsTyped, Becomes

LEMMA AskedTypes ==
    ASSUME Typed, NEW c \in Calls
    PROVE  /\ calls[c] \in CallRecords /\ Asked(c) \in CallRecords
           /\ notices \in Seq(Nat)
<1>1. notices \in Seq(Nat)
  BY BoundsAssumption, LargerSequences DEF Typed, RelayTyped
<1> QED
  BY <1>1 DEF Typed, CallsTyped, RelayTyped, MayBePage, Asked, CallRecords

(* A call is registered and sent. *)
LEMMA AskingTypes ==
    ASSUME Typed, NEW c \in Calls, NEW record \in CallRecords, page # NoPage, AsksPage(c, record)
    PROVE  /\ CallsTyped' /\ nextPageCallId' = nextPageCallId + 1
           /\ Delivers({Request(nextPageCallId, c)}, {})
           /\ LinksTyped' /\ MessagesTyped'
           /\ \A k \in Links : links'[k].atRelay = links[k].atRelay
<1>1. [record EXCEPT !.stage = "atPage", !.id = nextPageCallId] \in CallRecords
  BY DEF Typed, RelayTyped, CallRecords, Stages
<1>2. EndedBy(record, "canceled") \in CallRecords
  BY RecordTypes
<1>3. CallsTyped'
  BY <1>1, <1>2, CallReplaced DEF Typed, AsksPage
<1>4. page \in Links /\ Request(nextPageCallId, c) \in ToPage /\ Request(nextPageCallId, c) \in Messages
  BY MessageTypes DEF Typed, RelayTyped, MayBePage
<1>5. /\ Delivers({Request(nextPageCallId, c)}, {})
      /\ \A k \in Links : links'[k].atRelay = links[k].atRelay
  BY <1>4, RelayAsksPage DEF Typed, AsksPage
<1>6. {Request(nextPageCallId, c)} \in SUBSET ToPage /\ {} \in SUBSET ToRelay
  BY <1>4
<1>7. LinksTyped' /\ MessagesTyped'
  BY <1>5, <1>6, DeliveredTypes DEF Typed
<1> QED
  BY <1>3, <1>5, <1>7 DEF AsksPage

LEMMA AskingKeepsTyped ==
    ASSUME Typed, NEW c \in Calls, NEW record \in CallRecords, page # NoPage, AsksPage(c, record),
           UNCHANGED <<running, page, notices, reading>>, watchSubscribed' \in BOOLEAN,
           TabsTyped', WorkTyped', FilesTyped', SentTyped'
    PROVE  Typed'
<1>1. /\ CallsTyped' /\ nextPageCallId' = nextPageCallId + 1 /\ LinksTyped' /\ MessagesTyped'
      /\ \A k \in Links : links'[k].atRelay = links[k].atRelay
  BY AskingTypes
<1>2. RelayTyped'
  BY <1>1 DEF Typed, RelayTyped
<1>3. OneIsLinked'
  BY <1>1 DEF Typed, OneIsLinked
<1> QED
  BY <1>1, <1>2, <1>3 DEF Typed

(* The notices are taken, or waited for. *)
LEMMA TakingTypes ==
    ASSUME Typed, NEW c \in Calls, NEW record \in CallRecords,
           TakesNotices(c, record) \/ GoesOnWatching(c, record)
    PROVE  CallsTyped' /\ notices' \in Seq(1 .. MaxNotices)
<1>1. [record EXCEPT !.got = notices] \in CallRecords /\ [record EXCEPT !.stage = "waiting"] \in CallRecords
  BY AskedTypes DEF CallRecords, Stages
<1>2. EndedBy([record EXCEPT !.got = notices], "relay") \in CallRecords
  BY <1>1, RecordTypes
<1>3. <<>> \in Seq(1 .. MaxNotices)
  OBVIOUS
<1> QED
  BY <1>1, <1>2, <1>3, CallReplaced DEF TakesNotices, GoesOnWatching, Typed, RelayTyped

LEMMA AskTyped ==
    ASSUME Typed, NEW c \in Calls, Ask(c)
    PROVE  Typed'
<1>a. calls[c] \in CallRecords /\ Asked(c) \in CallRecords
  BY AskedTypes
<1>b. EndedBy(Asked(c), "relay") \in CallRecords
  BY <1>a, RecordTypes
<1>k. /\ TabsTyped' /\ WorkTyped' /\ FilesTyped' /\ SentTyped'
      /\ UNCHANGED <<running, page, reading>>
  BY KeptTypes DEF Ask, Typed, fileVars, ghosts
<1>1. CASE Becomes(c, EndedBy(Asked(c), "relay")) /\ UNCHANGED <<nextPageCallId, links, watchSubscribed, notices>>
  BY <1>1, <1>b, <1>k, CallReplaced, KeptTypes DEF Typed
<1>2. CASE AskSave(c)
  <2>1. [Asked(c) EXCEPT !.stage = "judging"] \in CallRecords
    BY <1>a DEF CallRecords, Stages
  <2> QED
    BY <1>2, <1>k, <2>1, CallReplaced, KeptTypes DEF Typed, AskSave
<1>3. CASE page # NoPage /\ AsksPage(c, Asked(c)) /\ watchSubscribed' \in BOOLEAN /\ UNCHANGED notices
  BY <1>3, <1>a, <1>k, AskingKeepsTyped DEF Typed, RelayTyped
<1>4. CASE GoesOnWatching(c, Asked(c)) /\ UNCHANGED <<nextPageCallId, links, watchSubscribed>>
  BY <1>4, <1>a, <1>k, TakingTypes, KeptTypes DEF Typed, RelayTyped
<1> QED
  BY <1>1, <1>2, <1>3, <1>4 DEF Ask, AskPlain, AskWatch, Typed, RelayTyped

LEMMA CallTurnTyped ==
    ASSUME Typed, NEW c \in Calls,
           CancelCall(c) \/ Deadline(c) \/ WaitRunsOut(c) \/ SaveStep(c)
    PROVE  Typed'
<1>a. calls[c] \in CallRecords
  BY AskedTypes
<1>k. /\ RelayTyped' /\ TabsTyped' /\ WorkTyped' /\ LinksTyped' /\ SentTyped'
      /\ OneIsLinked' /\ MessagesTyped'
  BY KeptTypes DEF CancelCall, Deadline, WaitRunsOut, SaveStep, Typed, pageVars, ghosts
<1>b. \A how \in {"page", "relay", "canceled"} : EndedBy(calls[c], how) \in CallRecords
  BY <1>a, RecordTypes
<1>1. CallsTyped'
  <2>1. CASE CancelCall(c)
    <3>1. [Woken(calls[c]) EXCEPT !.end = "canceled"] \in CallRecords
      BY <1>a, RecordTypes DEF CallRecords, Endings
    <3> QED
      BY <1>b, <2>1, <3>1, CallReplaced DEF CancelCall, Typed
  <2>2. CASE Deadline(c)
    <3>1. [calls[c] EXCEPT !.stage = "replied", !.reply = "timedOut"] \in CallRecords
      BY <1>a DEF CallRecords, Stages, Replies
    <3> QED
      BY <2>2, <3>1, CallReplaced DEF Deadline, Typed
  <2>3. CASE WaitRunsOut(c)
    <3>1. [calls[c] EXCEPT !.stage = "woken"] \in CallRecords
      BY <1>a DEF CallRecords, Stages
    <3> QED
      BY <2>3, <3>1, CallReplaced DEF WaitRunsOut, Typed
  <2>4. CASE SaveStep(c)
    <3>1. /\ [calls[c] EXCEPT !.stage = "writing", !.exists = files.name # NoFile] \in CallRecords
          /\ [calls[c] EXCEPT !.stage = "backingUp"] \in CallRecords
          /\ [calls[c] EXCEPT !.stage = "renaming"] \in CallRecords
      BY <1>a DEF CallRecords, Stages
    <3>2. \E record \in CallRecords : Becomes(c, record)
      BY <1>b, <2>4, <3>1 DEF SaveStep, SaveFails, JudgeAgain, WriteTemporary, BackUp, Rename
    <3> QED
      BY <3>2, CallReplaced DEF Typed
  <2> QED
    BY <2>1, <2>2, <2>3, <2>4
<1>2. FilesTyped'
  <2>1. CASE UNCHANGED <<files, saved>>
    BY <2>1, KeptTypes DEF Typed
  <2>2. CASE SaveStep(c) /\ ~UNCHANGED <<files, saved>>
    BY <2>2 DEF SaveStep, SaveFails, JudgeAgain, WriteTemporary, BackUp, Rename, fileVars, FilesTyped,
       Typed, Contents
  <2> QED
    BY <2>1, <2>2 DEF CancelCall, Deadline, WaitRunsOut, fileVars
<1> QED
  BY <1>1, <1>2, <1>k DEF Typed

LEMMA JudgeTyped ==
    ASSUME Typed, NEW c \in Calls, Judge(c)
    PROVE  Typed'
<1>a. calls[c] \in CallRecords /\ EndedBy(calls[c], "relay") \in CallRecords
  BY AskedTypes, RecordTypes
<1>k. /\ TabsTyped' /\ WorkTyped' /\ FilesTyped' /\ SentTyped'
      /\ UNCHANGED <<running, page, watchSubscribed, notices, reading>>
  BY KeptTypes DEF Judge, SaveFails, Typed, fileVars, ghosts
<1>1. CASE Becomes(c, EndedBy(calls[c], "relay")) /\ UNCHANGED <<nextPageCallId, links>>
  BY <1>1, <1>a, <1>k, CallReplaced, KeptTypes DEF Typed
<1>2. CASE page # NoPage /\ AsksPage(c, calls[c])
  BY <1>2, <1>a, <1>k, AskingKeepsTyped DEF Typed, RelayTyped
<1> QED
  BY <1>1, <1>2 DEF Judge, SaveFails

LEMMA ResumeTyped ==
    ASSUME Typed, NEW c \in Calls, Resume(c)
    PROVE  Typed'
<1>a. calls[c] \in CallRecords /\ Told(calls[c]) \in CallRecords /\ EndedBy(calls[c], "relay") \in CallRecords
  BY AskedTypes, RecordTypes
<1>b. [calls[c] EXCEPT !.stage = "judgingAgain"] \in CallRecords
  BY <1>a DEF CallRecords, Stages
<1>k. /\ TabsTyped' /\ WorkTyped' /\ FilesTyped' /\ SentTyped' /\ LinksTyped' /\ MessagesTyped'
      /\ OneIsLinked' /\ UNCHANGED <<running, page, nextPageCallId>> /\ reading' \in MayBePage
  BY KeptTypes DEF Resume, Typed, fileVars, pageVars, ghosts, MayBePage
<1>1. CallsTyped' /\ notices' \in Seq(1 .. MaxNotices)
  <2>1. CASE (\E record \in CallRecords : Becomes(c, record)) /\ UNCHANGED notices
    BY <2>1, CallReplaced DEF Typed, RelayTyped
  <2>2. CASE TakesNotices(c, calls[c]) \/ GoesOnWatching(c, calls[c])
    BY <1>a, <2>2, TakingTypes
  <2> QED
    BY <1>a, <1>b, <2>1, <2>2 DEF Resume, ResumePlain, ResumeSave, ResumeSubscription, ResumeWatch
<1>2. watchSubscribed' \in BOOLEAN
  BY DEF Resume, ResumePlain, ResumeSave, ResumeSubscription, ResumeWatch, Typed, RelayTyped
<1> QED
  BY <1>1, <1>2, <1>k DEF Typed, RelayTyped

(* The page of a link goes, or the relay was not its page. *)
LEMMA DroppingTypes ==
    ASSUME Typed, NEW l, DropsPage(l)
    PROVE  /\ CallsTyped' /\ page' \in MayBePage /\ watchSubscribed' \in BOOLEAN
           /\ notices' \in Seq(1 .. MaxNotices)
           /\ page' = IF page = l THEN NoPage ELSE page
<1>1. CASE page # l
  BY <1>1 DEF DropsPage, Typed, RelayTyped, CallsTyped
<1>2. CASE page = l
  <2>1. ASSUME NEW c \in Calls
        PROVE  /\ [calls[c] EXCEPT !.stage = "replied", !.reply = "dropped"] \in CallRecords
               /\ Woken(calls[c]) \in CallRecords
    <3>1. calls[c] \in CallRecords
      BY AskedTypes
    <3> QED
      BY <3>1, RecordTypes DEF CallRecords, Stages, Replies
  <2>2. CallsTyped'
    BY <1>2, <2>1 DEF DropsPage, CallsTyped
  <2>3. <<>> \in Seq(1 .. MaxNotices)
    OBVIOUS
  <2> QED
    BY <1>2, <2>2, <2>3 DEF DropsPage, MayBePage
<1> QED
  BY <1>1, <1>2

LEMMA LinkGoneTyped ==
    ASSUME Typed, (\E l \in Links : LinkEnds(l)) \/ CloseRelay
    PROVE  Typed'
<1>k. TabsTyped' /\ WorkTyped' /\ FilesTyped' /\ SentTyped' /\ UNCHANGED <<nextPageCallId, reading>>
  BY KeptTypes DEF LinkEnds, CloseRelay, fileVars, Typed
<1>0. {} \in SUBSET ToPage /\ {} \in SUBSET ToRelay
  OBVIOUS
<1>1. ASSUME NEW l \in Links, LinkEnds(l) PROVE Typed'
  <2>1. /\ Delivers({}, {}) /\ links'[l].atRelay = "closed"
        /\ \A k \in Links \ {l} : links'[k] = links[k]
    BY <1>1, RelayClosesLink DEF LinkEnds, Typed
  <2>2. LinksTyped' /\ MessagesTyped'
    BY <1>0, <2>1, DeliveredTypes DEF Typed
  <2>3. /\ CallsTyped' /\ page' \in MayBePage /\ watchSubscribed' \in BOOLEAN
        /\ notices' \in Seq(1 .. MaxNotices) /\ page' = IF page = l THEN NoPage ELSE page
    BY <1>1, DroppingTypes DEF LinkEnds
  <2>4. OneIsLinked'
    BY <2>1, <2>3 DEF Typed, OneIsLinked
  <2>5. RelayTyped'
    BY <1>1, <1>k, <2>3 DEF Typed, RelayTyped, LinkEnds
  <2> QED
    BY <1>k, <2>2, <2>3, <2>4, <2>5 DEF Typed
<1>2. ASSUME CloseRelay PROVE Typed'
  <2>1. Delivers({}, {}) /\ \A k \in Links : links'[k].atRelay \in {"none", "closed"}
    BY <1>2, RelayClosesAll DEF CloseRelay, Typed
  <2>2. LinksTyped' /\ MessagesTyped'
    BY <1>0, <2>1, DeliveredTypes DEF Typed
  <2>3. /\ CallsTyped' /\ page' \in MayBePage /\ watchSubscribed' \in BOOLEAN
        /\ notices' \in Seq(1 .. MaxNotices)
    BY <1>2, DroppingTypes DEF CloseRelay
  <2>4. OneIsLinked'
    BY <2>1 DEF OneIsLinked
  <2>5. RelayTyped'
    BY <1>2, <1>k, <2>3 DEF Typed, RelayTyped, CloseRelay
  <2> QED
    BY <1>k, <2>2, <2>3, <2>4, <2>5 DEF Typed
<1> QED
  BY <1>1, <1>2

LEMMA ReadsTyped ==
    ASSUME Typed, NEW l \in Links, TakeMessage(l)
    PROVE  Typed'
<1> DEFINE message == Head(links[l].toRelay)
<1>a. /\ links[l].toRelay # <<>> /\ message \in ToSet(links[l].toRelay) /\ message \in ToRelay
      /\ LinksTyped /\ MessagesTyped
  BY QueueHeads DEF TakeMessage, Typed, MessagesTyped
<1>k. TabsTyped' /\ WorkTyped' /\ FilesTyped' /\ SentTyped' /\ UNCHANGED <<running, nextPageCallId>>
  BY KeptTypes DEF TakeMessage, fileVars, Typed
<1>0. {} \in SUBSET ToPage /\ {} \in SUBSET ToRelay /\ {Refusing} \in SUBSET ToPage
  BY MessageTypes
<1>r. reading' \in MayBePage
  BY DEF TakeMessage, MayBePage
<1>1. CASE PresentKey(l)
  <2>1. /\ Delivers({Refusing}, {})
        /\ \A k \in Links \ {l} : links'[k].atRelay = links[k].atRelay
        /\ links'[l].atRelay = IF page = NoPage THEN "linked" ELSE "closing"
    BY <1>1, <1>a, RelayTakesKey
  <2>2. LinksTyped' /\ MessagesTyped'
    BY <1>0, <1>a, <2>1, DeliveredTypes
  <2>3. CallsTyped' /\ UNCHANGED <<watchSubscribed, notices>>
        /\ page' = IF page = NoPage THEN l ELSE page
    BY <1>1, KeptTypes DEF PresentKey, Typed
  <2>4. OneIsLinked'
    BY <2>1, <2>3, LinkIds DEF Typed, OneIsLinked
  <2>5. RelayTyped'
    BY <1>k, <1>r, <2>3 DEF Typed, RelayTyped, MayBePage
  <2> QED
    BY <1>k, <2>2, <2>3, <2>4, <2>5 DEF Typed
<1>2. CASE TakeNotice(l, message) \/ TakeAnswer(l, message)
  <2>1. Delivers({}, {}) /\ \A k \in Links : links'[k].atRelay = links[k].atRelay
    BY <1>2, <1>a, RelayReadsLink DEF TakeNotice, TakeAnswer
  <2>2. LinksTyped' /\ MessagesTyped'
    BY <1>0, <1>a, <2>1, DeliveredTypes
  <2>3. UNCHANGED <<page, watchSubscribed>>
    BY <1>2 DEF TakeNotice, TakeAnswer
  <2>4. CallsTyped'
    <3>1. ASSUME NEW c \in Calls, TakeAnswer(l, message)
          PROVE  [calls[c] EXCEPT !.stage = "replied", !.reply = message.reply, !.of = message.of]
                     \in CallRecords
      <4>1. calls[c] \in CallRecords /\ message.reply \in Replies /\ message.of \in Calls \cup {NoCall}
        BY <1>a, AskedTypes DEF ToRelay, Messages
      <4> QED
        BY <4>1 DEF CallRecords, Stages
    <3>2. \A c \in Calls : calls[c] \in CallRecords /\ Woken(calls[c]) \in CallRecords
      BY AskedTypes, RecordTypes
    <3> HIDE DEF message
    <3>3. CASE TakeNotice(l, message)
      BY <3>2, <3>3 DEF TakeNotice, CallsTyped
    <3>4. CASE TakeAnswer(l, message)
      BY <3>1, <3>2, <3>4 DEF TakeAnswer, CallsTyped
    <3> QED
      BY <1>2, <3>3, <3>4
  <2>5. notices' \in Seq(1 .. MaxNotices)
    <3>1. CASE TakeNotice(l, message)
      <4>1. message.id \in 1 .. MaxNotices
        BY <1>a, <3>1 DEF TakeNotice, ToRelay
      <4> HIDE DEF message
      <4> QED
        BY <3>1, <4>1 DEF TakeNotice, Typed, RelayTyped
    <3>2. CASE TakeAnswer(l, message)
      BY <3>2 DEF TakeAnswer, Typed, RelayTyped
    <3> QED
      BY <1>2, <3>1, <3>2
  <2>6. OneIsLinked'
    BY <2>1, <2>3 DEF Typed, OneIsLinked
  <2>7. RelayTyped'
    BY <1>k, <1>r, <2>3, <2>5 DEF Typed, RelayTyped
  <2> QED
    BY <1>k, <2>2, <2>4, <2>6, <2>7 DEF Typed
<1>3. CASE TakeClose(l, message)
  <2>1. Delivers({}, {}) /\ \A k \in Links : links'[k].atRelay \in {links[k].atRelay, "closing"}
    BY <1>3, <1>a, RelayTakesClose DEF TakeClose
  <2>2. LinksTyped' /\ MessagesTyped'
    BY <1>0, <1>a, <2>1, DeliveredTypes
  <2>3. CallsTyped' /\ UNCHANGED <<page, watchSubscribed, notices>>
    BY <1>3, KeptTypes DEF TakeClose, Typed
  <2>4. OneIsLinked'
    BY <2>1, <2>3 DEF Typed, OneIsLinked
  <2>5. RelayTyped'
    BY <1>k, <1>r, <2>3 DEF Typed, RelayTyped
  <2> QED
    BY <1>k, <2>2, <2>3, <2>4, <2>5 DEF Typed
<1> QED
  BY <1>1, <1>2, <1>3 DEF TakeMessage

(* A page's record as its link's steps leave it. *)
LEMMA TabTypes ==
    /\ IdleTab \in TabRecords
    /\ \A tab \in TabRecords :
          /\ TriesAgainLater(tab) \in TabRecords
          /\ \A b1, b2 \in BOOLEAN : LinkClosed(tab, b1, b2) \in TabRecords
<1>0. 0 \in 0 .. MaxTries
  BY BoundsAssumption
<1>1. IdleTab \in TabRecords
  BY <1>0 DEF IdleTab, TabRecords
<1>2. ASSUME NEW tab \in TabRecords PROVE TriesAgainLater(tab) \in TabRecords
  <2>1. tab.triesMade < MaxTries => tab.triesMade + 1 \in 0 .. MaxTries
    BY BoundsAssumption DEF TabRecords
  <2> QED
    BY <2>1 DEF TriesAgainLater, GivesUp, TabRecords
<1>3. ASSUME NEW tab \in TabRecords, NEW b1 \in BOOLEAN, NEW b2 \in BOOLEAN
      PROVE  LinkClosed(tab, b1, b2) \in TabRecords
  <2> DEFINE gone == [tab EXCEPT !.socket = NoPage, !.connecting = FALSE]
             lost == [gone EXCEPT !.isRetrying = TRUE, !.triesMade = 0]
  <2>1. gone \in TabRecords
    BY DEF TabRecords
  <2>2. lost \in TabRecords /\ GivesUp(gone) \in TabRecords
    BY <1>0, <2>1 DEF TabRecords, GivesUp
  <2>3. LinkClosed(tab, b1, b2) \in {TriesAgainLater(lost), TriesAgainLater(gone), GivesUp(gone), gone}
    BY DEF LinkClosed
  <2> HIDE DEF gone, lost
  <2> QED
    BY <1>2, <2>1, <2>2, <2>3
<1> QED
  BY <1>1, <1>2, <1>3

(* The steps of a page at its link, and those on behalf of a call. *)
PageTurn ==
    \/ \E t \in Tabs : Enable(t) \/ Disable(t) \/ ConnectFails(t) \/ TryAgain(t)
    \/ \E t \in Tabs, l \in Links : Connects(t, l)
    \/ \E l \in Links : LosesLink(l) \/ SeesClosed(l) \/ TakesClose(l)
PageCall ==
    \/ \E l \in Links : CarriesOut(l) \/ SendsNotice(l)
    \/ \E task \in work : Answers(task)

(* The page's steps leave the relay as it is, and link nothing. *)
LEMMA PageStepTyped ==
    ASSUME Typed, NEW atRelay \in SUBSET ToRelay, Delivers({}, atRelay),
           \A k \in Links : links'[k].atRelay \in {links[k].atRelay, "accepted"},
           UNCHANGED <<relayVars, fileVars>>, TabsTyped', WorkTyped', SentTyped'
    PROVE  Typed'
<1>0. {} \in SUBSET ToPage
  OBVIOUS
<1>1. LinksTyped' /\ MessagesTyped'
  BY <1>0, DeliveredTypes DEF Typed
<1>2. RelayTyped' /\ CallsTyped' /\ FilesTyped' /\ page' = page
  BY KeptTypes DEF relayVars, fileVars, Typed
<1>3. OneIsLinked'
  BY <1>2 DEF Typed, OneIsLinked
<1> QED
  BY <1>1, <1>2, <1>3 DEF Typed

LEMMA PageTurnTyped ==
    ASSUME Typed, PageTurn
    PROVE  Typed'
<1>0. {} \in SUBSET ToRelay /\ {Key} \in SUBSET ToRelay /\ {Closing} \in SUBSET ToRelay /\ LinksTyped
  BY MessageTypes DEF Typed
<1>a. \A l \in Links : WorkLeft(l) \in SUBSET [on : Links, id : Nat, of : Calls]
  BY DEF WorkLeft, Typed, WorkTyped
<1>b. \A t \in Tabs : tabs[t] \in TabRecords /\ tabs \in [Tabs -> TabRecords]
  BY DEF Typed, TabsTyped
<1>1. ASSUME NEW t \in Tabs, Enable(t) \/ ConnectFails(t) \/ TryAgain(t) PROVE Typed'
  <2>1. /\ [IdleTab EXCEPT !.on = TRUE, !.connecting = TRUE] \in TabRecords
        /\ [tabs[t] EXCEPT !.pendingTry = FALSE, !.connecting = TRUE] \in TabRecords
        /\ [tabs[t] EXCEPT !.pendingTry = FALSE] \in TabRecords
    <3>1. IdleTab \in TabRecords /\ tabs[t] \in TabRecords
      BY <1>b, TabTypes
    <3> QED
      BY <3>1 DEF TabRecords
  <2>2. /\ TriesAgainLater([tabs[t] EXCEPT !.pendingTry = FALSE]) \in TabRecords
        /\ LinkClosed(tabs[t], FALSE, FALSE) \in TabRecords
    <3>1. FALSE \in BOOLEAN
      OBVIOUS
    <3> QED
      BY <1>b, <2>1, <3>1, TabTypes
  <2>3. \E tab \in TabRecords : tabs' = [tabs EXCEPT ![t] = tab]
    BY <1>1, <2>1, <2>2 DEF Enable, ConnectFails, TryAgain
  <2>4. TabsTyped'
    BY <1>b, <2>3 DEF TabsTyped
  <2>5. UNCHANGED <<relayVars, links, work, fileVars, ghosts>>
    BY <1>1 DEF Enable, ConnectFails, TryAgain
  <2>6. Delivers({}, {}) /\ WorkTyped' /\ SentTyped'
    BY <1>0, <2>5, NothingDelivered, KeptTypes DEF Typed, ghosts
  <2> QED
    BY <1>0, <2>4, <2>5, <2>6, PageStepTyped
<1>2. ASSUME NEW t \in Tabs, Disable(t) PROVE Typed'
  <2>1. TabsTyped' /\ SentTyped' /\ UNCHANGED <<relayVars, fileVars>>
    BY <1>2, <1>b, TabTypes, KeptTypes DEF Disable, TabsTyped, Typed, ghosts
  <2>2. CASE tabs[t].socket = NoPage
    <3>1. UNCHANGED <<links, work>>
      BY <1>2, <2>2 DEF Disable
    <3>2. Delivers({}, {}) /\ WorkTyped'
      BY <1>0, <3>1, NothingDelivered, KeptTypes DEF Typed
    <3> QED
      BY <1>0, <2>1, <3>1, <3>2, PageStepTyped
  <2>3. CASE tabs[t].socket # NoPage
    <3>1. PICK l \in Links : l = tabs[t].socket
      BY <1>b, <2>3 DEF TabRecords
    <3>2. links' = [SentBack(l, Closing) EXCEPT ![l] = ClosedAtPage(@)] /\ work' = WorkLeft(l)
      BY <1>2, <2>3, <3>1 DEF Disable
    <3>3. Delivers({}, {Closing}) /\ \A k \in Links : links'[k].atRelay = links[k].atRelay
      BY <1>0, <3>2, PageLeavesLink
    <3>4. WorkTyped'
      BY <1>a, <3>2 DEF WorkTyped
    <3> QED
      BY <1>0, <2>1, <3>3, <3>4, PageStepTyped
  <2> QED
    BY <2>2, <2>3
<1>3. ASSUME NEW t \in Tabs, NEW l \in Links, Connects(t, l) PROVE Typed'
  <2>1. [tabs[t] EXCEPT !.socket = l, !.connecting = FALSE] \in TabRecords
    BY <1>b DEF TabRecords
  <2>2. tabs' = [tabs EXCEPT ![t] = [tabs[t] EXCEPT !.socket = l, !.connecting = FALSE]]
    BY <1>3 DEF Connects
  <2>3. TabsTyped' /\ WorkTyped' /\ SentTyped' /\ UNCHANGED <<relayVars, fileVars>>
    BY <1>3, <1>b, <2>1, <2>2, KeptTypes DEF TabsTyped, Connects, Typed, ghosts
  <2>4. /\ Delivers({}, {Key})
        /\ \A k \in Links : links'[k].atRelay \in {links[k].atRelay, "accepted"}
    BY <1>0, <1>3, PageConnects
  <2> QED
    BY <1>0, <2>3, <2>4, PageStepTyped
<1>4. ASSUME NEW l \in Links, NEW isRefused \in BOOLEAN, PageClosed(l, isRefused) PROVE Typed'
  <2>1. WorkTyped' /\ SentTyped' /\ UNCHANGED <<relayVars, fileVars>>
    BY <1>4, <1>a, KeptTypes DEF PageClosed, WorkTyped, Typed, ghosts
  <2>2. TabsTyped'
    <3>1. \A t \in Tabs : LinkClosed(tabs[t], TRUE, isRefused) \in TabRecords
      BY <1>b, TabTypes
    <3> QED
      BY <1>4, <1>b, <3>1 DEF PageClosed, TabsTyped
  <2>3. Delivers({}, {}) /\ \A k \in Links : links'[k].atRelay = links[k].atRelay
    BY <1>0, <1>4, PageClosesLink DEF PageClosed
  <2> QED
    BY <1>0, <2>1, <2>2, <2>3, PageStepTyped
<1> QED
  BY <1>1, <1>2, <1>3, <1>4 DEF PageTurn, LosesLink, SeesClosed, TakesClose

LEMMA PageCallTyped ==
    ASSUME Typed, PageCall
    PROVE  Typed'
<1>0. {} \in SUBSET ToRelay /\ LinksTyped /\ MessagesTyped
  BY DEF Typed
<1>1. ASSUME NEW l \in Links, CarriesOut(l) PROVE Typed'
  <2> DEFINE request == Head(links[l].toPage)
             answer  == Answer(request.id, request.of, "ok")
  <2>1. /\ request \in ToSet(links[l].toPage) /\ Delivers({}, {answer})
        /\ \A k \in Links : links'[k].atRelay = links[k].atRelay
    BY <1>0, <1>1, PageCarriesOut
  <2>2. request \in ToPage /\ request.what = "request"
    BY <1>0, <1>1, <2>1 DEF MessagesTyped, CarriesOut
  <2>3. request.id \in Nat /\ request.of \in Calls
    BY <2>2 DEF ToPage, Messages
  <2>4. {answer} \in SUBSET ToRelay
    BY <2>3, MessageTypes
  <2>5. WorkTyped'
    <3>1. work' \in {work, work \cup {[on |-> l, id |-> request.id, of |-> request.of]}}
      BY <1>1 DEF CarriesOut
    <3> HIDE DEF request
    <3> QED
      BY <2>3, <3>1 DEF Typed, WorkTyped
  <2>6. TabsTyped' /\ SentTyped' /\ UNCHANGED <<relayVars, fileVars>>
    BY <1>1, KeptTypes DEF CarriesOut, Typed
  <2> HIDE DEF answer, request
  <2> QED
    BY <2>1, <2>4, <2>5, <2>6, PageStepTyped
<1>2. ASSUME NEW l \in Links, SendsNotice(l) PROVE Typed'
  <2>1. sent + 1 \in 1 .. MaxNotices /\ SentTyped'
    BY <1>2, BoundsAssumption DEF SendsNotice, Typed, SentTyped
  <2>2. Notice(sent + 1) \in ToRelay /\ Notice(sent + 1) \in Messages
    BY <2>1, MessageTypes
  <2>3. Delivers({}, {Notice(sent + 1)}) /\ \A k \in Links : links'[k].atRelay = links[k].atRelay
    BY <1>0, <1>2, <2>2, PageSendsBack DEF SendsNotice
  <2>4. {Notice(sent + 1)} \in SUBSET ToRelay
    BY <2>2
  <2>5. TabsTyped' /\ WorkTyped' /\ UNCHANGED <<relayVars, fileVars>>
    BY <1>2, KeptTypes DEF SendsNotice, Typed
  <2> QED
    BY <2>1, <2>3, <2>4, <2>5, PageStepTyped
<1>3. ASSUME NEW task \in work, Answers(task) PROVE Typed'
  <2>1. task.on \in Links /\ task.id \in Nat /\ task.of \in Calls
    BY DEF Typed, WorkTyped
  <2>2. PICK reply \in {"ok", "refused"} : links' = SentBack(task.on, Answer(task.id, task.of, reply))
    BY <1>3 DEF Answers
  <2> DEFINE answer == Answer(task.id, task.of, reply)
  <2>3. answer \in ToRelay /\ answer \in Messages
    BY <2>1, MessageTypes
  <2>4. Delivers({}, {answer}) /\ \A k \in Links : links'[k].atRelay = links[k].atRelay
    BY <1>0, <2>1, <2>2, <2>3, PageSendsBack
  <2>5. TabsTyped' /\ SentTyped' /\ UNCHANGED <<relayVars, fileVars>>
    BY <1>3, KeptTypes DEF Answers, Typed, ghosts
  <2>6. WorkTyped'
    BY <1>3 DEF Answers, Typed, WorkTyped
  <2>7. {answer} \in SUBSET ToRelay
    BY <2>3
  <2> HIDE DEF answer
  <2> QED
    BY <2>4, <2>5, <2>6, <2>7, PageStepTyped
<1> QED
  BY <1>1, <1>2, <1>3 DEF PageCall

LEMMA TypedInit == Init => Typed
<1> SUFFICES ASSUME Init PROVE Typed
  OBVIOUS
<1>1. PICK scenario \in Scenarios :
          /\ calls = [c \in Calls |-> Unasked(scenario.kinds[c])]
          /\ links = [l \in Links |-> IF l <= scenario.spent
                                      THEN ClosedAtRelay(ClosedAtPage(UnusedLink)) ELSE UnusedLink]
  BY DEF Init
<1>2. CallsTyped
  <2>1. \A c \in Calls : scenario.kinds[c] \in CallKinds
    BY ScenariosAssumption
  <2> QED
    BY <1>1, <2>1, RecordTypes DEF CallsTyped
<1>3. LinksTyped /\ MessagesTyped /\ OneIsLinked
  <2>1. \A l \in Links : /\ links[l] \in LinkRecords /\ links[l].toPage = <<>> /\ links[l].toRelay = <<>>
                         /\ links[l].atRelay # "linked"
    BY <1>1, LinkTypes
  <2>2. LinksTyped
    BY <1>1, <2>1 DEF LinksTyped
  <2> QED
    BY <2>1, <2>2, NoElements DEF MessagesTyped, OneIsLinked
<1>4. RelayTyped /\ WorkTyped /\ SentTyped
  <2>1. <<>> \in Seq(1 .. MaxNotices)
    OBVIOUS
  <2>2. RelayTyped
    BY <2>1 DEF Init, RelayTyped, MayBePage
  <2> QED
    BY <2>2, BoundsAssumption DEF Init, WorkTyped, SentTyped
<1>5. TabsTyped /\ FilesTyped
  BY TabTypes DEF Init, TabsTyped, FilesTyped, Contents
<1> QED
  BY <1>2, <1>3, <1>4, <1>5 DEF Typed

(* The steps of Next, one by one: what an invariant is to be proved of. *)
LEMMA StepCases ==
    ASSUME Next
    PROVE  \/ \E c \in Calls :
                  \/ Idle /\ (Ask(c) \/ CancelCall(c) \/ Deadline(c) \/ WaitRunsOut(c))
                  \/ Idle /\ (Judge(c) \/ SaveStep(c))
                  \/ Resume(c)
           \/ \E l \in Links : TakeMessage(l) /\ (Idle \/ reading = l)
           \/ Idle /\ ((\E l \in Links : LinkEnds(l)) \/ CloseRelay)
           \/ Idle /\ PageTurn
           \/ Idle /\ PageCall
           \/ Idle /\ FileAppears
<1>1. CASE RelayNext
  <2>1. CASE \E c \in Calls : \/ Idle /\ (Ask(c) \/ CancelCall(c))
                              \/ TimerFires(c) \/ FileStep(c) \/ Resume(c)
    BY <2>1 DEF TimerFires, FileStep
  <2>2. CASE \E l \in Links : Reads(l) \/ (Idle /\ LinkEnds(l))
    BY <2>2 DEF Reads
  <2> QED
    BY <1>1, <2>1, <2>2 DEF RelayNext
<1>2. CASE PageNext
  BY <1>2 DEF PageNext, PageReads, PageTries, PageTurn, PageCall
<1>3. CASE Idle /\ FileAppears
  BY <1>3
<1> QED
  BY <1>1, <1>2, <1>3 DEF Next

LEMMA TypedStep == Typed /\ [Next]_vars => Typed'
<1> SUFFICES ASSUME Typed, [Next]_vars PROVE Typed'
  OBVIOUS
<1>1. CASE Next
  <2>1. ASSUME FileAppears PROVE Typed'
    <3>1. /\ RelayTyped' /\ CallsTyped' /\ TabsTyped' /\ WorkTyped' /\ LinksTyped' /\ SentTyped'
          /\ OneIsLinked' /\ MessagesTyped'
      BY <2>1, KeptTypes DEF FileAppears, Typed, relayVars, pageVars, ghosts
    <3>2. FilesTyped'
      BY <2>1 DEF FileAppears, Typed, FilesTyped, Contents
    <3> QED
      BY <3>1, <3>2 DEF Typed
  <2> QED
    BY <1>1, <2>1, StepCases, AskTyped, CallTurnTyped, JudgeTyped, ResumeTyped, LinkGoneTyped,
       ReadsTyped, PageTurnTyped, PageCallTyped
<1>2. CASE UNCHANGED vars
  BY <1>2, KeptTypes DEF vars, relayVars, pageVars, fileVars, ghosts, Typed
<1> QED
  BY <1>1, <1>2

LEMMA TypedAlways == Spec => []Typed
<1> QED
  BY TypedInit, TypedStep, PTL DEF Spec

(* AgentRelay.TypeOK: the relay, its links and the pages keep their types, and  *)
(* the page of the relay is the one link whose key it took (presentKey), so      *)
(* that no second page is ever linked.                                       *)
THEOREM TypeCorrect == Spec => []TypeOK
<1> QED
  BY TypedAlways, TypedIsTypeOK, PTL

-----------------------------------------------------------------------------
(* What a step makes of one call *)

(* The call c is left as `record`, and no other call is touched. *)
OnlyMoves(c, record) == calls'[c] = record /\ \A d \in Calls \ {c} : calls'[d] = calls[d]

(* What asks the page: the call is registered with the number given out, or was  *)
(* canceled before and has ended.                                            *)
LEMMA AsksPageMoves ==
    ASSUME Typed, NEW c \in Calls, NEW record \in CallRecords, AsksPage(c, record)
    PROVE  \/ /\ record.end = "canceled"
              /\ OnlyMoves(c, EndedBy(record, "canceled"))
           \/ /\ record.end # "canceled"
              /\ OnlyMoves(c, [record EXCEPT !.stage = "atPage", !.id = nextPageCallId])
BY DEF AsksPage, Becomes, OnlyMoves, Typed, CallsTyped

LEMMA GoesOnMoves ==
    ASSUME Typed, NEW c \in Calls, NEW record \in CallRecords, GoesOnWatching(c, record)
    PROVE  \/ /\ record.kind = "watch" /\ notices = <<>> /\ UNCHANGED notices
              /\ OnlyMoves(c, [record EXCEPT !.stage = "waiting"])
           \/ /\ notices' = <<>>
              /\ OnlyMoves(c, EndedBy([record EXCEPT !.got = notices], "relay"))
BY DEF GoesOnWatching, TakesNotices, Becomes, OnlyMoves, Typed, CallsTyped

(* toolCallReplyOf, call by call. *)
LEMMA AskMoves ==
    ASSUME Typed, NEW c \in Calls, Ask(c)
    PROVE  /\ calls[c].stage = "unasked" /\ Asked(c) = [calls[c] EXCEPT !.on = page]
           /\ \/ /\ OnlyMoves(c, EndedBy(Asked(c), "relay"))
                 /\ UNCHANGED <<nextPageCallId, links, notices>>
              \/ /\ page # NoPage /\ AsksPage(c, Asked(c)) /\ UNCHANGED notices
                 /\ ~IsSave(c)
              \/ /\ page # NoPage /\ GoesOnWatching(c, Asked(c)) /\ IsWatch(c)
                 /\ UNCHANGED <<nextPageCallId, links>>
              \/ /\ OnlyMoves(c, [Asked(c) EXCEPT !.stage = "judging"]) /\ IsSave(c)
                 /\ UNCHANGED <<nextPageCallId, links, notices>>
<1>1. IsWatch(c) => ~IsSave(c)
  BY DEF IsWatch, IsSave
<1>2. \A record : Becomes(c, record) => OnlyMoves(c, record)
  BY DEF Becomes, OnlyMoves, Typed, CallsTyped
<1>3. calls[c].stage = "unasked" /\ Asked(c) = [calls[c] EXCEPT !.on = page]
  BY DEF Ask, Asked
<1>4. CASE ~IsWatch(c) /\ ~IsSave(c) /\ AskPlain(c)
  BY <1>2, <1>3, <1>4 DEF AskPlain
<1>5. CASE IsWatch(c) /\ AskWatch(c)
  BY <1>1, <1>2, <1>3, <1>5 DEF AskWatch
<1>6. CASE IsSave(c) /\ AskSave(c)
  BY <1>2, <1>3, <1>6 DEF AskSave
<1> QED
  BY <1>4, <1>5, <1>6 DEF Ask

LEMMA TurnMoves ==
    ASSUME Typed, NEW c \in Calls, CancelCall(c) \/ Deadline(c) \/ WaitRunsOut(c)
    PROVE  /\ UNCHANGED <<running, page, nextPageCallId, watchSubscribed, notices, reading,
                          pageVars, fileVars, ghosts>>
           /\ \/ /\ calls[c].stage = "atPage" /\ calls[c].end = "none"
                 /\ OnlyMoves(c, EndedBy(calls[c], "canceled"))
              \/ /\ calls[c].stage \notin {"unasked", "ended", "atPage"} /\ calls[c].end = "none"
                 /\ OnlyMoves(c, [Woken(calls[c]) EXCEPT !.end = "canceled"])
              \/ /\ calls[c].stage = "atPage"
                 /\ OnlyMoves(c, [calls[c] EXCEPT !.stage = "replied", !.reply = "timedOut"])
              \/ /\ calls[c].stage = "waiting"
                 /\ OnlyMoves(c, [calls[c] EXCEPT !.stage = "woken"])
<1>1. \A record : Becomes(c, record) => OnlyMoves(c, record)
  BY DEF Becomes, OnlyMoves, Typed, CallsTyped
<1>2. CASE CancelCall(c)
  BY <1>1, <1>2 DEF CancelCall
<1>3. CASE Deadline(c)
  BY <1>1, <1>3 DEF Deadline
<1>4. CASE WaitRunsOut(c)
  BY <1>1, <1>4 DEF WaitRunsOut
<1> QED
  BY <1>2, <1>3, <1>4

LEMMA ResumeMoves ==
    ASSUME Typed, NEW c \in Calls, Resume(c)
    PROVE  /\ reading' = NoPage /\ calls[c].stage \in {"replied", "woken"}
           /\ UNCHANGED <<running, page, nextPageCallId, pageVars, fileVars, ghosts>>
           /\ \/ /\ calls[c].stage = "replied" /\ UNCHANGED notices
                 /\ OnlyMoves(c, Told(calls[c]))
              \/ /\ calls[c].stage = "replied" /\ calls[c].reply = "ok" /\ IsSave(c) /\ UNCHANGED notices
                 /\ OnlyMoves(c, [calls[c] EXCEPT !.stage = "judgingAgain"])
              \/ /\ UNCHANGED notices
                 /\ OnlyMoves(c, EndedBy(calls[c], "relay"))
              \/ /\ calls[c].stage = "replied" /\ IsWatch(c) /\ page = calls[c].on
                 /\ GoesOnWatching(c, calls[c])
              \/ /\ calls[c].stage = "woken" /\ notices' = <<>>
                 /\ OnlyMoves(c, EndedBy([calls[c] EXCEPT !.got = notices], "relay"))
<1>1. \A record : Becomes(c, record) => OnlyMoves(c, record)
  BY DEF Becomes, OnlyMoves, Typed, CallsTyped
<1>2. CASE ResumePlain(c)
  BY <1>1, <1>2 DEF Resume, ResumePlain
<1>3. CASE ResumeSave(c)
  BY <1>1, <1>3 DEF Resume, ResumeSave
<1>4. CASE ResumeSubscription(c)
  BY <1>1, <1>4 DEF Resume, ResumeSubscription
<1>5. CASE ResumeWatch(c)
  BY <1>1, <1>5 DEF Resume, ResumeWatch, TakesNotices
<1> QED
  BY <1>2, <1>3, <1>4, <1>5 DEF Resume

LEMMA JudgeMoves ==
    ASSUME Typed, NEW c \in Calls, Judge(c)
    PROVE  /\ calls[c].stage = "judging"
           /\ UNCHANGED <<running, page, watchSubscribed, notices, reading, tabs, work, fileVars, ghosts>>
           /\ \/ OnlyMoves(c, EndedBy(calls[c], "relay")) /\ UNCHANGED <<nextPageCallId, links>>
              \/ page # NoPage /\ AsksPage(c, calls[c])
BY DEF Judge, SaveFails, Becomes, OnlyMoves, Typed, CallsTyped

LEMMA SaveMoves ==
    ASSUME Typed, NEW c \in Calls, SaveStep(c)
    PROVE  /\ UNCHANGED <<running, page, nextPageCallId, watchSubscribed, notices, reading, pageVars, ghosts>>
           /\ \/ /\ calls[c].stage \in {"judgingAgain", "writing", "backingUp", "renaming"}
                 /\ OnlyMoves(c, EndedBy(calls[c], "relay")) /\ UNCHANGED fileVars
              \/ /\ calls[c].stage = "judgingAgain"
                 /\ OnlyMoves(c, [calls[c] EXCEPT !.stage = "writing", !.exists = files.name # NoFile])
                 /\ crossed' = (crossed \/ Writers # {}) /\ UNCHANGED <<files, saved>>
              \/ /\ calls[c].stage = "writing" /\ UNCHANGED fileVars
                 /\ \/ calls[c].exists /\ OnlyMoves(c, [calls[c] EXCEPT !.stage = "backingUp"])
                    \/ ~calls[c].exists /\ OnlyMoves(c, [calls[c] EXCEPT !.stage = "renaming"])
              \/ /\ calls[c].stage = "backingUp" /\ files.name # NoFile
                 /\ OnlyMoves(c, [calls[c] EXCEPT !.stage = "renaming"])
                 /\ files' = [name |-> NoFile, bak |-> files.name] /\ UNCHANGED <<saved, crossed>>
              \/ /\ calls[c].stage = "renaming"
                 /\ OnlyMoves(c, EndedBy(calls[c], "page"))
                 /\ files' = [files EXCEPT !.name = c] /\ UNCHANGED crossed
                 /\ saved' = [latest |-> c, before |-> saved.latest]
<1>1. \A record : Becomes(c, record) => OnlyMoves(c, record)
  BY DEF Becomes, OnlyMoves, Typed, CallsTyped
<1>2. CASE JudgeAgain(c)
  BY <1>1, <1>2 DEF SaveStep, JudgeAgain, SaveFails
<1>3. CASE WriteTemporary(c)
  BY <1>1, <1>3, AskedTypes DEF SaveStep, WriteTemporary, SaveFails, CallRecords
<1>4. CASE BackUp(c)
  BY <1>1, <1>4 DEF SaveStep, BackUp, SaveFails
<1>5. CASE Rename(c)
  BY <1>1, <1>5 DEF SaveStep, Rename, SaveFails
<1> QED
  BY <1>2, <1>3, <1>4, <1>5 DEF SaveStep

(* dropPage, call by call. *)
LEMMA DropMoves ==
    ASSUME Typed, NEW l, DropsPage(l)
    PROVE  \/ UNCHANGED <<page, watchSubscribed, notices, calls, dropped>>
           \/ /\ page' = NoPage /\ notices' = <<>> /\ dropped' = dropped \cup ToSet(notices)
              /\ \A c \in Calls :
                    \/ /\ calls[c].stage = "atPage"
                       /\ calls'[c] = [calls[c] EXCEPT !.stage = "replied", !.reply = "dropped"]
                    \/ calls[c].stage # "atPage" /\ calls'[c] = Woken(calls[c])
BY DEF DropsPage

-----------------------------------------------------------------------------
(* The saved file *)

WritingStages == {"writing", "backingUp", "renaming"}

(* One call writes at a time, what it found of the name is still so, and what was  *)
(* saved last is under the name, or under .bak while the name is empty.           *)
OneWriter == \A c, d \in Writers : c = d
NameAsFound ==
    \A c \in Calls :
        /\ calls[c].stage = "writing" => (calls[c].exists <=> files.name # NoFile)
        /\ calls[c].stage = "backingUp" => files.name # NoFile
        /\ calls[c].stage = "renaming" => files.name = NoFile
SavedIsHeld ==
    /\ files.name # NoFile => files.name = saved.latest
    /\ saved.latest \in {files.name, files.bak, NoFile}
    /\ files.name = saved.latest /\ saved.before # NoFile => files.bak = saved.before

SavingInv == crossed \/ (OneWriter /\ NameAsFound /\ SavedIsHeld)

(* A step that starts no writer and touches no file. *)
NoneStartsWriting ==
    \A c \in Calls : calls'[c].stage \in WritingStages =>
        calls'[c].stage = calls[c].stage /\ calls'[c].exists = calls[c].exists

LEMMA SavingKept ==
    ASSUME SavingInv, NoneStartsWriting, UNCHANGED fileVars
    PROVE  SavingInv'
<1>1. Writers' \subseteq Writers
  BY DEF Writers, NoneStartsWriting, WritingStages
<1>2. OneWriter => OneWriter'
  BY <1>1 DEF OneWriter
<1>3. NameAsFound => NameAsFound'
  BY DEF NameAsFound, NoneStartsWriting, WritingStages, fileVars
<1> QED
  BY <1>2, <1>3 DEF SavingInv, SavedIsHeld, fileVars

LEMMA OnlyMovesKeeps ==
    ASSUME Typed, NEW c \in Calls, NEW record, OnlyMoves(c, record),
           record.stage \notin WritingStages
    PROVE  NoneStartsWriting
<1> SUFFICES ASSUME NEW d \in Calls, calls'[d].stage \in WritingStages
             PROVE  calls'[d] = calls[d]
  BY DEF NoneStartsWriting
<1> QED
  BY DEF OnlyMoves

(* What no saving call does starts no writer. *)
LEMMA OthersDoNotWrite ==
    ASSUME Typed,
           \/ \E c \in Calls : Ask(c) \/ CancelCall(c) \/ Deadline(c) \/ WaitRunsOut(c) \/ Judge(c) \/ Resume(c)
           \/ \E l \in Links : TakeMessage(l) \/ LinkEnds(l)
           \/ CloseRelay \/ PageTurn \/ PageCall
    PROVE  NoneStartsWriting /\ UNCHANGED fileVars
<1>a. \A c \in Calls : calls[c] \in CallRecords /\ Asked(c) \in CallRecords
  BY AskedTypes
<1>e. \A r \in CallRecords : \A how \in {"page", "relay", "canceled"} :
          EndedBy(r, how).stage = "ended" /\ EndedBy([r EXCEPT !.got = notices], how).stage = "ended"
  BY DEF EndedBy
<1>w. "ended" \notin WritingStages /\ "atPage" \notin WritingStages /\ "judging" \notin WritingStages
      /\ "waiting" \notin WritingStages /\ "woken" \notin WritingStages /\ "replied" \notin WritingStages
      /\ "judgingAgain" \notin WritingStages
  BY DEF WritingStages
<1>q. ASSUME NEW c \in Calls, NEW r \in CallRecords, AsksPage(c, r) PROVE NoneStartsWriting
  <2>1. /\ EndedBy(r, "canceled").stage = "ended"
        /\ [r EXCEPT !.stage = "atPage", !.id = nextPageCallId].stage = "atPage"
    BY <1>e DEF CallRecords
  <2>2. PICK record : OnlyMoves(c, record) /\ record.stage \in {"ended", "atPage"}
    BY <1>q, <2>1, AsksPageMoves
  <2> QED
    BY <1>w, <2>2, OnlyMovesKeeps
<1>g. ASSUME NEW c \in Calls, NEW r \in CallRecords, GoesOnWatching(c, r) PROVE NoneStartsWriting
  <2>1. /\ EndedBy([r EXCEPT !.got = notices], "relay").stage = "ended"
        /\ [r EXCEPT !.stage = "waiting"].stage = "waiting"
    BY <1>e DEF CallRecords
  <2>2. PICK record : OnlyMoves(c, record) /\ record.stage \in {"ended", "waiting"}
    BY <1>g, <2>1, GoesOnMoves
  <2> QED
    BY <1>w, <2>2, OnlyMovesKeeps
<1>1. ASSUME NEW c \in Calls, Ask(c) PROVE NoneStartsWriting /\ UNCHANGED fileVars
  <2>1. [Asked(c) EXCEPT !.stage = "judging"].stage = "judging"
    BY <1>a DEF CallRecords
  <2>2. UNCHANGED fileVars
    BY <1>1 DEF Ask
  <2>3. ASSUME NEW record, OnlyMoves(c, record), record.stage \in {"ended", "judging"}
        PROVE  NoneStartsWriting
    BY <1>w, <2>3, OnlyMovesKeeps
  <2>4. EndedBy(Asked(c), "relay").stage = "ended"
    BY <1>a, <1>e
  <2> QED
    BY <1>1, <1>a, <1>q, <1>g, <2>1, <2>2, <2>3, <2>4, AskMoves
<1>2. ASSUME NEW c \in Calls, CancelCall(c) \/ Deadline(c) \/ WaitRunsOut(c)
      PROVE  NoneStartsWriting /\ UNCHANGED fileVars
  <2>1. /\ [calls[c] EXCEPT !.stage = "replied", !.reply = "timedOut"].stage = "replied"
        /\ [calls[c] EXCEPT !.stage = "woken"].stage = "woken"
    BY <1>a DEF CallRecords
  <2>2. UNCHANGED fileVars
    BY <1>2, TurnMoves
  <2>3. EndedBy(calls[c], "canceled").stage = "ended"
    BY <1>a, <1>e
  <2>4. ASSUME NEW record, OnlyMoves(c, record), record.stage \in {"ended", "replied", "woken"}
        PROVE  NoneStartsWriting
    BY <1>w, <2>4, OnlyMovesKeeps
  <2>5. ASSUME OnlyMoves(c, [Woken(calls[c]) EXCEPT !.end = "canceled"])
        PROVE  NoneStartsWriting
    <3>1. Woken(calls[c]) \in CallRecords
      BY <1>a, RecordTypes
    <3>2. /\ calls'[c].stage = Woken(calls[c]).stage /\ calls'[c].exists = Woken(calls[c]).exists
      BY <2>5, <3>1 DEF OnlyMoves, CallRecords
    <3>3. calls'[c].stage \in {"woken", calls[c].stage} /\ calls'[c].exists = calls[c].exists
      BY <1>a, <3>2, WokenFields
    <3> QED
      BY <1>w, <2>5, <3>3 DEF NoneStartsWriting, OnlyMoves
  <2> QED
    BY <1>2, <2>1, <2>2, <2>3, <2>4, <2>5, TurnMoves
<1>3. ASSUME NEW c \in Calls, Judge(c) PROVE NoneStartsWriting /\ UNCHANGED fileVars
  <2>1. EndedBy(calls[c], "relay").stage \notin WritingStages
    BY <1>a, <1>e, <1>w
  <2>2. OnlyMoves(c, EndedBy(calls[c], "relay")) => NoneStartsWriting
    BY <2>1, OnlyMovesKeeps
  <2> QED
    BY <1>3, <1>a, <1>q, <2>2, JudgeMoves
<1>4. ASSUME NEW c \in Calls, Resume(c) PROVE NoneStartsWriting /\ UNCHANGED fileVars
  <2>1. [calls[c] EXCEPT !.stage = "judgingAgain"].stage = "judgingAgain"
    BY <1>a DEF CallRecords
  <2>2. Told(calls[c]).stage = "ended"
    BY <1>a, <1>e DEF Told
  <2>3. /\ EndedBy(calls[c], "relay").stage = "ended"
        /\ EndedBy([calls[c] EXCEPT !.got = notices], "relay").stage = "ended"
    BY <1>a, <1>e
  <2>4. ASSUME NEW record, OnlyMoves(c, record), record.stage \in {"ended", "judgingAgain"}
        PROVE  NoneStartsWriting
    BY <1>w, <2>4, OnlyMovesKeeps
  <2>5. UNCHANGED fileVars
    BY <1>4, ResumeMoves
  <2> QED
    BY <1>4, <1>a, <1>g, <2>1, <2>2, <2>3, <2>4, <2>5, ResumeMoves
<1>5. ASSUME NEW l, DropsPage(l) PROVE NoneStartsWriting
  <2>1. \A c \in Calls : /\ [calls[c] EXCEPT !.stage = "replied", !.reply = "dropped"].stage = "replied"
                         /\ Woken(calls[c]).stage \in {"woken", calls[c].stage}
                         /\ Woken(calls[c]).exists = calls[c].exists
    BY <1>a, WokenFields DEF CallRecords
  <2> QED
    BY <1>5, <1>w, <2>1, DropMoves DEF NoneStartsWriting
<1>6. ASSUME NEW l \in Links, TakeMessage(l) PROVE NoneStartsWriting /\ UNCHANGED fileVars
  <2>1. \A c \in Calls : calls'[c] = calls[c] \/ calls'[c] = Woken(calls[c]) \/ calls'[c].stage = "replied"
    <3>1. CASE PresentKey(l) \/ TakeClose(l, Head(links[l].toRelay))
      BY <3>1 DEF PresentKey, TakeClose
    <3>2. CASE TakeNotice(l, Head(links[l].toRelay))
      BY <3>2 DEF TakeNotice
    <3>3. CASE TakeAnswer(l, Head(links[l].toRelay))
      BY <1>a, <3>3 DEF TakeAnswer, CallRecords
    <3> QED
      BY <1>6, <3>1, <3>2, <3>3 DEF TakeMessage
  <2>2. \A c \in Calls : /\ Woken(calls[c]).stage \in {"woken", calls[c].stage}
                         /\ Woken(calls[c]).exists = calls[c].exists
    BY <1>a, WokenFields
  <2> QED
    BY <1>6, <1>w, <2>1, <2>2 DEF NoneStartsWriting, TakeMessage
<1>7. ASSUME PageTurn \/ PageCall PROVE NoneStartsWriting /\ UNCHANGED fileVars
  <2>1. UNCHANGED <<relayVars, fileVars>>
    BY <1>7 DEF PageTurn, PageCall, Enable, Disable, ConnectFails, TryAgain, Connects, LosesLink, SeesClosed,
       TakesClose, PageClosed, CarriesOut, SendsNotice, Answers
  <2> QED
    BY <2>1 DEF NoneStartsWriting, relayVars
<1> QED
  BY <1>1, <1>2, <1>3, <1>4, <1>5, <1>6, <1>7 DEF LinkEnds, CloseRelay

LEMMA SavingWritten ==
    ASSUME Typed, SavingInv, NEW c \in Calls, SaveStep(c)
    PROVE  SavingInv'
<1>a. calls[c] \in CallRecords
  BY AskedTypes
<1>b. EndedBy(calls[c], "relay").stage = "ended" /\ EndedBy(calls[c], "page").stage = "ended"
  BY <1>a, EndedFields
<1>n. c # NoFile
  BY NamesAssumption
<1>w. \A d \in Calls : d \in Writers <=> calls[d].stage \in WritingStages
  BY DEF Writers, WritingStages
<1>v. \A d \in Calls : d \in Writers' <=> calls'[d].stage \in WritingStages
  BY DEF Writers, WritingStages
<1>1. CASE OnlyMoves(c, EndedBy(calls[c], "relay")) /\ UNCHANGED fileVars
  <2>1. EndedBy(calls[c], "relay").stage \notin WritingStages
    BY <1>b DEF WritingStages
  <2>2. NoneStartsWriting
    BY <1>1, <2>1, OnlyMovesKeeps
  <2> QED
    BY <1>1, <2>2, SavingKept
<1>2. CASE crossed'
  BY <1>2 DEF SavingInv
<1>3. CASE /\ calls[c].stage = "judgingAgain" /\ ~crossed'
           /\ OnlyMoves(c, [calls[c] EXCEPT !.stage = "writing", !.exists = files.name # NoFile])
           /\ crossed' = (crossed \/ Writers # {}) /\ UNCHANGED <<files, saved>>
  <2>1. calls'[c].stage = "writing" /\ calls'[c].exists = (files.name # NoFile)
    BY <1>3, <1>a DEF OnlyMoves, CallRecords
  <2>2. Writers = {} /\ OneWriter /\ NameAsFound /\ SavedIsHeld
    BY <1>3 DEF SavingInv
  <2>3. \A d \in Calls \ {c} : d \notin Writers' /\ calls'[d].stage \notin WritingStages
    BY <1>3, <1>w, <1>v, <2>2 DEF OnlyMoves
  <2>4. OneWriter' /\ NameAsFound'
    BY <1>3, <2>1, <2>3 DEF OneWriter, NameAsFound, WritingStages, Writers
  <2> QED
    BY <1>3, <2>2, <2>4 DEF SavingInv, SavedIsHeld
<1>4. CASE /\ calls[c].stage = "writing" /\ UNCHANGED fileVars /\ ~crossed'
           /\ \/ calls[c].exists /\ OnlyMoves(c, [calls[c] EXCEPT !.stage = "backingUp"])
              \/ ~calls[c].exists /\ OnlyMoves(c, [calls[c] EXCEPT !.stage = "renaming"])
  <2>1. OneWriter /\ NameAsFound /\ SavedIsHeld
    BY <1>4 DEF SavingInv, fileVars
  <2>2. /\ calls'[c].stage = IF calls[c].exists THEN "backingUp" ELSE "renaming"
        /\ \A d \in Calls \ {c} : calls'[d] = calls[d]
    BY <1>4, <1>a DEF OnlyMoves, CallRecords
  <2>3. Writers' = Writers
    BY <1>4, <2>2 DEF Writers
  <2>4. NameAsFound'
    BY <1>4, <2>1, <2>2 DEF NameAsFound, fileVars
  <2> QED
    BY <1>4, <2>1, <2>3, <2>4 DEF SavingInv, OneWriter, SavedIsHeld, fileVars
<1>5. CASE /\ calls[c].stage = "backingUp" /\ files.name # NoFile /\ ~crossed'
           /\ OnlyMoves(c, [calls[c] EXCEPT !.stage = "renaming"])
           /\ files' = [name |-> NoFile, bak |-> files.name] /\ UNCHANGED <<saved, crossed>>
  <2>1. OneWriter /\ NameAsFound /\ SavedIsHeld
    BY <1>5 DEF SavingInv
  <2>2. calls'[c].stage = "renaming" /\ \A d \in Calls \ {c} : calls'[d] = calls[d]
    BY <1>5, <1>a DEF OnlyMoves, CallRecords
  <2>3. Writers' = Writers
    BY <1>5, <2>2 DEF Writers
  <2>4. \A d \in Calls \ {c} : calls'[d].stage \notin WritingStages
    BY <1>5, <1>w, <2>1, <2>2 DEF OneWriter, WritingStages
  <2>5. NameAsFound'
    BY <1>5, <2>2, <2>4 DEF NameAsFound, WritingStages
  <2>6. SavedIsHeld'
    BY <1>5, <2>1 DEF SavedIsHeld
  <2> QED
    BY <2>1, <2>3, <2>5, <2>6 DEF SavingInv, OneWriter
<1>6. CASE /\ calls[c].stage = "renaming" /\ ~crossed'
           /\ OnlyMoves(c, EndedBy(calls[c], "page"))
           /\ files' = [files EXCEPT !.name = c] /\ UNCHANGED crossed
           /\ saved' = [latest |-> c, before |-> saved.latest]
  <2>1. OneWriter /\ NameAsFound /\ SavedIsHeld
    BY <1>6 DEF SavingInv
  <2>2. \A d \in Calls : calls'[d].stage \notin WritingStages
    BY <1>6, <1>b, <1>w, <2>1 DEF OneWriter, WritingStages, OnlyMoves
  <2>3. OneWriter' /\ NameAsFound'
    BY <1>v, <2>2 DEF OneWriter, NameAsFound, WritingStages, Writers
  <2>4. SavedIsHeld'
    <3>1. files.name = NoFile
      BY <1>6, <2>1 DEF NameAsFound
    <3>2. files' = [name |-> c, bak |-> files.bak]
      BY <1>6 DEF Typed, FilesTyped
    <3> QED
      BY <1>6, <1>n, <2>1, <3>1, <3>2 DEF SavedIsHeld
  <2> QED
    BY <2>3, <2>4 DEF SavingInv
<1> QED
  BY <1>1, <1>2, <1>3, <1>4, <1>5, <1>6, SaveMoves

LEMMA SavingHolds == Spec => []SavingInv
<1>1. Init => SavingInv
  <2> SUFFICES ASSUME Init PROVE SavingInv
    OBVIOUS
  <2>1. PICK scenario \in Scenarios : calls = [c \in Calls |-> Unasked(scenario.kinds[c])]
    BY DEF Init
  <2>2. \A c \in Calls : calls[c].stage = "unasked"
    BY <2>1 DEF Unasked
  <2>3. OneWriter /\ NameAsFound
    BY <2>2 DEF OneWriter, NameAsFound, Writers
  <2>4. SavedIsHeld
    BY DEF Init, SavedIsHeld
  <2> QED
    BY <2>3, <2>4 DEF SavingInv
<1>2. Typed /\ SavingInv /\ [Next]_vars => SavingInv'
  <2> SUFFICES ASSUME Typed, SavingInv, [Next]_vars PROVE SavingInv'
    OBVIOUS
  <2>1. CASE UNCHANGED vars
    <3>1. NoneStartsWriting /\ UNCHANGED fileVars
      BY <2>1 DEF vars, relayVars, NoneStartsWriting
    <3> QED
      BY <3>1, SavingKept
  <2>2. CASE FileAppears
    <3>1. UNCHANGED calls /\ Writers' = Writers
      BY <2>2 DEF FileAppears, relayVars, Writers
    <3>2. CASE ~crossed'
      <4>1. Writers = {} /\ OneWriter /\ NameAsFound /\ SavedIsHeld
        BY <2>2, <3>2 DEF FileAppears, SavingInv
      <4>2. OneWriter' /\ NameAsFound'
        BY <3>1, <4>1 DEF OneWriter, NameAsFound, Writers
      <4>3. files' = [name |-> OtherFile, bak |-> files.bak]
        BY <2>2 DEF FileAppears, Typed, FilesTyped
      <4>4. SavedIsHeld'
        BY <2>2, <4>3 DEF FileAppears, SavedIsHeld
      <4> QED
        BY <4>2, <4>4 DEF SavingInv
    <3>3. CASE crossed'
      BY <3>3 DEF SavingInv
    <3> QED
      BY <3>2, <3>3
  <2>3. CASE Next /\ ~FileAppears
    BY <2>3, StepCases, SavingWritten, SavingKept, OthersDoNotWrite
  <2> QED
    BY <2>1, <2>2, <2>3
<1> QED
  BY <1>1, <1>2, TypedAlways, PTL DEF Spec

(* AgentRelay.SavedFileStays: unless two writers of the name overlapped, what was   *)
(* saved last is whole under the name or under .bak at every moment, and the file   *)
(* it replaced is the .bak (saveResultOf, writeSaveTarget), for every number of     *)
(* saves, cancellations, failures and files of another program.                   *)
THEOREM SavedFileAlwaysStays == Spec => []SavedFileStays
<1>1. SavingInv => SavedFileStays
  BY DEF SavingInv, SavedIsHeld, SavedFileStays
<1> QED
  BY <1>1, SavingHolds, PTL

-----------------------------------------------------------------------------
(* The calls: the invariant *)

WatchKinds == {"watch", "look"}
SaveKinds  == {"save", "replace"}
SaveStages == {"judging", "judgingAgain", "writing", "backingUp", "renaming"}

(* What holds of the record of the call c at every moment: it ends once, takes     *)
(* notices only as the answer that goes out, and no other call's answer.           *)
CallSound(c, r) ==
    /\ r.stage = "unasked" => r.end = "none"
    /\ r.end \in {"page", "relay"} => r.stage = "ended"
    /\ r.stage = "ended" => r.end # "none"
    /\ r.end = "canceled" => r.stage \in {"ended", "woken"} \cup SaveStages
    /\ r.end # "relay" => r.got = <<>>
    /\ r.of \in {c, NoCall}
    /\ r.stage \in {"waiting", "woken"} => r.kind \in WatchKinds
    /\ r.stage \in SaveStages => r.kind \in SaveKinds
    /\ r.stage \in {"atPage", "replied"} /\ r.kind \in WatchKinds => r.on # NoPage

CallsSound == \A c \in Calls : CallSound(c, calls[c])

(* A watch call waits only on the page that is linked and while there is nothing to *)
(* tell; a canceled one goes on before the next notice is read.                   *)
WaitsInv ==
    /\ \A c \in Calls : calls[c].stage = "waiting" => /\ notices = <<>> /\ page # NoPage
                                                      /\ calls[c].on = page
    /\ Idle => reading = NoPage
    /\ \A c \in Calls : calls[c].stage = "woken" /\ calls[c].end = "canceled"
                            => notices = <<>> /\ reading = NoPage

(* A number under way was given to the call it goes with, and to no other. *)
NumberOf(id, c) ==
    /\ id < nextPageCallId
    /\ \A d \in Calls : calls[d].stage = "atPage" /\ calls[d].id = id => d = c

NumbersInv ==
    /\ \A c \in Calls : calls[c].stage = "atPage" => calls[c].id < nextPageCallId
    /\ \A l \in Links : \A m \in ToSet(links[l].toPage) :
          m.what = "request" => NumberOf(m.id, m.of) /\ calls[m.of].stage # "unasked"
    /\ \A l \in Links : \A m \in ToSet(links[l].toRelay) :
          m.what = "answer" => NumberOf(m.id, m.of) /\ m.of \in carried
    /\ \A task \in work : NumberOf(task.id, task.of) /\ task.of \in carried

(* What has the page's answer behind it, the page has carried out. *)
CarriedInv ==
    /\ carried \subseteq Calls
    /\ \A c \in carried : calls[c].stage # "unasked"
    /\ \A c \in Calls : calls[c].stage \in {"judgingAgain"} \cup WritingStages => c \in carried
    /\ \A c \in Calls : calls[c].stage = "replied" /\ calls[c].reply \in {"ok", "refused"} => c \in carried

CallsInv == CallsSound /\ WaitsInv /\ NumbersInv /\ CarriedInv

-----------------------------------------------------------------------------
(* What a step can make of a call, field by field *)

Ended(r, s, how) ==
    /\ s.stage = "ended" /\ s.of = NoCall
    /\ s.end = IF r.end = "none" THEN how ELSE r.end
SameCall(r, s) == s.of = r.of /\ s.end = r.end /\ s.got = r.got

EndsTold(c, r, s) ==
    /\ s.got = r.got
    /\ \/ Ended(r, s, "relay")
       \/ Ended(r, s, "canceled") /\ r.stage # "unasked"
       \/ Ended(r, s, "page") /\ r.stage # "unasked" /\ c \in carried
EndsWithNotices(r, s) ==
    /\ r.stage \in {"unasked", "replied", "woken"} /\ (r.end = "none" \/ notices = <<>>)
    /\ Ended(r, s, "relay") /\ s.got = notices /\ notices' = <<>>
GoesToPage(r, s) ==
    /\ SameCall(r, s) /\ r.stage \in {"unasked", "judging"} /\ r.end # "canceled"
    /\ s.stage = "atPage" /\ s.id = nextPageCallId /\ nextPageCallId' = nextPageCallId + 1
    /\ r.kind \in WatchKinds => s.on # NoPage
GetsReply(c, r, s) ==
    /\ r.stage = "atPage" /\ s.stage = "replied" /\ s.on = r.on
    /\ s.end = r.end /\ s.got = r.got
    /\ \/ s.of = r.of /\ s.reply \in {"timedOut", "dropped"}
       \/ s.of = c /\ c \in carried
IsCanceled(r, s) ==
    /\ r.end = "none" /\ s.end = "canceled" /\ s.of = r.of /\ s.got = r.got
    /\ r.stage \notin {"unasked", "ended", "atPage", "replied"}
    /\ s.stage = IF r.stage = "waiting" THEN "woken" ELSE r.stage
GoesOn(c, r, s) ==
    /\ SameCall(r, s)
    /\ \/ /\ r.stage \in {"unasked", "replied"} /\ s.stage = "waiting" /\ r.kind \in WatchKinds
       \/ r.stage = "waiting" /\ s.stage = "woken"
       \/ r.stage = "unasked" /\ s.stage = "judging" /\ r.kind \in SaveKinds
       \/ /\ r.stage = "replied" /\ s.stage = "judgingAgain" /\ r.kind \in SaveKinds
          /\ c \in carried
       \/ /\ r.stage \in {"judgingAgain", "writing", "backingUp"} /\ s.stage \in WritingStages

Moved(c, r, s) ==
    /\ s.kind = r.kind
    /\ \/ s = r
       \/ EndsTold(c, r, s) \/ EndsWithNotices(r, s) \/ GoesToPage(r, s)
       \/ GetsReply(c, r, s) \/ IsCanceled(r, s) \/ GoesOn(c, r, s)

LEMMA EndedMoves ==
    ASSUME NEW c, NEW r \in CallRecords
    PROVE  /\ Moved(c, r, EndedBy(r, "relay"))
           /\ r.stage # "unasked" => Moved(c, r, EndedBy(r, "canceled"))
           /\ r.stage # "unasked" /\ c \in carried => Moved(c, r, EndedBy(r, "page"))
           /\ (r.stage \in {"unasked", "replied", "woken"} /\ notices' = <<>> /\ (r.end = "none" \/ notices = <<>>))
                  => Moved(c, r, EndedBy([r EXCEPT !.got = notices], "relay"))
<1>1. ASSUME NEW how
      PROVE  Ended(r, EndedBy(r, how), how) /\ EndedBy(r, how).got = r.got /\ EndedBy(r, how).kind = r.kind
  BY DEF EndedBy, Unasked, Ended
<1>2. /\ Ended(r, EndedBy([r EXCEPT !.got = notices], "relay"), "relay")
      /\ EndedBy([r EXCEPT !.got = notices], "relay").got = notices
      /\ EndedBy([r EXCEPT !.got = notices], "relay").kind = r.kind
  BY DEF EndedBy, Unasked, Ended, CallRecords
<1>3. Moved(c, r, EndedBy(r, "relay"))
  BY <1>1 DEF Moved, EndsTold
<1>4. r.stage # "unasked" => Moved(c, r, EndedBy(r, "canceled"))
  BY <1>1 DEF Moved, EndsTold
<1>5. r.stage # "unasked" /\ c \in carried => Moved(c, r, EndedBy(r, "page"))
  BY <1>1 DEF Moved, EndsTold
<1>6. (r.stage \in {"unasked", "replied", "woken"} /\ notices' = <<>> /\ (r.end = "none" \/ notices = <<>>))
          => Moved(c, r, EndedBy([r EXCEPT !.got = notices], "relay"))
  BY <1>2 DEF Moved, EndsWithNotices
<1> QED
  BY <1>3, <1>4, <1>5, <1>6

LEMMA AskedMoves ==
    ASSUME Typed, CallsInv, NEW c \in Calls, Ask(c)
    PROVE  Moved(c, calls[c], calls'[c]) /\ \A d \in Calls \ {c} : calls'[d] = calls[d]
<1>a. calls[c] \in CallRecords /\ calls[c].stage = "unasked" /\ Asked(c) = [calls[c] EXCEPT !.on = page]
      /\ Asked(c) \in CallRecords
  BY AskedTypes, AskMoves
<1>b. calls[c].end = "none" /\ Asked(c).end = "none"
  BY <1>a DEF CallsInv, CallsSound, CallSound, CallRecords
<1>1. CASE OnlyMoves(c, EndedBy(Asked(c), "relay"))
  <2>1. EndedBy(Asked(c), "relay") = EndedBy(calls[c], "relay")
    BY <1>a DEF EndedBy, Unasked, CallRecords
  <2>2. Moved(c, calls[c], EndedBy(calls[c], "relay"))
    BY <1>a, EndedMoves
  <2> QED
    BY <1>1, <2>1, <2>2 DEF OnlyMoves
<1>2. CASE page # NoPage /\ AsksPage(c, Asked(c)) /\ ~IsSave(c)
  <2>1. OnlyMoves(c, [Asked(c) EXCEPT !.stage = "atPage", !.id = nextPageCallId])
    BY <1>2, <1>a, <1>b, AsksPageMoves
  <2>2. GoesToPage(calls[c], calls'[c]) /\ calls'[c].kind = calls[c].kind
    BY <1>2, <1>a, <1>b, <2>1 DEF OnlyMoves, GoesToPage, SameCall, CallRecords, AsksPage
  <2> QED
    BY <2>1, <2>2 DEF Moved, OnlyMoves
<1>3. CASE page # NoPage /\ GoesOnWatching(c, Asked(c)) /\ IsWatch(c)
  <2>1. CASE OnlyMoves(c, [Asked(c) EXCEPT !.stage = "waiting"])
    <3>1. GoesOn(c, calls[c], calls'[c]) /\ calls'[c].kind = calls[c].kind
      BY <1>3, <1>a, <2>1 DEF OnlyMoves, GoesOn, SameCall, CallRecords, IsWatch, WatchKinds
    <3> QED
      BY <2>1, <3>1 DEF Moved, OnlyMoves
  <2>2. CASE notices' = <<>> /\ OnlyMoves(c, EndedBy([Asked(c) EXCEPT !.got = notices], "relay"))
    <3>1. EndedBy([Asked(c) EXCEPT !.got = notices], "relay") = EndedBy([calls[c] EXCEPT !.got = notices], "relay")
      BY <1>a DEF EndedBy, Unasked, CallRecords
    <3> QED
      BY <1>a, <1>b, <2>2, <3>1, EndedMoves DEF OnlyMoves
  <2> QED
    BY <1>3, <1>a, <2>1, <2>2, GoesOnMoves
<1>4. CASE OnlyMoves(c, [Asked(c) EXCEPT !.stage = "judging"]) /\ IsSave(c)
  <2>1. GoesOn(c, calls[c], calls'[c]) /\ calls'[c].kind = calls[c].kind
    BY <1>4, <1>a DEF OnlyMoves, GoesOn, SameCall, CallRecords, IsSave, SaveKinds
  <2> QED
    BY <1>4, <2>1 DEF Moved, OnlyMoves
<1> QED
  BY <1>1, <1>2, <1>3, <1>4, AskMoves

LEMMA TurnsMoved ==
    ASSUME Typed, CallsInv, Idle, NEW c \in Calls, CancelCall(c) \/ Deadline(c) \/ WaitRunsOut(c)
    PROVE  Moved(c, calls[c], calls'[c]) /\ \A d \in Calls \ {c} : calls'[d] = calls[d]
<1>a. calls[c] \in CallRecords /\ calls[c].stage # "replied"
  BY AskedTypes DEF Idle, IsReady
<1>1. CASE calls[c].stage = "atPage" /\ OnlyMoves(c, EndedBy(calls[c], "canceled"))
  BY <1>1, <1>a, EndedMoves DEF OnlyMoves
<1>2. CASE /\ calls[c].stage \notin {"unasked", "ended", "atPage"} /\ calls[c].end = "none"
           /\ OnlyMoves(c, [Woken(calls[c]) EXCEPT !.end = "canceled"])
  <2>1. Woken(calls[c]) \in CallRecords
    BY <1>a, RecordTypes
  <2>2. /\ calls'[c].end = "canceled" /\ calls'[c].of = Woken(calls[c]).of
        /\ calls'[c].got = Woken(calls[c]).got /\ calls'[c].stage = Woken(calls[c]).stage
        /\ calls'[c].kind = Woken(calls[c]).kind
    BY <1>2, <2>1 DEF OnlyMoves, CallRecords
  <2>3. IsCanceled(calls[c], calls'[c]) /\ calls'[c].kind = calls[c].kind
    BY <1>2, <1>a, <2>2, WokenFields DEF IsCanceled
  <2> QED
    BY <1>2, <2>3 DEF Moved, OnlyMoves
<1>3. CASE calls[c].stage = "atPage" /\ OnlyMoves(c, [calls[c] EXCEPT !.stage = "replied", !.reply = "timedOut"])
  <2>1. GetsReply(c, calls[c], calls'[c]) /\ calls'[c].kind = calls[c].kind
    BY <1>3, <1>a DEF OnlyMoves, GetsReply, CallRecords
  <2> QED
    BY <1>3, <2>1 DEF Moved, OnlyMoves
<1>4. CASE calls[c].stage = "waiting" /\ OnlyMoves(c, [calls[c] EXCEPT !.stage = "woken"])
  <2>1. GoesOn(c, calls[c], calls'[c]) /\ calls'[c].kind = calls[c].kind
    BY <1>4, <1>a DEF OnlyMoves, GoesOn, SameCall, CallRecords
  <2> QED
    BY <1>4, <2>1 DEF Moved, OnlyMoves
<1> QED
  BY <1>1, <1>2, <1>3, <1>4, TurnMoves

LEMMA ResumesMoved ==
    ASSUME Typed, CallsInv, NEW c \in Calls, Resume(c)
    PROVE  Moved(c, calls[c], calls'[c]) /\ \A d \in Calls \ {c} : calls'[d] = calls[d]
<1>a. calls[c] \in CallRecords /\ CallSound(c, calls[c]) /\ calls[c].stage \in {"replied", "woken"}
  BY AskedTypes, ResumeMoves DEF CallsInv, CallsSound
<1>b. calls[c].stage = "replied" => calls[c].end = "none"
  BY <1>a DEF CallSound, SaveStages, CallRecords, Endings
<1>c. calls[c].stage = "replied" /\ calls[c].reply \in {"ok", "refused"} => c \in carried
  BY DEF CallsInv, CarriedInv
<1>1. CASE calls[c].stage = "replied" /\ OnlyMoves(c, Told(calls[c]))
  BY <1>1, <1>a, <1>c, EndedMoves DEF OnlyMoves, Told
<1>2. CASE /\ calls[c].stage = "replied" /\ calls[c].reply = "ok" /\ IsSave(c)
           /\ OnlyMoves(c, [calls[c] EXCEPT !.stage = "judgingAgain"])
  <2>1. GoesOn(c, calls[c], calls'[c]) /\ calls'[c].kind = calls[c].kind
    BY <1>2, <1>a, <1>c DEF OnlyMoves, GoesOn, SameCall, CallRecords, IsSave, SaveKinds
  <2> QED
    BY <1>2, <2>1 DEF Moved, OnlyMoves
<1>3. CASE OnlyMoves(c, EndedBy(calls[c], "relay"))
  BY <1>3, <1>a, EndedMoves DEF OnlyMoves
<1>4. CASE calls[c].stage = "replied" /\ IsWatch(c) /\ GoesOnWatching(c, calls[c])
  <2>1. CASE OnlyMoves(c, [calls[c] EXCEPT !.stage = "waiting"])
    <3>1. GoesOn(c, calls[c], calls'[c]) /\ calls'[c].kind = calls[c].kind
      BY <1>4, <1>a, <2>1 DEF OnlyMoves, GoesOn, SameCall, CallRecords, IsWatch, WatchKinds
    <3> QED
      BY <2>1, <3>1 DEF Moved, OnlyMoves
  <2>2. CASE notices' = <<>> /\ OnlyMoves(c, EndedBy([calls[c] EXCEPT !.got = notices], "relay"))
    BY <1>4, <1>a, <1>b, <2>2, EndedMoves DEF OnlyMoves
  <2> QED
    BY <1>4, <1>a, <2>1, <2>2, GoesOnMoves
<1>5. CASE calls[c].stage = "woken" /\ notices' = <<>> /\ OnlyMoves(c, EndedBy([calls[c] EXCEPT !.got = notices], "relay"))
  <2>1. calls[c].end = "none" \/ notices = <<>>
    BY <1>5, <1>a DEF CallSound, CallsInv, WaitsInv, CallRecords, Endings
  <2> QED
    BY <1>5, <1>a, <2>1, EndedMoves DEF OnlyMoves
<1> QED
  BY <1>1, <1>2, <1>3, <1>4, <1>5, ResumeMoves

LEMMA FilesMoved ==
    ASSUME Typed, CallsInv, NEW c \in Calls, Judge(c) \/ SaveStep(c)
    PROVE  Moved(c, calls[c], calls'[c]) /\ \A d \in Calls \ {c} : calls'[d] = calls[d]
<1>a. calls[c] \in CallRecords /\ CallSound(c, calls[c])
  BY AskedTypes DEF CallsInv, CallsSound
<1>b. calls[c].stage \in {"judgingAgain"} \cup WritingStages => c \in carried
  BY DEF CallsInv, CarriedInv
<1>1. CASE OnlyMoves(c, EndedBy(calls[c], "relay"))
  BY <1>1, <1>a, EndedMoves DEF OnlyMoves
<1>2. CASE calls[c].stage = "judging" /\ AsksPage(c, calls[c])
  <2>1. CASE OnlyMoves(c, EndedBy(calls[c], "canceled"))
    BY <1>2, <1>a, <2>1, EndedMoves DEF OnlyMoves
  <2>2. CASE /\ calls[c].end # "canceled"
             /\ OnlyMoves(c, [calls[c] EXCEPT !.stage = "atPage", !.id = nextPageCallId])
    <3>1. calls[c].kind \notin WatchKinds
      BY <1>2, <1>a DEF CallSound, SaveStages, SaveKinds, WatchKinds
    <3>2. GoesToPage(calls[c], calls'[c]) /\ calls'[c].kind = calls[c].kind
      BY <1>2, <1>a, <2>2, <3>1 DEF OnlyMoves, GoesToPage, SameCall, CallRecords, AsksPage
    <3> QED
      BY <2>2, <3>2 DEF Moved, OnlyMoves
  <2> QED
    BY <1>2, <1>a, <2>1, <2>2, AsksPageMoves
<1>3. CASE /\ calls[c].stage = "judgingAgain"
           /\ OnlyMoves(c, [calls[c] EXCEPT !.stage = "writing", !.exists = files.name # NoFile])
  <2>1. GoesOn(c, calls[c], calls'[c]) /\ calls'[c].kind = calls[c].kind
    BY <1>3, <1>a DEF OnlyMoves, GoesOn, SameCall, CallRecords, WritingStages
  <2> QED
    BY <1>3, <2>1 DEF Moved, OnlyMoves
<1>4. CASE /\ calls[c].stage \in {"writing", "backingUp"}
           /\ \/ OnlyMoves(c, [calls[c] EXCEPT !.stage = "backingUp"])
              \/ OnlyMoves(c, [calls[c] EXCEPT !.stage = "renaming"])
  <2>1. GoesOn(c, calls[c], calls'[c]) /\ calls'[c].kind = calls[c].kind
    BY <1>4, <1>a DEF OnlyMoves, GoesOn, SameCall, CallRecords, WritingStages
  <2> QED
    BY <1>4, <2>1 DEF Moved, OnlyMoves
<1>5. CASE calls[c].stage = "renaming" /\ OnlyMoves(c, EndedBy(calls[c], "page"))
  BY <1>5, <1>a, <1>b, EndedMoves DEF OnlyMoves, WritingStages
<1> QED
  BY <1>1, <1>2, <1>3, <1>4, <1>5, JudgeMoves, SaveMoves

LEMMA DropsMoved ==
    ASSUME Typed, NEW l, DropsPage(l), NEW c \in Calls
    PROVE  Moved(c, calls[c], calls'[c])
<1>a. calls[c] \in CallRecords
  BY AskedTypes
<1>1. CASE calls'[c] = calls[c]
  BY <1>1 DEF Moved
<1>2. CASE /\ calls[c].stage = "atPage"
           /\ calls'[c] = [calls[c] EXCEPT !.stage = "replied", !.reply = "dropped"]
  <2>1. GetsReply(c, calls[c], calls'[c]) /\ calls'[c].kind = calls[c].kind
    BY <1>2, <1>a DEF GetsReply, CallRecords
  <2> QED
    BY <2>1 DEF Moved
<1>3. CASE calls'[c] = Woken(calls[c])
  BY <1>3, <1>a, WokenFields DEF Moved, GoesOn, SameCall
<1> QED
  BY <1>1, <1>2, <1>3, DropMoves

LEMMA ReadsMoved ==
    ASSUME Typed, CallsInv, NEW l \in Links, TakeMessage(l), NEW c \in Calls
    PROVE  Moved(c, calls[c], calls'[c])
<1> DEFINE message == Head(links[l].toRelay)
<1>a. calls[c] \in CallRecords
  BY AskedTypes
<1>m. message \in ToSet(links[l].toRelay) /\ message \in ToRelay
  BY QueueHeads DEF TakeMessage, Typed, MessagesTyped
<1>1. CASE UNCHANGED calls
  BY <1>1 DEF Moved
<1>2. CASE TakeNotice(l, message)
  <2>1. calls'[c] = Woken(calls[c])
    BY <1>2 DEF TakeNotice
  <2> QED
    BY <1>a, <2>1, WokenFields DEF Moved, GoesOn, SameCall
<1>3. CASE TakeAnswer(l, message)
  <2>1. CASE c \in Answered(message)
    <3>1. calls[c].stage = "atPage" /\ message.of = c /\ c \in carried
      BY <1>3, <1>m, <2>1 DEF TakeAnswer, Answered, CallsInv, NumbersInv, NumberOf
    <3>2. calls'[c] = [calls[c] EXCEPT !.stage = "replied", !.reply = message.reply, !.of = message.of]
      BY <1>3, <2>1 DEF TakeAnswer
    <3> HIDE DEF message
    <3>3. GetsReply(c, calls[c], calls'[c]) /\ calls'[c].kind = calls[c].kind
      BY <1>a, <3>1, <3>2 DEF GetsReply, CallRecords
    <3> QED
      BY <3>3 DEF Moved
  <2>2. CASE c \notin Answered(message)
    <3>1. calls'[c] = calls[c]
      BY <1>3, <2>2 DEF TakeAnswer
    <3> QED
      BY <3>1 DEF Moved
  <2> QED
    BY <2>1, <2>2
<1> QED
  BY <1>1, <1>2, <1>3 DEF TakeMessage, PresentKey, TakeClose

(* Every step moves every call so. *)
AllMoved == \A c \in Calls : Moved(c, calls[c], calls'[c])

LEMMA OneMoved ==
    ASSUME NEW c \in Calls, Moved(c, calls[c], calls'[c]), \A d \in Calls \ {c} : calls'[d] = calls[d]
    PROVE  AllMoved
<1>1. ASSUME NEW d \in Calls \ {c} PROVE Moved(d, calls[d], calls'[d])
  BY <1>1 DEF Moved
<1> QED
  BY <1>1 DEF AllMoved

LEMMA NoneMoved ==
    ASSUME UNCHANGED calls
    PROVE  AllMoved
BY DEF AllMoved, Moved

LEMMA PageStepsLeaveRelay ==
    ASSUME PageTurn \/ PageCall \/ FileAppears
    PROVE  UNCHANGED relayVars
BY DEF PageTurn, PageCall, FileAppears, Enable, Disable, ConnectFails, TryAgain, Connects, LosesLink,
       SeesClosed, TakesClose, PageClosed, CarriesOut, SendsNotice, Answers

LEMMA StepsMove ==
    ASSUME Typed, CallsInv, Next
    PROVE  AllMoved
<1>1. ASSUME NEW c \in Calls, Ask(c) PROVE AllMoved
  BY <1>1, AskedMoves, OneMoved
<1>2. ASSUME NEW c \in Calls, Idle /\ (CancelCall(c) \/ Deadline(c) \/ WaitRunsOut(c)) PROVE AllMoved
  BY <1>2, TurnsMoved, OneMoved
<1>3. ASSUME NEW c \in Calls, Resume(c) PROVE AllMoved
  BY <1>3, ResumesMoved, OneMoved
<1>4. ASSUME NEW c \in Calls, Judge(c) \/ SaveStep(c) PROVE AllMoved
  BY <1>4, FilesMoved, OneMoved
<1>5. ASSUME NEW l \in Links, TakeMessage(l) PROVE AllMoved
  BY <1>5, ReadsMoved DEF AllMoved
<1>6. ASSUME (\E l \in Links : LinkEnds(l)) \/ CloseRelay PROVE AllMoved
  BY <1>6, DropsMoved DEF AllMoved, LinkEnds, CloseRelay
<1>7. ASSUME PageTurn \/ PageCall \/ FileAppears PROVE AllMoved
  BY <1>7, PageStepsLeaveRelay, NoneMoved DEF relayVars
<1> QED
  BY <1>1, <1>2, <1>3, <1>4, <1>5, <1>6, <1>7, StepCases

LEMMA SoundMoved ==
    ASSUME NEW c \in Calls, NEW r \in CallRecords, NEW s \in CallRecords, CallSound(c, r), Moved(c, r, s)
    PROVE  CallSound(c, s)
<1>t. r.end \in Endings /\ r.stage \in Stages
  BY DEF CallRecords
<1>1. CASE s = r
  BY <1>1
<1>2. CASE EndsTold(c, r, s)
  BY <1>2, <1>t DEF CallSound, EndsTold, Ended, Endings, SaveStages
<1>3. CASE EndsWithNotices(r, s)
  BY <1>3, <1>t DEF CallSound, EndsWithNotices, Ended, Endings, SaveStages
<1>4. CASE GoesToPage(r, s)
  BY <1>4, <1>t DEF CallSound, GoesToPage, SameCall, Endings, SaveStages, Moved
<1>5. CASE GetsReply(c, r, s)
  BY <1>5, <1>t DEF CallSound, GetsReply, SameCall, Endings, SaveStages, Moved
<1>6. CASE IsCanceled(r, s)
  BY <1>6, <1>t DEF CallSound, IsCanceled, Endings, Stages, SaveStages, Moved
<1>7. CASE GoesOn(c, r, s)
  BY <1>7, <1>t DEF CallSound, GoesOn, SameCall, Endings, SaveStages, WritingStages, Moved, WatchKinds, SaveKinds
<1> QED
  BY <1>1, <1>2, <1>3, <1>4, <1>5, <1>6, <1>7 DEF Moved

(* What a move leaves: an asked call stays asked, and a registered one was so      *)
(* before, or has the number given out.                                       *)
LEMMA MovedStages ==
    ASSUME NEW c, NEW r, NEW s, Moved(c, r, s)
    PROVE  /\ s.stage = "unasked" => r.stage = "unasked"
           /\ s.stage = "atPage" => \/ r.stage = "atPage" /\ s.id = r.id
                                    \/ s.id = nextPageCallId /\ nextPageCallId' = nextPageCallId + 1
           /\ s.stage \in {"judgingAgain"} \cup WritingStages =>
                 c \in carried \/ r.stage \in {"judgingAgain"} \cup WritingStages
           /\ s.stage = "replied" /\ s.reply \in {"ok", "refused"} =>
                 c \in carried \/ (r.stage = "replied" /\ r.reply \in {"ok", "refused"})
           /\ s.kind = r.kind
<1>1. CASE EndsTold(c, r, s) \/ EndsWithNotices(r, s)
  BY <1>1 DEF EndsTold, EndsWithNotices, Ended, WritingStages, Moved
<1>2. CASE GoesToPage(r, s) \/ GetsReply(c, r, s)
  BY <1>2 DEF GoesToPage, GetsReply, WritingStages, Moved
<1>3. CASE IsCanceled(r, s)
  BY <1>3 DEF IsCanceled, WritingStages, Moved
<1>4. CASE GoesOn(c, r, s)
  BY <1>4 DEF GoesOn, WritingStages, Moved
<1>5. CASE s = r
  BY <1>5
<1> QED
  BY <1>1, <1>2, <1>3, <1>4, <1>5 DEF Moved

LEMMA CallsStaySound ==
    ASSUME Typed, Typed', CallsSound, AllMoved
    PROVE  CallsSound'
<1> SUFFICES ASSUME NEW c \in Calls PROVE CallSound(c, calls'[c])
  BY DEF CallsSound
<1>1. calls[c] \in CallRecords /\ calls'[c] \in CallRecords
  BY DEF Typed, CallsTyped
<1> QED
  BY <1>1, SoundMoved DEF CallsSound, AllMoved

(* carried grows by what was asked before. *)
LEMMA CarriedKept ==
    ASSUME CarriedInv, AllMoved, carried \subseteq carried',
           \A c \in carried' \ carried : c \in Calls /\ calls[c].stage # "unasked"
    PROVE  CarriedInv'
<1>1. carried' \subseteq Calls
  BY DEF CarriedInv
<1>2. ASSUME NEW c \in carried' PROVE calls'[c].stage # "unasked"
  BY <1>1, <1>2, MovedStages DEF AllMoved, CarriedInv
<1>3. ASSUME NEW c \in Calls, calls'[c].stage \in {"judgingAgain"} \cup WritingStages PROVE c \in carried'
  BY <1>3, MovedStages DEF AllMoved, CarriedInv
<1>4. ASSUME NEW c \in Calls, calls'[c].stage = "replied", calls'[c].reply \in {"ok", "refused"}
      PROVE  c \in carried'
  BY <1>4, MovedStages DEF AllMoved, CarriedInv
<1> QED
  BY <1>1, <1>2, <1>3, <1>4 DEF CarriedInv

(* A number keeps its call. *)
LEMMA NumberKept ==
    ASSUME Typed, Typed', AllMoved, nextPageCallId' \in {nextPageCallId, nextPageCallId + 1},
           NEW id \in Nat, NEW c \in Calls, NumberOf(id, c)
    PROVE  NumberOf(id, c)'
<1>1. nextPageCallId \in Nat /\ nextPageCallId' \in Nat /\ id < nextPageCallId'
  BY DEF Typed, RelayTyped, NumberOf
<1>2. ASSUME NEW d \in Calls, calls'[d].stage = "atPage", calls'[d].id = id PROVE d = c
  <2>1. calls[d].stage = "atPage" /\ calls[d].id = id
    BY <1>1, <1>2, MovedStages DEF AllMoved, NumberOf
  <2> QED
    BY <2>1 DEF NumberOf
<1> QED
  BY <1>1, <1>2 DEF NumberOf

(* What is put under way bears the number of its call. *)
BearNumbers(atPage, atRelay, tasks) ==
    /\ \A m \in atPage : m.what = "request" => NumberOf(m.id, m.of)' /\ calls'[m.of].stage # "unasked"
    /\ \A m \in atRelay : m.what = "answer" => NumberOf(m.id, m.of)' /\ m.of \in carried'
    /\ \A task \in tasks : NumberOf(task.id, task.of)' /\ task.of \in carried'

LEMMA NumbersKept ==
    ASSUME Typed, Typed', NumbersInv, AllMoved, carried \subseteq carried',
           nextPageCallId' \in {nextPageCallId, nextPageCallId + 1},
           NEW atPage, NEW atRelay, NEW tasks, Delivers(atPage, atRelay), work' \subseteq work \cup tasks,
           BearNumbers(atPage, atRelay, tasks)
    PROVE  NumbersInv'
<1>1. ASSUME NEW l \in Links, NEW m \in ToSet(links[l].toPage), m.what = "request"
      PROVE  NumberOf(m.id, m.of)' /\ calls'[m.of].stage # "unasked"
  <2>1. m \in ToPage
    BY DEF Typed, MessagesTyped
  <2>2. m.id \in Nat /\ m.of \in Calls
    BY <1>1, <2>1 DEF ToPage, Messages
  <2>3. NumberOf(m.id, m.of) /\ calls[m.of].stage # "unasked"
    BY <1>1 DEF NumbersInv
  <2> QED
    BY <2>2, <2>3, NumberKept, MovedStages DEF AllMoved
<1>2. ASSUME NEW l \in Links, NEW m \in ToSet(links[l].toRelay), m.what = "answer"
      PROVE  NumberOf(m.id, m.of)' /\ m.of \in carried'
  <2>1. m \in ToRelay
    BY DEF Typed, MessagesTyped
  <2>2. m.id \in Nat /\ m.of \in Calls
    BY <1>2, <2>1 DEF ToRelay, Messages
  <2>3. NumberOf(m.id, m.of) /\ m.of \in carried
    BY <1>2 DEF NumbersInv
  <2> QED
    BY <2>2, <2>3, NumberKept
<1>3. ASSUME NEW task \in work PROVE NumberOf(task.id, task.of)' /\ task.of \in carried'
  <2>1. task.id \in Nat /\ task.of \in Calls
    BY DEF Typed, WorkTyped
  <2>2. NumberOf(task.id, task.of) /\ task.of \in carried
    BY DEF NumbersInv
  <2> QED
    BY <2>1, <2>2, NumberKept
<1>4. ASSUME NEW l \in Links, NEW m \in ToSet(links'[l].toPage), m.what = "request"
      PROVE  NumberOf(m.id, m.of)' /\ calls'[m.of].stage # "unasked"
  BY <1>1, <1>4 DEF Delivers, BearNumbers
<1>5. ASSUME NEW l \in Links, NEW m \in ToSet(links'[l].toRelay), m.what = "answer"
      PROVE  NumberOf(m.id, m.of)' /\ m.of \in carried'
  BY <1>2, <1>5 DEF Delivers, BearNumbers
<1>6. ASSUME NEW task \in work' PROVE NumberOf(task.id, task.of)' /\ task.of \in carried'
  BY <1>3, <1>6 DEF BearNumbers
<1>7. ASSUME NEW c \in Calls, calls'[c].stage = "atPage" PROVE calls'[c].id < nextPageCallId'
  <2>1. nextPageCallId \in Nat /\ nextPageCallId' \in Nat /\ calls[c].id \in Nat
    BY DEF Typed, RelayTyped, CallsTyped, CallRecords
  <2>2. \/ calls[c].stage = "atPage" /\ calls'[c].id = calls[c].id
        \/ calls'[c].id = nextPageCallId /\ nextPageCallId' = nextPageCallId + 1
    BY <1>7, MovedStages DEF AllMoved
  <2> QED
    BY <2>1, <2>2 DEF NumbersInv
<1> QED
  BY <1>4, <1>5, <1>6, <1>7 DEF NumbersInv

(* A step that gives out no number and puts nothing of a call under way. *)
LEMMA NumbersUntouched ==
    ASSUME Typed, Typed', NumbersInv, AllMoved, UNCHANGED <<nextPageCallId, carried>>,
           NEW atPage \in {{}, {Refusing}}, NEW atRelay \in {{}, {Key}, {Closing}} \cup {{Notice(n)} : n \in 1 .. MaxNotices},
           Delivers(atPage, atRelay), work' \subseteq work
    PROVE  NumbersInv'
<1>1. \A m \in atPage : m.what # "request"
  BY DEF Refusing, Message
<1>2. \A m \in atRelay : m.what # "answer"
  BY DEF Key, Closing, Notice, Message
<1>3. BearNumbers(atPage, atRelay, {})
  BY <1>1, <1>2 DEF BearNumbers
<1>4. /\ work' \subseteq work \cup {} /\ carried \subseteq carried'
      /\ nextPageCallId' \in {nextPageCallId, nextPageCallId + 1}
  OBVIOUS
<1> QED
  BY <1>3, <1>4, NumbersKept

LEMMA NumbersAsked ==
    ASSUME Typed, Typed', NumbersInv, AllMoved, NEW c \in Calls, NEW record \in CallRecords,
           page # NoPage, AsksPage(c, record), UNCHANGED <<work, carried>>
    PROVE  NumbersInv'
<1>1. PICK id \in Nat : id = nextPageCallId
  BY DEF Typed, RelayTyped
<1>2. Delivers({Request(id, c)}, {}) /\ nextPageCallId' = id + 1
  BY <1>1, AskingTypes
<1>3. \A d \in Calls \ {c} : calls'[d] = calls[d]
  BY AsksPageMoves DEF OnlyMoves
<1>4. calls'[c].stage \in {"atPage", "ended"}
  <2>1. /\ EndedBy(record, "canceled").stage = "ended"
        /\ [record EXCEPT !.stage = "atPage", !.id = nextPageCallId].stage = "atPage"
    BY EndedFields DEF CallRecords
  <2> QED
    BY <2>1, AsksPageMoves DEF OnlyMoves
<1>5. NumberOf(id, c)'
  <2>1. ASSUME NEW d \in Calls \ {c}, calls'[d].stage = "atPage", calls'[d].id = id
        PROVE  FALSE
    <3>1. calls[d].stage = "atPage" /\ calls[d].id = id
      BY <1>3, <2>1
    <3>2. id < id
      BY <1>1, <3>1 DEF NumbersInv
    <3> QED
      BY <3>2
  <2> QED
    BY <1>2, <2>1 DEF NumberOf
<1>6. BearNumbers({Request(id, c)}, {}, {})
  <2>1. Request(id, c).id = id /\ Request(id, c).of = c
    BY DEF Request, Message
  <2> QED
    BY <1>4, <1>5, <2>1 DEF BearNumbers
<1>7. /\ work' \subseteq work \cup {} /\ carried \subseteq carried'
      /\ nextPageCallId' \in {nextPageCallId, nextPageCallId + 1}
  BY <1>1, <1>2
<1> QED
  BY <1>2, <1>6, <1>7, NumbersKept

(* What a page's step at its link puts under way. *)
LEMMA PageTurnDelivers ==
    ASSUME Typed, PageTurn
    PROVE  /\ \E atRelay \in {{}, {Key}, {Closing}} : Delivers({}, atRelay)
           /\ work' \subseteq work /\ UNCHANGED <<relayVars, carried>>
<1>0. LinksTyped
  BY DEF Typed
<1>a. \A l : WorkLeft(l) \subseteq work
  BY DEF WorkLeft
<1>1. ASSUME NEW t \in Tabs, Enable(t) \/ ConnectFails(t) \/ TryAgain(t)
      PROVE  Delivers({}, {}) /\ UNCHANGED <<work, relayVars, carried>>
  BY <1>0, <1>1, NothingDelivered DEF Enable, ConnectFails, TryAgain, ghosts
<1>2. ASSUME NEW t \in Tabs, Disable(t)
      PROVE  (Delivers({}, {}) \/ Delivers({}, {Closing})) /\ work' \subseteq work /\ UNCHANGED <<relayVars, carried>>
  <2>1. CASE tabs[t].socket = NoPage
    BY <1>0, <1>2, <2>1, NothingDelivered DEF Disable, ghosts
  <2>2. CASE tabs[t].socket # NoPage
    <3>1. PICK l \in Links : l = tabs[t].socket
      BY <2>2 DEF Typed, TabsTyped, TabRecords
    <3>2. links' = [SentBack(l, Closing) EXCEPT ![l] = ClosedAtPage(@)] /\ work' = WorkLeft(l)
      BY <1>2, <2>2, <3>1 DEF Disable
    <3>3. Delivers({}, {Closing})
      BY <1>0, <3>2, PageLeavesLink
    <3> QED
      BY <1>2, <1>a, <3>2, <3>3 DEF Disable, ghosts
  <2> QED
    BY <2>1, <2>2
<1>3. ASSUME NEW t \in Tabs, NEW l \in Links, Connects(t, l)
      PROVE  Delivers({}, {Key}) /\ UNCHANGED <<work, relayVars, carried>>
  BY <1>0, <1>3, PageConnects DEF Connects, ghosts
<1>4. ASSUME NEW l \in Links, NEW isRefused \in BOOLEAN, PageClosed(l, isRefused)
      PROVE  Delivers({}, {}) /\ work' \subseteq work /\ UNCHANGED <<relayVars, carried>>
  BY <1>0, <1>4, <1>a, PageClosesLink DEF PageClosed, ghosts
<1>5. (\E l \in Links : LosesLink(l) \/ SeesClosed(l) \/ TakesClose(l)) =>
          \E l \in Links, isRefused \in BOOLEAN : PageClosed(l, isRefused)
  BY DEF LosesLink, SeesClosed, TakesClose
<1> QED
  BY <1>1, <1>2, <1>3, <1>4, <1>5 DEF PageTurn

LEMMA NumbersCarried ==
    ASSUME Typed, Typed', NumbersInv, CarriedInv, AllMoved, PageCall
    PROVE  NumbersInv' /\ CarriedInv'
<1>0. LinksTyped /\ MessagesTyped
  BY DEF Typed
<1>n. nextPageCallId' = nextPageCallId
  BY PageStepsLeaveRelay DEF relayVars
<1>1. ASSUME NEW l \in Links, CarriesOut(l) PROVE NumbersInv' /\ CarriedInv'
  <2>1. PICK request \in ToPage :
           /\ request = Head(links[l].toPage) /\ request \in ToSet(links[l].toPage)
           /\ request.what = "request"
    BY <1>0, <1>1, PageCarriesOut DEF CarriesOut, MessagesTyped
  <2>2. PICK id \in Nat, c \in Calls : id = request.id /\ c = request.of
    BY <2>1 DEF ToPage, Messages
  <2>3. /\ Delivers({}, {Answer(id, c, "ok")}) /\ carried' = carried \cup {c}
        /\ work' \subseteq work \cup {[on |-> l, id |-> id, of |-> c]}
    BY <1>0, <1>1, <2>1, <2>2, PageCarriesOut DEF CarriesOut
  <2>4. NumberOf(id, c) /\ calls[c].stage # "unasked"
    BY <2>1, <2>2 DEF NumbersInv
  <2>5. NumberOf(id, c)' /\ c \in carried' /\ carried \subseteq carried'
    BY <1>n, <2>3, <2>4, NumberKept
  <2>6. BearNumbers({}, {Answer(id, c, "ok")}, {[on |-> l, id |-> id, of |-> c]})
    <3>1. Answer(id, c, "ok").id = id /\ Answer(id, c, "ok").of = c
      BY DEF Answer, Message
    <3> QED
      BY <2>5, <3>1 DEF BearNumbers
  <2>7. CarriedInv'
    BY <2>3, <2>4, CarriedKept
  <2>8. nextPageCallId' \in {nextPageCallId, nextPageCallId + 1}
    BY <1>n
  <2> QED
    BY <2>3, <2>5, <2>6, <2>7, <2>8, NumbersKept
<1>2. ASSUME NEW l \in Links, SendsNotice(l) PROVE NumbersInv' /\ CarriedInv'
  <2>1. sent + 1 \in 1 .. MaxNotices
    BY <1>2, BoundsAssumption DEF SendsNotice, Typed, SentTyped
  <2>2. Notice(sent + 1) \in Messages
    BY <2>1, MessageTypes
  <2>3. Delivers({}, {Notice(sent + 1)}) /\ UNCHANGED <<work, carried>>
    BY <1>0, <1>2, <2>2, PageSendsBack DEF SendsNotice
  <2>4. CarriedInv'
    BY <2>3, CarriedKept
  <2>5. NumbersInv'
    BY <1>n, <2>1, <2>3, NumbersUntouched
  <2> QED
    BY <2>4, <2>5
<1>3. ASSUME NEW task \in work, Answers(task) PROVE NumbersInv' /\ CarriedInv'
  <2>1. task.on \in Links /\ task.id \in Nat /\ task.of \in Calls
    BY DEF Typed, WorkTyped
  <2>2. PICK reply \in {"ok", "refused"} : links' = SentBack(task.on, Answer(task.id, task.of, reply))
    BY <1>3 DEF Answers
  <2>3. PICK answer \in Messages : answer = Answer(task.id, task.of, reply)
    BY <2>1, MessageTypes
  <2>4. Delivers({}, {answer})
    BY <1>0, <2>1, <2>2, <2>3, PageSendsBack
  <2>5. work' \subseteq work \cup {} /\ UNCHANGED carried
    BY <1>3 DEF Answers, ghosts
  <2>6. NumberOf(task.id, task.of) /\ task.of \in carried
    BY DEF NumbersInv
  <2>7. NumberOf(task.id, task.of)' /\ task.of \in carried'
    BY <1>n, <2>1, <2>5, <2>6, NumberKept
  <2>8. BearNumbers({}, {answer}, {})
    BY <2>3, <2>7 DEF Answer, Message, BearNumbers
  <2>9. CarriedInv'
    BY <2>5, CarriedKept
  <2>10. nextPageCallId' \in {nextPageCallId, nextPageCallId + 1} /\ carried \subseteq carried'
    BY <1>n, <2>5
  <2> QED
    BY <2>4, <2>5, <2>8, <2>9, <2>10, NumbersKept
<1> QED
  BY <1>1, <1>2, <1>3 DEF PageCall

LEMMA NumbersStay ==
    ASSUME Typed, Typed', CallsInv, Next
    PROVE  NumbersInv' /\ CarriedInv'
<1>0. LinksTyped /\ AllMoved /\ NumbersInv /\ CarriedInv
  BY StepsMove DEF Typed, CallsInv
<1>s. ASSUME UNCHANGED <<nextPageCallId, links, work, carried>> PROVE NumbersInv' /\ CarriedInv'
  <2>1. Delivers({}, {}) /\ work' \subseteq work
    BY <1>0, <1>s, NothingDelivered
  <2>2. CarriedInv'
    BY <1>0, <1>s, CarriedKept
  <2> QED
    BY <1>0, <1>s, <2>1, <2>2, NumbersUntouched
<1>d. ASSUME UNCHANGED <<nextPageCallId, work, carried>>, NEW atPage \in {{}, {Refusing}}, Delivers(atPage, {})
      PROVE  NumbersInv' /\ CarriedInv'
  <2>1. CarriedInv'
    BY <1>0, <1>d, CarriedKept
  <2> QED
    BY <1>0, <1>d, <2>1, NumbersUntouched
<1>1. ASSUME NEW c \in Calls, Ask(c) PROVE NumbersInv' /\ CarriedInv'
  <2>1. UNCHANGED <<work, carried>> /\ Asked(c) \in CallRecords
    BY <1>1, AskedTypes DEF Ask, ghosts
  <2>2. CarriedInv'
    BY <1>0, <2>1, CarriedKept
  <2>3. CASE UNCHANGED <<nextPageCallId, links>>
    BY <1>s, <2>1, <2>3
  <2>4. CASE page # NoPage /\ AsksPage(c, Asked(c))
    BY <1>0, <2>1, <2>2, <2>4, NumbersAsked
  <2> QED
    BY <1>1, <2>3, <2>4, AskMoves
<1>2. ASSUME NEW c \in Calls, Judge(c) PROVE NumbersInv' /\ CarriedInv'
  <2>1. UNCHANGED <<work, carried>> /\ calls[c] \in CallRecords
    BY <1>2, AskedTypes DEF Judge, ghosts
  <2>2. CarriedInv'
    BY <1>0, <2>1, CarriedKept
  <2>3. CASE UNCHANGED <<nextPageCallId, links>>
    BY <1>s, <2>1, <2>3
  <2>4. CASE page # NoPage /\ AsksPage(c, calls[c])
    BY <1>0, <2>1, <2>2, <2>4, NumbersAsked
  <2> QED
    BY <1>2, <2>3, <2>4, JudgeMoves
<1>3. ASSUME NEW c \in Calls, CancelCall(c) \/ Deadline(c) \/ WaitRunsOut(c) \/ Resume(c) \/ SaveStep(c)
      PROVE  NumbersInv' /\ CarriedInv'
  <2>1. UNCHANGED <<nextPageCallId, links, work, carried>>
    BY <1>3 DEF CancelCall, Deadline, WaitRunsOut, Resume, SaveStep, pageVars, ghosts
  <2> QED
    BY <1>s, <2>1
<1>4. ASSUME NEW l \in Links, TakeMessage(l) PROVE NumbersInv' /\ CarriedInv'
  <2>1. UNCHANGED <<nextPageCallId, work, carried>> /\ links[l].toRelay # <<>>
    BY <1>4 DEF TakeMessage
  <2>2. CASE PresentKey(l)
    <3>1. Delivers({Refusing}, {})
      BY <1>0, <2>1, <2>2, RelayTakesKey
    <3> QED
      BY <1>d, <2>1, <3>1
  <2>3. CASE ~PresentKey(l)
    <3>1. Delivers({}, {})
      BY <1>0, <1>4, <2>1, <2>3, RelayReadsLink, RelayTakesClose DEF TakeMessage, TakeNotice, TakeAnswer, TakeClose
    <3> QED
      BY <1>d, <2>1, <3>1
  <2> QED
    BY <2>2, <2>3
<1>5. ASSUME (\E l \in Links : LinkEnds(l)) \/ CloseRelay PROVE NumbersInv' /\ CarriedInv'
  <2>1. UNCHANGED <<nextPageCallId, work, carried>>
    BY <1>5 DEF LinkEnds, CloseRelay
  <2>2. Delivers({}, {})
    BY <1>0, <1>5, RelayClosesLink, RelayClosesAll DEF LinkEnds, CloseRelay
  <2> QED
    BY <1>d, <2>1, <2>2
<1>6. ASSUME PageTurn PROVE NumbersInv' /\ CarriedInv'
  <2>1. PICK atRelay \in {{}, {Key}, {Closing}} : Delivers({}, atRelay)
    BY <1>6, PageTurnDelivers
  <2>2. work' \subseteq work /\ UNCHANGED <<nextPageCallId, carried>>
    BY <1>6, PageTurnDelivers DEF relayVars
  <2>3. CarriedInv'
    BY <1>0, <2>2, CarriedKept
  <2> QED
    BY <1>0, <2>1, <2>2, <2>3, NumbersUntouched
<1>7. ASSUME FileAppears PROVE NumbersInv' /\ CarriedInv'
  BY <1>7, <1>s DEF FileAppears, relayVars, pageVars, ghosts
<1> QED
  BY <1>0, <1>1, <1>2, <1>3, <1>4, <1>5, <1>6, <1>7, StepCases, NumbersCarried

-----------------------------------------------------------------------------
(* The waits *)

LEMMA MovedWaits ==
    ASSUME NEW c, NEW r, NEW s, Moved(c, r, s)
    PROVE  /\ s.stage = "waiting" => s = r \/ r.stage \in {"unasked", "replied"}
           /\ s.stage = "woken" => \/ s = r \/ r.stage = "woken"
                                   \/ r.stage = "waiting" /\ (r.end = "none" \/ s.end = r.end)
<1>1. CASE EndsTold(c, r, s) \/ EndsWithNotices(r, s)
  BY <1>1 DEF EndsTold, EndsWithNotices, Ended
<1>2. CASE GoesToPage(r, s) \/ GetsReply(c, r, s)
  BY <1>2 DEF GoesToPage, GetsReply
<1>3. CASE IsCanceled(r, s)
  BY <1>3 DEF IsCanceled
<1>4. CASE GoesOn(c, r, s)
  BY <1>4 DEF GoesOn, SameCall, WritingStages
<1> QED
  BY <1>1, <1>2, <1>3, <1>4 DEF Moved

(* The page stays, no notice comes, and what begins to wait or is woken canceled   *)
(* has nothing to tell.                                                      *)
LEMMA WaitsKept ==
    ASSUME WaitsInv, AllMoved, UNCHANGED page, notices' \in {notices, <<>>}, reading' \in {reading, NoPage},
           Idle' => reading' = NoPage,
           \A c \in Calls : calls'[c].stage = "waiting" /\ calls'[c] # calls[c]
               => notices' = <<>> /\ page # NoPage /\ calls'[c].on = page,
           \A c \in Calls : calls'[c].stage = "woken" /\ calls'[c].end = "canceled" /\ calls'[c] # calls[c]
               => notices' = <<>> /\ reading' = NoPage
    PROVE  WaitsInv'
BY DEF WaitsInv

LEMMA WaitsStay ==
    ASSUME Typed, CallsInv, Next
    PROVE  WaitsInv'
<1>0. WaitsInv /\ CallsSound /\ AllMoved
  BY StepsMove DEF CallsInv
<1>a. \A c \in Calls : calls[c] \in CallRecords /\ CallSound(c, calls[c]) /\ Moved(c, calls[c], calls'[c])
  BY <1>0, AskedTypes DEF CallsSound, AllMoved
<1>b. \A c \in Calls : calls[c].stage = "waiting" => calls[c].end = "none"
  BY <1>a DEF CallSound, SaveStages, CallRecords, Endings
<1>c. Idle => (\A c \in Calls : calls[c].stage \notin {"replied", "woken"}) /\ reading = NoPage
  BY <1>0 DEF Idle, IsReady, WaitsInv
<1>u. ASSUME UNCHANGED <<page, notices, calls, reading>> PROVE WaitsInv'
  BY <1>0, <1>u DEF WaitsInv, Idle, IsReady
<1>1. ASSUME NEW c \in Calls, Idle, Ask(c) PROVE WaitsInv'
  <2>1. UNCHANGED <<page, reading>> /\ calls[c].stage = "unasked"
    BY <1>1 DEF Ask
  <2>2. \A d \in Calls \ {c} : calls'[d] = calls[d]
    BY <1>1, AskedMoves
  <2>3. calls'[c].stage # "woken"
    BY <1>a, <2>1, MovedWaits
  <2>4. /\ notices' \in {notices, <<>>}
        /\ calls'[c].stage = "waiting" => notices' = <<>> /\ page # NoPage /\ calls'[c].on = page
    <3>1. Asked(c) \in CallRecords /\ Asked(c).on = page
      BY AskedTypes DEF Asked, CallRecords
    <3>2. CASE OnlyMoves(c, EndedBy(Asked(c), "relay")) /\ UNCHANGED notices
      BY <3>1, <3>2, EndedFields DEF OnlyMoves
    <3>3. CASE AsksPage(c, Asked(c)) /\ UNCHANGED notices
      <4>1. /\ EndedBy(Asked(c), "canceled").stage = "ended"
            /\ [Asked(c) EXCEPT !.stage = "atPage", !.id = nextPageCallId].stage = "atPage"
        BY <3>1, EndedFields DEF CallRecords
      <4> QED
        BY <3>1, <3>3, <4>1, AsksPageMoves DEF OnlyMoves
    <3>4. CASE page # NoPage /\ GoesOnWatching(c, Asked(c))
      <4>1. /\ EndedBy([Asked(c) EXCEPT !.got = notices], "relay").stage = "ended"
            /\ [Asked(c) EXCEPT !.stage = "waiting"].on = page
        BY <3>1 DEF EndedBy, CallRecords
      <4> QED
        BY <3>1, <3>4, <4>1, GoesOnMoves DEF OnlyMoves
    <3>5. CASE OnlyMoves(c, [Asked(c) EXCEPT !.stage = "judging"]) /\ UNCHANGED notices
      BY <3>1, <3>5 DEF OnlyMoves, CallRecords
    <3> QED
      BY <1>1, <3>2, <3>3, <3>4, <3>5, AskMoves
  <2> QED
    BY <1>0, <1>1, <1>c, <2>1, <2>2, <2>3, <2>4, WaitsKept
<1>2. ASSUME NEW c \in Calls, Idle, CancelCall(c) \/ Deadline(c) \/ WaitRunsOut(c) PROVE WaitsInv'
  <2>1. UNCHANGED <<page, notices, reading>>
    BY <1>2, TurnMoves
  <2>2. \A d \in Calls \ {c} : calls'[d] = calls[d]
    BY <1>0, <1>2, TurnsMoved DEF CallsInv
  <2>3. calls[c].stage # "unasked" /\ calls[c].stage # "replied" /\ calls[c].stage # "woken"
    BY <1>2, <1>c DEF CancelCall, Deadline, WaitRunsOut
  <2>4. calls'[c].stage = "waiting" => calls'[c] = calls[c]
    BY <1>a, <2>3, MovedWaits
  <2>5. calls'[c].stage = "woken" => calls'[c] = calls[c] \/ notices = <<>>
    BY <1>0, <1>a, <2>3, MovedWaits DEF WaitsInv
  <2> QED
    BY <1>0, <1>2, <1>c, <2>1, <2>2, <2>4, <2>5, WaitsKept
<1>3. ASSUME NEW c \in Calls, Idle, Judge(c) \/ SaveStep(c) PROVE WaitsInv'
  <2>1. UNCHANGED <<page, notices, reading>> /\ calls[c].stage \in SaveStages
    BY <1>3, JudgeMoves, SaveMoves DEF SaveStages
  <2>2. \A d \in Calls \ {c} : calls'[d] = calls[d]
    BY <1>3, FilesMoved
  <2>3. /\ calls'[c].stage = "waiting" => calls'[c] = calls[c]
        /\ calls'[c].stage = "woken" => calls'[c] = calls[c]
    BY <1>a, <2>1, MovedWaits DEF SaveStages
  <2> QED
    BY <1>0, <1>3, <1>c, <2>1, <2>2, <2>3, WaitsKept
<1>4. ASSUME NEW c \in Calls, Resume(c) PROVE WaitsInv'
  <2>1. reading' = NoPage /\ UNCHANGED page /\ calls[c].stage \in {"replied", "woken"}
    BY <1>4, ResumeMoves
  <2>2. \A d \in Calls \ {c} : calls'[d] = calls[d]
    BY <1>4, ResumesMoved
  <2>3. /\ notices' \in {notices, <<>>} /\ calls'[c].stage # "woken"
        /\ calls'[c].stage = "waiting" => notices' = <<>> /\ page # NoPage /\ calls'[c].on = page
    <3>1. CASE OnlyMoves(c, Told(calls[c])) /\ UNCHANGED notices
      BY <1>a, <3>1, EndedFields DEF OnlyMoves, Told
    <3>2. CASE OnlyMoves(c, [calls[c] EXCEPT !.stage = "judgingAgain"]) /\ UNCHANGED notices
      BY <1>a, <3>2 DEF OnlyMoves, CallRecords
    <3>3. CASE OnlyMoves(c, EndedBy(calls[c], "relay")) /\ UNCHANGED notices
      BY <1>a, <3>3, EndedFields DEF OnlyMoves
    <3>4. CASE /\ calls[c].stage = "replied" /\ IsWatch(c) /\ page = calls[c].on
               /\ GoesOnWatching(c, calls[c])
      <4>1. calls[c].on # NoPage
        BY <1>a, <3>4 DEF CallSound, IsWatch, WatchKinds
      <4>2. /\ EndedBy([calls[c] EXCEPT !.got = notices], "relay").stage = "ended"
            /\ [calls[c] EXCEPT !.stage = "waiting"].on = calls[c].on
            /\ [calls[c] EXCEPT !.stage = "waiting"].stage = "waiting"
        BY <1>a DEF EndedBy, CallRecords
      <4>3. \/ notices = <<>> /\ UNCHANGED notices /\ OnlyMoves(c, [calls[c] EXCEPT !.stage = "waiting"])
            \/ notices' = <<>> /\ OnlyMoves(c, EndedBy([calls[c] EXCEPT !.got = notices], "relay"))
        BY <1>a, <3>4, GoesOnMoves
      <4> QED
        BY <3>4, <4>1, <4>2, <4>3 DEF OnlyMoves
    <3>5. CASE notices' = <<>> /\ OnlyMoves(c, EndedBy([calls[c] EXCEPT !.got = notices], "relay"))
      <4>1. EndedBy([calls[c] EXCEPT !.got = notices], "relay").stage = "ended"
        BY DEF EndedBy
      <4> QED
        BY <3>5, <4>1 DEF OnlyMoves
    <3> QED
      BY <1>4, <3>1, <3>2, <3>3, <3>4, <3>5, ResumeMoves
  <2> QED
    BY <1>0, <2>1, <2>2, <2>3, WaitsKept
<1>5. ASSUME NEW l \in Links, Idle \/ reading = l, TakeMessage(l) PROVE WaitsInv'
  <2> DEFINE message == Head(links[l].toRelay)
  <2>1. \A c \in Calls : calls[c].stage = "woken" => calls[c].end # "canceled"
    BY <1>0, <1>5, <1>c, LinkIds DEF WaitsInv
  <2>2. Idle' => reading' = NoPage
    BY <1>5 DEF TakeMessage
  <2>3. CASE PresentKey(l) \/ TakeClose(l, message)
    <3>1. UNCHANGED <<notices, calls>> /\ (page' = page \/ page = NoPage)
      BY <2>3 DEF PresentKey, TakeClose
    <3> QED
      BY <1>0, <2>1, <2>2, <3>1 DEF WaitsInv
  <2>4. CASE TakeAnswer(l, message)
    <3>1. UNCHANGED <<notices, page>>
      BY <2>4 DEF TakeAnswer
    <3>2. \A c \in Calls : calls'[c] = calls[c] \/ calls'[c].stage = "replied"
      BY <1>a, <2>4 DEF TakeAnswer, CallRecords
    <3> QED
      BY <1>0, <2>1, <2>2, <3>1, <3>2 DEF WaitsInv
  <2>5. CASE TakeNotice(l, message)
    <3>1. \A c \in Calls : calls'[c] = Woken(calls[c])
      BY <2>5 DEF TakeNotice
    <3>2. \A c \in Calls : /\ calls'[c].stage # "waiting"
                           /\ calls'[c].stage = "woken" => calls'[c].end # "canceled"
      BY <1>a, <1>b, <2>1, <3>1, WokenFields
    <3> QED
      BY <2>2, <3>2 DEF WaitsInv
  <2> QED
    BY <1>5, <2>3, <2>4, <2>5 DEF TakeMessage
<1>6. ASSUME Idle, (\E l \in Links : LinkEnds(l)) \/ CloseRelay PROVE WaitsInv'
  <2>1. UNCHANGED reading /\ \E l : DropsPage(l)
    BY <1>6 DEF LinkEnds, CloseRelay
  <2>2. CASE UNCHANGED <<page, notices, calls>>
    BY <1>u, <2>1, <2>2
  <2>3. CASE \A c \in Calls : \/ calls'[c] = [calls[c] EXCEPT !.stage = "replied", !.reply = "dropped"]
                              \/ calls'[c] = Woken(calls[c])
    <3>1. \A c \in Calls : /\ calls'[c].stage # "waiting"
                           /\ calls'[c].stage = "woken" => calls'[c].end # "canceled"
      <4> SUFFICES ASSUME NEW c \in Calls
                   PROVE  /\ calls'[c].stage # "waiting"
                          /\ calls'[c].stage = "woken" => calls'[c].end # "canceled"
        OBVIOUS
      <4>1. [calls[c] EXCEPT !.stage = "replied", !.reply = "dropped"].stage = "replied"
        BY <1>a DEF CallRecords
      <4> QED
        <5>1. calls[c].stage # "woken" /\ calls[c] \in CallRecords
          BY <1>6, <1>a, <1>c
        <5>2. Woken(calls[c]).stage # "waiting"
              /\ (Woken(calls[c]).stage = "woken" => calls[c].stage = "waiting")
              /\ Woken(calls[c]).end = calls[c].end
          BY <5>1, WokenFields
        <5> QED
          BY <1>b, <2>3, <4>1, <5>2
    <3> QED
      BY <1>6, <1>c, <2>1, <3>1 DEF WaitsInv
  <2> QED
    BY <2>1, <2>2, <2>3, DropMoves
<1>7. ASSUME PageTurn \/ PageCall \/ FileAppears PROVE WaitsInv'
  BY <1>7, <1>u, PageStepsLeaveRelay DEF relayVars
<1> QED
  BY <1>1, <1>2, <1>3, <1>4, <1>5, <1>6, <1>7, StepCases

LEMMA CallsInvAlways == Spec => []CallsInv
<1>1. Init => CallsInv
  <2> SUFFICES ASSUME Init PROVE CallsInv
    OBVIOUS
  <2>1. PICK scenario \in Scenarios :
            /\ calls = [c \in Calls |-> Unasked(scenario.kinds[c])]
            /\ links = [l \in Links |-> IF l <= scenario.spent
                                        THEN ClosedAtRelay(ClosedAtPage(UnusedLink)) ELSE UnusedLink]
    BY DEF Init
  <2>2. \A c \in Calls : /\ calls[c].stage = "unasked" /\ calls[c].end = "none"
                         /\ calls[c].got = <<>> /\ calls[c].of = NoCall
    BY <2>1 DEF Unasked
  <2>3. CallsSound
    BY <2>2 DEF CallsSound, CallSound, SaveStages
  <2>4. WaitsInv
    BY <2>2 DEF WaitsInv, Init
  <2>5. \A l \in Links : links[l].toPage = <<>> /\ links[l].toRelay = <<>>
    BY <2>1, LinkTypes
  <2>6. NumbersInv
    BY <2>2, <2>5, NoElements DEF NumbersInv, Init
  <2>7. CarriedInv
    BY <2>2 DEF CarriedInv, Init, WritingStages
  <2> QED
    BY <2>3, <2>4, <2>6, <2>7 DEF CallsInv
<1>2. Typed /\ Typed' /\ CallsInv /\ [Next]_vars => CallsInv'
  <2> SUFFICES ASSUME Typed, Typed', CallsInv, [Next]_vars PROVE CallsInv'
    OBVIOUS
  <2>1. CASE Next
    <3>1. CallsSound'
      BY <2>1, StepsMove, CallsStaySound DEF CallsInv
    <3> QED
      BY <2>1, <3>1, NumbersStay, WaitsStay DEF CallsInv
  <2>2. CASE UNCHANGED vars
    BY <2>2 DEF vars, relayVars, pageVars, ghosts, CallsInv, CallsSound, WaitsInv, NumbersInv, NumberOf,
       CarriedInv, Idle, IsReady
  <2> QED
    BY <2>1, <2>2
<1> QED
  BY <1>1, <1>2, TypedAlways, PTL DEF Spec

-----------------------------------------------------------------------------
(* The notices *)

(* The notices that the calls hold. *)
Held == UNION {ToSet(calls[c].got) : c \in Calls}

NoticesInv == taken = ToSet(notices) \cup dropped \cup Held

LEMMA HeldSame ==
    ASSUME \A c \in Calls : calls'[c].got = calls[c].got
    PROVE  Held' = Held
BY DEF Held

(* Only an answer that goes out with the notices holds more than before. *)
LEMMA GotMoved ==
    ASSUME NEW c, NEW r, NEW s, Moved(c, r, s)
    PROVE  s.got = r.got \/ EndsWithNotices(r, s)
BY DEF Moved, EndsTold, GoesToPage, GetsReply, IsCanceled, GoesOn, SameCall

LEMMA NoticesStay ==
    ASSUME Typed, CallsInv, NoticesInv, Next
    PROVE  NoticesInv'
<1>0. CallsSound /\ AllMoved
  BY StepsMove DEF CallsInv
<1>a. \A c \in Calls : calls[c] \in CallRecords /\ CallSound(c, calls[c]) /\ Moved(c, calls[c], calls'[c])
  BY <1>0, AskedTypes DEF CallsSound, AllMoved
<1>e. \A c \in Calls : calls[c].stage # "ended" => calls[c].got = <<>>
  BY <1>a DEF CallSound
<1>s. ASSUME UNCHANGED <<notices, taken, dropped>> PROVE NoticesInv'
  <2>1. ASSUME NEW c \in Calls PROVE calls'[c].got = calls[c].got
    BY <1>a, <1>e, <1>s, GotMoved DEF EndsWithNotices
  <2> QED
    BY <1>s, <2>1, HeldSame DEF NoticesInv
<1>t. ASSUME NEW c \in Calls, UNCHANGED <<taken, dropped>>, notices' = <<>>,
             \A d \in Calls \ {c} : calls'[d] = calls[d], calls[c].stage # "ended",
             calls'[c].got = notices
      PROVE  NoticesInv'
  <2>1. calls[c].got = <<>>
    BY <1>e, <1>t
  <2>2. Held' = Held \cup ToSet(notices)
    <3>1. \A d \in Calls \ {c} : calls'[d].got = calls[d].got
      BY <1>t
    <3> QED
      BY <1>t, <2>1, <3>1, NoElements DEF Held
  <2> QED
    BY <1>t, <2>2, NoElements DEF NoticesInv
<1>1. ASSUME NEW c \in Calls, Ask(c) \/ Resume(c) PROVE NoticesInv'
  <2>1. UNCHANGED <<taken, dropped>>
    BY <1>1 DEF Ask, Resume, ghosts
  <2>2. \A d \in Calls \ {c} : calls'[d] = calls[d]
    BY <1>1, AskedMoves, ResumesMoved
  <2>3. CASE notices' # notices
    <3>1. notices' = <<>> /\ notices # <<>> /\ calls'[c].got = notices
      <4>1. ASSUME NEW r \in CallRecords, GoesOnWatching(c, r)
            PROVE  notices' = <<>> /\ calls'[c].got = notices
        <5>1. EndedBy([r EXCEPT !.got = notices], "relay").got = notices
          BY DEF EndedBy, CallRecords
        <5> QED
          BY <2>3, <4>1, <5>1, GoesOnMoves DEF OnlyMoves
      <4>2. Asked(c) \in CallRecords
        BY AskedTypes
      <4>3. EndedBy([calls[c] EXCEPT !.got = notices], "relay").got = notices
        BY <1>a DEF EndedBy, CallRecords
      <4> QED
        BY <1>1, <1>a, <2>3, <4>1, <4>2, <4>3, AskMoves, ResumeMoves DEF OnlyMoves
    <3>2. calls[c].stage # "ended"
      BY <1>1, AskMoves, ResumeMoves
    <3> QED
      BY <1>t, <2>1, <2>2, <3>1, <3>2
  <2> QED
    BY <1>s, <2>1, <2>3
<1>2. ASSUME NEW c \in Calls, CancelCall(c) \/ Deadline(c) \/ WaitRunsOut(c) \/ Judge(c) \/ SaveStep(c)
      PROVE  NoticesInv'
  BY <1>2, <1>s DEF CancelCall, Deadline, WaitRunsOut, Judge, SaveStep, ghosts
<1>3. ASSUME NEW l \in Links, TakeMessage(l) PROVE NoticesInv'
  <2> DEFINE message == Head(links[l].toRelay)
  <2>1. CASE TakeNotice(l, message)
    <3>1. message \in ToRelay
      BY <1>3, QueueHeads DEF TakeMessage, Typed, MessagesTyped
    <3>2. PICK n \in Nat : n = message.id
      BY <3>1 DEF ToRelay, Messages
    <3>3. \A c \in Calls : calls'[c] = Woken(calls[c])
      BY <2>1 DEF TakeNotice
    <3>4. Held' = Held
      BY <1>a, <3>3, WokenFields, HeldSame
    <3>5. notices \in Seq(Nat)
      BY AskedTypes, BoundsAssumption, LargerSequences DEF Typed, RelayTyped
    <3>6. notices' = Append(notices, n) /\ taken' = taken \cup {n} /\ dropped' = dropped
      BY <1>3, <2>1, <3>2 DEF TakeNotice, TakeMessage
    <3>7. ToSet(notices') = ToSet(notices) \cup {n}
      BY <3>2, <3>5, <3>6, Elements
    <3> QED
      BY <3>4, <3>6, <3>7 DEF NoticesInv
  <2>2. CASE ~TakeNotice(l, message)
    BY <1>3, <1>s, <2>2 DEF TakeMessage, PresentKey, TakeAnswer, TakeClose
  <2> QED
    BY <2>1, <2>2
<1>4. ASSUME (\E l \in Links : LinkEnds(l)) \/ CloseRelay PROVE NoticesInv'
  <2>1. UNCHANGED taken /\ \E l : DropsPage(l)
    BY <1>4 DEF LinkEnds, CloseRelay
  <2>2. CASE UNCHANGED <<page, watchSubscribed, notices, calls, dropped>>
    BY <1>s, <2>1, <2>2
  <2>3. CASE /\ notices' = <<>> /\ dropped' = dropped \cup ToSet(notices)
             /\ \A c \in Calls : \/ calls'[c] = [calls[c] EXCEPT !.stage = "replied", !.reply = "dropped"]
                                 \/ calls'[c] = Woken(calls[c])
    <3>1. ASSUME NEW c \in Calls PROVE calls'[c].got = calls[c].got
      <4>1. [calls[c] EXCEPT !.stage = "replied", !.reply = "dropped"].got = calls[c].got
        BY <1>a DEF CallRecords
      <4>2. Woken(calls[c]).got = calls[c].got
        BY <1>a, WokenFields
      <4> QED
        BY <2>3, <4>1, <4>2
    <3> QED
      BY <2>1, <2>3, <3>1, HeldSame, NoElements DEF NoticesInv
  <2> QED
    BY <2>1, <2>2, <2>3, DropMoves
<1>5. ASSUME PageTurn \/ PageCall \/ FileAppears PROVE NoticesInv'
  <2>1. UNCHANGED <<notices, taken, dropped>>
    BY <1>5, PageStepsLeaveRelay DEF relayVars, PageTurn, PageCall, FileAppears, Enable, Disable, ConnectFails,
       TryAgain, Connects, LosesLink, SeesClosed, TakesClose, PageClosed, CarriesOut, SendsNotice, Answers, ghosts
  <2> QED
    BY <1>s, <2>1
<1> QED
  BY <1>1, <1>2, <1>3, <1>4, <1>5, StepCases

(* AgentRelay.NoticesReachCaller: every change notice that reached the relay is     *)
(* still held, went with its page (dropPage), or is in an answer that goes out, and *)
(* between turns a watch call waits only on the page now linked and while there is  *)
(* nothing to tell (noticeOrTimeout, handlePageMessage, handleMcpNotification).      *)
THEOREM NoticesAlwaysReachCaller == Spec => []NoticesReachCaller
<1>1. Init => NoticesInv
  <2> SUFFICES ASSUME Init PROVE NoticesInv
    OBVIOUS
  <2>1. PICK scenario \in Scenarios : calls = [c \in Calls |-> Unasked(scenario.kinds[c])]
    BY DEF Init
  <2>2. \A c \in Calls : calls[c].got = <<>>
    BY <2>1 DEF Unasked
  <2> QED
    BY <2>2, NoElements DEF Init, NoticesInv, Held
<1>2. Typed /\ CallsInv /\ NoticesInv /\ [Next]_vars => NoticesInv'
  <2>1. NoticesInv /\ UNCHANGED vars => NoticesInv'
    BY DEF vars, relayVars, ghosts, NoticesInv, Held
  <2> QED
    BY <2>1, NoticesStay
<1>3. CallsInv /\ NoticesInv => NoticesReachCaller
  <2> SUFFICES ASSUME CallsInv, NoticesInv PROVE NoticesReachCaller
    OBVIOUS
  <2>1. \A c \in Calls : calls[c].end # "relay" => ToSet(calls[c].got) = {}
    BY NoElements DEF CallsInv, CallsSound, CallSound
  <2>2. Held = UNION {ToSet(calls[c].got) : c \in {d \in Calls : calls[d].end = "relay"}}
    BY <2>1 DEF Held
  <2> QED
    BY <2>2 DEF NoticesInv, NoticesReachCaller, CallsInv, WaitsInv
<1> QED
  BY <1>1, <1>2, <1>3, TypedAlways, CallsInvAlways, PTL DEF Spec

-----------------------------------------------------------------------------
(* What the caller is promised *)

Statuses == [c \in Calls |-> StatusOf(c, calls[c])]

LEMMA StatusKept ==
    ASSUME NEW c, NEW r, NEW s, CallSound(c, r), CallSound(c, s), s.end = r.end,
           s.stage = "unasked" <=> r.stage = "unasked"
    PROVE  StatusOf(c, s) = StatusOf(c, r)
BY DEF StatusOf, CallSound

(* The steps of RelayedCalls on one call. *)
StatusStep(c, before, after) ==
    \/ after = before
    \/ before = "unasked" /\ after \in {"open", "told"}
    \/ before = "open" /\ after \in {"told", "canceled"}
    \/ before = "open" /\ after = "answered" /\ c \in carried

LEMMA StatusValues ==
    ASSUME NEW c, NEW r \in CallRecords, CallSound(c, r)
    PROVE  /\ r.stage = "unasked" => StatusOf(c, r) = "unasked" /\ r.end = "none"
           /\ r.stage # "unasked" => /\ r.end = "none" => StatusOf(c, r) = "open"
                                     /\ r.end = "page" => StatusOf(c, r) = "answered"
                                     /\ r.end = "relay" => StatusOf(c, r) = "told"
                                     /\ r.end = "canceled" => StatusOf(c, r) = "canceled"
           /\ r.end \in {"none", "page", "relay", "canceled"}
BY DEF StatusOf, CallSound, CallRecords, Endings

LEMMA StatusMoved ==
    ASSUME NEW c, NEW r \in CallRecords, NEW s \in CallRecords,
           CallSound(c, r), CallSound(c, s), Moved(c, r, s)
    PROVE  StatusStep(c, StatusOf(c, r), StatusOf(c, s))
<1>1. CASE s = r
  BY <1>1 DEF StatusStep
<1>2. CASE EndsTold(c, r, s) \/ EndsWithNotices(r, s)
  <2>1. PICK how \in {"relay", "canceled", "page"} :
           /\ Ended(r, s, how)
           /\ how = "canceled" => r.stage # "unasked"
           /\ how = "page" => r.stage # "unasked" /\ c \in carried
    BY <1>2 DEF EndsTold, EndsWithNotices
  <2>2. CASE r.end # "none"
    <3>1. s.end = r.end /\ s.stage = "ended" /\ r.stage # "unasked"
      BY <2>1, <2>2, StatusValues DEF Ended
    <3> QED
      BY <3>1, StatusKept DEF StatusStep
  <2>3. CASE r.end = "none"
    <3>1. s.end = how /\ s.stage = "ended"
      BY <2>1, <2>3 DEF Ended
    <3>2. StatusOf(c, s) = IF how = "relay" THEN "told" ELSE IF how = "page" THEN "answered" ELSE "canceled"
      BY <3>1, StatusValues
    <3>3. StatusOf(c, r) = IF r.stage = "unasked" THEN "unasked" ELSE "open"
      BY <2>3, StatusValues
    <3>4. CASE how = "relay"
      BY <3>2, <3>3, <3>4 DEF StatusStep
    <3>5. CASE how = "canceled"
      BY <2>1, <3>2, <3>3, <3>5 DEF StatusStep
    <3>6. CASE how = "page"
      BY <2>1, <3>2, <3>3, <3>6 DEF StatusStep
    <3> QED
      BY <3>4, <3>5, <3>6
  <2> QED
    BY <2>2, <2>3
<1>3. CASE GoesToPage(r, s) \/ GetsReply(c, r, s) \/ GoesOn(c, r, s)
  <2>1. s.end = r.end /\ s.stage # "unasked"
    BY <1>3 DEF GoesToPage, GetsReply, GoesOn, SameCall, WritingStages
  <2>2. CASE r.stage = "unasked"
    BY <2>1, <2>2, StatusValues DEF StatusStep
  <2>3. CASE r.stage # "unasked"
    BY <2>1, <2>3, StatusKept DEF StatusStep
  <2> QED
    BY <2>2, <2>3
<1>4. CASE IsCanceled(r, s)
  <2>1. r.stage # "unasked" /\ s.stage # "unasked" /\ r.end = "none" /\ s.end = "canceled"
    BY <1>4 DEF IsCanceled
  <2>2. StatusOf(c, r) = "open" /\ StatusOf(c, s) = "canceled"
    BY <2>1, StatusValues
  <2> QED
    BY <2>2 DEF StatusStep
<1> QED
  BY <1>1, <1>2, <1>3, <1>4 DEF Moved

(* A step that moves one call, or none, is one of RelayedCalls or leaves all be. *)
LEMMA OneStatusSteps ==
    ASSUME Typed, Typed', CallsInv, CallsInv', AllMoved, UNCHANGED carried,
           NEW c \in Calls, \A d \in Calls \ {c} : calls'[d] = calls[d]
    PROVE  Promise!Next \/ UNCHANGED <<Statuses, carried>>
<1>1. StatusStep(c, StatusOf(c, calls[c]), StatusOf(c, calls'[c]))
  <2>1. calls[c] \in CallRecords /\ calls'[c] \in CallRecords
    BY DEF Typed, CallsTyped
  <2>2. CallSound(c, calls[c]) /\ CallSound(c, calls'[c]) /\ Moved(c, calls[c], calls'[c])
    BY DEF CallsInv, CallsSound, AllMoved
  <2> QED
    BY <2>1, <2>2, StatusMoved
<1>2. Statuses' = [Statuses EXCEPT ![c] = StatusOf(c, calls'[c])] /\ Statuses[c] = StatusOf(c, calls[c])
  BY DEF Statuses
<1>3. CASE StatusOf(c, calls'[c]) = StatusOf(c, calls[c])
  BY <1>2, <1>3 DEF Statuses
<1>4. CASE StatusOf(c, calls'[c]) # StatusOf(c, calls[c])
  <2>1. CASE StatusOf(c, calls[c]) = "unasked" /\ StatusOf(c, calls'[c]) = "open"
    <3>1. Promise!Ask(c)
      BY <1>2, <2>1 DEF Promise!Ask, Statuses
    <3> QED
      BY <3>1 DEF Promise!Next
  <2>2. CASE StatusOf(c, calls[c]) = "unasked" /\ StatusOf(c, calls'[c]) = "told"
    <3>1. Promise!AskAndTell(c)
      BY <1>2, <2>2 DEF Promise!AskAndTell, Statuses
    <3> QED
      BY <3>1 DEF Promise!Next
  <2>3. CASE StatusOf(c, calls[c]) = "open" /\ StatusOf(c, calls'[c]) = "told"
    <3>1. Promise!TellByRelay(c)
      BY <1>2, <2>3 DEF Promise!TellByRelay, Statuses
    <3> QED
      BY <3>1 DEF Promise!Next, Promise!End
  <2>4. CASE StatusOf(c, calls[c]) = "open" /\ StatusOf(c, calls'[c]) = "canceled"
    <3>1. Promise!Cancel(c)
      BY <1>2, <2>4 DEF Promise!Cancel, Statuses
    <3> QED
      BY <3>1 DEF Promise!Next, Promise!End
  <2>5. CASE StatusOf(c, calls[c]) = "open" /\ StatusOf(c, calls'[c]) = "answered" /\ c \in carried
    <3>1. Promise!AnswerByPage(c)
      BY <1>2, <2>5 DEF Promise!AnswerByPage, Statuses
    <3> QED
      BY <3>1 DEF Promise!Next, Promise!End
  <2> QED
    BY <1>1, <1>4, <2>1, <2>2, <2>3, <2>4, <2>5 DEF StatusStep
<1> QED
  BY <1>3, <1>4

LEMMA StatusesKept ==
    ASSUME CallsInv, CallsInv',
           \A c \in Calls : /\ calls'[c].end = calls[c].end
                            /\ calls'[c].stage = "unasked" <=> calls[c].stage = "unasked"
    PROVE  UNCHANGED Statuses
<1>1. \A c \in Calls : StatusOf(c, calls'[c]) = StatusOf(c, calls[c])
  BY StatusKept DEF CallsInv, CallsSound
<1> QED
  BY <1>1 DEF Statuses

LEMMA StepKeepsPromise ==
    ASSUME Typed, Typed', CallsInv, CallsInv', Next
    PROVE  Promise!Next \/ UNCHANGED <<Statuses, carried>>
<1>0. AllMoved
  BY StepsMove
<1>a. \A c \in Calls : calls[c] \in CallRecords /\ Woken(calls[c]).end = calls[c].end
                       /\ (Woken(calls[c]).stage = "unasked" <=> calls[c].stage = "unasked")
  BY AskedTypes, WokenFields
<1>1. ASSUME NEW c \in Calls,
             \/ Ask(c) \/ Resume(c) \/ Judge(c) \/ SaveStep(c)
             \/ Idle /\ (CancelCall(c) \/ Deadline(c) \/ WaitRunsOut(c))
      PROVE  Promise!Next \/ UNCHANGED <<Statuses, carried>>
  <2>1. \A d \in Calls \ {c} : calls'[d] = calls[d]
    BY <1>1, AskedMoves, ResumesMoved, FilesMoved, TurnsMoved
  <2>2. UNCHANGED carried
    BY <1>1 DEF Ask, Resume, Judge, SaveStep, CancelCall, Deadline, WaitRunsOut, ghosts
  <2> QED
    BY <1>0, <2>1, <2>2, OneStatusSteps
<1>2. ASSUME NEW l \in Links, TakeMessage(l) PROVE UNCHANGED <<Statuses, carried>>
  <2>1. UNCHANGED carried
    BY <1>2 DEF TakeMessage
  <2>2. CASE UNCHANGED calls
    BY <2>1, <2>2 DEF Statuses
  <2>3. CASE TakeNotice(l, Head(links[l].toRelay))
    BY <1>a, <2>1, <2>3, StatusesKept DEF TakeNotice
  <2>4. CASE TakeAnswer(l, Head(links[l].toRelay))
    <3>1. \A c \in Calls : /\ calls'[c].end = calls[c].end
                           /\ calls'[c].stage = "unasked" <=> calls[c].stage = "unasked"
      BY <1>a, <2>4 DEF TakeAnswer, Answered, CallRecords
    <3> QED
      BY <2>1, <3>1, StatusesKept
  <2> QED
    BY <1>2, <2>2, <2>3, <2>4 DEF TakeMessage, PresentKey, TakeClose
<1>3. ASSUME (\E l \in Links : LinkEnds(l)) \/ CloseRelay PROVE UNCHANGED <<Statuses, carried>>
  <2>1. UNCHANGED carried /\ \E l : DropsPage(l)
    BY <1>3 DEF LinkEnds, CloseRelay
  <2>2. CASE UNCHANGED calls
    BY <2>1, <2>2 DEF Statuses
  <2>3. CASE \A c \in Calls :
               \/ /\ calls[c].stage = "atPage"
                  /\ calls'[c] = [calls[c] EXCEPT !.stage = "replied", !.reply = "dropped"]
               \/ calls[c].stage # "atPage" /\ calls'[c] = Woken(calls[c])
    <3>1. ASSUME NEW c \in Calls
          PROVE  /\ calls'[c].end = calls[c].end
                 /\ calls'[c].stage = "unasked" <=> calls[c].stage = "unasked"
      <4>1. /\ [calls[c] EXCEPT !.stage = "replied", !.reply = "dropped"].stage = "replied"
            /\ [calls[c] EXCEPT !.stage = "replied", !.reply = "dropped"].end = calls[c].end
        BY <1>a DEF CallRecords
      <4> QED
        BY <1>a, <2>3, <4>1
    <3> QED
      BY <2>1, <3>1, StatusesKept
  <2> QED
    BY <2>1, <2>2, <2>3, DropMoves
<1>4. ASSUME NEW l \in Links, CarriesOut(l) PROVE Promise!Next \/ UNCHANGED <<Statuses, carried>>
  <2> DEFINE c == Head(links[l].toPage).of
  <2>1. Head(links[l].toPage) \in ToSet(links[l].toPage) /\ Head(links[l].toPage).what = "request"
    BY <1>4, QueueHeads DEF CarriesOut, Typed
  <2>2. c \in Calls /\ calls[c].stage # "unasked"
    <3>1. Head(links[l].toPage) \in ToPage
      BY <2>1 DEF Typed, MessagesTyped
    <3> QED
      BY <2>1, <3>1 DEF ToPage, CallsInv, NumbersInv
  <2>3. carried' = carried \cup {c} /\ UNCHANGED calls
    BY <1>4 DEF CarriesOut, relayVars
  <2>4. UNCHANGED Statuses /\ Statuses[c] # "unasked"
    BY <2>2, <2>3 DEF Statuses, StatusOf
  <2>5. PICK d \in Calls : d = c
    BY <2>2
  <2>6. CASE d \in carried
    BY <2>3, <2>4, <2>5, <2>6
  <2>7. CASE d \notin carried
    <3>1. Promise!Carry(d)
      BY <2>3, <2>4, <2>5, <2>7 DEF Promise!Carry, Statuses
    <3> QED
      BY <3>1 DEF Promise!Next
  <2> QED
    BY <2>6, <2>7
<1>5. ASSUME PageTurn \/ FileAppears \/ (\E l \in Links : SendsNotice(l)) \/ (\E task \in work : Answers(task))
      PROVE  UNCHANGED <<Statuses, carried>>
  <2>1. UNCHANGED <<calls, carried>>
    BY <1>5, PageTurnDelivers DEF FileAppears, SendsNotice, Answers, relayVars, ghosts
  <2> QED
    BY <2>1 DEF Statuses
<1> QED
  BY <1>1, <1>2, <1>3, <1>4, <1>5, StepCases DEF PageCall

(* The safety half of AgentRelay.KeepsPromise: AgentRelay implements RelayedCalls   *)
(* step by step. A call ends once; the page's answer is the answer to that call and *)
(* comes only after the page has carried it out (pageReplyOf, pageResultOf), over    *)
(* every drop, deadline, cancellation, late answer and later page. That open calls   *)
(* end is a matter of fairness, which the runs check.                            *)
THEOREM ImplementsPromise == Spec => Promise!Safety
<1>1. Init => Promise!Init
  <2> SUFFICES ASSUME Init PROVE Promise!Init
    OBVIOUS
  <2>1. PICK scenario \in Scenarios : calls = [c \in Calls |-> Unasked(scenario.kinds[c])]
    BY DEF Init
  <2>2. \A c \in Calls : StatusOf(c, calls[c]) = "unasked"
    BY <2>1 DEF Unasked, StatusOf
  <2> QED
    BY <2>2 DEF Promise!Init, Init
<1>2. Typed /\ Typed' /\ CallsInv /\ CallsInv' /\ [Next]_vars => [Promise!Next]_<<Statuses, carried>>
  <2>1. UNCHANGED vars => UNCHANGED <<Statuses, carried>>
    BY DEF vars, relayVars, ghosts, Statuses
  <2> QED
    BY <2>1, StepKeepsPromise
<1> QED
  BY <1>1, <1>2, TypedAlways, CallsInvAlways, PTL DEF Spec, Promise!Safety, Statuses
=============================================================================
