-------------------------------- MODULE Page --------------------------------
(***************************************************************************)
(* The page inside the web UI (web/app.tsx, web/entry.tsx) over the host   *)
(* remote (src/remote.ts) and the registry, with the coalescing event that *)
(* tells it to read again (src/change-event.ts).                           *)
(*                                                                         *)
(* The transport between page and host is outside the repository: a call   *)
(* may fail before or after the host has acted on it, replies may overtake *)
(* each other, and an event may be lost.  Composer, clicks and the opening *)
(* and closing of the page are the operator's.                             *)
(***************************************************************************)
EXTENDS Approvals, Sequences

CONSTANTS
  Notes,        \* texts the operator may type
  NoNote,       \* an empty composer
  ThreadLimit,  \* how many messages the thread shows
  Loads,        \* reads under way at once; bounds the model
  MaxAnswers,     \* answers under way at once; bounds the model
  MaxEvents     \* events under way at once; bounds the model

ASSUME PageAssumption ==
  /\ NoNote \notin Notes
  /\ ThreadLimit \in Nat \ {0}
  /\ MaxAnswers \in Nat \ {0}
  /\ MaxEvents \in Nat \ {0}

VARIABLES
  scheduled,  \* the trailing timer is armed
  cooling,    \* the last event is younger than the interval
  events,     \* events on their way to the page
  untold,     \* history: something has changed since the last event
  open,       \* the dashboard is mounted
  load,       \* the reads under way, each with the asks it found
  shown,      \* the pending asks of the page's snapshot
  answering,  \* the answers under way
  draft,      \* the composer's text
  bubbles     \* messages of the operator in the thread, the last ThreadLimit

emitter == <<scheduled, cooling, events, untold>>
composer == <<draft, bubbles>>
view == <<open, load, shown, answering, composer>>
pageVars == <<vars, emitter, view>>

Idle == [step |-> "idle", asks |-> {}]
Read == [step : {"idle", "asked", "read"}, asks : SUBSET Asks]

\* `from` is what is left of the page that made the call: its card, the page
\* without that card, or nothing.
AnswerCall == [ask : Asks, decision : Decisions, note : Notes \union {NoNote},
         step : {"sent", "settled", "late"}, from : {"card", "page", "gone"}]
NoAnswer == [step |-> "none"]
Slots == 1..MaxAnswers
UnderWay == {c \in Slots : answering[c] # NoAnswer}

PageInit ==
  /\ Init
  /\ scheduled = FALSE /\ cooling = FALSE /\ events = 0 /\ untold = FALSE
  /\ open = FALSE
  /\ load = [l \in Loads |-> Idle]
  /\ shown = {}
  /\ answering = [c \in Slots |-> NoAnswer]
  /\ draft = NoNote /\ bubbles = <<>>

-----------------------------------------------------------------------------
(* The change event                                                        *)

Sent == events' = IF events < MaxEvents THEN events + 1 ELSE events

\* Slip: what changes within the interval is left to the next change.
NotifyDropping(many) ==
  /\ UNCHANGED scheduled
  /\ cooling' = TRUE
  /\ IF cooling THEN UNCHANGED events ELSE Sent
  /\ untold' = (cooling \/ many)

\* One change, or several in one synchronous step, is reported.
Notify(many) ==
  /\ scheduled' = (scheduled \/ cooling \/ many)
  /\ cooling' = TRUE
  /\ IF scheduled \/ cooling THEN UNCHANGED events ELSE Sent
  /\ untold' = (scheduled \/ cooling \/ many)

TimerFires ==
  /\ scheduled
  /\ scheduled' = FALSE
  /\ cooling' = TRUE
  /\ Sent
  /\ untold' = FALSE
  /\ UNCHANGED <<vars, view>>

IntervalEnds ==
  /\ cooling /\ ~scheduled
  /\ cooling' = FALSE
  /\ UNCHANGED <<vars, scheduled, events, untold, view>>

EventLost ==
  /\ events > 0
  /\ events' = events - 1
  /\ UNCHANGED <<vars, scheduled, cooling, untold, view>>

-----------------------------------------------------------------------------
(* The registry's steps, and what they report                              *)

AskRaised(a) ==
  /\ \/ (AskCovered(a) \/ AskClaimed(a)) /\ Notify(FALSE)
     \/ (AskRefused(a) \/ AskUnwatched(a)) /\ UNCHANGED emitter
  /\ UNCHANGED view

AskLapses(a) ==
  /\ Expire(a) \/ Withdraw(a)
  /\ Notify(FALSE)
  /\ UNCHANGED view

\* A click in another window.
AnsweredElsewhere(a) ==
  /\ \/ \E d \in Decisions : Answer(a, d) /\ Notify(FALSE)
     \/ GrantForRun(a) /\ Notify(Released(a) # {a})
  /\ UNCHANGED view

\* Another window reports or goes quiet, or the last report gets too old.
WatcherComesOrGoes == WatcherChanges /\ UNCHANGED <<emitter, view>>

\* A run, the feed or a measurement changes.
OtherChange == Notify(FALSE) /\ UNCHANGED <<vars, view>>
-----------------------------------------------------------------------------
(* Reading                                                                 *)

Card(asks, thread) ==
  {a \in asks : Cardinality({b \in asks : a <= b}) + Len(thread) <= ThreadLimit}

\* The cards on screen: asks come first in the thread, and its end is kept.
Cards == Card(shown, bubbles)

\* The cards that say "Submitting".
Busy == {answering[c].ask : c \in {d \in UnderWay : answering[d].from = "card"}}

\* What comes on screen; a card that leaves it loses its state.
Left(answer, asks, thread) ==
  IF answer # NoAnswer /\ answer.from = "card" /\ answer.ask \notin Card(asks, thread)
  THEN [answer EXCEPT !.from = "page"] ELSE answer

Shows(asks, thread, posts) ==
  /\ shown' = asks
  /\ bubbles' = thread
  /\ answering' = [c \in Slots |-> Left(posts[c], asks, thread)]

Asking(l) == load[l] = Idle /\ load' = [load EXCEPT ![l].step = "asked"]

OpenPage(l) ==
  /\ ~open
  /\ open' = TRUE
  /\ Asking(l)
  /\ UNCHANGED <<vars, emitter, shown, answering, composer>>

\* What was under way finds nobody when it comes back.
ClosePage ==
  /\ open
  /\ open' = FALSE
  /\ load' = [l \in Loads |-> Idle]
  /\ answering' = [c \in Slots |->
       IF c \in UnderWay THEN [answering[c] EXCEPT !.from = "gone"] ELSE NoAnswer]
  /\ shown' = {} /\ bubbles' = <<>> /\ draft' = NoNote
  /\ UNCHANGED <<vars, emitter>>

\* Slip: the page reads again only when it is told to.
PollWhenTold(l) ==
  /\ open /\ events > 0
  /\ Asking(l)
  /\ UNCHANGED <<vars, emitter, open, shown, answering, composer>>

Poll(l) ==
  /\ open
  /\ Asking(l)
  /\ UNCHANGED <<vars, emitter, open, shown, answering, composer>>

EventArrives(l) ==
  /\ open /\ events > 0
  /\ events' = events - 1
  /\ Asking(l)
  /\ UNCHANGED <<vars, scheduled, cooling, untold, open, shown, answering, composer>>

\* live(): the read is also the page's heartbeat.
HostReads(l) ==
  /\ load[l].step = "asked"
  /\ load' = [load EXCEPT ![l] = [step |-> "read", asks |-> Pending]]
  /\ watching' = TRUE
  /\ UNCHANGED <<registry, emitter, open, shown, answering, composer>>

ReplyArrives(l) ==
  /\ load[l].step = "read"
  /\ load' = [load EXCEPT ![l] = Idle]
  /\ Shows(load[l].asks, bubbles, answering)
  /\ UNCHANGED <<vars, emitter, open, draft>>

\* The last good frame is kept.
ReadFails(l) ==
  /\ load[l] # Idle
  /\ load' = [load EXCEPT ![l] = Idle]
  /\ UNCHANGED <<vars, emitter, open, shown, answering, composer>>

-----------------------------------------------------------------------------
(* Answering                                                               *)

\* The composer takes text while an ask is shown.
Type(n) ==
  /\ shown # {}
  /\ draft' = n
  /\ draft # n
  /\ UNCHANGED <<vars, emitter, open, load, shown, answering, bubbles>>

With(thread, note) ==
  IF Len(thread) < ThreadLimit THEN Append(thread, note) ELSE Append(Tail(thread), note)

\* The message goes into the thread and stays in the composer.
Post ==
  /\ shown # {}
  /\ draft # NoNote
  /\ Shows(shown, With(bubbles, draft), answering)
  /\ UNCHANGED <<vars, emitter, open, load, draft>>

Offered(a) ==
  IF Grantable(question[a]) THEN Decisions ELSE Decisions \ {"allowed-run"}

Click(a, d, c) ==
  /\ a \in Cards \ Busy
  /\ d \in Offered(a)
  /\ answering[c] = NoAnswer
  /\ answering' = [answering EXCEPT ![c] =
       [ask |-> a, decision |-> d, note |-> draft, step |-> "sent", from |-> "card"]]
  /\ UNCHANGED <<vars, emitter, open, load, shown, composer>>

Moves(c, step) == answering' = [answering EXCEPT ![c].step = step]

\* answer(): a heartbeat too.  An ask that is gone is left alone.
HostAnswers(c) ==
  /\ answering[c].step = "sent"
  /\ watching' = TRUE
  /\ LET a == answering[c].ask
         d == answering[c].decision IN
     \/ /\ SettleApproval(a, d)
        /\ Notify(FALSE)
        /\ Moves(c, "settled")
     \/ /\ d = "allowed-run"
        /\ SettleForRun(a)
        /\ Notify(Released(a) # {a})
        /\ Moves(c, "settled")
     \/ /\ outcome[a] # "pending"
        /\ Moves(c, "late")
        /\ UNCHANGED <<registry, emitter>>
  /\ UNCHANGED <<open, load, shown, composer>>

\* Said once: the note was posted already, or there is none.
Said(note) == note = NoNote \/ (bubbles # <<>> /\ bubbles[Len(bubbles)] = note)

\* The page does not ask whether its answer was in time.
AnswerReturns(c) ==
  /\ answering[c].step \in {"settled", "late"}
  /\ answering[c].from # "gone"
  /\ draft' = NoNote
  /\ LET note == answering[c].note IN
     Shows(shown, IF Said(note) THEN bubbles ELSE With(bubbles, note),
           [answering EXCEPT ![c] = NoAnswer])
  /\ UNCHANGED <<vars, emitter, open, load>>

\* The answer is not known to have arrived (the card says so; the text is
\* kept), or there is no page left to tell.
AnswerLost(c) ==
  /\ c \in UnderWay
  /\ answering' = [answering EXCEPT ![c] = NoAnswer]
  /\ UNCHANGED <<vars, emitter, open, load, shown, composer>>

-----------------------------------------------------------------------------
PageNext ==
  \/ TimerFires \/ IntervalEnds \/ EventLost
  \/ WatcherComesOrGoes \/ OtherChange
  \/ ClosePage \/ Post
  \/ \E n \in Notes \union {NoNote} : Type(n)
  \/ \E a \in Asks :
       \/ AskRaised(a) \/ AskLapses(a) \/ AnsweredElsewhere(a)
       \/ \E d \in Decisions, c \in Slots : Click(a, d, c)
  \/ \E l \in Loads :
       \/ OpenPage(l) \/ Poll(l) \/ EventArrives(l)
       \/ HostReads(l) \/ ReplyArrives(l) \/ ReadFails(l)
  \/ \E c \in Slots : HostAnswers(c) \/ AnswerReturns(c) \/ AnswerLost(c)

\* The page's interval fires, a read under way comes to an end, and not every
\* read fails.
PageFairness ==
  /\ WF_pageVars(\E l \in Loads : Poll(l))
  /\ \A l \in Loads : WF_pageVars(HostReads(l) \/ ReplyArrives(l) \/ ReadFails(l))
  /\ SF_pageVars(\E l \in Loads : HostReads(l))
  /\ SF_pageVars(\E l \in Loads : ReplyArrives(l))

PageSpec == PageInit /\ [][PageNext]_pageVars
FairPageSpec == PageSpec /\ PageFairness

-----------------------------------------------------------------------------
(* Properties                                                              *)

PageTypeOK ==
  /\ TypeOK
  /\ scheduled \in BOOLEAN /\ cooling \in BOOLEAN /\ untold \in BOOLEAN
  /\ events \in 0..MaxEvents
  /\ open \in BOOLEAN
  /\ load \in [Loads -> Read]
  /\ shown \subseteq Asks
  /\ answering \in [Slots -> AnswerCall \union {NoAnswer}]
  /\ draft \in Notes \union {NoNote}
  /\ bubbles \in Seq(Notes)

\* "A trailing event so the final change is never the one that gets dropped": a
\* change that no event has told of has a timer waiting (createChangeEmitter).
FinalChangeIsTold == untold => scheduled

\* The thread is long enough for the asks and for what the operator has posted.
Fits == Cardinality(shown \union Pending) + Len(bubbles) <= ThreadLimit

\* A page that stays open comes to show a card for each waiting ask and for no
\* other, however its reads overtake each other and whichever events are lost
\* ("a SAFETY NET for a dropped frame": useSnapshot).
PageConverges == <>[](open /\ Fits) => <>[](Cards = Pending)

\* The same without Fits: "a pending ask appears immediately" (README.md).  48
\* posted messages push every card out of the thread.
PageAlwaysConverges == <>[]open => <>[](Cards = Pending)
=============================================================================
