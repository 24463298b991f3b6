----------------------------- MODULE Dashboard -----------------------------
(***************************************************************************)
(* The dead-letter tab of the dashboard: a view that usePolling refreshes  *)
(* (web/src/hooks.ts, App.tsx), and the button that replays what it lists  *)
(* (web/src/components/DlqPanel.tsx), over GET /queue/dlq and POST         *)
(* /queue/dlq/replay.  Answers of polls are applied as they arrive; the    *)
(* replay is told a number, not which jobs.                                *)
(*                                                                         *)
(* The DLQ is that of Queue.  Of the rest of the platform no more is kept  *)
(* than that a job which is not on the DLQ may end there at any time.      *)
(***************************************************************************)
EXTENDS Queue

CONSTANTS
    Limit,     \* api.listDlq(200)
    GhostSets, \* the sets of ghosts to consider, one per behaviour
    Clicks,    \* bound: replays that may be under way at once
    MaxPolls   \* bound: requests of usePolling that may be under way at once

ASSUME DashboardAssumption ==
    Limit \in Nat \ {0} /\ GhostSets \subseteq SUBSET Jobs /\ MaxPolls \in Nat \ {0}

VARIABLES
    live, tab,  \* the button Live/Paused, the tab that is open
    asked,      \* how many requests for the list are not answered yet
    answers,    \* the answers that are on their way back, as they were given
    view,       \* dlq.data: the answer that arrived last
    replays,    \* the requests the button sent
    ghosts      \* jobs whose row a cascade deletes once they are dead; never changes

panelVars == <<live, tab, asked, answers, view, replays>>
dashboardVars == <<redisVars, panelVars, ghosts>>

\* "current" is not data of the program.  It says that the list had room for the
\* whole DLQ, and that nothing was popped since it was read.  Nor is "expected":
\* the jobs a replay may pop if it keeps to such a list, all jobs otherwise.
Answers == [rows: SUBSET Jobs, current: BOOLEAN]
NoAnswer == [rows |-> {}, current |-> FALSE]
Outdated(answer) == [answer EXCEPT !.current = FALSE]

\* Who waits for the request, the ids still to pop, and the one in hand.
\* "unattended": its panel was closed, or its connection lost.
Replays == [by: {"nobody", "panel", "unattended"}, left: 0..Limit,
            expected: SUBSET Jobs, hand: SUBSET Jobs]
NoReplay == [by |-> "nobody", left |-> 0, expected |-> Jobs, hand |-> {}]

DashboardTypeOK ==
    /\ QueueTypeOK
    /\ live \in BOOLEAN /\ tab \in {"jobs", "dlq"}
    /\ asked \in 0..MaxPolls /\ answers \in Seq(Answers)
    /\ view \in Answers
    /\ replays \in [Clicks -> Replays]
    /\ ghosts \in GhostSets

\* The first effect runs the fetcher once, on whatever tab.
DashboardInit ==
    /\ QueueInit
    /\ live = TRUE /\ tab = "jobs"
    /\ asked = 1 /\ answers = << >>
    /\ view = NoAnswer
    /\ replays = [c \in Clicks |-> NoReplay]
    /\ ghosts \in GhostSets

Enabled(isLive, openTab) == isLive /\ openTab = "dlq"

\* run(): one more request, whatever is under way.
Fetch ==
    /\ asked + Len(answers) < MaxPolls
    /\ asked' = asked + 1
    /\ UNCHANGED answers

\* peekDlq is LRANGE 0 limit - 1 of a list that LPUSH extends, hence the newest;
\* findByIds drops what has no row.
Newest == IF Len(dlq) > Limit THEN SubSeq(dlq, Len(dlq) - Limit + 1, Len(dlq)) ELSE dlq
Listed == Range(Newest) \ ghosts

-----------------------------------------------------------------------------
(* Seeded mistakes, as in Queue.                                           *)

\* if (enabled) return;
TickWhenPaused ==
    /\ ~Enabled(live, tab)
    /\ Fetch
    /\ UNCHANGED <<redisVars, live, tab, view, replays>>

-----------------------------------------------------------------------------
(* The platform, as the panel sees it.                                     *)

Bury(j) ==
    /\ j \notin Range(dlq) \cup UNION {replays[c].hand : c \in Clicks}
    /\ DeadLetter(j)
    /\ UNCHANGED panelVars

-----------------------------------------------------------------------------
(* usePolling.                                                             *)

\* The effect runs again, and fetches, when enabled has changed either way.  The
\* panel of a tab that is closed forgets that it is busy; its request goes on.
SetPanel(isLive, openTab) ==
    /\ <<isLive, openTab>> # <<live, tab>>
    /\ live' = isLive /\ tab' = openTab
    /\ IF Enabled(isLive, openTab) # Enabled(live, tab) THEN Fetch ELSE UNCHANGED <<asked, answers>>
    /\ replays' = [c \in Clicks |-> IF openTab = "jobs" /\ replays[c].by = "panel"
                                   THEN [replays[c] EXCEPT !.by = "unattended"]
                                   ELSE replays[c]]
    /\ UNCHANGED <<redisVars, view>>

Switch == SetPanel(~live, tab) \/ \E openTab \in {"jobs", "dlq"} : SetPanel(live, openTab)

PollTick ==
    /\ Enabled(live, tab)
    /\ Fetch
    /\ UNCHANGED <<redisVars, live, tab, view, replays>>

PollAnswered ==
    /\ asked > 0
    /\ asked' = asked - 1
    /\ answers' = Append(answers, [rows |-> Listed, current |-> Len(dlq) <= Limit])
    /\ UNCHANGED <<redisVars, live, tab, view, replays>>

\* All answers but the i-th.
Without(i) == SubSeq(answers, 1, i - 1) \o SubSeq(answers, i + 1, Len(answers))

\* setData: answers may overtake one another.
PollArrives ==
    /\ \E i \in 1..Len(answers) :
        /\ view' = answers[i]
        /\ answers' = Without(i)
    /\ UNCHANGED <<redisVars, live, tab, asked, replays>>

\* setError: the data stay as they are.
PollFails ==
    /\ \/ asked > 0 /\ asked' = asked - 1 /\ UNCHANGED answers
       \/ /\ UNCHANGED asked
          /\ \E i \in 1..Len(answers) : answers' = Without(i)
    /\ UNCHANGED <<redisVars, live, tab, view, replays>>

-----------------------------------------------------------------------------
(* DlqPanel: "Replay all", and the loop it starts in the api.              *)

\* The button is disabled while busy; confirm keeps the view as it is.
ClickReplay(c) ==
    /\ tab = "dlq" /\ view.rows # {}
    /\ \A d \in Clicks : replays[d].by # "panel"
    /\ replays[c].by = "nobody"
    /\ replays' = [replays EXCEPT ![c] =
          [by |-> "panel", left |-> Cardinality(view.rows), hand |-> {},
           expected |-> IF view.current THEN view.rows \cup ghosts ELSE Jobs]]
    /\ UNCHANGED <<redisVars, live, tab, asked, answers, view>>

\* popDlq: the oldest id; what was read before is no longer current.
ReplayPops(c) ==
    /\ replays[c].left > 0 /\ replays[c].hand = {}
    /\ \E j \in Jobs :
        /\ PopDlq(j)
        /\ replays' = [d \in Clicks |->
              IF d = c THEN [replays[c] EXCEPT !.left = @ - 1, !.hand = {j}]
                       ELSE [replays[d] EXCEPT !.expected = Jobs]]
    /\ answers' = [i \in 1..Len(answers) |-> Outdated(answers[i])]
    /\ view' = Outdated(view)
    /\ UNCHANGED <<live, tab, asked>>

\* The row is reset and the id pushed to ready, or there is no row and the id is
\* dropped; either way the panel has nothing more to do with it.
ReplayGoesOn(c) ==
    /\ replays[c].hand # {}
    /\ replays' = [replays EXCEPT ![c].hand = {}]
    /\ UNCHANGED <<redisVars, live, tab, asked, answers, view>>

\* onReplayed refreshes the list, also that of a panel closed since, but not if
\* the connection was lost.
ReplayEnds(c) ==
    /\ replays[c].by # "nobody" /\ replays[c].hand = {}
    /\ replays[c].left = 0 \/ dlq = << >>
    /\ replays' = [replays EXCEPT ![c] = NoReplay]
    /\ Fetch \/ (replays[c].by = "unattended" /\ UNCHANGED <<asked, answers>>)
    /\ UNCHANGED <<redisVars, live, tab, view>>

\* A command throws or the api stops, or only the connection is lost and the loop
\* goes on: the panel shows an error, is not busy and does not refresh.
ReplayRejected(c) ==
    /\ replays[c].by # "nobody"
    /\ \/ replays' = [replays EXCEPT ![c] = NoReplay]
       \/ replays' = [replays EXCEPT ![c].by = "unattended"]
    /\ UNCHANGED <<redisVars, live, tab, asked, answers, view>>

-----------------------------------------------------------------------------
Polls == PollTick \/ PollAnswered \/ PollArrives \/ PollFails
ReplayStep(c) ==
    \/ ClickReplay(c) \/ ReplayPops(c) \/ ReplayGoesOn(c)
    \/ ReplayEnds(c) \/ ReplayRejected(c)

DashboardNext ==
    /\ (\E j \in Jobs : Bury(j)) \/ Switch \/ Polls \/ (\E c \in Clicks : ReplayStep(c))
    /\ UNCHANGED ghosts

Asks == PollTick /\ UNCHANGED ghosts
IsAnswered == PollAnswered /\ UNCHANGED ghosts
Shows == PollArrives /\ UNCHANGED ghosts

DashboardSpec == DashboardInit /\ [][DashboardNext]_dashboardVars

\* The interval goes on, and not all requests fail: for ever, now and then, one is
\* answered and an answer arrives, in whatever order.
DashboardFairSpec ==
    /\ DashboardSpec
    /\ WF_dashboardVars(Asks)
    /\ SF_dashboardVars(IsAnswered)
    /\ SF_dashboardVars(Shows)

-----------------------------------------------------------------------------
(* Properties.                                                             *)

\* "The dashboard can show what is stuck and why before anyone hits replay"
\* (queue.controller.ts:35-36): a job that was not on the list is replayed only if
\* the list was cut at its limit, or if somebody else's replay popped something
\* since it was read, be it that the answer came late (hooks.ts:25-26).
CurrentListIsReplayed == \A c \in Clicks : replays[c].hand \subseteq replays[c].expected

\* "The dashboard is a live view of a moving system" (hooks.ts:6): while the tab
\* is open and live, and the DLQ is at rest, the list becomes the DLQ and stays
\* it, however requests were delayed, overtook one another or failed before.
ListCatchesUp ==
    <>[]Enabled(live, tab) /\ <>[][FALSE]_dlq => <>[](view.rows = Listed)

-----------------------------------------------------------------------------
(* What makes CurrentListIsReplayed inductive.                             *)

\* The next n pops will find as many ids, and all of them among these jobs.
NextPopsAreAmong(n, jobs) == n <= Len(dlq) /\ \A i \in 1..n : dlq[i] \in jobs

\* An answer that is current lists what the pops it will cause will find, since
\* the DLQ has only grown behind it; and no answer is longer than was asked for.
IsTrue(answer) ==
    /\ Cardinality(answer.rows) <= Limit
    /\ answer.current => NextPopsAreAmong(Cardinality(answer.rows), answer.rows \cup ghosts)

AnswersAreTrue == IsTrue(view) /\ \A i \in 1..Len(answers) : IsTrue(answers[i])

\* A replay that nobody disturbed will pop what its list had.
ReplaysKeepToTheirList ==
    \A c \in Clicks : replays[c].expected # Jobs =>
        /\ replays[c].hand \subseteq replays[c].expected
        /\ NextPopsAreAmong(replays[c].left, replays[c].expected)
=============================================================================
