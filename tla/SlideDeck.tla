----------------------------- MODULE SlideDeck -----------------------------
(***************************************************************************)
(* The slide deck of dataExploration.html, in one browser tab: buttons,    *)
(* keys and swipes move between slides, and the charts of a slide are      *)
(* drawn by a timer some time after it is first entered.  All timers of    *)
(* goToSlide have one delay, so they fire in the order they were set; only *)
(* the shorter one set when the page has loaded can overtake them.         *)
(***************************************************************************)
EXTENDS Naturals, SequencesExt

CONSTANTS
    LastSlide, \* the last slide, 4 in the code
    Charts,    \* how many charts each slide has, drawn one after another
    Broken,    \* charts whose drawing throws, as when a module of Highcharts is missing
    MaxTimers  \* bound: timers that can be pending at once

Slide == 0..LastSlide
\* A chart is its slide and its place in the order of drawing.
ChartsOf(n) == {n} \X (1..Charts[n])
Chart == UNION {ChartsOf(n) : n \in Slide}

ASSUME DeckAssumption ==
    /\ LastSlide \in Nat /\ MaxTimers \in Nat
    /\ Charts \in [Slide -> Nat \ {0}]
    /\ Broken \subseteq Chart

VARIABLES
    loaded,             \* has DOMContentLoaded fired?
    currentSlide,
    chartsInitialized,
    timers,             \* the slides whose drawing is scheduled, in order
    touched,            \* are startX and startY both set?
    drawn               \* each chart: 0 before it is drawn, then 1 and 2 in turn,
                        \* each time it is drawn

vars == <<loaded, currentSlide, chartsInitialized, timers, touched, drawn>>

Init ==
    /\ loaded = FALSE
    /\ currentSlide = 0
    /\ chartsInitialized = [n \in Slide |-> FALSE]
    /\ timers = <<>>
    /\ touched = FALSE
    /\ drawn = [c \in Chart |-> 0]

-----------------------------------------------------------------------------

\* Is the slide marked?  For a number that is no slide the answer is undefined,
\* which counts as no.
Initialized(n) == n \in Slide /\ chartsInitialized[n]

\* Mutations: a timer is always set; none is set while one is pending; the slide is
\* marked when the timer is set.
Scheduled_Always(n) ==
    /\ timers' = Append(timers, n)
    /\ UNCHANGED <<chartsInitialized, drawn>>
Scheduled_Debounced(n) ==
    /\ timers' = IF Initialized(n) \/ timers # <<>> THEN timers ELSE <<n>>
    /\ UNCHANGED <<chartsInitialized, drawn>>
Scheduled_Marked(n) ==
    /\ timers' = IF Initialized(n) THEN timers ELSE Append(timers, n)
    /\ chartsInitialized' = [chartsInitialized EXCEPT ![n] = TRUE]
    /\ UNCHANGED drawn

\* Draw the charts of the slide later, if they have not been.
Scheduled(n) ==
    /\ timers' = IF Initialized(n) THEN timers ELSE Append(timers, n)
    /\ UNCHANGED <<chartsInitialized, drawn>>

goToSlide(n) ==
    /\ Len(timers) < MaxTimers
    /\ currentSlide' = n
    /\ Scheduled(n)
    /\ UNCHANGED loaded

\* Mutation: the last slide has a next one.
nextSlide_Over == currentSlide <= LastSlide /\ goToSlide(currentSlide + 1)
nextSlide == currentSlide < LastSlide /\ goToSlide(currentSlide + 1)
previousSlide == currentSlide > 0 /\ goToSlide(currentSlide - 1)

\* An indicator or a tab; the arrows beside the deck.
Click ==
    /\ (\E n \in Slide : goToSlide(n)) \/ nextSlide \/ previousSlide
    /\ UNCHANGED touched

\* ArrowLeft and ArrowRight.
KeyDown ==
    /\ loaded
    /\ nextSlide \/ previousSlide
    /\ UNCHANGED touched

\* A finger comes down; on the edge of the screen a coordinate is 0, which counts
\* as not set.
TouchStart ==
    /\ loaded
    /\ touched' \in BOOLEAN
    /\ UNCHANGED <<loaded, currentSlide, chartsInitialized, timers, drawn>>

\* It goes up again: a swipe far enough to one side, or nothing.
TouchEnd ==
    /\ loaded /\ touched
    /\ touched' = FALSE
    /\ \/ nextSlide \/ previousSlide
       \/ UNCHANGED <<loaded, currentSlide, chartsInitialized, timers, drawn>>

\* DOMContentLoaded: draw the first slide soon, perhaps before what a click has
\* scheduled.
Load ==
    /\ ~loaded
    /\ loaded' = TRUE
    /\ \E k \in 1..(Len(timers) + 1) : timers' = InsertAt(timers, k, 0)
    /\ UNCHANGED <<currentSlide, chartsInitialized, touched, drawn>>

\* The charts of a slide that are drawn: those before the first one that throws.
Drawable(n) == {c \in ChartsOf(n) : \A b \in Broken : b[1] = n => c[2] < b[2]}
Whole(n) == Drawable(n) = ChartsOf(n)
\* Mutation: a slide that was left is not drawn.
Draws_Current(n) == IF n = currentSlide THEN Drawable(n) ELSE {}
Draws(n) == Drawable(n)

Redrawn(k) == IF k = 1 THEN 2 ELSE 1

\* The first timer fires: draw the charts of the slide in order, then mark it.  An
\* exception leaves it unmarked, and drawn up to there.
Fire ==
    /\ timers # <<>>
    /\ LET n == Head(timers) IN
         /\ drawn' = [c \in Chart |-> IF c \in Draws(n) THEN Redrawn(drawn[c]) ELSE drawn[c]]
         /\ chartsInitialized' = [chartsInitialized EXCEPT ![n] = @ \/ Whole(n)]
    /\ timers' = Tail(timers)
    /\ UNCHANGED <<loaded, currentSlide, touched>>

Next == Click \/ KeyDown \/ TouchStart \/ TouchEnd \/ Load \/ Fire

Spec == Init /\ [][Next]_vars
\* The page loads and its timers fire; nobody has to touch anything.
FairSpec == Spec /\ WF_vars(Load) /\ WF_vars(Fire)

-----------------------------------------------------------------------------
(* Properties.                                                             *)

TypeOK ==
    /\ loaded \in BOOLEAN /\ touched \in BOOLEAN
    /\ currentSlide \in Slide
    /\ chartsInitialized \in [Slide -> BOOLEAN]
    /\ timers \in Seq(Slide)
    /\ drawn \in [Chart -> 0..2]

\* A slide is taken for initialised if and only if all its charts were drawn, so one
\* whose drawing broke off, perhaps half way, is tried again when it is next entered.
MarkedIsDrawn ==
    \A n \in Slide : chartsInitialized[n] <=> \A c \in ChartsOf(n) : drawn[c] > 0

\* No entry is lost: while the slide on display is not drawn its drawing is on
\* the way, or broke off.
ShownIsScheduled ==
    loaded /\ Whole(currentSlide) =>
        chartsInitialized[currentSlide] \/ currentSlide \in ToSet(timers)

\* A slide that was entered is drawn, up to a chart that throws, also if it is left
\* before its timer fires.
EnteredIsDrawn ==
    \A n \in Slide : (currentSlide = n) ~> (\A c \in Drawable(n) : drawn[c] > 0)

\* The charts of a slide that can be drawn are not drawn again and again: however
\* long somebody moves to and fro, from some time on none of them is redrawn.  (It
\* does not hold of a slide that breaks off: the charts before the one that throws
\* are drawn again at every entry.)
DrawingSettles ==
    <>[][\A n \in Slide : Whole(n) => \A c \in ChartsOf(n) : drawn'[c] = drawn[c]]_vars

=============================================================================
