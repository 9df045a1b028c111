-------------------------- MODULE SlideDeckProofs --------------------------
(***************************************************************************)
(* Theorems about SlideDeck, for any numbers of slides and charts, any     *)
(* charts that throw and any number of pending timers.                     *)
(***************************************************************************)
EXTENDS SlideDeck, SequenceTheorems, TLAPS

-----------------------------------------------------------------------------
(* Lists of timers.                                                        *)

LEMMA InToSet ==
    ASSUME NEW S, NEW s \in Seq(S)
    PROVE  \A x : x \in ToSet(s) <=> \E i \in 1..Len(s) : s[i] = x
  BY DEF ToSet

\* What a list holds after one slide is added at its end, or anywhere.
LEMMA Appended ==
    ASSUME timers \in Seq(Slide), NEW n \in Slide
    PROVE  /\ Append(timers, n) \in Seq(Slide)
           /\ ToSet(Append(timers, n)) = ToSet(timers) \cup {n}
  <1> DEFINE m == Len(timers)
             c == Append(timers, n)
  <1>1. /\ c \in Seq(Slide) /\ Len(c) = m + 1 /\ m \in Nat
        /\ \A i \in 1..m : c[i] = timers[i]
        /\ c[m + 1] = n
    BY AppendProperties, LenProperties
  <1> HIDE DEF c, m
  <1>2. \A x : x \in ToSet(c) <=> \E i \in 1..(m + 1) : c[i] = x
    BY <1>1, InToSet
  <1>3. \A x : x \in ToSet(timers) <=> \E i \in 1..m : timers[i] = x
    BY InToSet DEF m
  <1>4. \A x : x \in ToSet(c) <=> x \in ToSet(timers) \/ x = n
    BY <1>1, <1>2, <1>3
  <1>5. ToSet(c) = ToSet(timers) \cup {n}
    BY <1>4
  <1> QED
    BY <1>1, <1>5 DEF c

LEMMA Inserted ==
    ASSUME timers \in Seq(Slide), NEW n \in Slide, NEW k \in 1..(Len(timers) + 1)
    PROVE  /\ InsertAt(timers, k, n) \in Seq(Slide)
           /\ ToSet(InsertAt(timers, k, n)) = ToSet(timers) \cup {n}
  <1> DEFINE a == SubSeq(timers, 1, k - 1)
             b == SubSeq(timers, k, Len(timers))
             m == Len(timers)
  <1>0. m \in Nat /\ k \in Nat /\ k >= 1 /\ k <= m + 1
    BY LenProperties
  <1>1. /\ a \in Seq(Slide) /\ Len(a) = k - 1
        /\ \A i \in 1..(k - 1) : a[i] = timers[i]
    BY SubSeqProperties
  <1>2. /\ b \in Seq(Slide) /\ Len(b) = m + 1 - k
        /\ \A i \in 1..(m + 1 - k) : b[i] = timers[k + i - 1]
    BY SubSeqProperties
  <1> DEFINE c == InsertAt(timers, k, n)
  <1>3. c = (a \o <<n>>) \o b
    BY DEF InsertAt
  <1>4. /\ a \o <<n>> \in Seq(Slide) /\ Len(a \o <<n>>) = k
        /\ \A i \in 1..(k - 1) : (a \o <<n>>)[i] = a[i]
        /\ (a \o <<n>>)[k] = n
    <2> HIDE DEF a
    <2> QED
      BY <1>1
  <1>5. /\ c \in Seq(Slide) /\ Len(c) = m + 1
        /\ \A i \in 1..(k - 1) : c[i] = timers[i]
        /\ c[k] = n
        /\ \A i \in k..m : c[i + 1] = timers[i]
    <2> DEFINE d == a \o <<n>>
    <2> HIDE DEF a, b, c, d
    <2>1. d \in Seq(Slide) /\ Len(d) = k /\ c = d \o b
      BY <1>3, <1>4 DEF d
    <2>0. /\ d \o b \in Seq(Slide) /\ Len(d \o b) = Len(d) + Len(b)
          /\ \A i \in 1..(Len(d) + Len(b)) :
                (d \o b)[i] = IF i <= Len(d) THEN d[i] ELSE b[i - Len(d)]
      BY <2>1, <1>2, ConcatProperties
    <2>2. /\ c \in Seq(Slide) /\ Len(c) = k + (m + 1 - k)
          /\ \A i \in 1..(m + 1) : c[i] = IF i <= k THEN d[i] ELSE b[i - k]
      BY <2>0, <2>1, <1>0, <1>2
    <2>3. Len(c) = m + 1
      BY <2>2
    <2>4. \A i \in 1..(k - 1) : c[i] = timers[i]
      BY <2>2, <1>1, <1>4 DEF d
    <2>5. c[k] = n
      BY <2>2, <1>4 DEF d
    <2>6. ASSUME NEW i \in k..m PROVE c[i + 1] = timers[i]
      <3>1. /\ i + 1 \in 1..(m + 1) /\ ~(i + 1 <= k)
            /\ (i + 1) - k \in 1..(m + 1 - k) /\ k + ((i + 1) - k) - 1 = i
        BY <1>0
      <3>2. c[i + 1] = b[(i + 1) - k]
        BY <3>1, <2>2
      <3>3. b[(i + 1) - k] = timers[k + ((i + 1) - k) - 1]
        BY <3>1, <1>2
      <3> QED
        BY <3>1, <3>2, <3>3
    <2> QED
      BY <2>2, <2>3, <2>4, <2>5, <2>6
  <1> HIDE DEF a, b, c
  <1>6. \A x : x \in ToSet(c) <=> \E i \in 1..(m + 1) : c[i] = x
    BY <1>5, InToSet
  <1>7. \A x : x \in ToSet(timers) <=> \E i \in 1..m : timers[i] = x
    BY InToSet
  <1>8. ASSUME NEW x \in ToSet(c) PROVE x \in ToSet(timers) \cup {n}
    <2>1. PICK i \in 1..(m + 1) : c[i] = x
      BY <1>6
    <2>2. CASE i < k
      <3>1. i \in 1..(k - 1) /\ i \in 1..m
        BY <2>2
      <3>2. timers[i] = x
        BY <3>1, <2>1, <1>5
      <3> QED
        BY <3>1, <3>2, <1>7
    <2>3. CASE i = k
      BY <2>1, <2>3, <1>5
    <2>4. CASE i > k
      <3>1. i - 1 \in k..m /\ i - 1 \in 1..m /\ (i - 1) + 1 = i
        BY <2>4, <1>0
      <3>2. timers[i - 1] = x
        BY <3>1, <2>1, <1>5
      <3> QED
        BY <3>1, <3>2, <1>7
    <2> QED
      BY <2>2, <2>3, <2>4
  <1>9. ASSUME NEW x \in ToSet(timers) PROVE x \in ToSet(c)
    <2>1. PICK i \in 1..m : timers[i] = x
      BY <1>7
    <2>2. CASE i < k
      <3>1. i \in 1..(k - 1) /\ i \in 1..(m + 1)
        BY <2>2
      <3>2. c[i] = x
        BY <3>1, <2>1, <1>5
      <3> QED
        BY <3>1, <3>2, <1>6
    <2>3. CASE i >= k
      <3>1. i \in k..m /\ i + 1 \in 1..(m + 1)
        BY <2>3, <1>0
      <3>2. c[i + 1] = x
        BY <3>1, <2>1, <1>5
      <3> QED
        BY <3>1, <3>2, <1>6
    <2> QED
      BY <2>2, <2>3
  <1>10. n \in ToSet(c)
    BY <1>5, <1>6
  <1> QED
    BY <1>5, <1>8, <1>9, <1>10 DEF c

\* What is left when the first timer has fired.
LEMMA Fired ==
    ASSUME timers \in Seq(Slide), timers # <<>>
    PROVE  /\ Head(timers) \in Slide /\ Tail(timers) \in Seq(Slide)
           /\ \A x \in ToSet(timers) : x = Head(timers) \/ x \in ToSet(Tail(timers))
  <1>1. /\ Head(timers) = timers[1] /\ Head(timers) \in Slide
        /\ Tail(timers) \in Seq(Slide) /\ Len(Tail(timers)) = Len(timers) - 1
        /\ \A i \in 1..(Len(timers) - 1) : Tail(timers)[i] = timers[i + 1]
    BY HeadTailProperties
  <1>2. ASSUME NEW x \in ToSet(timers), x # Head(timers)
        PROVE  x \in ToSet(Tail(timers))
    <2>1. PICK i \in 1..Len(timers) : timers[i] = x
      BY InToSet
    <2>2. i - 1 \in 1..(Len(timers) - 1) /\ (i - 1) + 1 = i
      BY <2>1, <1>1, <1>2
    <2>3. Tail(timers)[i - 1] = x
      BY <2>1, <2>2, <1>1
    <2> QED
      BY <2>2, <2>3, <1>1, InToSet
  <1> QED
    BY <1>1, <1>2

-----------------------------------------------------------------------------
(* The invariant.                                                          *)

\* While a slide is on display, its drawing is done, on the way, or broke off; the
\* first slide's waits for the page to load.
Awaited ==
    \/ ~Whole(currentSlide) \/ chartsInitialized[currentSlide]
    \/ currentSlide \in ToSet(timers)
    \/ ~loaded /\ currentSlide = 0

\* From the first one that throws on, no chart of a slide is ever drawn.
BrokenOff == \A n \in Slide : \A c \in ChartsOf(n) \ Drawable(n) : drawn[c] = 0

IInv == TypeOK /\ MarkedIsDrawn /\ BrokenOff /\ Awaited

LEMMA ChartTypes ==
    /\ \A n \in Slide : ChartsOf(n) \subseteq Chart /\ Drawable(n) \subseteq ChartsOf(n)
    /\ \A n \in Slide : \E c \in Chart : c \in ChartsOf(n)
    /\ \A n, m \in Slide : \A c \in ChartsOf(n) : c \in ChartsOf(m) => n = m
  <1>1. \A n \in Slide : ChartsOf(n) \subseteq Chart /\ Drawable(n) \subseteq ChartsOf(n)
    BY DEF Chart, Drawable
  <1>2. ASSUME NEW n \in Slide PROVE \E c \in Chart : c \in ChartsOf(n)
    <2>1. 1 \in 1..Charts[n]
      BY DeckAssumption
    <2>2. <<n, 1>> \in ChartsOf(n)
      BY <2>1 DEF ChartsOf
    <2> QED
      BY <1>1, <2>2
  <1>3. \A n, m \in Slide : \A c \in ChartsOf(n) : c \in ChartsOf(m) => n = m
    BY DEF ChartsOf
  <1> QED
    BY <1>1, <1>2, <1>3

LEMMA IInvInit == Init => IInv
  <1> SUFFICES ASSUME Init PROVE IInv
    OBVIOUS
  <1>1. \A c \in Chart : drawn[c] = 0
    BY DEF Init
  <1>2. TypeOK
    <2>1. 0 \in Slide
      BY DeckAssumption DEF Slide
    <2>2. timers \in Seq(Slide) /\ drawn \in [Chart -> 0..2]
      BY DEF Init
    <2> QED
      BY <2>1, <2>2 DEF Init, TypeOK
  <1>3. MarkedIsDrawn
    BY <1>1, ChartTypes DEF Init, MarkedIsDrawn
  <1>4. BrokenOff
    BY <1>1, ChartTypes DEF BrokenOff
  <1>5. Awaited
    BY DEF Init, Awaited
  <1> QED
    BY <1>2, <1>3, <1>4, <1>5 DEF IInv

\* Steps that neither draw nor mark.
LEMMA ChartsKept ==
    ASSUME IInv, UNCHANGED <<chartsInitialized, drawn>>
    PROVE  MarkedIsDrawn' /\ BrokenOff'
  BY DEF IInv, MarkedIsDrawn, BrokenOff, Slide, ChartsOf, Drawable

\* Going to a slide is all the buttons, keys and swipes do.
LEMMA MoveGoes ==
    ASSUME TypeOK, nextSlide \/ previousSlide
    PROVE  \E n \in Slide : goToSlide(n)
  <1>1. CASE nextSlide
    <2>1. currentSlide + 1 \in Slide
      BY <1>1, DeckAssumption DEF TypeOK, Slide, nextSlide
    <2> QED
      BY <1>1, <2>1 DEF nextSlide
  <1>2. CASE previousSlide
    <2>1. currentSlide - 1 \in Slide
      BY <1>2, DeckAssumption DEF TypeOK, Slide, previousSlide
    <2> QED
      BY <1>2, <2>1 DEF previousSlide
  <1> QED
    BY <1>1, <1>2

LEMMA GoKeeps ==
    ASSUME IInv, NEW n \in Slide, goToSlide(n), touched' \in BOOLEAN
    PROVE  IInv'
  <1>1. /\ timers' \in Seq(Slide)
        /\ chartsInitialized[n] \/ n \in ToSet(timers')
    BY Appended DEF IInv, TypeOK, goToSlide, Scheduled, Initialized
  <1>2. UNCHANGED <<loaded, chartsInitialized, drawn>> /\ currentSlide' = n
    BY DEF goToSlide, Scheduled
  <1>3. TypeOK'
    BY <1>1, <1>2 DEF IInv, TypeOK, Slide, Chart, ChartsOf
  <1>4. MarkedIsDrawn' /\ BrokenOff'
    BY <1>2, ChartsKept
  <1>5. Awaited'
    BY <1>1, <1>2 DEF Awaited
  <1> QED
    BY <1>3, <1>4, <1>5 DEF IInv

LEMMA LoadKeeps ==
    ASSUME IInv, Load
    PROVE  IInv'
  <1>1. 0 \in Slide
    BY DeckAssumption DEF Slide
  <1>2. timers' \in Seq(Slide) /\ ToSet(timers') = ToSet(timers) \cup {0}
    BY <1>1, Inserted DEF IInv, TypeOK, Load
  <1>3. UNCHANGED <<currentSlide, chartsInitialized, touched, drawn>> /\ loaded' = TRUE
    BY DEF Load
  <1>4. TypeOK'
    BY <1>2, <1>3 DEF IInv, TypeOK, Slide, Chart, ChartsOf
  <1>5. MarkedIsDrawn' /\ BrokenOff'
    BY <1>3, ChartsKept
  <1>6. Awaited'
    BY <1>2, <1>3 DEF IInv, Awaited, Whole, Drawable, ChartsOf
  <1> QED
    BY <1>4, <1>5, <1>6 DEF IInv

LEMMA FireKeeps ==
    ASSUME IInv, Fire
    PROVE  IInv'
  <1> DEFINE n == Head(timers)
  <1>1. timers \in Seq(Slide) /\ timers # <<>>
    BY DEF IInv, TypeOK, Fire
  <1>2. /\ n \in Slide /\ Tail(timers) \in Seq(Slide)
        /\ \A x \in ToSet(timers) : x = n \/ x \in ToSet(Tail(timers))
    BY <1>1, Fired
  <1>3. /\ timers' = Tail(timers) /\ UNCHANGED <<loaded, currentSlide, touched>>
        /\ drawn' = [c \in Chart |-> IF c \in Drawable(n) THEN Redrawn(drawn[c]) ELSE drawn[c]]
        /\ chartsInitialized' = [chartsInitialized EXCEPT ![n] = @ \/ Whole(n)]
    BY DEF Fire, Draws
  <1> HIDE DEF n
  <1>4. /\ drawn \in [Chart -> 0..2] /\ chartsInitialized \in [Slide -> BOOLEAN]
        /\ currentSlide \in Slide /\ loaded \in BOOLEAN /\ touched \in BOOLEAN
    BY DEF IInv, TypeOK
  <1>5. \A k \in 0..2 : Redrawn(k) \in 1..2
    BY DEF Redrawn
  <1>6. /\ drawn' \in [Chart -> 0..2]
        /\ \A c \in Chart : c \in Drawable(n) => drawn'[c] > 0
        /\ \A c \in Chart : c \notin Drawable(n) => drawn'[c] = drawn[c]
    <2>1. ASSUME NEW c \in Chart, c \in Drawable(n)
          PROVE  drawn'[c] \in 1..2
      <3>1. drawn[c] \in 0..2
        BY <1>4
      <3>2. drawn'[c] = Redrawn(drawn[c])
        BY <1>3, <2>1
      <3> QED
        BY <3>1, <3>2, <1>5
    <2>2. ASSUME NEW c \in Chart, c \notin Drawable(n)
          PROVE  drawn'[c] = drawn[c] /\ drawn'[c] \in 0..2
      BY <1>3, <1>4, <2>2
    <2>3. drawn' \in [Chart -> 0..2]
      <3>1. \A c \in Chart : drawn'[c] \in 0..2
        BY <2>1, <2>2
      <3> QED
        BY <3>1, <1>3
    <2> QED
      BY <2>1, <2>2, <2>3
  <1>7. /\ chartsInitialized' \in [Slide -> BOOLEAN]
        /\ chartsInitialized'[n] = (chartsInitialized[n] \/ Whole(n))
        /\ \A x \in Slide \ {n} : chartsInitialized'[x] = chartsInitialized[x]
    <2>1. Whole(n) \in BOOLEAN
      BY DEF Whole
    <2> QED
      BY <1>2, <1>3, <1>4, <2>1
  <1>8. TypeOK'
    BY <1>2, <1>3, <1>4, <1>6, <1>7 DEF TypeOK, Slide, Chart, ChartsOf
  <1>9. ASSUME NEW x \in Slide
        PROVE  chartsInitialized'[x] <=> \A c \in ChartsOf(x) : drawn'[c] > 0
    <2>1. chartsInitialized[x] <=> \A c \in ChartsOf(x) : drawn[c] > 0
      BY DEF IInv, MarkedIsDrawn
    <2>2. CASE x # n
      <3>1. \A c \in ChartsOf(x) : c \in Chart /\ c \notin Drawable(n)
        BY <2>2, <1>2, ChartTypes
      <3> QED
        BY <2>1, <2>2, <3>1, <1>6, <1>7
    <2>3. CASE x = n /\ Whole(n)
      <3>1. \A c \in ChartsOf(x) : c \in Chart /\ c \in Drawable(n)
        BY <2>3, ChartTypes DEF Whole
      <3> QED
        BY <2>3, <3>1, <1>6, <1>7
    <2>4. CASE x = n /\ ~Whole(n)
      <3>1. PICK c \in ChartsOf(n) : c \notin Drawable(n)
        BY <2>4, <1>2, ChartTypes DEF Whole
      <3>2. drawn[c] = 0 /\ drawn'[c] = 0
        BY <3>1, <1>2, <1>6, ChartTypes DEF IInv, BrokenOff
      <3>3. ~(drawn[c] > 0) /\ ~(drawn'[c] > 0)
        BY <3>2
      <3> QED
        BY <2>1, <2>4, <3>1, <3>3, <1>7
    <2> QED
      BY <2>2, <2>3, <2>4
  <1>10. ASSUME NEW x \in Slide, NEW c \in ChartsOf(x) \ Drawable(x)
         PROVE  drawn'[c] = 0
    <2>1. drawn[c] = 0 /\ c \in Chart
      BY ChartTypes DEF IInv, BrokenOff
    <2>2. c \notin Drawable(n)
      BY <1>2, ChartTypes
    <2> QED
      BY <2>1, <2>2, <1>6
  <1>11. MarkedIsDrawn' /\ BrokenOff'
    BY <1>9, <1>10 DEF MarkedIsDrawn, BrokenOff, Slide, ChartsOf, Drawable
  <1>12. Awaited'
    <2>1. CASE currentSlide = n
      BY <2>1, <1>3, <1>7 DEF Awaited, Whole, Drawable, ChartsOf
    <2>2. CASE currentSlide # n
      BY <2>2, <1>2, <1>3, <1>4, <1>7 DEF IInv, Awaited, Whole, Drawable, ChartsOf
    <2> QED
      BY <2>1, <2>2
  <1> QED
    BY <1>8, <1>11, <1>12 DEF IInv

LEMMA TouchKeeps ==
    ASSUME IInv, touched' \in BOOLEAN,
           UNCHANGED <<loaded, currentSlide, chartsInitialized, timers, drawn>>
    PROVE  IInv'
  <1>1. TypeOK'
    BY DEF IInv, TypeOK, Slide, Chart, ChartsOf
  <1>2. MarkedIsDrawn' /\ BrokenOff'
    BY ChartsKept
  <1>3. Awaited'
    BY DEF IInv, Awaited, Whole, Drawable, ChartsOf
  <1> QED
    BY <1>1, <1>2, <1>3 DEF IInv

LEMMA IInvNext ==
    ASSUME IInv, [Next]_vars
    PROVE  IInv'
  <1>1. TypeOK /\ touched \in BOOLEAN
    BY DEF IInv, TypeOK
  <1>2. CASE Click
    <2>1. \E n \in Slide : goToSlide(n)
      BY <1>1, <1>2, MoveGoes DEF Click
    <2> QED
      BY <1>1, <1>2, <2>1, GoKeeps DEF Click
  <1>3. CASE KeyDown
    <2>1. \E n \in Slide : goToSlide(n)
      BY <1>1, <1>3, MoveGoes DEF KeyDown
    <2> QED
      BY <1>1, <1>3, <2>1, GoKeeps DEF KeyDown
  <1>4. CASE TouchStart
    BY <1>4, TouchKeeps DEF TouchStart
  <1>5. CASE TouchEnd
    <2>1. touched' \in BOOLEAN
      BY <1>5 DEF TouchEnd
    <2>2. CASE nextSlide \/ previousSlide
      <3>1. \E n \in Slide : goToSlide(n)
        BY <1>1, <2>2, MoveGoes
      <3> QED
        BY <2>1, <3>1, GoKeeps
    <2>3. CASE UNCHANGED <<loaded, currentSlide, chartsInitialized, timers, drawn>>
      BY <2>1, <2>3, TouchKeeps
    <2> QED
      BY <1>5, <2>2, <2>3 DEF TouchEnd
  <1>6. CASE Load
    BY <1>6, LoadKeeps
  <1>7. CASE Fire
    BY <1>7, FireKeeps
  <1>8. CASE UNCHANGED vars
    <2>1. /\ UNCHANGED <<loaded, currentSlide, chartsInitialized, timers, drawn>>
          /\ touched' \in BOOLEAN
      BY <1>1, <1>8 DEF vars
    <2> QED
      BY <2>1, TouchKeeps
  <1> QED
    BY <1>2, <1>3, <1>4, <1>5, <1>6, <1>7, <1>8 DEF Next

\* The page's variables keep their types: in particular no key, swipe or button
\* leaves the deck (dataExploration.html:1116-1126).
THEOREM TypeCorrect == Spec => []TypeOK
  BY IInvInit, IInvNext, PTL DEF Spec, IInv

\* A slide is marked exactly when all its charts were drawn, so one whose drawing
\* broke off is tried again (dataExploration.html:1107-1113).
THEOREM MarkedIsDrawnHolds == Spec => []MarkedIsDrawn
  BY IInvInit, IInvNext, PTL DEF Spec, IInv

\* Once the page has loaded, the slide on display is drawn, about to be drawn, or
\* cannot be (dataExploration.html:1097-1114, 1486-1492).
THEOREM ShownIsScheduledHolds == Spec => []ShownIsScheduled
  <1>1. IInv => ShownIsScheduled
    BY DEF IInv, Awaited, ShownIsScheduled
  <1> QED
    BY <1>1, IInvInit, IInvNext, PTL DEF Spec
=============================================================================
