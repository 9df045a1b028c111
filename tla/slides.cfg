SPECIFICATION FairSpec
CONSTANTS
  LastSlide = 4
  Charts <- MCCharts
  Broken <- MCBroken
  MaxTimers = 3
INVARIANTS TypeOK MarkedIsDrawn ShownIsScheduled
PROPERTIES EnteredIsDrawn DrawingSettles
