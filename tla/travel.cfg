\* A row of three plots, the middle one of somebody else.
SPECIFICATION TravelSpec
CONSTANTS
    LastPlot = 2
    Start = 0
    Foreign = {1}
    NoPlot = NoPlot
    DestMin = 2
INVARIANTS CarriedStaysPut
PROPERTIES  TripsEnd
