------------------------------- MODULE Overlays -------------------------------
(***************************************************************************)
(* What floats over every page: the command palette with its recent        *)
(* destinations, the welcome tour of the first visit and the guide of the  *)
(* keyboard shortcuts.                                                     *)
(***************************************************************************)
EXTENDS Integers, SequencesExt, PageRequests

CONSTANTS
  Routes,     \* ROUTES, a sequence of destinations
  Searches,   \* texts a user enters
  Matches,    \* per text, the destinations whose label contains it
  MaxRecent,  \* how many recent destinations are kept
  TourSteps   \* steps of the tour

RouteSet == {Routes[i] : i \in DOMAIN Routes}

ASSUME OverlaysAssumption ==
  /\ MaxRecent \in Nat /\ TourSteps \in Nat \ {0}
  /\ Routes \in Seq(RouteSet) /\ \A q \in Searches : Matches[q] \in Seq(RouteSet)
  /\ None \notin Nat

VARIABLES
  paletteOpen, query,
  selectedIndex,  \* from 0; None stands for not a number
  recents,        \* recentPaths
  storedRecents,  \* what the browser stores of them
  tour,           \* "due" until its timer fires
  tourStep,
  tourDone,       \* the browser stores that it was seen
  guideOpen

overlayVars == <<paletteOpen, query, selectedIndex, recents, storedRecents,
                 tour, tourStep, tourDone, guideOpen>>
paletteVars == <<paletteOpen, query, selectedIndex, recents, storedRecents>>
tourVars    == <<tour, tourStep, tourDone>>

\* filteredRoutes
ShownRoutes ==
  IF query # None THEN Matches[query] ELSE IF recents # <<>> THEN recents ELSE Routes

-----------------------------------------------------------------------------
OverlaysInit ==
  /\ paletteOpen = FALSE /\ query = None /\ selectedIndex = 0
  /\ recents = <<>> /\ storedRecents = <<>>
  /\ tour = "due" /\ tourStep = 0 /\ tourDone = FALSE
  /\ guideOpen = FALSE

\* The palette opens or closes, and with that its effect starts it over.
PaletteSet(open) == paletteOpen' = open /\ query' = None /\ selectedIndex' = 0

TogglePalette ==
  /\ PaletteSet(~paletteOpen)
  /\ UNCHANGED <<recents, storedRecents, tourVars, guideOpen>>

\* The palette is closed by its backdrop.
ClosePalette ==
  /\ paletteOpen /\ PaletteSet(FALSE)
  /\ UNCHANGED <<recents, storedRecents, tourVars, guideOpen>>

\* Escape closes the palette and the guide.
PressEscape ==
  /\ IF paletteOpen THEN PaletteSet(FALSE) ELSE UNCHANGED <<paletteOpen, query, selectedIndex>>
  /\ guideOpen' = FALSE
  /\ UNCHANGED <<recents, storedRecents, tourVars>>

\* Slip: the selection stays where it was.
SelectionAfterStays(q) == selectedIndex

\* The effect on the query.
SelectionAfter(q) == IF q = query THEN selectedIndex ELSE 0

EnterQuery ==
  /\ paletteOpen
  /\ \E q \in Searches \cup {None} : query' = q /\ selectedIndex' = SelectionAfter(q)
  /\ UNCHANGED <<paletteOpen, recents, storedRecents, tourVars, guideOpen>>

\* The arrows, modulo a length that may be zero.
PressArrow ==
  /\ paletteOpen
  /\ \E step \in {-1, 1} :
       selectedIndex' = IF Len(ShownRoutes) = 0 \/ selectedIndex = None THEN None
                        ELSE (selectedIndex + step + Len(ShownRoutes)) % Len(ShownRoutes)
  /\ UNCHANGED <<paletteOpen, query, recents, storedRecents, tourVars, guideOpen>>

HoverRoute ==
  /\ paletteOpen
  /\ \E i \in DOMAIN ShownRoutes : selectedIndex' = i - 1
  /\ UNCHANGED <<paletteOpen, query, recents, storedRecents, tourVars, guideOpen>>

\* handleNavigate, which filters a path out that is there once at most.
Latest(path) ==
  LET others == RemoveFirst(recents, path) IN
  SubSeq(<<path>> \o others, 1, IF Len(others) < MaxRecent THEN Len(others) + 1 ELSE MaxRecent)

Navigate(path) ==
  /\ recents' = Latest(path)
  /\ storedRecents' = Latest(path)
  /\ PaletteSet(FALSE)
  /\ UNCHANGED <<tourVars, guideOpen>>

PressEnter == paletteOpen /\ ShownRoutes # <<>> /\ Navigate(ShownRoutes[selectedIndex + 1])
ClickRoute == paletteOpen /\ \E i \in DOMAIN ShownRoutes : Navigate(ShownRoutes[i])

-----------------------------------------------------------------------------
TourOpens ==
  /\ tour = "due" /\ tour' = "open"
  /\ UNCHANGED <<tourStep, tourDone, paletteVars, guideOpen>>

CompleteTour == tour' = "closed" /\ tourDone' = TRUE /\ UNCHANGED tourStep

SkipTour ==
  /\ tour = "open" /\ CompleteTour
  /\ UNCHANGED <<paletteVars, guideOpen>>

NextTourStep ==
  /\ tour = "open"
  /\ IF tourStep < TourSteps - 1 THEN tourStep' = tourStep + 1 /\ UNCHANGED <<tour, tourDone>>
                                 ELSE CompleteTour
  /\ UNCHANGED <<paletteVars, guideOpen>>

\* The question mark, when no input has the focus.
ToggleGuide ==
  /\ guideOpen' = ~guideOpen
  /\ UNCHANGED <<paletteVars, tourVars>>

CloseGuide ==
  /\ guideOpen /\ guideOpen' = FALSE
  /\ UNCHANGED <<paletteVars, tourVars>>

\* The layout is mounted again.
RemountOverlays ==
  /\ PaletteSet(FALSE)
  /\ recents' = storedRecents
  /\ tour' = IF tourDone THEN "closed" ELSE "due"
  /\ tourStep' = 0
  /\ guideOpen' = FALSE
  /\ UNCHANGED <<storedRecents, tourDone>>

OverlaysNext ==
  \/ TogglePalette \/ ClosePalette \/ PressEscape
  \/ EnterQuery \/ PressArrow \/ HoverRoute \/ PressEnter \/ ClickRoute
  \/ TourOpens \/ SkipTour \/ NextTourStep \/ ToggleGuide \/ CloseGuide
  \/ RemountOverlays

OverlaysSpec == OverlaysInit /\ [][OverlaysNext]_overlayVars

-----------------------------------------------------------------------------
\* Types of the overlays' state.
OverlaysTypeOK ==
  /\ paletteOpen \in BOOLEAN /\ query \in Searches \cup {None}
  /\ selectedIndex \in Nat \cup {None}
  /\ recents \in Seq(RouteSet) /\ storedRecents \in Seq(RouteSet)
  /\ tour \in {"due", "open", "closed"} /\ tourStep \in 0..TourSteps - 1
  /\ tourDone \in BOOLEAN /\ guideOpen \in BOOLEAN

\* Enter always finds a destination among the ones shown, through every change
\* of the list below the selection, even after the arrows were pressed while
\* nothing matched; and the recent ones stay few, distinct and stored.
PaletteSelects ==
  /\ ShownRoutes # <<>> => selectedIndex # None /\ selectedIndex < Len(ShownRoutes)
  /\ recents = storedRecents /\ Len(recents) <= MaxRecent
  /\ \A i, j \in DOMAIN recents : recents[i] = recents[j] => i = j
=============================================================================
