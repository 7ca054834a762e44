------------------------------ MODULE ClientPages ------------------------------
(***************************************************************************)
(* The frontend as the user has it in a tab: one of its pages is open. The  *)
(* simulation page (SimulationView) is the one whose steps also go through  *)
(* the hub connections. A property of one page speaks of that page's        *)
(* states, so that the checks of all of them share one run.                 *)
(***************************************************************************)
EXTENDS Notifications, Search, LivePanel, EventPlotting, StartSimulation, AccountPages, DemoSimulation,
        SettingsPage, Catalogue, Shop, SimulationView

\* What the modules above keep of the simulation page lies outside `page`.
ViewOpen == page = [name |-> "simulationview", clicks |-> 0]

PagesInit ==
  /\ PageInit
  /\ \/ NotesInit \/ SearchInit \/ LiveInit \/ PlotInit \/ StartInit \/ RegisterInit \/ ProfileInit
     \/ SettingsInit \/ ListInit \/ ThingInit \/ MatchInit \/ ShopInit \/ DemoInit \/ ViewOpen

PagesNext ==
  \/ NotesNext /\ UNCHANGED pageVars
  \/ SearchNext /\ UNCHANGED pageVars
  \/ LiveNext /\ UNCHANGED pageVars
  \/ PlotNext /\ UNCHANGED pageVars
  \/ StartNext /\ UNCHANGED pageVars
  \/ RegisterNext /\ UNCHANGED pageVars
  \/ ProfileNext /\ UNCHANGED pageVars
  \/ SettingsNext /\ UNCHANGED pageVars
  \/ ListNext /\ UNCHANGED pageVars
  \/ ThingNext /\ UNCHANGED pageVars
  \/ MatchNext /\ UNCHANGED pageVars
  \/ ShopNext /\ UNCHANGED pageVars
  \/ DemoNext /\ UNCHANGED pageVars
  \/ On("simulationview") /\ PageNext /\ UNCHANGED page

PagesSpec == PagesInit /\ [][PagesNext]_<<page, pageVars>>

-----------------------------------------------------------------------------
\* The scores that the simulation and the demonstration page show count each goal
\* of the match once, whatever is delivered late, again or while the other team
\* is looked up (EventPlotter.tsx, DemoEventPlotter.tsx).
ScoreOfEvents == ScoreCountsGoalsOnce /\ DemoScoreIsOfEventsShown

\* What the forms sent is what the user saw in them: the match that is started
\* and the account that is made or saved (matchsimulation, register and profile
\* pages, with answers that come after the form changed).
SentAsShown == StartsWhatWasChosen /\ SavedAsShown

\* The settings show what localStorage keeps, which the next visit reads, and so
\* does the shop, key by key, but for the keys another tab wrote after this page
\* last read or wrote them (EnhancedSettingsContext.tsx, products pages).
StoredAsShown == SettingsShownAreSaved /\ ShopRemembers

\* The lists and the pages behind their cards show what was fetched last for the
\* filters and the tabs they show (the pages of the catalogue, over ApiService's
\* cache).
CatalogueAsFetched == ShownIsFetched /\ MatchAsCached
=============================================================================
