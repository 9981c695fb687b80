------------------------ MODULE SimulationWorkspace ------------------------
(***************************************************************************)
(* The firefighter's simulation page: asking for simulations and playing   *)
(* them (app/frontend/src/hooks/useSimulation.ts,                          *)
(* useSuggestContainmentLine.ts, useSimulationProgress.ts,                 *)
(* components/firefighter/SimulationPage.tsx, simulationResult.tsx).       *)
(*                                                                         *)
(* The user picks a fire, or none for all of them, or a group of fires,    *)
(* and asks for a simulation.  The request is a fetch that the page can    *)
(* abort through the one controller it remembers (held).  Its answer is    *)
(* played tick by tick by an interval timer.  A suggested line is fetched, *)
(* and accepted by saving it and running again: the run then starts from   *)
(* the handler's closure, in which the selected fire is the one of the     *)
(* moment Accept was pressed.                                              *)
(*                                                                         *)
(* SimulationPage adds the containment lines that the page shows.          *)
(***************************************************************************)
EXTENDS Integers, FiniteSets, Sequences, FiniteSetsExt

CONSTANTS
  Fires,          \* the verified fires
  NoFire,
  RunIds,         \* bound: the requests that can be in flight together
  Outcomes,       \* the histories the server may answer a question with
  TicksPerHour,   \* TICKS_PER_HOUR
  ForecastHours,  \* the hours a result has weather for
  MaxSeeks,       \* bound: how often the slider is dragged
  NoRun, NoResult

(* What a simulation is asked of: one fire, a group of them, or {}: all.   *)
Subjects == SUBSET Fires
NoAsk == {NoFire}
Grids == [burning : Nat, burned : Nat]

(* What a history counts at each tick.  It begins with the ignition, and a *)
(* cell that burns or has burned stays so.                                 *)
Affected(grid) == grid.burning + grid.burned
Spreads(h) == h # <<>> /\ \A t \in 1..(Len(h) - 1) : Affected(h[t]) <= Affected(h[t + 1])

ASSUME WorkspaceAssumption ==
  /\ NoFire \notin Fires
  /\ NoRun \notin RunIds
  /\ TicksPerHour \in Nat \ {0}
  /\ ForecastHours \in Nat \ {0}
  /\ MaxSeeks \in Nat
  /\ Outcomes \in [Subjects -> SUBSET Seq(Seq(Grids))]
  /\ \A s \in Subjects : \A runs \in Outcomes[s] : \A i \in DOMAIN runs : Spreads(runs[i])
  /\ NoResult \notin [of : Subjects, runs : Seq(Seq(Grids))]

VARIABLES
  selected,     \* selectedFireId
  chosen,       \* selectedFireIds
  multi,        \* multiSelectMode
  lastCluster,  \* lastClusterRefs
  progressKey,  \* the question whose progress is polled
  progress,     \* the question the progress on display is of
  status, result,
  tick,         \* currentTick
  timer,        \* the total ticks of the running interval; 0 when there is none
  asked,        \* the requests in flight: what each asks
  held,         \* abortRef: the request the page can abort
  suggestion,   \* the fire the suggested line on display is for
  suggesting,   \* the fire a suggestion is being fetched for
  accepting,    \* the fire that was selected when Accept was pressed
  strayed,      \* a run was started by Accept beside another, or for a fire left since
  sought,       \* the tick was set while the result it is for had not come
  seeks

runVars == <<status, result, tick, timer, asked, held, sought>>
choiceVars == <<selected, chosen, multi, lastCluster, progressKey>>
lineVars == <<suggestion, suggesting, accepting>>
workspaceVars == <<runVars, choiceVars, lineVars, progress, strayed, seeks>>

-----------------------------------------------------------------------------
(* What the page shows. *)

Length(runs) == Max({Len(runs[i]) : i \in DOMAIN runs} \cup {0})
Total == IF result = NoResult THEN 0 ELSE Length(result.runs)
LastTick == Total - 1
hasResult == Total > 0
isLoading == status = "loading"
isPlaying == status = "playing"
InFlight == {r \in RunIds : asked[r] # NoAsk}

(* The results panel at tick t: for each run the cells that burn and have  *)
(* burned; a run that ended earlier keeps its last grid ...                *)
GridAt(h, t) == h[Min({t + 1, Len(h)})]
AffectedArea(runs, t) ==
  MapThenSumSet(LAMBDA i : Affected(GridAt(runs[i], t)), DOMAIN runs)
(* ... except in the active front, which then has no cells of it. *)
ActiveFront(runs, t) ==
  MapThenSumSet(LAMBDA i : IF t < Len(runs[i]) THEN runs[i][t + 1].burning ELSE 0, DOMAIN runs)
(* The spread speed compares with an hour ago. *)
HourAgo(t) == Max({t - TicksPerHour, 0})
(* The bars: the largest area that any one run has at the hour. *)
SpreadBar(runs, hour) ==
  Max({0} \cup {AffectedArea(<<runs[i]>>, hour * TicksPerHour) : i \in DOMAIN runs})

(* The weather shown is that of the tick's hour; the last hour is held. *)
WeatherHour(t) == Min({t \div TicksPerHour, ForecastHours - 1})
BeyondForecast(t) == t \div TicksPerHour > ForecastHours - 1

(* The buttons. *)
RunEnabled == ~isLoading /\ ~(hasResult /\ status # "error")
PlaybackEnabled == hasResult /\ ~isLoading
RetryEnabled == status = "error"
GroupBarShown == Cardinality(chosen) >= 2
SuggestEnabled == selected # NoFire /\ suggesting = NoFire
CardEnabled == suggestion # NoFire /\ accepting = NoAsk
SliderMax == Max({LastTick, 1})

-----------------------------------------------------------------------------
Statuses == {"idle", "loading", "playing", "paused", "error"}

WorkspaceTypeOK ==
  /\ selected \in Fires \cup {NoFire}
  /\ chosen \subseteq Fires
  /\ multi \in BOOLEAN
  /\ lastCluster \in Subjects \cup {NoAsk}
  /\ progressKey \in Subjects \cup {NoAsk}
  /\ progress \in Subjects \cup {NoAsk}
  /\ status \in Statuses
  /\ result # NoResult => result.of \in Subjects /\ result.runs \in Outcomes[result.of]
  /\ tick \in Nat
  /\ timer \in Nat
  /\ asked \in [RunIds -> Subjects \cup {NoAsk}]
  /\ held \in RunIds \cup {NoRun}
  /\ suggestion \in Fires \cup {NoFire}
  /\ suggesting \in Fires \cup {NoFire}
  /\ accepting \in Subjects \cup {NoAsk}
  /\ strayed \in BOOLEAN
  /\ sought \in BOOLEAN
  /\ seeks \in 0..MaxSeeks

WorkspaceInit ==
  /\ selected = NoFire
  /\ chosen = {}
  /\ multi = FALSE
  /\ lastCluster = NoAsk
  /\ progressKey = NoAsk
  /\ progress = NoAsk
  /\ status = "idle"
  /\ result = NoResult
  /\ tick = 0
  /\ timer = 0
  /\ asked = [r \in RunIds |-> NoAsk]
  /\ held = NoRun
  /\ suggestion = NoFire
  /\ suggesting = NoFire
  /\ accepting = NoAsk
  /\ strayed = FALSE
  /\ sought = FALSE
  /\ seeks = 0
-----------------------------------------------------------------------------
(* useSimulation. *)

(* setResult, then startAutoPlay: nothing to play in one tick. *)
StartAutoPlay(total) ==
  IF total <= 1
  THEN /\ status' = "paused"
       /\ timer' = 0
       /\ tick' = 0
       /\ sought' = FALSE
  ELSE /\ status' = "playing"
       /\ timer' = total
       /\ UNCHANGED <<tick, sought>>

Over(r) ==
  /\ asked' = [asked EXCEPT ![r] = NoAsk]
  /\ held' = IF held = r THEN NoRun ELSE held

(* abortRef.current?.abort(): the fetch ends without an answer. *)
AbortHeld ==
  /\ asked' = [r \in RunIds |-> IF r = held THEN NoAsk ELSE asked[r]]
  /\ held' = NoRun

(* runSimulation and runClusterSimulation: the controller of an earlier    *)
(* request is forgotten, not aborted; the last result stays until the      *)
(* answer.                                                                 *)
\* (fault) The timer of the result that plays is left running.
StartRunPlaying(subject) ==
  /\ InFlight # RunIds
  /\ LET r == CHOOSE i \in RunIds \ InFlight : TRUE
     IN /\ asked' = [asked EXCEPT ![r] = subject]
        /\ held' = r
  /\ status' = "loading"
  /\ tick' = 0
  /\ sought' = FALSE
  /\ progressKey' = subject
  /\ UNCHANGED <<result, timer>>
StartRun(subject) ==
  /\ InFlight # RunIds
  /\ LET r == CHOOSE i \in RunIds \ InFlight : TRUE
     IN /\ asked' = [asked EXCEPT ![r] = subject]
        /\ held' = r
  /\ status' = "loading"
  /\ tick' = 0
  /\ timer' = 0
  /\ sought' = FALSE
  /\ progressKey' = subject
  /\ UNCHANGED result

RunAnswers(r) ==
  /\ r \in InFlight
  /\ \E runs \in Outcomes[asked[r]] :
       /\ result' = [of |-> asked[r], runs |-> runs]
       /\ StartAutoPlay(Length(runs))
  /\ Over(r)
  /\ UNCHANGED <<choiceVars, lineVars, strayed, seeks>>

RunFails(r) ==
  /\ r \in InFlight
  /\ status' = "error"
  /\ Over(r)
  /\ UNCHANGED <<result, tick, timer, sought, choiceVars, lineVars, strayed, seeks>>

(* The interval of startAutoPlay. *)
PlayTick ==
  /\ timer > 0
  /\ IF tick + 1 >= timer - 1
     THEN /\ tick' = timer - 1
          /\ timer' = 0
          /\ status' = "paused"
     ELSE /\ tick' = tick + 1
          /\ UNCHANGED <<timer, status>>
  /\ sought' = FALSE
  /\ UNCHANGED <<result, asked, held, choiceVars, lineVars, strayed, seeks>>

Pause ==
  /\ PlaybackEnabled /\ isPlaying
  /\ timer' = 0
  /\ status' = "paused"
  /\ UNCHANGED <<result, tick, sought, asked, held, choiceVars, lineVars, strayed, seeks>>

Play ==
  /\ PlaybackEnabled /\ ~isPlaying
  /\ LET from == IF tick >= LastTick THEN 0 ELSE tick
     IN IF Total <= 1
        THEN /\ StartAutoPlay(Total)
        ELSE /\ tick' = from
             /\ timer' = Total
             /\ status' = "playing"
             /\ sought' = (sought /\ from # 0)
  /\ UNCHANGED <<result, asked, held, choiceVars, lineVars, strayed, seeks>>

(* The slider: enabled whenever a result is on display, also while the     *)
(* next one is awaited.                                                    *)
SeekToTick(to) ==
  /\ hasResult
  /\ seeks < MaxSeeks
  /\ seeks' = seeks + 1
  /\ tick' = Min({to, LastTick})
  /\ sought' = isLoading
  /\ UNCHANGED <<status, result, timer, asked, held, choiceVars, lineVars, strayed>>

(* Stop, and Cancel while a simulation is awaited. *)
StopRunning ==
  /\ isLoading \/ PlaybackEnabled
  /\ AbortHeld
  /\ timer' = 0
  /\ status' = IF isLoading THEN "idle" ELSE "paused"
  /\ UNCHANGED <<result, tick, sought, choiceVars, lineVars, strayed, seeks>>

ClearMap ==
  /\ AbortHeld
  /\ timer' = 0
  /\ result' = NoResult
  /\ tick' = 0
  /\ sought' = FALSE
  /\ status' = "idle"
  /\ strayed' = (strayed /\ ~(InFlight \subseteq {held}))

-----------------------------------------------------------------------------
(* SimulationPage: choosing what to simulate. *)

(* The effect on selectedFireId clears the map and the suggestion; the     *)
(* lines are SimulationPage's.                                             *)
SelectFire(f) ==
  /\ f # selected
  /\ selected' = f
  /\ ClearMap
  /\ suggestion' = NoFire
  /\ UNCHANGED <<chosen, multi, lastCluster, progressKey, suggesting, accepting, seeks>>

ToggleMultiSelect ==
  /\ multi' = ~multi
  /\ UNCHANGED <<runVars, selected, chosen, lastCluster, progressKey, lineVars, strayed, seeks>>

ToggleFireSelect(f) ==
  /\ multi
  /\ chosen' = IF f \in chosen THEN chosen \ {f} ELSE chosen \cup {f}
  /\ UNCHANGED <<runVars, selected, multi, lastCluster, progressKey, lineVars, strayed, seeks>>

ClearChosen ==
  /\ GroupBarShown
  /\ chosen' = {}
  /\ multi' = FALSE
  /\ UNCHANGED <<runVars, selected, lastCluster, progressKey, lineVars, strayed, seeks>>

(* handleRun asks of the fire that is selected, or of all of them. *)
Target(f) == IF f = NoFire THEN {} ELSE {f}

HandleRun ==
  /\ RunEnabled
  /\ lastCluster' = NoAsk
  /\ StartRun(Target(selected))
  /\ UNCHANGED <<selected, chosen, multi, lineVars, strayed, seeks>>

HandleRunCluster ==
  /\ GroupBarShown /\ ~isLoading
  /\ lastCluster' = chosen
  /\ multi' = FALSE
  /\ StartRun(chosen)
  /\ UNCHANGED <<selected, chosen, lineVars, strayed, seeks>>

(* Re-run, and Retry after an error: the last group, if a group was last. *)
HandleRerun ==
  /\ PlaybackEnabled \/ RetryEnabled
  /\ StartRun(IF lastCluster = NoAsk THEN Target(selected) ELSE lastCluster)
  /\ UNCHANGED <<selected, chosen, multi, lastCluster, lineVars, strayed, seeks>>

Dismiss ==
  /\ RetryEnabled
  /\ ClearMap
  /\ UNCHANGED <<choiceVars, lineVars, seeks>>

(* The Clear button; SimulationPage says when it is enabled. *)
HandleClear ==
  /\ ~isLoading
  /\ ClearMap
  /\ suggestion' = NoFire
  /\ chosen' = {}
  /\ multi' = FALSE
  /\ UNCHANGED <<selected, lastCluster, progressKey, suggesting, accepting, seeks>>

-----------------------------------------------------------------------------
(* Suggestions.  Their fetch is never cancelled. *)

HandleSuggest ==
  /\ SuggestEnabled
  /\ suggesting' = selected
  /\ suggestion' = NoFire
  /\ UNCHANGED <<runVars, choiceVars, accepting, strayed, seeks>>

SuggestAnswers ==
  /\ suggesting # NoFire
  /\ suggesting' = NoFire
  /\ suggestion' \in {suggesting, NoFire}
  /\ UNCHANGED <<runVars, choiceVars, accepting, strayed, seeks>>

DismissSuggestion ==
  /\ CardEnabled
  /\ suggestion' = NoFire
  /\ UNCHANGED <<runVars, choiceVars, suggesting, accepting, strayed, seeks>>

(* handleAcceptSuggestion: until submitLine answers ... *)
HandleAccept ==
  /\ CardEnabled
  /\ accepting' = Target(selected)
  /\ UNCHANGED <<runVars, choiceVars, suggestion, suggesting, strayed, seeks>>

(* ... and after it: clearSuggestion, and the handleRun of its closure. *)
AcceptSaved ==
  /\ accepting # NoAsk
  /\ accepting' = NoAsk
  /\ suggestion' = NoFire
  /\ lastCluster' = NoAsk
  /\ StartRun(accepting)
  /\ strayed' = (strayed \/ isLoading \/ accepting # Target(selected))
  /\ UNCHANGED <<selected, chosen, multi, suggesting, seeks>>

AcceptFails ==
  /\ accepting # NoAsk
  /\ accepting' = NoAsk
  /\ UNCHANGED <<runVars, choiceVars, suggestion, suggesting, strayed, seeks>>

-----------------------------------------------------------------------------
(* useSimulationProgress polls while the page is loading; what it had is   *)
(* dropped by its effect when the page is not.                             *)
PollAnswers ==
  /\ isLoading
  /\ progress' = progressKey
  /\ UNCHANGED <<runVars, choiceVars, lineVars, strayed, seeks>>

ProgressEffect == progress' = IF status' = "loading" THEN progress ELSE NoAsk

-----------------------------------------------------------------------------
RunStep ==
  \/ HandleRun \/ HandleRunCluster \/ HandleRerun \/ StopRunning \/ Dismiss
  \/ \E r \in RunIds : RunAnswers(r) \/ RunFails(r)
  \/ PlayTick \/ Pause \/ Play
  \/ \E to \in 0..SliderMax : SeekToTick(to)

ChoiceStep ==
  \/ ToggleMultiSelect \/ ClearChosen
  \/ \E f \in Fires : ToggleFireSelect(f)

SuggestStep == HandleSuggest \/ SuggestAnswers \/ DismissSuggestion

(* The steps that change the list of lines too, in SimulationPage. *)
SharedStep ==
  \/ \E f \in Fires \cup {NoFire} : SelectFire(f)
  \/ HandleAccept \/ AcceptSaved \/ AcceptFails \/ HandleClear

WorkspaceNext ==
  \/ (RunStep \/ ChoiceStep \/ SuggestStep \/ SharedStep) /\ ProgressEffect
  \/ PollAnswers

WorkspaceSpec == WorkspaceInit /\ [][WorkspaceNext]_workspaceVars

(* The interval fires; what the user and the server do is not fair.  *)
WorkspaceFairness == WF_workspaceVars(PlayTick /\ ProgressEffect)

-----------------------------------------------------------------------------
(* Unless Accept let a run stray, one request is in flight when the page   *)
(* is loading and none otherwise, the page can abort it, the progress on   *)
(* display is of it, and what it asks, like the result on display, is      *)
(* about the fires that are selected.                                      *)
OneRunAtATime ==
  /\ InFlight = IF isLoading THEN {held} ELSE {}
  /\ progress \in {NoAsk, progressKey}
RunsFitTheSelection ==
  LET fits(subject) == Cardinality(subject) >= 2 \/ subject = Target(selected)
  IN /\ result # NoResult => fits(result.of)
     /\ \A r \in InFlight : fits(asked[r])
RunsAreOurs == ~strayed => OneRunAtATime /\ RunsFitTheSelection

(* Without a stray run the timer runs exactly while the page says it       *)
(* plays, for the result on display, and the tick is one that this result  *)
(* has, unless the slider was dragged while another result was awaited.    *)
PlaybackFits ==
  ~strayed =>
    /\ isPlaying <=> timer # 0
    /\ timer # 0 => timer = Total
    /\ ~sought /\ hasResult => tick <= LastTick

(* While a result plays, what the panel says of it never shrinks: not the  *)
(* affected area, although the runs end at different ticks, nor the bars   *)
(* of later hours; and the active front is part of the area.               *)
PanelGrows(runs, from, to) ==
  /\ AffectedArea(runs, to) >= AffectedArea(runs, from)
  /\ AffectedArea(runs, from) >= AffectedArea(runs, HourAgo(from))
  /\ ActiveFront(runs, from) <= AffectedArea(runs, from)
  /\ WeatherHour(from) <= WeatherHour(to)
  /\ BeyondForecast(from) => WeatherHour(from) = WeatherHour(to) /\ BeyondForecast(to)
  /\ \A hour \in 0..to : SpreadBar(runs, hour) <= SpreadBar(runs, hour + 1)
AreaOnlyGrows ==
  [][PlayTick /\ ~strayed /\ ~sought => PanelGrows(result.runs, tick, tick')]_workspaceVars

(* Playing ends. *)
PlaybackEnds == isPlaying ~> ~isPlaying
=============================================================================
