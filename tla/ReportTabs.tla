----------------------------- MODULE ReportTabs -----------------------------
(***************************************************************************)
(* The tabs of the workspace and the periods of its report pages:          *)
(* report-tabs-context.tsx, persisted-report-form.tsx, the report-controls *)
(* of the four reports and report-periods.ts.                              *)
(*                                                                         *)
(* A window keeps its tabs in memory and mirrors them into a storage that  *)
(* all windows share and that a window reads when it is loaded.  A tab is  *)
(* its address; the id of the tab follows from it.  Navigation takes time: *)
(* a click shows the tab as active at once, its page arrives later, and a  *)
(* later navigation replaces one that has not arrived.                     *)
(***************************************************************************)
EXTENDS Calendar, Sequences, FiniteSets, Selections

CONSTANTS
  Window,              \* windows of the browser
  PageType,            \* the kinds of pages the windows open
  Created,             \* identities of the tabs created beside the default ones
  Day,                 \* days on which the windows are used
  Picked,              \* days that the date pickers are set to
  EndMonth,            \* month that the fiscal year ends with
  MaxApplied           \* bound: times that a period in the controls is used

AsOfType == {"balance-sheet"}
RangeType == {"income-statement", "trial-balance", "general-ledger"}
PlainType == {"journal", "time-machine", "accounts", "bank-import", "kevin"}
CanDuplicate == AsOfType \cup RangeType

ASSUME ReportTabsAssumption ==
  /\ PageType \subseteq AsOfType \cup RangeType \cup PlainType
  /\ Day \subseteq Nat /\ Picked \subseteq Nat /\ EndMonth \in 1 .. 12
  /\ \A day \in Day : day > 1000   \* no named period reaches back before 1970, to NoDay

VARIABLES
  now,
  windows,   \* per window: the page it shows, the one it navigates to, its tabs, the active one, the controls
  storage,   \* "report-workspace-tabs"
  saved,     \* "report-<type>:<instance>": the last period applied
  applied    \* times that a period in the controls has been used

tabVars == <<now, windows, storage, saved, applied>>

NoDay == -1

\* A page without parameters; instance "default" is also no instance at all.
Bare(type, instance) ==
  [type |-> type, instance |-> instance, period |-> "none", from |-> NoDay, to |-> NoDay]

IsBare(href) == href = Bare(href.type, href.instance)

Workspace == Bare("workspace", "default")
Nowhere == Bare("nowhere", "default")

NoTab == <<"none", "none">>

TabId(href) == <<href.type, IF href.instance = "default" THEN "own" ELSE href.instance>>

Ids(tabs) == {TabId(tabs[i]) : i \in DOMAIN tabs}

NoForm == [period |-> "custom", from |-> NoDay, to |-> NoDay, day |-> NoDay]

TabsInit ==
  /\ now \in Day
  /\ windows = [w \in Window |-> [url |-> Nowhere, next |-> Nowhere, tabs |-> <<>>, active |-> NoTab, form |-> NoForm]]
  /\ storage = [tabs |-> <<>>, active |-> NoTab]
  /\ saved = [key \in (PageType \cap CanDuplicate) \X (Created \cup {"own", "default"}) |-> NoForm]
  /\ applied = 0
-----------------------------------------------------------------------------
(* Periods *)

Options(type) ==
  IF type \in AsOfType THEN <<"last_month", "last_quarter", "year_to_date", "last_year">>
  ELSE <<"last_month", "last_quarter", "current_month", "year_to_date", "last_year">>

\* The named periods, as each day sees them (TLC computes such a table once).
PeriodOn == [day \in Day |-> [mode \in RangePeriods |-> GetRangeForPeriod(mode, day, EndMonth)]]
EndOn == [day \in Day |-> [mode \in AsOfPeriods |-> GetAsOfForPeriod(mode, day, EndMonth)]]

PeriodOf(type, mode, day) ==
  IF type \in AsOfType THEN [from |-> NoDay, to |-> EndOn[day][mode]] ELSE PeriodOn[day][mode]

\* The first option with this period, if any.
InferPeriodMode(type, period, day) ==
  LET matching == {i \in DOMAIN Options(type) : PeriodOf(type, Options(type)[i], day) = period}
  IN  IF matching = {} THEN "custom" ELSE Options(type)[CHOOSE i \in matching : \A j \in matching : i <= j]

\* What each page reports on when its address does not say.
LastMonthDefault(day) == LastMonth(day)
EndOfMonthDefault(day) == [from |-> NoDay, to |-> EndOfMonth(day)]
YearToDateDefault(day) == [from |-> DayOf(YearOf(day), 1, 1), to |-> day]

PageDefault ==
  [day \in Day |-> [type \in CanDuplicate |->
     CASE type = "income-statement" -> LastMonthDefault(day)
       [] type = "balance-sheet"    -> EndOfMonthDefault(day)
       [] OTHER                     -> YearToDateDefault(day)]]

Shown(href) ==
  LET default == PageDefault[now][href.type]
  IN  [from |-> IF href.from = NoDay THEN default.from ELSE href.from,
       to   |-> IF href.to = NoDay THEN default.to ELSE href.to]

\* The controls start from the page's period; a named one is computed again for the day the
\* controls were first shown on.
Form(href, day) ==
  LET shown == Shown(href)
      mode  == IF href.period # "none" THEN href.period ELSE InferPeriodMode(href.type, shown, day)
      period == IF mode = "custom" THEN shown ELSE PeriodOf(href.type, mode, day)
  IN  [period |-> mode, from |-> period.from, to |-> period.to, day |-> day]

\* The address of a tab that is opened anew, by default for last month.
BuildTabHref(type, instance) ==
  IF type \notin CanDuplicate THEN Bare(type, "default")
  ELSE LET period == PeriodOf(type, "last_month", now)
       IN  [Bare(type, instance) EXCEPT !.from = period.from, !.to = period.to]

Applied(href, form) == [href EXCEPT !.period = form.period, !.from = form.from, !.to = form.to]
-----------------------------------------------------------------------------
(* Windows *)

Key(href) == <<href.type, href.instance>>

\* The tab of the page is added, or takes over its address.
WithPage(tabs, href) ==
  IF TabId(href) \in Ids(tabs)
  THEN [i \in DOMAIN tabs |-> IF TabId(tabs[i]) = TabId(href) THEN href ELSE tabs[i]]
  ELSE Append(tabs, href)

\* The page arrives: its tab becomes the active one, and a bare address is replaced by the
\* period last applied there.  Controls that stay on screen keep the day they began with.
Arrived(win, href) ==
  IF href.type \notin PageType
  THEN [win EXCEPT !.url = href, !.next = Nowhere, !.form = NoForm]
  ELSE [url    |-> href,
        next   |-> IF href.type \in CanDuplicate /\ IsBare(href) /\ saved[Key(href)] # NoForm
                   THEN Applied(href, saved[Key(href)]) ELSE Nowhere,
        tabs   |-> WithPage(win.tabs, href),
        active |-> TabId(href),
        form   |-> IF href.type \notin CanDuplicate THEN NoForm
                   ELSE Form(href, IF win.url.type = href.type THEN win.form.day ELSE now)]

\* Every change of the tabs or of the active one is mirrored.
Becomes(w, win) ==
  /\ windows' = [windows EXCEPT ![w] = win]
  /\ storage' = IF win.tabs = windows[w].tabs /\ win.active = windows[w].active THEN storage
                ELSE [tabs |-> win.tabs, active |-> win.active]

\* Loading a page, or loading it again, restores the tabs last stored by any window.
Load(w) ==
  LET stored == [url |-> Nowhere, next |-> Nowhere, tabs |-> storage.tabs, active |-> storage.active, form |-> NoForm] IN
  \E href \in {windows[w].url, Workspace} \cup {Bare(type, "default") : type \in PageType} :
    /\ href # Nowhere
    /\ LET win == Arrived(stored, href)
       IN  windows' = [windows EXCEPT ![w] = win] /\ storage' = [tabs |-> win.tabs, active |-> win.active]
    /\ UNCHANGED <<now, saved, applied>>

\* A navigation to the page that is shown changes nothing.
Arrive(w) ==
  LET win == windows[w] IN
  /\ win.next # Nowhere
  /\ Becomes(w, IF win.next = win.url THEN [win EXCEPT !.next = Nowhere] ELSE Arrived(win, win.next))
  /\ UNCHANGED <<now, saved, applied>>

Push(win, href) == [win EXCEPT !.active = TabId(href), !.next = href]

TabsOf(tabs, type) == AtPlaces(tabs, {i \in DOMAIN tabs : tabs[i].type = type})

\* The menu shows the active tab of the type, or the first, or opens one.
OpenTab(w, type) ==
  LET win  == windows[w]
      open == TabsOf(win.tabs, type)
      href == BuildTabHref(type, "own") IN
  /\ win.url # Nowhere
  /\ \/ \E i \in DOMAIN open :
          /\ TabId(open[i]) = win.active \/ (i = 1 /\ win.active \notin Ids(open))
          /\ Becomes(w, Push(win, open[i]))
     \/ open = <<>> /\ Becomes(w, Push([win EXCEPT !.tabs = Append(@, href)], href))
  /\ UNCHANGED <<now, saved, applied>>

\* A new tab of a report, or of the page's report with the period in its controls.
NewTab(w, href) ==
  /\ windows[w].url # Nowhere /\ href.type \in CanDuplicate
  /\ \A v \in Window : TabId(href) \notin Ids(windows[v].tabs) \cup Ids(storage.tabs)
  /\ Becomes(w, Push([windows[w] EXCEPT !.tabs = Append(@, href)], href))
  /\ UNCHANGED <<now, saved>>

Without(tabs, i) == AtPlaces(tabs, {j \in DOMAIN tabs : tabs[j] # tabs[i]})

\* The tab that takes the place of a closed active one: the one before it, or the one after.
KeepActive(win, i) == [win EXCEPT !.tabs = Without(win.tabs, i)]

ActivateNeighbour(win, i) ==
  LET left == Without(win.tabs, i)
  IN  IF left = <<>> THEN [win EXCEPT !.tabs = left, !.active = NoTab]
      ELSE Push([win EXCEPT !.tabs = left], left[IF i = 1 THEN 1 ELSE i - 1])

CloseTab(w) ==
  LET win == windows[w] IN
  /\ \E i \in DOMAIN win.tabs :
       Becomes(w, IF TabId(win.tabs[i]) = win.active THEN ActivateNeighbour(win, i)
                  ELSE [win EXCEPT !.tabs = Without(win.tabs, i)])
  /\ UNCHANGED <<now, saved, applied>>

CloseAllTabs(w) ==
  /\ windows[w].tabs # <<>>
  /\ Becomes(w, [windows[w] EXCEPT !.tabs = <<>>, !.active = NoTab, !.next = Workspace])
  /\ UNCHANGED <<now, saved, applied>>

SetActiveTab(w) ==
  /\ \E i \in DOMAIN windows[w].tabs : Becomes(w, Push(windows[w], windows[w].tabs[i]))
  /\ UNCHANGED <<now, saved, applied>>
-----------------------------------------------------------------------------
(* The controls of a report page *)

Shows(w) == windows[w].url.type \in CanDuplicate

SetForm(w, form) ==
  windows' = [windows EXCEPT ![w].form = form] /\ UNCHANGED <<now, storage, saved, applied>>

\* A day picked makes the period a custom one, and takes the other end along.
WithFrom(form, day) ==
  [form EXCEPT !.period = "custom", !.from = day, !.to = IF day > form.to THEN day ELSE form.to]

LeavesFrom(form, day) == [form EXCEPT !.period = "custom", !.to = day]

WithTo(form, day) ==
  [form EXCEPT !.period = "custom", !.to = day,
               !.from = IF form.from # NoDay /\ day < form.from THEN day ELSE form.from]

PickFrom(w, day) == windows[w].url.type \in RangeType /\ SetForm(w, WithFrom(windows[w].form, day))

PickTo(w, day) == Shows(w) /\ SetForm(w, WithTo(windows[w].form, day))

PickPeriod(w) ==
  LET win == windows[w] IN
  /\ Shows(w)
  /\ \E i \in DOMAIN Options(win.url.type) :
       LET mode == Options(win.url.type)[i]
           period == PeriodOf(win.url.type, mode, win.form.day)
       IN  SetForm(w, [win.form EXCEPT !.period = mode, !.from = period.from, !.to = period.to])

\* Apply saves the period for the page and navigates to it.
Apply(w) ==
  LET win == windows[w] IN
  /\ Shows(w)
  /\ applied < MaxApplied /\ applied' = applied + 1
  /\ saved' = [saved EXCEPT ![Key(win.url)] = [win.form EXCEPT !.day = NoDay]]
  /\ windows' = [windows EXCEPT ![w].next = Applied(win.url, win.form)]
  /\ UNCHANGED <<now, storage>>

OpenReportInNewTab(w, id) ==
  /\ Shows(w)
  /\ applied < MaxApplied /\ applied' = applied + 1
  /\ NewTab(w, Applied(BuildTabHref(windows[w].url.type, id), windows[w].form))

NextDay == \E d \in Day : d > now /\ now' = d /\ UNCHANGED <<windows, storage, saved, applied>>

TabsNext ==
  \/ NextDay
  \/ \E w \in Window :
       \/ Load(w) \/ Arrive(w) \/ CloseTab(w) \/ CloseAllTabs(w) \/ SetActiveTab(w)
       \/ PickPeriod(w) \/ Apply(w)
       \/ \E type \in PageType : OpenTab(w, type)
       \/ \E type \in PageType \cap CanDuplicate, id \in Created : NewTab(w, BuildTabHref(type, id)) /\ UNCHANGED applied
       \/ \E id \in Created : OpenReportInNewTab(w, id)
       \/ \E day \in Picked : PickFrom(w, day) \/ PickTo(w, day)

TabsSpec == TabsInit /\ [][TabsNext]_tabVars
-----------------------------------------------------------------------------
(* Properties *)

\* No two tabs of a window, or of what is stored, are the same, and the active one is among them,
\* whatever was closed, stored and restored meanwhile.
TabsSound ==
  \A t \in {windows[w] : w \in Window} \cup {storage} :
    /\ \A i, j \in DOMAIN t.tabs : TabId(t.tabs[i]) = TabId(t.tabs[j]) => i = j
    /\ t.active # NoTab => t.active \in Ids(t.tabs)

\* The periods, the fiscal year and the last quarter of a day fit together.
Fit(day, period, year, quarter) ==
  /\ year.from <= day /\ day <= year.to /\ year.to - year.from \in {364, 365}
  /\ period["last_year"].to = period["year_to_date"].from - 1
  /\ period["last_month"].to = period["current_month"].from - 1
  /\ quarter.to < day /\ day <= EndOfMonth(ShiftByMonths(quarter.to + 1, 2))
  /\ \E k \in -1 .. 2 : ShiftByMonths(year.from, 3 * k) = quarter.from
  /\ \A mode \in RangePeriods :
       /\ period[mode].from <= period[mode].to /\ period[mode].to <= day
       /\ \A against \in {"previous_period", "previous_year"} :
            LET other == GetCompareRange(against, period[mode])
            IN  /\ other.from <= other.to /\ other.to < period[mode].to
                /\ against = "previous_period" =>
                     /\ other.to = period[mode].from - 1
                     /\ other.to - other.from = period[mode].to - period[mode].from

FitTogether ==
  [day \in Day |-> \A endMonth \in 1 .. 12 :
     Fit(day, [mode \in RangePeriods |-> GetRangeForPeriod(mode, day, endMonth)],
         FiscalYear(endMonth, day), LastFiscalQuarter(endMonth, day))]

\* The periods that the report pages offer today, for every fiscal year end: none is empty or lies in the future, the last
\* year and the last quarter end the day before the current ones begin, a quarter is one of its
\* year's four, and what a period is compared with comes before it, the previous period ending
\* the day before and just as long.
PeriodsWellFormed == FitTogether[now]

\* No tab, saved period or control holds a period that ends before it begins: what was picked,
\* restored from storage, opened in a new tab and computed for another day stay in order.
PeriodsInOrder ==
  LET InOrder(p) == p.from # NoDay => p.from <= p.to
  IN  /\ \A key \in DOMAIN saved : InOrder(saved[key])
      /\ \A w \in Window : InOrder(windows[w].form) /\ \A i \in DOMAIN windows[w].tabs : InOrder(windows[w].tabs[i])
=============================================================================
