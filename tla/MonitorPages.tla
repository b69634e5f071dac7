---------------------------- MODULE MonitorPages ----------------------------
(***************************************************************************)
(* The pages that watch: dashboards, live calls, records of calls, traces, *)
(* logs, quality and reports.                                              *)
(***************************************************************************)
EXTENDS PageKinds

\* A chart of a period, asked for again by its timer.
Chart == Keyed(Load("ts", {"mount", "filter", "poll"}))

DashboardPage ==
    Page("dashboard",
         {Load("stats", {"mount", "poll"}), Load("config", {"mount"}), Load("live", {"mount", "poll"}),
          Chart}, {})

OverviewPage == Page("my/overview", {Load("kpis", {"mount", "poll"}), Chart}, {})

\* The period of the timer is a setting, changed on the same page.
LiveOps ==
    {Telling(Flagged(Write("changeInterval", {"config"}, <<>>), "savingInterval"), "config"),
     Awaiting(Flagged(Save("cleanStale", "data"), "cleaning"))}

LivePage ==
    Page("live", {Load("data", {"mount", "poll"}), Load("config", {"mount"})}, LiveOps)

SystemHealthLoads ==
    {Load("all", {"mount", "poll"}), Load("domain", {"mount"}), Load("other", {"click"})}

\* acting holds the service that is being switched.
SystemHealthOps ==
    {Telling(Flagged(Write("saveDomain", {"domain"}, <<>>), "savingDomain"), "domain"),
     Awaiting(Within(Slotted(Save("toggleService", "other"), "acting"), "other"))}

SystemHealthPage == Page("system-health", SystemHealthLoads, SystemHealthOps)

\* The tail of a log, which follows it while a switch is on.
LogsPage ==
    Page("system/logs",
         {Load("sources", {"mount"}),
          Busy(Under(Keyed(Load("content", {"filter", "live", "click"})), "sources"))}, {})

\* A button, or the switch, of StreamView starts over; every tick then adds what
\* comes after the last message it has.
StreamView == Page("traces/stream", {Load("msgs", {"click", "tail"})}, {})

\* The timer of SearchView goes on with the search that was in the form when the
\* switch was put on, and reads the open trace from a ref.
SearchLoads ==
    {Busy(Frozen(Resetting(Keyed(Load("calls", {"click", "live"})), "trace"))),
     Under(Keyed(Load("trace", {"filter", "live"})), "calls")}

SearchView == Page("traces/search", SearchLoads, {Run("downloadPcap")})

\* Records of calls: a search closes the panel of the record that was open.
OkTab == {Resetting(Keyed(Load("rows", {"click"})), "trace")}

FailedTab == {Keyed(Load("failed", {"click"}))}

CdrDetailPanel ==
    {Covering(Under(Guarded(Keyed(Load("trace", {"filter", "close"}))), "rows"))}

CdrsPage == Page("cdrs", OkTab \cup FailedTab \cup CdrDetailPanel, {Run("downloadPcap")})

ReportsPage ==
    Page("reports",
         {Load("range", {"mount"}), Busy(Keyed(Load("rows", {"mount", "filter", "click"})))}, {})

MyReportsPage ==
    Page("my/reports", {Load("range", {"mount"}), Keyed(Load("report", {"mount", "filter"}))}, {})

QualityPage ==
    Page("quality", {Load("customers", {"mount"}), Keyed(Load("rows", {"mount", "click"}))}, {})

MyQualityPage == Page("my/quality", {Keyed(Load("rows", {"mount", "click"}))}, {})

AuditPage == Page("audit", {Keyed(Load("rows", {"mount", "filter"}))}, {})

\* To clear the dates of the form asks once more for the calls between them.
MyCallsPage == Page("my/calls", {Keyed(Load("rows", {"mount", "click", "clear"}))}, {})

MonitorCatalog ==
    {DashboardPage, OverviewPage, LivePage, SystemHealthPage, LogsPage, StreamView, SearchView,
     CdrsPage, ReportsPage, MyReportsPage, QualityPage, MyQualityPage, AuditPage, MyCallsPage}
=============================================================================
