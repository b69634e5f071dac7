---------------------------- MODULE TariffPages ----------------------------
(***************************************************************************)
(* The pages of rates, price lists, prefixes and areas.                    *)
(***************************************************************************)
EXTENDS PageKinds

\* Sale plans: a plan is selected at once, and its rates follow.
RatesLoads == {Load("plans", {"mount"}), Keyed(Load("rates", {"filter"}))}

PlanOps ==
    {Save("createPlan", "plans"), FromForm(Save("saveEditPlan", "plans"), "editPlan")}
    \cup DeletingRow(Save("deletePlan", "plans"), "rates")

RateOps ==
    {Within(Flagged(Save("addGroupRate", "rates"), "grpSaving"), "rates"),
     Within(Flagged(Save("addRate", "rates"), "saving"), "rates"),
     Within(Unchecked(Save("delRate", "rates")), "rates")}

RatesPage == Page("rates", RatesLoads, PlanOps \cup RateOps)

\* Price lists: the drafts of a plan, and the one that is open.
PricelistsLoads ==
    {Resetting(Keyed(Load("drafts", {"filter"})), "items"),
     Under(Selecting(Load("items", {"click"})), "drafts")}

DraftItemOps ==
    {Within(Save(name, "items"), "items") : name \in {"addItem", "removeItem", "importCsv"}}

DraftOps ==
    {Within(Save("createDraft", "drafts"), "drafts")}
    \cup {Dropping(Within(Save(name, "drafts"), "items"), "items") :
            name \in {"publish", "discard"}}

PricelistsPage == Page("pricelists", PricelistsLoads, DraftOps \cup DraftItemOps)

\* Prefixes: the groups are those that some prefix names.
PrefixesLoads == {Load("prefixes", {"mount"}), Load("groups", {"mount"})}

SavePrefix(name) == Write(name, {"prefixes", "groups"}, <<"prefixes", "groups">>)

PrefixOps ==
    {Flagged(SavePrefix("addPrefix"), "pfxSaving"),
     SavePrefix("delPrefix"),
     Awaiting(Flagged(FromForm(SavePrefix("saveEditPfx"), "editPfx"), "editPfxSaving"))}

PrefixesPage == Page("prefixes", PrefixesLoads, PrefixOps)

AreaOps ==
    {Awaiting(Flagged(Save("createArea", "areas"), "creating")),
     Awaiting(FromForm(Save("saveEdit", "areas"), "editing")),
     Awaiting(Save("removeArea", "areas"))}

AreaGroupsPage == Page("area-groups", {Load("areas", {"mount"})}, AreaOps)

\* The report of areas follows its filters; the recalculation of the past is
\* started from here and goes on in the backend.
AreasReport ==
    {Keyed(Load("report", {"mount", "filter"})), Load("backfill", {"mount"})}

AreasPage == Page("areas", AreasReport, {Flagged(Run("runBackfill"), "backfillRunning")})

\* The plans of a reseller.
ResellerRatesLoads == {Load("plans", {"mount"}), Keyed(Load("rates", {"filter", "close"}))}

ResellerRateOps ==
    {Awaiting(Within(Flagged(Save("addRate", "rates"), "savingRate"), "rates")),
     Awaiting(Within(Save("delRate", "rates"), "rates")),
     Awaiting(Within(Flagged(Save("addGroupRate", "rates"), "savingGrpRate"), "rates"))}

ResellerRatesPage ==
    Page("my/reseller/rates", ResellerRatesLoads,
         ResellerRateOps \cup {FromForm(Flagged(Save("createPlan", "plans"), "creating"), "showCreate")})

ResellerPrefixOps ==
    {Awaiting(Flagged(Save("createPrefix", "prefixes"), "pfxSaving")),
     Awaiting(FromForm(Save("saveEditPfx", "prefixes"), "editPfx")),
     Awaiting(Save("delPrefix", "prefixes"))}

ResellerPrefixesPage == Page("my/reseller/prefixes", {Load("prefixes", {"mount"})}, ResellerPrefixOps)

TariffCatalog ==
    {RatesPage, PricelistsPage, PrefixesPage, AreaGroupsPage, AreasPage, ResellerRatesPage,
     ResellerPrefixesPage}
=============================================================================
