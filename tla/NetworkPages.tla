--------------------------- MODULE NetworkPages ----------------------------
(***************************************************************************)
(* The pages of carriers, their groups, providers and incoming peers.      *)
(***************************************************************************)
EXTENDS PageKinds

\* To edit is a PUT whose status nobody looks at, to create is a checked POST.
SaveEither(load) ==
    {FromForm(Flagged(Save("create", load), "saving"), "showForm"),
     FromForm(Flagged(Unchecked(Save("edit", load)), "saving"), "showForm")}

CarrierOps == SaveEither("carriers") \cup {Unchecked(Save("del", "carriers"))}

CarriersPage == Page("carriers", {Keyed(Load("carriers", {"mount", "filter"}))}, CarrierOps)

\* useApiResource(path): its data, and a reload for the handlers to call.
ApiResource(name) == Load(name, {"mount"})

ProviderOps == SaveEither("providers") \cup {Unchecked(Save("del", "providers"))}

ProvidersPage == Page("providers", {ApiResource("providers")}, ProviderOps)

InboundPage ==
    Page("inbound", {Load("peers", {"mount"})},
         {Flagged(Save("addPeer", "peers"), "adding"), Save("deletePeer", "peers")})

\* One carrier and what it charges.
CarrierRateOps ==
    {Flagged(Save("addGroupRate", "rates"), "grpSaving"),
     Flagged(Save("addRate", "rates"), "rateSaving"),
     Save("delRate", "rates")}

CarrierLoads == {Load("carrier", {"mount"}), Load("rates", {"mount"})}

CarrierPage ==
    Page("carriers/[id]", CarrierLoads,
         CarrierRateOps \cup {FromForm(Flagged(Save("saveCarrier", "carrier"), "saving"), "editMode")})

ResellerCarrierRateOps ==
    {Flagged(Save("addGroupRate", "rates"), "grpSaving"),
     Flagged(Save("addRate", "rates"), "rateSaving"),
     Save("delRate", "rates")}

ResellerCarrierPage == Page("my/reseller/carriers/[id]", CarrierLoads, ResellerCarrierRateOps)

\* Groups of carriers: the list, which counts members and uses, and one group.
GroupLoads ==
    {Load("groups", {"mount"}), Under(Selecting(Load("selected", {"click", "close"})), "groups")}

\* A change to the group that is open.
OfGroup(op) == Awaiting(Within(op, "selected"))

\* saveEdit reloads the list first, the others the group first.
GroupOps ==
    {FromForm(Flagged(Save("createGroup", "groups"), "creating"), "showCreate"),
     OfGroup(Flagged(Write("saveEdit", {"groups", "selected"}, <<"groups", "selected">>), "saving"))}
    \cup DeletingRow(Save("deleteGroup", "groups"), "selected")

MemberOps ==
    {OfGroup(Flagged(Write("addMember", {"groups", "selected"}, <<"selected", "groups">>),
                     "addingMember")),
     OfGroup(Write("removeMember", {"groups", "selected"}, <<"selected", "groups">>))}

AccessOps ==
    {OfGroup(Flagged(Save("enableForCustomer", "selected"), "enablingForCustomer")),
     OfGroup(Save("removeAccess", "selected"))}

CarrierGroupsPage == Page("carrier-groups", GroupLoads, GroupOps \cup MemberOps \cup AccessOps)

ResellerGroupOps ==
    {FromForm(Flagged(Save("createGroup", "groups"), "creating"), "showCreate"),
     OfGroup(Flagged(Write("saveEdit", {"groups", "selected"}, <<"groups", "selected">>), "saving"))}
    \cup DeletingRow(Save("deleteGroup", "groups"), "selected")

ResellerMemberOps ==
    {OfGroup(Flagged(Write("addMember", {"groups", "selected"}, <<"selected", "groups">>),
                     "addingMember")),
     OfGroup(Write("removeMember", {"groups", "selected"}, <<"selected", "groups">>)),
     OfGroup(Flagged(Save("enableForSubCustomer", "selected"), "enablingForSubCustomer"))}

ResellerCarrierGroupsPage ==
    Page("my/reseller/carrier-groups", GroupLoads, ResellerGroupOps \cup ResellerMemberOps)

ResellerCarriersPage ==
    Page("my/reseller/carriers", {Load("carriers", {"mount"})},
         {FromForm(Flagged(Save("save", "carriers"), "saving"), "showForm"), Save("del", "carriers")})

\* The routes a customer chooses: saving holds the prefix whose route is changing.
MyCarriersPage ==
    Page("my/carriers", {Load("routes", {"mount"})},
         {Awaiting(Slotted(Save("choose", "routes"), "saving"))})

RoutingSimPage ==
    Page("routing-sim", {Load("customers", {"mount"})}, {Flagged(Run("run"), "running")})

ResellerHome == Page("my/reseller", {Load("summary", {"mount"})}, {})

NetworkCatalog ==
    {CarriersPage, ProvidersPage, InboundPage, CarrierPage, ResellerCarrierPage, CarrierGroupsPage,
     ResellerCarrierGroupsPage, ResellerCarriersPage, MyCarriersPage, RoutingSimPage, ResellerHome}
=============================================================================
