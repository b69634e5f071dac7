--------------------------- MODULE CustomerPages ---------------------------
(***************************************************************************)
(* The pages of customers, resellers, users and invoices.                  *)
(***************************************************************************)
EXTENDS PageKinds

CustomersPage ==
    Page("customers", {Keyed(Load("customers", {"mount", "filter"}))},
         {FromForm(Flagged(Save("create", "customers"), "saving"), "showForm")})

ResellersPage == Page("resellers", {Keyed(Load("customers", {"mount", "filter"}))}, {})

\* One customer.  Its history of balance is read in pages of 25: a button, which
\* is disabled while a page is loading, adds the next one to those shown.
CustomerLoads == {Load("customer", {"mount"}), Busy(Load("balanceTx", {"mount", "more"}))}

InfoOps == {FromForm(Flagged(Save("saveInfo", "customer"), "saving"), "editMode")}

CustomerPrefixOps ==
    {Flagged(Save("addPrefix", "customer"), "addingPrefix"), Save("deletePrefix", "customer")}

\* setMainRoutingGroup and setPrefixRoutingGroup: routingBusy holds "main" or a
\* prefix, one variable for all of their selects.
RoutingOps == {Slotted(Save("setRoutingGroup", "customer"), "routingBusy")}

\* To create and to delete the user of the portal, to deactivate and reactivate,
\* and to make a reseller and to undo it, differ in what they send.
PortalOps ==
    {Flagged(Save("portalUser", "customer"), "portalBusy"),
     Flagged(Run("resetPortalPassword"), "portalBusy")}

ActivationOps == {Flagged(Save("activation", "customer"), "activationBusy")}

ResellerRoleOps == {Flagged(Save("resellerRole", "customer"), "resellerBusy")}

BalanceOps ==
    {Flagged(Write("adjustBalance", {"customer", "balanceTx"}, <<"customer", "balanceTx">>),
             "adjustingBalance")}

\* The tabs show and hide parts of it, and keep all of its state.
CustomerPage ==
    Page("customers/[id]", CustomerLoads,
         InfoOps \cup CustomerPrefixOps \cup RoutingOps \cup PortalOps \cup ActivationOps
         \cup ResellerRoleOps \cup BalanceOps)

\* A profile is edited in a modal, which opens when the profile has been read.
ProfilesPage ==
    Page("profiles",
         {Load("profiles", {"mount"}), Under(Selecting(Load("profile", {"click", "close"})), "profiles")},
         {FromForm(Flagged(Save("save", "profiles"), "saving"), "create"),
          Dropping(Within(Flagged(Write("save", {"profiles", "profile"}, <<"profiles">>), "saving"),
                          "profile"), "profile"),
          Save("del", "profiles")})

UserOps ==
    {Flagged(Save("createAdmin", "users"), "creating"),
     Save("toggleActive", "users"),
     FromForm(Run("savePassword"), "pwFor")}

UsersPage == Page("users", {Load("users", {"mount"})}, UserOps)

InvoiceLoads == {Load("invoices", {"mount"}), Load("autoEmail", {"mount"})}

\* The switch of automatic mail moves first, and stays where it is if it fails.
InvoiceOps ==
    {Assuming(Write("toggleAutoEmail", {"autoEmail"}, <<>>), {"autoEmail"}),
     Slotted(Save("sendEmail", "invoices"), "sendingId"),
     FromForm(Flagged(Save("generate", "invoices"), "generating"), "showForm"),
     Save("markPaid", "invoices"), Save("regenPdf", "invoices")}

InvoicesPage == Page("invoices", InvoiceLoads, InvoiceOps)

CustomerIpsPage == Page("security/customer-ips", {Load("customers", {"mount"})}, {})

\* A customer's addresses, in a modal.  A change reloads every customer and then
\* the one of the modal, which its answer opens again, in the same way whether
\* an address is added, changed or deleted.
CustomerIpsModal ==
    Page("CustomerIpsModal",
         {Load("customers", {"mount"}), Under(Selecting(Load("open", {"click", "close"})), "customers")},
         {Within(Flagged(Write("saveIp", {"customers", "open"}, <<"customers", "open">>), "saving"),
                 "open")})

\* A reseller's customers.  To open another one discards the amount under review.
SubCustomerLoads ==
    {Keyed(Load("customers", {"mount", "filter"})),
     Under(Resetting(Keyed(Load("prefixes", {"filter", "close"})), "pendingAmt"), "customers")}

SubCustomerPrefixOps ==
    {Awaiting(Within(Flagged(Save("addPrefix", "prefixes"), "addingPrefix"), "prefixes")),
     Awaiting(Within(Save("deletePrefix", "prefixes"), "prefixes")),
     Awaiting(Within(Slotted(Save("setPrefixRoutingGroup", "prefixes"), "routingBusy"), "prefixes"))}

\* These two read the list again without the deleted ones, and select from it
\* the customer they were for.
Refetching(op) ==
    Reselecting(ByDefault(Awaiting(Within(op, "prefixes"))), "prefixes")

SubCustomerOps ==
    {FromForm(Flagged(Save("create", "customers"), "creating"), "showCreate"),
     Refetching(Slotted(Save("setMainRoutingGroup", "customers"), "routingBusy")),
     Refetching(Locked(FromForm(Flagged(Save("confirmAdjustBalance", "customers"),
                                        "adjustingBalance"), "pendingAmt"))),
     ClosingLast(Dropping(Awaiting(Within(Flagged(Save("saveEdit", "customers"), "saving"),
                                          "prefixes")), "prefixes"))}

SubCustomersPage ==
    Page("my/reseller/customers", SubCustomerLoads, SubCustomerPrefixOps \cup SubCustomerOps)

ApiKeysPage ==
    Page("my/api-keys", {Load("keys", {"mount"})},
         {Flagged(Save("create", "keys"), "creating"), Save("revoke", "keys")})

MyInvoicesPage == Page("my/invoices", {Load("invoices", {"mount"})}, {Run("downloadPdf")})

\* The notes kept with a customer or a carrier.
EntityComments ==
    Page("EntityComments", {Load("comments", {"mount"})},
         {Awaiting(Flagged(Save("add", "comments"), "saving")), Save("remove", "comments")})

AccountSettings == Page("AccountSettings", {}, {Flagged(Run("submit"), "saving")})

CustomerCatalog ==
    {CustomersPage, ResellersPage, CustomerPage, ProfilesPage, UsersPage, InvoicesPage,
     CustomerIpsPage, CustomerIpsModal, SubCustomersPage, ApiKeysPage, MyInvoicesPage,
     EntityComments, AccountSettings}
=============================================================================
