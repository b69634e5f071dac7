--------------------------- MODULE SettingsPages ----------------------------
(***************************************************************************)
(* The pages that set up the platform: firewall, webhooks, mail, alerts,   *)
(* external replication, infrastructure and looks.                         *)
(***************************************************************************)
EXTENDS PageKinds

\* submit creates a rule or, from the form that startEdit fills, changes one.
FirewallOps ==
    {Awaiting(Flagged(Save("submit", "rules"), "saving")),
     Awaiting(FromForm(Flagged(Save("submit", "rules"), "saving"), "editingId")),
     Awaiting(Save("del", "rules")),
     Awaiting(Slotted(Save("toggleJail", "rules"), "jailing"))}

FirewallPage == Page("firewall", {Load("rules", {"mount"})}, FirewallOps)

\* A switch that moves at once, and goes back when the request fails.
Toggle(name, load, reloads) ==
    Undoing(Assuming(Write(name, {load} \cup {reloads[i] : i \in DOMAIN reloads}, reloads), {load}))

WebhookLoads ==
    {Load("hooks", {"mount"}), Under(Keyed(Load("deliveries", {"filter", "close"})), "hooks")}

WebhookOps ==
    {Awaiting(Flagged(Save("create", "hooks"), "creating")), Toggle("toggle", "hooks", <<>>),
     Run("rotate")}
    \cup DeletingRow(Save("remove", "hooks"), "deliveries")

WebhooksPage == Page("webhooks", WebhookLoads, WebhookOps)

MailConfigPage ==
    Page("mail-config", {Load("config", {"mount"})},
         {Awaiting(Flagged(Save("save", "config"), "saving")), Flagged(Run("sendTest"), "testing")})

\* removeLogo takes the preview away without asking whether it is gone.
InvoiceTemplateOps ==
    {Awaiting(Flagged(Save("save", "template"), "saving")),
     Awaiting(Flagged(Save("uploadLogo", "logo"), "uploadingLogo")),
     Telling(Write("removeLogo", {"logo"}, <<>>), "logo")}

InvoiceTemplatePage ==
    Page("invoice-template", {Load("template", {"mount"}), Load("logo", {"mount"})}, InvoiceTemplateOps)

\* What a rule does to the customers it affects is awaited in the same try.
AlertOps ==
    {Awaiting(Toggle("toggleRule", "rules", <<"affected">>)),
     Awaiting(Save("saveThreshold", "affected")),
     Flagged(Run("saveNotifyEmail"), "savingEmail")}

AlertsPage ==
    Page("alerts/consumption", {Load("rules", {"mount"}), Load("affected", {"mount"})}, AlertOps)

DisconnectPoliciesPage ==
    Page("disconnect-policies", {Load("policies", {"mount"})},
         {Awaiting(Flagged(Save("create", "policies"), "creating")),
          Toggle("toggle", "policies", <<>>), Save("remove", "policies")})

\* runNow reads the log again two seconds after the run was asked for.
ExternalSyncLoads ==
    {Load("config", {"mount"}), Keyed(Load("permissions", {"mount", "filter"}))}

ExternalSyncOps ==
    {Awaiting(Flagged(Save("save", "config"), "saving")), Flagged(Run("testConnection"), "testing"),
     Flagged(Save("runNow", "config"), "running")}

ExternalSyncPage == Page("external-sync", ExternalSyncLoads, ExternalSyncOps)

Fail2banPage ==
    Page("security/fail2ban", {Load("banned", {"mount"})},
         {Awaiting(Slotted(Save("unban", "banned"), "unbanning"))})

TrafficSamplingPage ==
    Page("traffic-sampling", {Load("hours", {"mount"})}, {Flagged(Run("save"), "saving")})

\* tlsAction, toggleBackup, runBackupNow and toggleAlerts: busy names the button.
\* The timer runs while a task of the server does.
InfraOps == {Awaiting(Slotted(Save("action", "data"), "busy"))}

InfraPage == Page("system/infra", {Load("data", {"mount", "live"})}, InfraOps)

\* The theme is applied at once; a failure leaves it applied and not saved.
ThemePicker ==
    Page("ThemePicker", {Load("theme", {"mount"})},
         {Assuming(Write("choose", {"theme"}, <<>>), {"theme"})})

SettingsCatalog ==
    {FirewallPage, WebhooksPage, MailConfigPage, InvoiceTemplatePage, AlertsPage,
     DisconnectPoliciesPage, ExternalSyncPage, Fail2banPage, TrafficSamplingPage, InfraPage,
     ThemePicker}
=============================================================================
