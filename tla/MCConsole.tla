----------------------------- MODULE MCConsole -----------------------------
(***************************************************************************)
(* Every page of the console, each with two acts of the user, and three on *)
(* those whose hazards need a third: a second read or a second write while *)
(* the first handler is reloading.                                         *)
(***************************************************************************)
EXTENDS Console, TariffPages, CustomerPages, NetworkPages, MonitorPages, SettingsPages

ThePages ==
    TariffCatalog \cup CustomerCatalog \cup NetworkCatalog \cup MonitorCatalog \cup SettingsCatalog
=============================================================================
