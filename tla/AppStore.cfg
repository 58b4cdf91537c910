SPECIFICATION AppSpec
CONSTANTS
    Tasks = {t1, t2}
    Builtin = {mail}
    Custom = {x}
    kBaseSlots = 1
    Hosts = {h1, h2, h3}
    Ports = {0, 443}
    MAX_ENDPOINTS = 2
    LegacyFlaws = {"none", "blank sni", "no host"}
    Redeemers = {r1, r2}
    PromoCodes = {"PRO3M", "GIFT100"}
    Tiers = {"base"}
    MaxCalls = 3
    MaxKills = 2
SYMMETRY Symmetry
INVARIANTS CatalogSaved SelectionsSound MigrationKept ConfiguredAccepted TrialGiven PromoOnce PromoNotWasted
CHECK_DEADLOCK FALSE
