------------------------- MODULE MCModuleLifecycle -------------------------
\* ModuleLifecycle for TLC: "relay" depends on "store".
EXTENDS ModuleLifecycle, TLC

CONSTANTS Relay, Store
MCModules == {Store, Relay}
MCDeps    == (Store :> {}) @@ (Relay :> {Store})
MCHasWorker == {Relay}
MCOrder   == <<Store, Relay>>
=============================================================================
